------------------------------ MODULE Datastore ------------------------------
(***************************************************************************)
(* The document database behind gocloud.dev/docstore, as the wallet and    *)
(* the anchor store use it (external).  A write is applied to one document *)
(* as a whole and answers in one of three ways: it was applied and said    *)
(* so, it was refused or never arrived, or it was applied and the answer   *)
(* did not come back in time (the calls carry a 5 second timeout or the    *)
(* request's context).  The caller sees an error in the last two.          *)
(***************************************************************************)

Outcomes == {"ok", "lost", "unacked"}

\* The document after writing "new" over "old" with outcome w.
After(old, new, w) == IF w = "lost" THEN old ELSE new

=============================================================================

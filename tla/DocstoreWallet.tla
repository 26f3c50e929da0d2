--------------------------- MODULE DocstoreWallet ---------------------------
(***************************************************************************)
(* btc/wallet.go: the FIFO queue of transaction outputs the gateway may    *)
(* spend.  A process that opened the wallet holds the queue in memory (q)  *)
(* and rewrites the whole document (doc) on every change.  A document that *)
(* does not exist is the empty sequence: load leaves the queue empty in    *)
(* both cases.  An output is named by its transaction; the address beside  *)
(* it is the same for every entry (wallet.go:43) and is left out.         *)
(***************************************************************************)
EXTENDS Naturals, Sequences, Datastore

VARIABLES q,    \* the queue in the memory of the process that opened it
          doc   \* the persisted queue

walletVars == <<q, doc>>

\* Opening reads the document; every error, also one that has nothing to do
\* with a missing document, leaves the queue empty and is only logged.
load(read) == q' = IF read THEN doc ELSE << >>

save(w) == doc' = After(doc, q', w)

\* (mutant) The newest entry, not the oldest.
PeekNewest == q[Len(q)]

PeekNextUTXO == Head(q)

\* (mutant) The head stays in the queue.
NextUTXOKept(w) == /\ q # << >>
                   /\ UNCHANGED q
                   /\ save(w)

\* The queue is shortened in memory before the save that may fail.
NextUTXO(w) == /\ q # << >>
               /\ q' = Tail(q)
               /\ save(w)

\* (mutants) The new output is never saved; the document is written before
\* the output is in the queue.
AddUTXOUnsaved(u, w) == /\ q' = Append(q, u)
                        /\ UNCHANGED doc

AddUTXOSavedFirst(u, w) == /\ q' = Append(q, u)
                           /\ doc' = After(doc, q, w)

AddUTXO(u, w) == /\ q' = Append(q, u)
                 /\ save(w)

Close(w) == /\ UNCHANGED q
            /\ save(w)

=============================================================================

------------------------------ MODULE Docstore ------------------------------
(***************************************************************************)
(* store/docstore.go: the anchor records, one document per CID.            *)
(***************************************************************************)
EXTENDS Naturals, Datastore

CONSTANT None   \* no document

VARIABLE recs   \* CID -> record, or None

\* (mutant) The document is removed and then written.
PutAfterDelete(k, r, w) == recs' = [recs EXCEPT ![k] = After(None, r, w)]

\* What GetAnchor returns has no domain name and no note, and Put replaces
\* the whole document with it.
Put(k, r, w) == recs' = [recs EXCEPT ![k] = After(recs[k], r, w)]

\* An update of a document that does not exist is refused by the database.
UpdateEntity(k, r, w) == /\ recs[k] # None
                         /\ recs' = [recs EXCEPT ![k] = After(recs[k], r, w)]

\* (mutant) The confirmations are added to the stored ones.
AddConfirmations(k, c, w) ==
  UpdateEntity(k, [recs[k] EXCEPT !.conf = recs[k].conf + c], w)

\* (mutant) All updatable fields are written, also those with no new value.
UpdateAllFields(k, c, w) ==
  UpdateEntity(k, [recs[k] EXCEPT !.conf = c, !.name = "", !.note = ""], w)

UpdateConfirmations(k, c, w) == UpdateEntity(k, [recs[k] EXCEPT !.conf = c], w)
UpdateBBc1DomainName(k, n, w) == UpdateEntity(k, [recs[k] EXCEPT !.name = n], w)
UpdateNote(k, n, w) == UpdateEntity(k, [recs[k] EXCEPT !.note = n], w)

=============================================================================

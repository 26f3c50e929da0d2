------------------------------ MODULE AnchorID ------------------------------
(***************************************************************************)
(* How the identifiers of a request become the identifiers in an anchor    *)
(* (model/anchor.go) and the key of its record (store/entity.go,           *)
(* store/docstore.go).  An identifier is a sequence of bytes of any length *)
(* as hex.DecodeString returned it; the anchor has room for IDLen of them  *)
(* (32 in the code).                                                       *)
(***************************************************************************)
EXTENDS Naturals, Sequences

CONSTANT IDLen

ASSUME IDLenAssumption == IDLen \in Nat

\* Shorter identifiers are padded with zeros, longer ones are cut.
Fixed(s) == [i \in 1..IDLen |-> IF i <= Len(s) THEN s[i] ELSE 0]

\* r is a pair <<BBc-1 domain, BBc-1 transaction>>.
NewAnchor(r) == <<Fixed(r[1]), Fixed(r[2])>>

\* (mutant) The domain is not part of the key.
CIDWithoutDomain(r) == r[2]

\* The key is the concatenation of the two hex strings, without a separator.
CID(r) == r[1] \o r[2]

=============================================================================

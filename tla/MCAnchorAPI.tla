---------------------------- MODULE MCAnchorAPI ----------------------------
(***************************************************************************)
(* Instances of AnchorAPI for TLC.                                         *)
(***************************************************************************)
EXTENDS AnchorAPI, TLC

\* Identifiers have two bytes: a request, and one for the same digest in another
\* domain.
Asked == << <<1, 2>>, <<3, 4>> >>
OtherDomain == << <<9, 2>>, <<3, 4>> >>

AskedOnly == {Asked}
AskedAndOther == {Asked, OtherDomain}

\* Amounts as in MCGateway.
Rich == <<6, 4>>
TwoAnchors == <<6>>
FirstInWallet == <<1>>
BothInWallet == <<1, 2>>

Symmetry == Permutations(Tasks)

=============================================================================

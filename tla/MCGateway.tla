----------------------------- MODULE MCGateway -----------------------------
(***************************************************************************)
(* Instances of Gateway for TLC.                                           *)
(***************************************************************************)
EXTENDS Gateway, TLC

\* Identifiers have one byte: the same digest in two domains.
One == << <<1>>, <<1>> >>
OtherDomain == << <<2>>, <<1>> >>

OneOnly == {One}
TwoDomains == {One, OtherDomain}

\* With Fee 2 and Dust 1, and 6 counted as 5, a transaction of 6 pays for two
\* anchors, one of 4 for one, and what is left for none.
Rich == <<6, 4>>
TwoAnchors == <<6>>
BothInWallet == <<1, 2>>
FirstInWallet == <<1>>

Symmetry == Permutations(Tasks)

=============================================================================

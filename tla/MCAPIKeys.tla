----------------------------- MODULE MCAPIKeys -----------------------------
(***************************************************************************)
(* An instance of APIKeys for TLC: a domain in two spellings, another one, *)
(* a string that is no domain, and the empty string.                       *)
(***************************************************************************)
EXTENDS APIKeys, TLC

Written == {"", "ab", "AB", "cd", "zz"}
FromHex == [d \in Written |-> CASE d = "" -> "empty"
                                [] d \in {"ab", "AB"} -> "ab"
                                [] d = "cd" -> "cd"
                                [] d = "zz" -> None]

Symmetry == Permutations(Keys) \cup Permutations(Requests)

=============================================================================

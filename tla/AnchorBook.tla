----------------------------- MODULE AnchorBook -----------------------------
(***************************************************************************)
(* What the gateway promises whoever looks a digest up, without wallet,    *)
(* lock, calls or crashes (the interface Gateway of gw/gw.go).  A ledger   *)
(* only grows.  A book has a page for some digests; the page names an      *)
(* entry of the ledger that anchors exactly this digest, and a number of   *)
(* confirmations that was once told of an entry for this digest.  A page   *)
(* is never torn out.                                                      *)
(*                                                                         *)
(* The age of an entry is its confirmations, below zero when it is         *)
(* conflicted.  What is told of an entry is at most its age; of a          *)
(* conflicted one it is 0 or, as if it had been confirmed, a number just   *)
(* below Wrap.                                                             *)
(***************************************************************************)
EXTENDS AnchorID, Integers

CONSTANTS Keys, Anchors, None, Wrap

VARIABLES ledger,  \* sequence of [anchor, age]; << >> where there is none
          book     \* key -> [btctx, conf], or None

bookVars == <<ledger, book>>

Anchoring(k, u) == /\ ledger[u].anchor # << >>
                   /\ CID(ledger[u].anchor) = k

Told(age) == IF age < 0 THEN {0} \cup ((Wrap + age)..(Wrap - 1)) ELSE 0..age

Init == /\ \A u \in DOMAIN ledger : ledger[u] = [anchor |-> << >>, age |-> 0]
        /\ book = [k \in Keys |-> None]

Publish(a) == /\ ledger' = Append(ledger, [anchor |-> a, age |-> 0])
              /\ UNCHANGED book

\* A block conflicts with the entries in lost, none of which was confirmed.
Ripen(lost) == /\ \A u \in lost : ledger[u].age = 0
               /\ ledger' = [u \in DOMAIN ledger |->
                    [ledger[u] EXCEPT !.age = IF u \in lost \/ ledger[u].age < 0
                                              THEN ledger[u].age - 1
                                              ELSE ledger[u].age + 1]]
               /\ UNCHANGED book

\* The page may be about any entry for the digest, and what it says of the
\* confirmations may be old.
File(k, u, c) == /\ Anchoring(k, u)
                 /\ c \in Told(ledger[u].age)
                 /\ book' = [book EXCEPT ![k] = [btctx |-> u, conf |-> c]]
                 /\ UNCHANGED ledger

\* The confirmations may be those of another entry for the same digest.
Confirm(k, u, c) == /\ Anchoring(k, u)
                    /\ c \in Told(ledger[u].age)
                    /\ book[k] # None
                    /\ book' = [book EXCEPT ![k].conf = c]
                    /\ UNCHANGED ledger

Next == \/ \E a \in Anchors : Publish(a)
        \/ \E lost \in SUBSET DOMAIN ledger : Ripen(lost)
        \/ \E k \in Keys, u \in DOMAIN ledger : \E c \in Told(ledger[u].age) :
             File(k, u, c) \/ Confirm(k, u, c)

Spec == Init /\ [][Next]_bookVars

=============================================================================

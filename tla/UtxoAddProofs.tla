--------------------------- MODULE UtxoAddProofs ---------------------------
(***************************************************************************)
(* The wallet's document under the operator's tool and a gateway that take *)
(* turns.                                                                  *)
(***************************************************************************)
EXTENDS UtxoAdd, TLAPS

TypeInv == /\ doc \in Seq(Nat) /\ gq \in Seq(Nat) /\ uq \in Seq(Nat)
           /\ last \in Nat

\* Whoever runs alone has in memory all that the document still has to offer;
\* a gateway whose load failed is the exception, and it writes nothing.
Alone == /\ gpc = "down" \/ upc = "off"
         /\ gpc = "down" => gq = << >>

GatewayHas == gpc = "add" \/ gq # << >> => Range(doc) \subseteq spent \cup Range(gq)

ToolHas == upc # "off" => Range(doc) \subseteq Range(uq)

Inv == TypeInv /\ Alone /\ GatewayHas /\ ToolHas /\ AddedStays

LEMMA TailShifts ==
  ASSUME NEW s \in Seq(Nat), s # << >>
  PROVE  /\ Tail(s) \in Seq(Nat) /\ Head(s) = s[1] /\ 1 \in DOMAIN s
         /\ \A i \in DOMAIN Tail(s) : Tail(s)[i] = s[i + 1] /\ i + 1 \in DOMAIN s
         /\ \A i \in DOMAIN s : i # 1 => i - 1 \in DOMAIN Tail(s) /\ s[i] = Tail(s)[i - 1]
OBVIOUS

LEMMA TailHas ==
  ASSUME NEW s \in Seq(Nat), s # << >>
  PROVE  Tail(s) \in Seq(Nat) /\ Range(s) = {Head(s)} \cup Range(Tail(s))
<1>1. ASSUME NEW i \in DOMAIN s
      PROVE  s[i] \in {Head(s)} \cup Range(Tail(s))
  BY TailShifts DEF Range
<1>2. Head(s) \in Range(s) /\ \A i \in DOMAIN Tail(s) : Tail(s)[i] \in Range(s)
  BY TailShifts DEF Range
<1>3. Range(s) = {Head(s)} \cup Range(Tail(s))
  BY <1>1, <1>2 DEF Range
<1> QED  BY <1>3, TailShifts

LEMMA AppendAdds ==
  ASSUME NEW s \in Seq(Nat), NEW x \in Nat
  PROVE  /\ DOMAIN Append(s, x) = DOMAIN s \cup {Len(s) + 1}
         /\ \A i \in DOMAIN s : Append(s, x)[i] = s[i]
         /\ Append(s, x)[Len(s) + 1] = x /\ Append(s, x) \in Seq(Nat)
OBVIOUS

LEMMA AppendHas ==
  ASSUME NEW s \in Seq(Nat), NEW x \in Nat
  PROVE  Append(s, x) \in Seq(Nat) /\ Range(Append(s, x)) = Range(s) \cup {x}
BY AppendAdds DEF Range

\* A save leaves the old document or the queue, and the queue if it says so.
LEMMA Saves ==
  ASSUME NEW old, NEW new, NEW w \in Outcomes
  PROVE  /\ G!After(old, new, w) \in {old, new} /\ (w = "ok" => G!After(old, new, w) = new)
         /\ U!After(old, new, w) \in {old, new} /\ (w = "ok" => U!After(old, new, w) = new)
BY DEF Outcomes, G!After, U!After

LEMMA GatewaySpendsKeeps ==
  ASSUME Inv, NEW w \in Outcomes, GatewaySpends(w)
  PROVE  Inv'
<1>1. /\ gpc = "idle" /\ gq # << >> /\ gq' = Tail(gq) /\ gpc' # "down"
      /\ spent' = spent \cup {Head(gq)} /\ doc' \in {doc, gq'}
      /\ UNCHANGED <<uq, upc, last, added>>
  BY Saves DEF GatewaySpends, G!NextUTXO, G!save, G!PeekNextUTXO
<1>2. gq' \in Seq(Nat) /\ Range(gq) = {Head(gq)} \cup Range(gq')
  BY <1>1, TailHas DEF Inv, TypeInv
<1>3. upc = "off" /\ Range(doc) \subseteq spent' \cup Range(gq')
  BY <1>1, <1>2 DEF Inv, Alone, GatewayHas
<1>4. Range(doc') \subseteq spent' \cup Range(gq') /\ Range(doc) \subseteq spent' \cup Range(doc')
  BY <1>1, <1>3
<1> QED  BY <1>1, <1>2, <1>3, <1>4
         DEF Inv, TypeInv, Alone, GatewayHas, ToolHas, AddedStays

LEMMA GatewayKeepsKeeps ==
  ASSUME Inv, NEW w \in Outcomes, GatewayKeeps(w)
  PROVE  Inv'
<1>1. /\ gpc = "add" /\ gq' = Append(gq, last') /\ last' = last + 1
      /\ doc' \in {doc, gq'} /\ (w = "ok" => doc' = gq')
      /\ UNCHANGED <<uq, upc, spent>> /\ gpc' = "idle"
      /\ added' = IF w = "ok" THEN added \cup {last'} ELSE added
  <2>1. doc' = G!After(doc, gq', w)
    BY DEF GatewayKeeps, G!AddUTXO, G!save
  <2>2. doc' \in {doc, gq'} /\ (w = "ok" => doc' = gq')
    BY <2>1, Saves
  <2> QED  BY <2>2 DEF GatewayKeeps, G!AddUTXO, NewOutput, Acknowledge
<1>2. upc = "off" /\ Range(doc) \subseteq spent \cup Range(gq) /\ last' \in Nat
  BY <1>1 DEF Inv, TypeInv, Alone, GatewayHas
<1>3. /\ Range(doc') \subseteq spent \cup Range(gq')
      /\ Range(doc) \subseteq spent \cup Range(doc')
      /\ w = "ok" => last' \in Range(doc')
  <2>1. gq \in Seq(Nat) /\ last' \in Nat
    BY <1>2 DEF Inv, TypeInv
  <2>2. Range(gq') = Range(gq) \cup {last'}
    BY <1>1, <2>1, AppendHas
  <2> QED  BY <1>1, <1>2, <2>2
<1>4. gq' \in Seq(Nat)
  BY <1>1, <1>2, AppendHas DEF Inv, TypeInv
<1>5. TypeInv'
  BY <1>1, <1>2, <1>3, <1>4 DEF Inv, TypeInv
<1>6. AddedStays'
  BY <1>1, <1>3 DEF Inv, AddedStays
<1>7. (Alone /\ GatewayHas /\ ToolHas)'
  <2>1. upc' = "off" /\ gpc' = "idle"
    BY <1>1, <1>2
  <2> QED  BY <1>1, <1>3, <2>1 DEF Alone, GatewayHas, ToolHas
<1> QED  BY <1>5, <1>6, <1>7 DEF Inv

LEMMA AddOutputKeeps ==
  ASSUME Inv, NEW w \in Outcomes, AddOutput(w)
  PROVE  Inv'
<1>1. /\ upc = "add" /\ uq' = Append(uq, last') /\ last' = last + 1
      /\ doc' \in {doc, uq'} /\ (w = "ok" => doc' = uq')
      /\ UNCHANGED <<gq, gpc, spent>>
      /\ added' = IF w = "ok" THEN added \cup {last'} ELSE added
  <2>1. doc' = U!After(doc, uq', w)
    BY DEF AddOutput, U!AddUTXO, U!save
  <2>2. doc' \in {doc, uq'} /\ (w = "ok" => doc' = uq')
    BY <2>1, Saves
  <2> QED  BY <2>2 DEF AddOutput, U!AddUTXO, NewOutput, Acknowledge
<1>2. gpc = "down" /\ Range(doc) \subseteq Range(uq) /\ last' \in Nat
  BY <1>1 DEF Inv, TypeInv, Alone, ToolHas
<1>3. uq' \in Seq(Nat) /\ Range(uq') = Range(uq) \cup {last'}
  BY <1>1, <1>2, AppendHas DEF Inv, TypeInv
<1>4. Range(doc) \subseteq Range(doc') /\ Range(doc') \subseteq Range(uq')
      /\ (w = "ok" => last' \in Range(doc'))
  <2>1. doc' = doc \/ doc' = uq'
    BY <1>1
  <2>2. CASE doc' = doc
    BY <1>1, <1>2, <1>3, <2>2
  <2>3. CASE doc' = uq'
    BY <1>2, <1>3, <2>3
  <2> QED  BY <2>1, <2>2, <2>3
<1>5. AddedStays'
  BY <1>1, <1>4 DEF Inv, AddedStays
<1>6. TypeInv'
  BY <1>1, <1>2, <1>3 DEF Inv, TypeInv
<1>7. (Alone /\ GatewayHas /\ ToolHas)'
  <2>1. gpc' = "down" /\ gq' = << >>
    BY <1>1, <1>2 DEF Inv, Alone
  <2> QED  BY <1>1, <1>4, <2>1 DEF Inv, Alone, GatewayHas, ToolHas
<1> QED  BY <1>5, <1>6, <1>7 DEF Inv

LEMMA StepKeeps ==
  ASSUME ~Overlap, ~LoadMayFail, Inv, [Next]_vars
  PROVE  Inv'
<1> USE DEF Inv, TypeInv, Alone, GatewayHas, ToolHas, AddedStays
<1>1. ASSUME NEW read \in BOOLEAN, GatewayStart(read)
      PROVE  Inv'
  BY <1>1 DEF GatewayStart, G!load
<1>2. ASSUME NEW read \in BOOLEAN, OpenWallet(read)
      PROVE  Inv'
  BY <1>2 DEF OpenWallet, U!load
<1>3. CASE GatewayStops
  BY <1>3 DEF GatewayStops
<1>4. CASE Killed
  BY <1>4 DEF Killed
<1>5. ASSUME NEW w \in Outcomes, CloseWallet(w)
      PROVE  Inv'
  <2>1. /\ upc = "close" /\ upc' = "off" /\ doc' \in {doc, uq}
        /\ UNCHANGED <<gq, uq, gpc, last, spent, added>>
    BY <1>5, Saves DEF CloseWallet, U!Close, U!save
  <2>2. gpc' = "down" /\ gq' = << >> /\ Range(doc) \subseteq Range(doc')
    BY <2>1
  <2> QED  BY <2>1, <2>2
<1>6. CASE UNCHANGED vars
  BY <1>6 DEF vars
<1> QED  BY <1>1, <1>2, <1>3, <1>4, <1>5, <1>6, GatewaySpendsKeeps,
            GatewayKeepsKeeps, AddOutputKeeps DEF Next

\* An output that was acknowledged stays in the document until it is spent,
\* when the tool and a gateway take turns and the tool can read the document.
THEOREM AddedIsKept ==
  ASSUME ~Overlap, ~LoadMayFail
  PROVE  Spec => []AddedStays
<1>1. Init => Inv
  BY DEF Init, Inv, TypeInv, Alone, GatewayHas, ToolHas, AddedStays
<1>2. Inv /\ [Next]_vars => Inv'
  BY StepKeeps
<1>3. Inv => AddedStays
  BY DEF Inv
<1> QED  BY <1>1, <1>2, <1>3, PTL DEF Spec

=============================================================================

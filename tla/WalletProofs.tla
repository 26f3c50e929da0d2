---------------------------- MODULE WalletProofs ----------------------------
(***************************************************************************)
(* Theorems about the wallet under the register calls of Gateway, for      *)
(* every value of the constants: what failed saves, unanswered sends and   *)
(* stops can do to the queue and to its document.                          *)
(***************************************************************************)
EXTENDS GatewayProofs, FiniteSetTheorems

(***************************************************************************)
(* The invariant.  The document is what the queue was at some save: it may *)
(* still have outputs in front that the queue dropped, and may lack some   *)
(* at the end.                                                             *)
(***************************************************************************)

Gone == {chain[v].spends : v \in DOMAIN chain}

\* As SpentInFront has it.
Front(s) == /\ IsInjective(s)
            /\ \A i, j \in DOMAIN s : i < j /\ s[j] \in Gone => s[i] \in Gone

\* What stands before a common entry in the document is spent, or before it in
\* the queue too.
Ordered ==
  \A i, j \in DOMAIN doc, k \in DOMAIN q : i < j /\ doc[j] = q[k] =>
    \/ doc[i] \in Gone
    \/ \E l \in DOMAIN q : l < k /\ q[l] = doc[i]

\* A queue that is not empty was loaded (an empty one may come from a load that
\* failed, and stays empty).
Kept == q # << >> => Range(doc) \subseteq Gone \cup Range(q)

Unspent(s) == \A i \in DOMAIN s : s[i] \notin Gone

\* Between the send and the return.
Holding == {"next", "add"}

Pending ==
  \A t \in Tasks : call[t].pc \in Holding =>
    /\ call[t].tx \notin Range(q) \cup Range(doc) \cup Gone
    /\ call[t].pc = "next" => Unspent(Tail(q))
    /\ call[t].pc = "add" => doc = q /\ Unspent(q)

DownIsEmpty == ~up => q = << >>

WInv == Front(q) /\ Front(doc) /\ Ordered /\ Kept /\ Pending /\ DownIsEmpty

-----------------------------------------------------------------------------
\* What a step is for the wallet.

Calm == /\ Gone' = Gone /\ Ours' = Ours
        /\ UNCHANGED <<q, doc, up, faults, wiped>>
        /\ \A t \in Tasks : \/ call'[t] = call[t]
                            \/ call[t].pc \notin Holding /\ call'[t].pc \notin Holding

LEMMA CalmCall ==
  ASSUME TypeOK, NEW t \in Tasks, NEW c, Goto(t, c), call[t].pc \notin Holding,
         c.pc \notin Holding, UNCHANGED <<chain, q, doc, up, faults, wiped>>
  PROVE  Calm
<1>1. call'[t] = c /\ \A s \in Tasks : s # t => call'[s] = call[s]
  BY DEF Goto, TypeOK
<1>2. Gone' = Gone /\ Ours' = Ours
  BY DEF Gone, Ours, Txs
<1> QED  BY <1>1, <1>2 DEF Calm

LEMMA CalmRequest ==
  ASSUME TypeOK, NEW t \in Tasks, Request(t)
  PROVE  Calm
<1> USE DEF At, Holding, cliVars, walletVars, Return
<1>1. ASSUME NEW r \in Requests, RegisterTransaction(t, r)
      PROVE  Calm
  BY <1>1, CalmCall DEF RegisterTransaction
<1>2. ASSUME NEW r \in Requests, NEW read \in BOOLEAN, GetRecord(t, r, read)
      PROVE  Calm
  BY <1>2, CalmCall DEF GetRecord
<1>3. ASSUME NEW r \in Requests, NEW read \in BOOLEAN, NEW name \in Names \cup {None},
             NEW note \in Notes \cup {None}, RefreshRecord(t, r, name, note, read)
      PROVE  Calm
  BY <1>3, CalmCall DEF RefreshRecord
<1>4. ASSUME NEW tx, StoreRecord(t, tx)
      PROVE  Calm
  BY <1>4, CalmCall DEF StoreRecord
<1> QED  BY <1>1, <1>2, <1>3, <1>4 DEF Request

LEMMA CalmAcquire ==
  ASSUME TypeOK, NEW t \in Tasks, Acquire(t)
  PROVE  Calm
<1> USE DEF At, Holding, cliVars, walletVars, Return
<1>1. CASE SetUTXO(t)
  <2>1. [call[t] EXCEPT !.pc = "put"].pc = "put"
    BY <1>1, CallFields DEF SetUTXO
  <2> QED  BY <1>1, <2>1, CalmCall DEF SetUTXO
<1>2. ASSUME NEW ask, StoreGetAnchor(t, ask)
      PROVE  Calm
  <2>1. \/ Goto(t, [pc |-> "err"])
        \/ \E ar : Goto(t, [pc |-> "storePut", ar |-> ar])
    BY <1>2 DEF StoreGetAnchor, GetAnchorPanics
  <2>2. /\ call[t].pc \notin Holding
        /\ UNCHANGED <<chain, q, doc, up, faults, wiped>>
    BY <1>2 DEF StoreGetAnchor
  <2> QED  BY <2>1, <2>2, CalmCall
<1>3. ASSUME NEW ask, RefreshGetAnchor(t, ask)
      PROVE  Calm
  <2>1. \/ Goto(t, [pc |-> "err"])
        \/ \E ar : Goto(t, [pc |-> "conf", key |-> call[t].key, tx |-> call[t].tx,
                            conf |-> ar.conf,
                            name |-> call[t].name, note |-> call[t].note])
    BY <1>3 DEF RefreshGetAnchor, GetAnchorPanics
  <2>2. /\ call[t].pc \notin Holding
        /\ UNCHANGED <<chain, q, doc, up, faults, wiped>>
    BY <1>3 DEF RefreshGetAnchor
  <2> QED  BY <2>1, <2>2, CalmCall
<1> QED  BY <1>1, <1>2, <1>3 DEF Acquire

LEMMA CalmServe ==
  ASSUME TypeOK, NEW t \in Tasks, Serve(t), ~PutAnchorSends(t),
         \A w \in Outcomes : ~DropUTXO(t, w) /\ ~KeepChange(t, w)
  PROVE  Calm
<1> USE DEF At, Holding, cliVars, walletVars, Return, Updated
<1>1. CASE PutAnchorFails(t)
  BY <1>1, CalmCall DEF PutAnchorFails, RunFails
<1>2. ASSUME NEW w \in Outcomes, StorePut(t, w)
      PROVE  Calm
  BY <1>2, CalmCall DEF StorePut
<1>3. ASSUME NEW c
      PROVE  AfterConf(c).pc \notin Holding /\ AfterName(c).pc \notin Holding
  BY DEF AfterConf, AfterName
<1>4. ASSUME NEW w \in Outcomes, RefreshConfirmations(t, w)
      PROVE  Calm
  BY <1>3, <1>4, CalmCall DEF RefreshConfirmations
<1>5. ASSUME NEW w \in Outcomes, RefreshName(t, w)
      PROVE  Calm
  BY <1>3, <1>5, CalmCall DEF RefreshName
<1>6. ASSUME NEW w \in Outcomes, RefreshNote(t, w)
      PROVE  Calm
  BY <1>6, CalmCall DEF RefreshNote
<1>7. CASE Done(t)
  BY <1>7, CalmCall DEF Done, Idle
<1> QED  BY <1>1, <1>2, <1>4, <1>5, <1>6, <1>7 DEF Serve

\* A block leaves every transaction what it spends.
LEMMA CalmBlocks ==
  ASSUME TypeOK, Blocks
  PROVE  Calm
<1>1. /\ Txs' = Txs
      /\ \A u \in Txs : \/ chain'[u] = chain[u]
                        \/ chain'[u] = [chain[u] EXCEPT !.died = height']
  BY BlockMoves DEF Blocks
<1>2. \A u \in Txs : chain'[u].spends = chain[u].spends
  <2> SUFFICES ASSUME NEW u \in Txs PROVE chain'[u].spends = chain[u].spends
    OBVIOUS
  <2>1. chain[u] \in Transaction
    BY TxType
  <2> QED  BY <1>1, <2>1 DEF Transaction
<1>3. Gone' = Gone
  BY <1>1, <1>2 DEF Gone, Txs
<1>4. Ours' = Ours
  BY <1>1, <1>2 DEF Ours
<1> QED  BY <1>3, <1>4 DEF Calm, Blocks, walletVars, gwVars

\* A run of utxoadd adds the output to the document, or, when it could not read
\* it, overwrites the document, or fails.
OperatorAdds ==
  \E u \in DOMAIN chain, read \in BOOLEAN, w, wClose \in Outcomes :
    OperatorAdd(u, read, w, wClose)

LEMMA OperatorMoves ==
  ASSUME IInv, OperatorAdds
  PROVE  /\ ~up /\ up' = up /\ q' = q /\ call' = call /\ faults' = faults
         /\ UNCHANGED chain
         /\ wiped' = (wiped \cup Range(doc)) \ Range(doc')
         /\ \E u \in Txs : /\ u \notin Range(doc) /\ u \notin Gone
                          /\ doc' \in {doc, Append(doc, u), <<u>>}
<1>1. PICK u \in DOMAIN chain, read \in BOOLEAN, w \in Outcomes, wClose \in Outcomes :
        OperatorAdd(u, read, w, wClose)
  BY DEF OperatorAdds
<1>2. u \in Txs /\ u \notin Range(doc) /\ u \notin Gone
  BY <1>1 DEF OperatorAdd, Txs, Range, Spent, Gone
<1>3. doc' \in {doc, Append(IF read THEN doc ELSE << >>, u)}
  BY <1>1 DEF OperatorAdd, After
<1>4. Append(<< >>, u) = <<u>>
  OBVIOUS
<1> QED  BY <1>1, <1>2, <1>3, <1>4 DEF OperatorAdd, cliVars

LEMMA WalletMoves ==
  ASSUME TypeOK, [Next]_vars
  PROVE  \/ Calm
         \/ \E t \in Tasks : \/ PutAnchorSends(t)
                             \/ \E w \in Outcomes : DropUTXO(t, w) \/ KeepChange(t, w)
         \/ Stop \/ \E read \in BOOLEAN : Start(read)
         \/ OperatorAdds
<1>1. UNCHANGED vars => Calm
  BY DEF vars, Gone, Ours, Txs, Calm
<1> QED  BY <1>1, CalmBlocks, CalmRequest, CalmAcquire, CalmServe DEF Next, OperatorAdds

-----------------------------------------------------------------------------
\* What the ledger says of spent outputs.

LEMMA SpentIsGone == \A u : Spent(u) <=> u \in Gone
BY DEF Spent, Gone

LEMMA SpentInFrontIs == SpentInFront <=> Front(q) /\ Front(doc)
BY DEF SpentInFront, Front, Spent, Gone

LEMMA SendSpends ==
  ASSUME TypeOK, NEW a \in Anchors, NEW b, PutAnchor(GwNet, a, b)
  PROVE  /\ Gone' = Gone \cup {xUTXO} /\ xUTXO \notin Gone
         /\ Len(chain') \notin Gone' /\ Len(chain') \notin Txs
         /\ Txs' = Txs \cup {Len(chain')} /\ chain'[Len(chain')].spends = xUTXO
         /\ \A u \in Txs : chain'[u] = chain[u]
<1>1. /\ Txs' = Txs \cup {Len(chain')} /\ Len(chain') \notin Txs
      /\ chain'[Len(chain')].spends = xUTXO
      /\ \A u \in Txs : chain'[u] = chain[u]
      /\ \A u \in Txs' : chain'[u].spends < u
      /\ chain' \in Seq(Transaction)
  BY SendType
<1>2. Gone' = Gone \cup {xUTXO}
  <2>1. /\ DOMAIN chain' = DOMAIN chain \cup {Len(chain')}
        /\ \A u \in DOMAIN chain : chain'[u].spends = chain[u].spends
    BY <1>1 DEF Txs
  <2>2. Gone' \subseteq Gone \cup {xUTXO}
    BY <1>1, <2>1 DEF Gone
  <2>3. xUTXO \in Gone'
    BY <1>1, <2>1 DEF Gone
  <2>4. Gone \subseteq Gone'
    BY <2>1 DEF Gone
  <2> QED  BY <2>2, <2>3, <2>4
<1>3. xUTXO \notin Gone
  BY SpentIsGone DEF PutAnchor, CanSend
<1>4. ASSUME NEW u, u = Len(chain'), NEW v \in DOMAIN chain', chain'[v].spends = u
      PROVE  FALSE
  <2>1. v \in 1..u /\ u \in Nat
    BY <1>1, <1>4
  <2>2. u < v
    BY <1>1, <1>4 DEF Txs
  <2> QED  BY <2>1, <2>2
<1>5. Len(chain') \notin Gone'
  BY <1>4 DEF Gone
<1> QED  BY <1>1, <1>2, <1>3, <1>5

\* Past the send the head of the queue is spent.
LEMMA HeadSpent ==
  ASSUME IInv, NEW t \in Tasks, call[t].pc = "next"
  PROVE  q # << >> /\ q[1] \in Gone
<1>1. q # << >> /\ chain[xUTXO].spends = Head(q) /\ call[t].tx = xUTXO
  BY DEF IInv, RegisterHoldsHead
<1>2. xUTXO \in DOMAIN chain
  <2>1. call[t].tx \in 1..MaxTx
    BY CallFields DEF IInv
  <2> QED  BY <1>1, <2>1, BitcoinCLIAssumption DEF IInv, TypeOK, Txs
<1>3. Head(q) = q[1]
  BY <1>1 DEF IInv, TypeOK
<1> QED  BY <1>1, <1>2, <1>3 DEF Gone

LEMMA NobodyElse ==
  ASSUME IInv, NEW t \in Tasks, mu = t
  PROVE  \A s \in Tasks : s # t => call[s].pc \notin Holding
BY DEF IInv, RegisterHoldsHead, Sending, Holding

LEMMA TailShifts ==
  ASSUME NEW S, NEW s \in Seq(S), s # << >>
  PROVE  /\ DOMAIN Tail(s) = 1..(Len(s) - 1) /\ Tail(s) \in Seq(S)
         /\ \A i \in DOMAIN Tail(s) : Tail(s)[i] = s[i + 1] /\ i + 1 \in DOMAIN s
         /\ \A i \in DOMAIN s : i # 1 => i - 1 \in DOMAIN Tail(s) /\ s[i] = Tail(s)[i - 1]
OBVIOUS

LEMMA AppendAdds ==
  ASSUME NEW S, NEW s \in Seq(S), NEW x \in S
  PROVE  /\ DOMAIN Append(s, x) = DOMAIN s \cup {Len(s) + 1}
         /\ DOMAIN s = 1..Len(s) /\ Len(s) \in Nat
         /\ \A i \in DOMAIN s : Append(s, x)[i] = s[i] /\ i < Len(s) + 1
         /\ Append(s, x)[Len(s) + 1] = x
OBVIOUS

LEMMA TailInjective ==
  ASSUME NEW S, NEW s \in Seq(S), s # << >>, IsInjective(s)
  PROVE  IsInjective(Tail(s)) /\ Range(Tail(s)) \subseteq Range(s)
BY TailShifts DEF IsInjective, Range

LEMMA QueueGrows ==
  ASSUME NEW S, NEW s \in Seq(S), NEW x \in S, x \notin Range(s), IsInjective(s)
  PROVE  IsInjective(Append(s, x)) /\ Range(Append(s, x)) = Range(s) \cup {x}
<1>1. /\ DOMAIN Append(s, x) = DOMAIN s \cup {Len(s) + 1}
      /\ Append(s, x)[Len(s) + 1] = x
      /\ \A i \in DOMAIN s : Append(s, x)[i] = s[i]
      /\ Len(s) + 1 \notin DOMAIN s
  BY AppendAdds
<1> QED  BY <1>1 DEF IsInjective, Range

-----------------------------------------------------------------------------
(***************************************************************************)
(* Every step keeps WInv.                                                  *)
(***************************************************************************)

LEMMA InitWInv == Init => WInv
<1> SUFFICES ASSUME Init PROVE WInv
  OBVIOUS
<1>1. q = << >> /\ doc = InWallet /\ chain = Funding /\ \A t \in Tasks : call[t] = Idle
  BY DEF Init, CLIInit
<1>2. Unspent(doc)
  <2>1. \A i \in DOMAIN doc : doc[i] # 0
    BY <1>1, GatewayAssumption, BitcoinCLIAssumption
  <2>2. \A v \in DOMAIN chain : chain[v].spends = 0
    BY <1>1 DEF Funding
  <2> QED  BY <2>1, <2>2 DEF Unspent, Gone
<1>3. Front(doc)
  BY <1>1, <1>2, GatewayAssumption DEF Front, Unspent
<1>4. Front(q)
  BY <1>1 DEF Front, IsInjective
<1>5. Ordered /\ Kept /\ DownIsEmpty
  BY <1>1 DEF Ordered, Kept, DownIsEmpty
<1>6. Pending
  BY <1>1 DEF Pending, Idle, Holding
<1> QED  BY <1>3, <1>4, <1>5, <1>6 DEF WInv

LEMMA CalmKeeps ==
  ASSUME WInv, Calm
  PROVE  WInv'
<1>1. Gone' = Gone /\ q' = q /\ doc' = doc /\ up' = up
  BY DEF Calm
<1>2. (Front(q) /\ Front(doc) /\ Ordered /\ Kept /\ DownIsEmpty)'
  BY <1>1 DEF WInv, Front, Ordered, Kept, DownIsEmpty
<1>3. Pending'
  BY <1>1 DEF WInv, Pending, Calm, Unspent
<1> QED  BY <1>2, <1>3 DEF WInv

\* No call is past its send.
LEMMA NonePending ==
  ASSUME \A t \in Tasks : call'[t].pc \notin Holding
  PROVE  Pending'
BY DEF Pending

\* A call that ends leaves nobody past the send.
LEMMA HolderReturns ==
  ASSUME IInv, NEW t \in Tasks, mu = t, NEW c, c.pc \notin Holding, Goto(t, c)
  PROVE  Pending' /\ \A s \in Tasks : call'[s].pc \notin Holding
<1>1. \A s \in Tasks : call'[s].pc \notin Holding
  BY NobodyElse DEF Goto, IInv, TypeOK
<1> QED  BY <1>1, NonePending

LEMMA SendKeeps ==
  ASSUME IInv, WInv, NEW t \in Tasks, PutAnchorSends(t)
  PROVE  WInv'
<1> TypeOK
  BY DEF IInv
<1>1. call[t].pc = "put" /\ up /\ up' = up /\ q' = q /\ doc' = doc
  BY DEF PutAnchorSends, At, walletVars
<1>2. mu = t /\ q # << >> /\ xUTXO = Head(q)
  BY <1>1 DEF IInv, RegisterHoldsHead, Sending
<1>3. call[t].anchor \in Anchors
  BY <1>1, CallFields
<1>4. q \in Seq(Txs) /\ doc \in Seq(Txs) /\ 1 \in DOMAIN q /\ DOMAIN q \subseteq Nat \ {0}
      /\ Head(q) = q[1]
  BY <1>2 DEF TypeOK
<1>5. PICK b \in BOOLEAN : PutAnchor(GwNet, call[t].anchor, b)
  BY DEF PutAnchorSends
<1>6. /\ Gone' = Gone \cup {q[1]} /\ q[1] \notin Gone
      /\ Len(chain') \notin Gone' /\ Len(chain') \notin Txs
  BY <1>2, <1>3, <1>4, <1>5, SendSpends
<1>7. Unspent(q)
  <2> SUFFICES ASSUME NEW i \in DOMAIN q, i # 1 PROVE q[i] \notin Gone
    BY <1>6 DEF Unspent
  <2>1. 1 < i
    BY <1>4
  <2> QED  BY <1>4, <1>6, <2>1 DEF WInv, Front
<1>8. Front(q)'
  <2>1. \A j \in DOMAIN q : q[j] \in Gone' => j = 1
    BY <1>4, <1>6, <1>7 DEF WInv, Front, IsInjective, Unspent
  <2>2. \A i \in DOMAIN q : ~(i < 1)
    BY <1>4
  <2> QED  BY <1>1, <2>1, <2>2 DEF WInv, Front
<1>9. Front(doc)'
  <2> SUFFICES ASSUME NEW i \in DOMAIN doc, NEW j \in DOMAIN doc, i < j, doc[j] \in Gone'
               PROVE  doc[i] \in Gone'
    BY <1>1 DEF WInv, Front
  <2>1. CASE doc[j] \in Gone
    BY <1>6, <2>1 DEF WInv, Front
  <2>2. CASE doc[j] = q[1]
    <3>1. \A l \in DOMAIN q : ~(l < 1)
      BY <1>4
    <3> QED  BY <1>4, <1>6, <2>2, <3>1 DEF WInv, Ordered
  <2> QED  BY <1>6, <2>1, <2>2
<1>10. Ordered' /\ Kept' /\ DownIsEmpty'
  BY <1>1, <1>6 DEF WInv, Ordered, Kept, DownIsEmpty
<1>11. Pending'
  <2>1. CASE Return(t, "err")
    BY <1>2, <2>1, HolderReturns DEF Return, Holding
  <2>2. CASE Goto(t, [pc |-> "next", tx |-> xUTXO']) /\ PutAnchor(GwNet, call[t].anchor, TRUE)
    <3>1. call'[t] = [pc |-> "next", tx |-> Len(chain')]
      BY <2>2 DEF Goto, PutAnchor, TypeOK
    <3>2. \A s \in Tasks : s # t => call'[s].pc \notin Holding
      BY <1>2, <2>2, NobodyElse DEF Goto, TypeOK
    <3>3. Len(chain') \notin Range(q) \cup Range(doc)
      BY <1>4, <1>6 DEF Range
    <3>4. Unspent(Tail(q))'
      <4>1. ASSUME NEW i \in DOMAIN Tail(q)
            PROVE  Tail(q)[i] = q[i + 1] /\ i + 1 \in DOMAIN q /\ i + 1 # 1
        BY <1>2, <1>4, TailShifts
      <4>2. \A j \in DOMAIN q : j # 1 => q[j] # q[1]
        BY <1>4 DEF WInv, Front, IsInjective
      <4> QED  BY <1>1, <1>6, <1>7, <4>1, <4>2 DEF Unspent
    <3> QED  BY <1>1, <1>6, <3>1, <3>2, <3>3, <3>4 DEF Pending
  <2> QED  BY <2>1, <2>2 DEF PutAnchorSends
<1> QED  BY <1>8, <1>9, <1>10, <1>11 DEF WInv

LEMMA DropKeeps ==
  ASSUME IInv, WInv, NEW t \in Tasks, NEW w \in Outcomes, DropUTXO(t, w)
  PROVE  WInv'
<1>1. call[t].pc = "next" /\ up /\ up' = up /\ q # << >> /\ q' = Tail(q)
      /\ doc' \in {doc, q'} /\ Gone' = Gone
  BY DEF DropUTXO, At, NextUTXO, save, After, cliVars, Gone
<1>2. mu = t
  BY <1>1 DEF IInv, RegisterHoldsHead, Sending
<1>3. q \in Seq(Txs) /\ DOMAIN q \subseteq Nat \ {0}
  BY DEF IInv, TypeOK
<1>4. /\ q[1] \in Gone /\ Unspent(q')
      /\ call[t].tx \notin Range(q) \cup Range(doc) \cup Gone
  BY <1>1, HeadSpent DEF WInv, Pending, Unspent, Holding
<1>5. IsInjective(q') /\ Range(q') \subseteq Range(q)
  BY <1>1, <1>3, TailInjective DEF WInv, Front
<1>6. Front(q)'
  BY <1>1, <1>4, <1>5 DEF Front, Unspent
<1>7. Front(doc)'
  <2>1. CASE doc' = doc
    BY <1>1, <2>1 DEF WInv, Front
  <2>2. CASE doc' = q'
    BY <1>6, <2>2 DEF Front
  <2> QED  BY <1>1, <2>1, <2>2
\* An entry of the queue that has another index now, or is the head and spent.
<1>8. \A l \in DOMAIN q : q[l] \in Gone \/ (l - 1 \in DOMAIN q' /\ q[l] = q'[l - 1])
  BY <1>1, <1>3, <1>4, TailShifts
<1>9. Ordered'
  <2>1. CASE doc' = q'
    <3>1. \A j, k \in DOMAIN q' : q'[j] = q'[k] => j = k
      BY <1>5 DEF IsInjective
    <3> QED  BY <2>1, <3>1 DEF Ordered
  <2>2. CASE doc' = doc
    <3> SUFFICES ASSUME NEW i \in DOMAIN doc, NEW j \in DOMAIN doc, NEW k \in DOMAIN q',
                        i < j, doc[j] = q'[k], doc[i] \notin Gone
                 PROVE  \E l \in DOMAIN q' : l < k /\ q'[l] = doc[i]
      BY <1>1, <2>2 DEF Ordered
    <3>1. q'[k] = q[k + 1] /\ k + 1 \in DOMAIN q /\ k \in Nat
      BY <1>1, <1>3, TailShifts
    <3>2. PICK l \in DOMAIN q : l < k + 1 /\ q[l] = doc[i]
      BY <3>1 DEF WInv, Ordered
    <3>3. l - 1 \in DOMAIN q' /\ q'[l - 1] = doc[i] /\ l \in Nat
      BY <1>3, <1>8, <3>2
    <3>4. l - 1 < k
      BY <3>1, <3>2, <3>3
    <3> QED  BY <3>3, <3>4
  <2> QED  BY <1>1, <2>1, <2>2
<1>10. Kept'
  <2>1. Range(q) \subseteq Gone \cup Range(q')
    BY <1>8 DEF Range
  <2> QED  BY <1>1, <2>1 DEF WInv, Kept
<1>11. DownIsEmpty'
  BY <1>1 DEF DownIsEmpty
<1>12. Pending'
  <2>1. CASE w # "ok"
    BY <1>2, <2>1, HolderReturns DEF DropUTXO, Return, Holding
  <2>2. CASE w = "ok"
    <3>1. Goto(t, [call[t] EXCEPT !.pc = "add"]) /\ doc' = q'
      BY <2>2 DEF DropUTXO, NextUTXO, save, After
    <3>2. call'[t].pc = "add" /\ call'[t].tx = call[t].tx
      BY <1>1, <3>1, CallFields DEF Goto, IInv, TypeOK
    <3>3. \A s \in Tasks : s # t => call'[s].pc \notin Holding
      BY <1>2, <3>1, NobodyElse DEF Goto, IInv, TypeOK
    <3>4. Unspent(q)'
      BY <1>1, <1>4 DEF Unspent
    <3> QED  BY <1>1, <1>4, <1>5, <3>1, <3>2, <3>3, <3>4 DEF Pending
  <2> QED  BY <2>1, <2>2
<1> QED  BY <1>6, <1>7, <1>9, <1>10, <1>11, <1>12 DEF WInv

LEMMA KeepKeeps ==
  ASSUME IInv, WInv, NEW t \in Tasks, NEW w \in Outcomes, KeepChange(t, w)
  PROVE  /\ WInv' /\ doc = q /\ Gone' = Gone /\ Unspent(q)' /\ mu = t
         /\ call[t].pc = "add" /\ call[t].tx = xUTXO /\ xUTXO' = xUTXO
         /\ q' = Append(q, xUTXO) /\ Range(q') = Range(q) \cup {xUTXO}
<1>1. /\ call[t].pc = "add" /\ up /\ up' = up /\ q' = Append(q, xUTXO)
      /\ doc' \in {doc, q'} /\ Gone' = Gone /\ xUTXO' = xUTXO
  BY DEF KeepChange, At, AddUTXO, save, After, cliVars, Gone
<1>2. mu = t /\ call[t].tx = xUTXO
  BY <1>1 DEF IInv, RegisterHoldsHead, Sending
<1>3. q \in Seq(Txs) /\ xUTXO \in Txs
  <2>1. call[t].tx \in 1..MaxTx
    BY <1>1, CallFields DEF IInv
  <2> QED  BY <1>2, <2>1, BitcoinCLIAssumption DEF IInv, TypeOK
<1>4. doc = q /\ Unspent(q) /\ xUTXO \notin Range(q) \cup Gone
  BY <1>1, <1>2 DEF WInv, Pending, Holding
<1>5. IsInjective(q') /\ Range(q') = Range(q) \cup {xUTXO}
  BY <1>1, <1>3, <1>4, QueueGrows DEF WInv, Front
<1>6. Unspent(q)'
  <2>1. \A i \in DOMAIN q' : q'[i] \in Range(q')
    BY DEF Range
  <2>2. \A x \in Range(q) : x \notin Gone
    BY <1>4 DEF Unspent, Range
  <2> QED  BY <1>1, <1>4, <1>5, <2>1, <2>2 DEF Unspent
<1>7. Front(q)'
  BY <1>5, <1>6 DEF Front, Unspent
<1>8. Front(doc)'
  <2>1. CASE doc' = doc
    BY <1>1, <2>1 DEF WInv, Front
  <2>2. CASE doc' = q'
    BY <1>7, <2>2 DEF Front
  <2> QED  BY <1>1, <2>1, <2>2
<1>9. Ordered'
  <2>1. \A i \in DOMAIN q : i \in DOMAIN q' /\ q'[i] = q[i]
    BY <1>1, <1>3, AppendAdds
  <2>2. \A j, k \in DOMAIN q' : q'[j] = q'[k] => j = k
    BY <1>5 DEF IsInjective
  <2>3. DOMAIN doc' \subseteq DOMAIN q' /\ \A i \in DOMAIN doc' : doc'[i] = q'[i]
    BY <1>1, <1>4, <2>1
  <2> QED  BY <2>2, <2>3 DEF Ordered
<1>10. Kept'
  BY <1>1, <1>4, <1>5 DEF Kept
<1>11. DownIsEmpty'
  BY <1>1 DEF DownIsEmpty
<1>12. Pending'
  <2>1. CASE w # "ok"
    BY <1>2, <2>1, HolderReturns DEF KeepChange, Return, Holding
  <2>2. CASE w = "ok"
    <3>1. [call[t] EXCEPT !.pc = "ok"].pc = "ok"
      BY <1>1, CallFields DEF IInv
    <3> QED  BY <1>2, <2>2, <3>1, HolderReturns DEF KeepChange, Holding
  <2> QED  BY <2>1, <2>2
<1> QED  BY <1>1, <1>2, <1>4, <1>5, <1>6, <1>7, <1>8, <1>9, <1>10, <1>11, <1>12 DEF WInv

LEMMA OutsideKeeps ==
  ASSUME IInv, WInv, Stop \/ (\E read \in BOOLEAN : Start(read))
                          \/ OperatorAdds
  PROVE  WInv' /\ Gone' = Gone /\ \A t \in Tasks : call'[t].pc \notin Holding
<1>1. CASE Stop
  <2>1. /\ q' = << >> /\ doc' = doc /\ Gone' = Gone
        /\ \A t \in Tasks : call'[t] = Idle
    BY <1>1 DEF Stop, Gone
  <2>2. \A t \in Tasks : call'[t].pc \notin Holding
    BY <2>1 DEF Idle, Holding
  <2>3. (Front(q) /\ Front(doc) /\ Ordered /\ Kept /\ DownIsEmpty)'
    BY <2>1 DEF WInv, Front, IsInjective, Ordered, Kept, DownIsEmpty
  <2> QED  BY <2>1, <2>2, <2>3, NonePending DEF WInv
<1>2. ASSUME ~up
      PROVE  q = << >> /\ \A t \in Tasks : call[t].pc \notin Holding
  BY <1>2 DEF IInv, DownIsIdle, Idle, Holding, WInv, DownIsEmpty
<1>3. ASSUME NEW read \in BOOLEAN, Start(read)
      PROVE  WInv' /\ Gone' = Gone /\ \A t \in Tasks : call'[t].pc \notin Holding
  <2>1. /\ q' \in {doc, << >>} /\ doc' = doc /\ Gone' = Gone /\ up' /\ call' = call
    BY <1>3 DEF Start, load, Gone, cliVars
  <2>2. \A t \in Tasks : call'[t].pc \notin Holding
    BY <1>2, <1>3, <2>1 DEF Start
  <2>3. CASE q' = << >>
    <3>1. (Front(q) /\ Front(doc) /\ Ordered /\ Kept /\ DownIsEmpty)'
      BY <2>1, <2>3 DEF WInv, Front, IsInjective, Ordered, Kept, DownIsEmpty
    <3> QED  BY <2>1, <2>2, <3>1, NonePending DEF WInv
  <2>4. CASE q' = doc
    <3>1. (Front(q) /\ Front(doc) /\ Kept /\ DownIsEmpty)'
      BY <2>1, <2>4 DEF WInv, Front, Kept, DownIsEmpty
    <3>2. \A j, k \in DOMAIN doc : doc[j] = doc[k] => j = k
      BY DEF WInv, Front, IsInjective
    <3>3. Ordered'
      BY <2>1, <2>4, <3>2 DEF Ordered
    <3> QED  BY <2>1, <2>2, <3>1, <3>3, NonePending DEF WInv
  <2> QED  BY <2>1, <2>3, <2>4
<1>4. CASE OperatorAdds
  <2>1. /\ ~up /\ q' = q /\ Gone' = Gone /\ up' = up /\ call' = call
    BY <1>4, OperatorMoves DEF Gone
  <2>2. PICK u \in Txs : /\ u \notin Range(doc) /\ u \notin Gone
                         /\ doc' \in {doc, Append(doc, u), <<u>>}
    BY <1>4, OperatorMoves
  <2>3. /\ \A t \in Tasks : call'[t].pc \notin Holding
        /\ q = << >> /\ doc \in Seq(Txs)
    BY <1>2, <2>1 DEF IInv, TypeOK
  <2>4. Front(doc)'
    <3>1. CASE doc' = doc
      BY <2>1, <3>1 DEF WInv, Front
    <3>2. CASE doc' = <<u>>
      BY <2>1, <3>2 DEF Front, IsInjective
    <3>3. CASE doc' = Append(doc, u)
      <4>1. IsInjective(doc')
        BY <2>2, <2>3, <3>3, QueueGrows DEF WInv, Front
      <4>2. ASSUME NEW i \in DOMAIN doc', NEW j \in DOMAIN doc', i < j, doc'[j] \in Gone
            PROVE  doc'[i] \in Gone
        <5>1. j \in DOMAIN doc /\ doc'[j] = doc[j]
          BY <2>2, <2>3, <3>3, <4>2, AppendAdds
        <5>2. i \in DOMAIN doc /\ doc'[i] = doc[i]
          BY <2>3, <3>3, <4>2, <5>1, AppendAdds
        <5> QED  BY <4>2, <5>1, <5>2 DEF WInv, Front
      <4> QED  BY <2>1, <4>1, <4>2 DEF Front
    <3> QED  BY <2>2, <3>1, <3>2, <3>3
  <2>5. (Front(q) /\ Ordered /\ Kept /\ DownIsEmpty)'
    BY <2>1, <2>3 DEF WInv, Front, IsInjective, Ordered, Kept, DownIsEmpty
  <2> QED  BY <2>1, <2>3, <2>4, <2>5, NonePending DEF WInv
<1> QED  BY <1>1, <1>3, <1>4

LEMMA WInvStep == IInv /\ WInv /\ [Next]_vars => WInv'
BY WalletMoves, CalmKeeps, SendKeeps, DropKeeps, KeepKeeps, OutsideKeeps DEF IInv

LEMMA WInvHolds == Spec => [](IInv /\ WInv)
BY IInvHolds, InitWInv, WInvStep, PTL DEF Spec

\* Spent outputs pile up only in front of the queue and of the document.
THEOREM SpentFirst == Spec => []SpentInFront
<1>1. WInv => SpentInFront
  BY SpentInFrontIs DEF WInv
<1> QED  BY <1>1, WInvHolds, PTL

\* A register call that succeeds leaves a document that is the queue, with the
\* change in it and nothing spent.
THEOREM SuccessSaves == Spec => SuccessIsDurable
<1>1. ASSUME IInv, WInv, [Next]_vars, NEW t \in Tasks, call[t].pc = "add",
             call'[t].pc = "ok"
      PROVE  Healed(xUTXO)'
  <2>1. mu = t /\ up /\ TypeOK
    BY <1>1 DEF IInv, RegisterHoldsHead, Sending, DownIsIdle, Idle
  <2>2. ~Calm
    BY <1>1 DEF Calm, Holding
  <2>3. ~\E s \in Tasks : PutAnchorSends(s)
    <3>1. ASSUME NEW s \in Tasks, PutAnchorSends(s)
          PROVE  FALSE
      <4>1. call[s].pc = "put"
        BY <3>1 DEF PutAnchorSends, At
      <4>2. s = t
        BY <1>1, <2>1, <4>1 DEF IInv, RegisterHoldsHead, Sending
      <4> QED  BY <1>1, <4>1, <4>2
    <3> QED  BY <3>1
  <2>4. \A s \in Tasks, w \in Outcomes : ~DropUTXO(s, w)
    <3>1. ASSUME NEW s \in Tasks, NEW w \in Outcomes, DropUTXO(s, w)
          PROVE  FALSE
      <4>1. call[s].pc = "next"
        BY <3>1 DEF DropUTXO, At
      <4>2. s = t
        BY <1>1, <2>1, <4>1 DEF IInv, RegisterHoldsHead, Sending
      <4> QED  BY <1>1, <4>1, <4>2
    <3> QED  BY <3>1
  <2>5. ~Stop /\ ~(\E read \in BOOLEAN : Start(read))
              /\ ~OperatorAdds
    BY <1>1, <2>1, OperatorMoves DEF Stop, Start, Idle
  <2>6. PICK s \in Tasks, w \in Outcomes : KeepChange(s, w)
    BY <1>1, <2>1, <2>2, <2>3, <2>4, <2>5, WalletMoves
  <2>7. s = t /\ Unspent(q)' /\ q' = Append(q, xUTXO) /\ Range(q') = Range(q) \cup {xUTXO}
        /\ xUTXO' = xUTXO
    BY <1>1, <2>1, <2>6, KeepKeeps
  <2>8. w = "ok"
    <3>1. ASSUME w # "ok"
          PROVE  call'[t].pc = "err"
      <4>1. call' = [call EXCEPT ![t] = [pc |-> "err"]]
        BY <2>6, <2>7, <3>1 DEF KeepChange, Return, Goto
      <4>2. DOMAIN call = Tasks
        BY <2>1 DEF TypeOK
      <4>3. call'[t] = [pc |-> "err"]
        BY <4>1, <4>2
      <4> QED  BY <4>3
    <3> QED  BY <1>1, <3>1
  <2>9. doc' = q'
    BY <2>6, <2>8 DEF KeepChange, AddUTXO, save, After
  <2>10. \A i \in DOMAIN doc' : doc'[i] \notin Gone'
    BY <2>7, <2>9 DEF Unspent
  <2> QED  BY <2>7, <2>9, <2>10 DEF Healed, Spent, Gone
<1>2. IInv /\ WInv /\ [Next]_vars =>
        [\A t \in Tasks : call[t].pc = "add" /\ call'[t].pc = "ok" => Healed(xUTXO)']_vars
  BY <1>1
<1> QED  BY <1>2, WInvHolds, PTL DEF Spec, SuccessIsDurable

-----------------------------------------------------------------------------
(***************************************************************************)
(* What the faults cost.  Every step that leaves a spent output stranded,  *)
(* or an output that the wallet may lose, is counted as a fault.           *)
(***************************************************************************)

\* What a stop can lose: not spent, not in the document, in no call's hands,
\* and not overwritten by utxoadd.
AtRisk == {u \in Ours : u \notin Gone} \ (Range(doc) \cup InHand \cup wiped)

Stranded(s) == {i \in DOMAIN s : s[i] \in Gone}

LEMMA HandsOf ==
  ASSUME NEW c, NEW t \in Tasks, \A s \in Tasks : s # t => c[s].pc \notin Holding
  PROVE  /\ (\E s \in Tasks : c[s].pc = "next") <=> c[t].pc = "next"
         /\ {c[s].tx : s \in {r \in Tasks : c[r].pc \in {"next", "add"}}}
              = IF c[t].pc \in Holding THEN {c[t].tx} ELSE {}
BY DEF Holding

LEMMA NoHands ==
  ASSUME NEW c, \A s \in Tasks : c[s].pc \notin Holding
  PROVE  /\ ~(\E s \in Tasks : c[s].pc = "next")
         /\ {c[s].tx : s \in {r \in Tasks : c[r].pc \in {"next", "add"}}} = {}
BY DEF Holding

LEMMA CalmHands ==
  ASSUME Calm
  PROVE  Doubt' = Doubt /\ InHand' = InHand
<1>1. \A t \in Tasks : \/ call'[t] = call[t]
                       \/ call[t].pc \notin {"next", "add"} /\ call'[t].pc \notin {"next", "add"}
  BY DEF Calm, Holding
<1>2. Doubt' = Doubt
  BY <1>1 DEF Doubt
<1>3. {s \in Tasks : call'[s].pc \in {"next", "add"}} = {s \in Tasks : call[s].pc \in {"next", "add"}}
  BY <1>1
<1>4. \A t \in {s \in Tasks : call[s].pc \in {"next", "add"}} : call'[t] = call[t]
  BY <1>1
<1>5. InHand' = InHand
  BY <1>3, <1>4 DEF InHand
<1> QED  BY <1>2, <1>5

\* A send takes the output of the head and leaves the new one in the hands of
\* its call, or, unanswered, in nobody's.
LEMMA SendHands ==
  ASSUME IInv, NEW t \in Tasks, PutAnchorSends(t)
  PROVE  /\ Doubt = 0 /\ InHand = {} /\ q' = q /\ doc' = doc /\ wiped' = wiped
         /\ Gone' = Gone \cup {q[1]}
         /\ Ours' \subseteq Ours \cup {Len(chain')}
         /\ \/ Doubt' = 1 /\ InHand' = {Len(chain')} /\ faults' = faults
            \/ Doubt' = 0 /\ InHand' = {} /\ faults' = faults + 1
<1> TypeOK
  BY DEF IInv
<1>1. call[t].pc = "put" /\ q' = q /\ doc' = doc /\ wiped' = wiped
  BY DEF PutAnchorSends, At, walletVars
<1>2. mu = t /\ q # << >> /\ xUTXO = q[1]
  BY <1>1 DEF IInv, RegisterHoldsHead, Sending, TypeOK
<1>3. PICK b \in BOOLEAN : PutAnchor(GwNet, call[t].anchor, b)
  BY DEF PutAnchorSends
<1>4. /\ Gone' = Gone \cup {xUTXO} /\ Txs' = Txs \cup {Len(chain')}
      /\ \A u \in Txs : chain'[u] = chain[u]
  BY <1>1, <1>3, CallFields, SendSpends
<1>5. Ours' \subseteq Ours \cup {Len(chain')}
  BY <1>4 DEF Ours
<1>6. \A s \in Tasks : s # t => call[s].pc \notin Holding
  BY <1>2, NobodyElse
<1>7. Doubt = 0 /\ InHand = {}
  <2>1. \A s \in Tasks : call[s].pc \notin Holding
    BY <1>1, <1>6 DEF Holding
  <2> QED  BY <2>1, NoHands DEF Doubt, InHand
<1>8. CASE Goto(t, [pc |-> "next", tx |-> xUTXO']) /\ UNCHANGED faults
           /\ PutAnchor(GwNet, call[t].anchor, TRUE)
  <2>1. call'[t] = [pc |-> "next", tx |-> Len(chain')]
    BY <1>8 DEF Goto, PutAnchor, TypeOK
  <2>2. \A s \in Tasks : s # t => call'[s].pc \notin Holding
    BY <1>6, <1>8 DEF Goto, TypeOK
  <2>3. Doubt' = 1 /\ InHand' = {Len(chain')}
    BY <2>1, <2>2, HandsOf DEF Doubt, InHand, Holding
  <2> QED  BY <1>1, <1>2, <1>4, <1>5, <1>7, <1>8, <2>3
<1>9. CASE Return(t, "err") /\ Fault("unacked")
  <2>1. \A s \in Tasks : call'[s].pc \notin Holding
    BY <1>2, <1>9, HolderReturns DEF Return, Holding
  <2>2. Doubt' = 0 /\ InHand' = {}
    BY <2>1, NoHands DEF Doubt, InHand
  <2> QED  BY <1>1, <1>2, <1>4, <1>5, <1>7, <1>9, <2>2 DEF Fault
<1> QED  BY <1>8, <1>9 DEF PutAnchorSends

\* The two saves.
LEMMA SaveHands ==
  ASSUME IInv, NEW t \in Tasks, NEW w \in Outcomes, DropUTXO(t, w) \/ KeepChange(t, w)
  PROVE  /\ Gone' = Gone /\ Ours' = Ours /\ InHand = {call[t].tx}
         /\ Doubt = IF call[t].pc = "next" THEN 1 ELSE 0
         /\ Doubt' = 0 /\ wiped' = wiped
         /\ w # "ok" => InHand' = {} /\ faults' = faults + 1
         /\ w = "ok" => faults' = faults /\ doc' = q'
                        /\ InHand' = IF DropUTXO(t, w) THEN InHand ELSE {}
<1> TypeOK
  BY DEF IInv
<1>1. /\ call[t].pc = (IF DropUTXO(t, w) THEN "next" ELSE "add")
      /\ UNCHANGED <<chain, wiped>>
  BY DEF DropUTXO, KeepChange, At, cliVars
<1>2. call[t].pc \in Holding /\ mu = t
  BY <1>1 DEF IInv, RegisterHoldsHead, Sending, Holding
<1>3. Gone' = Gone /\ Ours' = Ours
  BY <1>1 DEF Gone, Ours, Txs, Spent
<1>4. \A s \in Tasks : s # t => call[s].pc \notin Holding
  BY <1>2, NobodyElse
<1>5. InHand = {call[t].tx} /\ Doubt = IF call[t].pc = "next" THEN 1 ELSE 0
  BY <1>2, <1>4, HandsOf DEF InHand, Doubt
<1>6. ASSUME w # "ok"
      PROVE  Doubt' = 0 /\ InHand' = {} /\ faults' = faults + 1
  <2>1. Return(t, "err") /\ faults' = faults + 1
    BY <1>6 DEF DropUTXO, KeepChange, Fault
  <2>2. \A s \in Tasks : call'[s].pc \notin Holding
    BY <1>2, <2>1, HolderReturns DEF Return, Holding
  <2> QED  BY <2>1, <2>2, NoHands DEF Doubt, InHand
<1>7. ASSUME w = "ok", DropUTXO(t, w)
      PROVE  Doubt' = 0 /\ InHand' = InHand /\ faults' = faults /\ doc' = q'
  <2>1. Goto(t, [call[t] EXCEPT !.pc = "add"]) /\ faults' = faults /\ doc' = q'
    BY <1>7 DEF DropUTXO, Fault, NextUTXO, save, After
  <2>2. call'[t].pc = "add" /\ call'[t].tx = call[t].tx
    BY <1>1, <1>7, <2>1, CallFields DEF Goto, TypeOK
  <2>3. \A s \in Tasks : s # t => call'[s].pc \notin Holding
    BY <1>4, <2>1 DEF Goto, TypeOK
  <2>4. Doubt' = 0 /\ InHand' = {call[t].tx}
    BY <2>2, <2>3, HandsOf DEF Doubt, InHand, Holding
  <2> QED  BY <1>5, <2>1, <2>4
<1>8. ASSUME w = "ok", ~DropUTXO(t, w)
      PROVE  Doubt' = 0 /\ InHand' = {} /\ faults' = faults /\ doc' = q'
  <2>1. Goto(t, [call[t] EXCEPT !.pc = "ok"]) /\ faults' = faults /\ doc' = q'
    BY <1>8 DEF KeepChange, Fault, AddUTXO, save, After
  <2>2. [call[t] EXCEPT !.pc = "ok"].pc = "ok"
    BY <1>1, <1>8, CallFields
  <2>3. \A s \in Tasks : call'[s].pc \notin Holding
    BY <1>2, <2>1, <2>2, HolderReturns DEF Holding
  <2> QED  BY <2>1, <2>3, NoHands DEF Doubt, InHand
<1> QED  BY <1>1, <1>3, <1>5, <1>6, <1>7, <1>8

\* Outside the calls: only a stop can find something in a call's hands, and
\* then it is a fault; what leaves the document was overwritten.
LEMMA OutsideHands ==
  ASSUME IInv, WInv, Stop \/ (\E read \in BOOLEAN : Start(read))
                          \/ OperatorAdds
  PROVE  /\ Gone' = Gone /\ Ours' = Ours /\ Doubt' = 0 /\ InHand' = {}
         /\ Range(doc) \cup wiped \subseteq Range(doc') \cup wiped'
         /\ \/ Doubt = 0 /\ InHand = {} /\ faults' = faults
            \/ faults' = faults + 1 /\ \E u : InHand \subseteq {u}
<1>1. Gone' = Gone /\ UNCHANGED chain /\ \A t \in Tasks : call'[t].pc \notin Holding
  BY OutsideKeeps, OperatorMoves DEF Stop, Start, cliVars
<1>2. Ours' = Ours /\ Doubt' = 0 /\ InHand' = {}
  BY <1>1, NoHands DEF Ours, Txs, Doubt, InHand
<1>3. ASSUME \A t \in Tasks : call[t].pc \notin Holding
      PROVE  Doubt = 0 /\ InHand = {}
  BY <1>3, NoHands DEF Doubt, InHand
<1>4. CASE Stop
  <2>1. CASE mu \notin Tasks
    <3>1. \A t \in Tasks : call[t].pc \notin Holding
      BY <2>1 DEF IInv, RegisterHoldsHead, Sending, Holding
    <3> QED  BY <1>1, <1>2, <1>3, <1>4, <2>1, <3>1 DEF Stop
  <2>2. CASE mu \in Tasks
    <3>1. \A s \in Tasks : s # mu => call[s].pc \notin Holding
      BY <2>2, NobodyElse
    <3>2. InHand \subseteq {call[mu].tx}
      BY <2>2, <3>1, HandsOf DEF InHand
    <3>3. faults' = faults + 1 /\ doc' = doc /\ wiped' = wiped
      BY <1>4, <2>2 DEF Stop, Fault
    <3> QED  BY <1>1, <1>2, <3>2, <3>3
  <2> QED  BY <2>1, <2>2
<1>5. CASE ~Stop
  <2>1. ~up /\ faults' = faults
    BY <1>5, OperatorMoves DEF Start
  <2>2. Doubt = 0 /\ InHand = {}
    BY <1>3, <2>1 DEF IInv, DownIsIdle, Idle, Holding
  <2>3. Range(doc) \cup wiped \subseteq Range(doc') \cup wiped'
    <3>1. CASE OperatorAdds
      BY <3>1, OperatorMoves
    <3>2. CASE ~OperatorAdds
      BY <1>5, <3>2 DEF Start
    <3> QED  BY <3>1, <3>2
  <2> QED  BY <1>1, <1>2, <2>1, <2>2, <2>3
<1> QED  BY <1>4, <1>5

LEMMA OneMore ==
  ASSUME NEW S, IsFiniteSet(S), NEW T, NEW x, T \subseteq S \cup {x}
  PROVE  IsFiniteSet(T) /\ Cardinality(T) \in Nat /\ Cardinality(S) \in Nat
         /\ Cardinality(T) <= Cardinality(S) + 1
<1>1. Cardinality(S) \in Nat
  BY FS_CardinalityType
<1>2. IsFiniteSet(S \cup {x}) /\ Cardinality(S \cup {x}) \in {Cardinality(S), Cardinality(S) + 1}
  BY FS_AddElement
<1>3. IsFiniteSet(T) /\ Cardinality(T) <= Cardinality(S \cup {x})
  BY <1>2, FS_Subset
<1>4. Cardinality(T) \in Nat
  BY <1>3, FS_CardinalityType
<1> QED  BY <1>1, <1>2, <1>3, <1>4

LEMMA NoMore ==
  ASSUME NEW S, IsFiniteSet(S), NEW T, T \subseteq S
  PROVE  IsFiniteSet(T) /\ Cardinality(T) \in Nat /\ Cardinality(S) \in Nat
         /\ Cardinality(T) <= Cardinality(S)
BY FS_Subset, FS_CardinalityType

LEMMA StrandedFinite ==
  ASSUME TypeOK
  PROVE  /\ IsFiniteSet(Stranded(q)) /\ Cardinality(Stranded(q)) \in Nat
         /\ IsFiniteSet(Stranded(doc)) /\ Cardinality(Stranded(doc)) \in Nat
<1>1. ASSUME NEW s \in Seq(Txs)
      PROVE  IsFiniteSet(Stranded(s)) /\ Cardinality(Stranded(s)) \in Nat
  <2>1. Len(s) \in Int /\ Stranded(s) \subseteq 1..Len(s)
    BY DEF Stranded
  <2>2. IsFiniteSet(1..Len(s))
    BY <2>1, FS_Interval
  <2> QED  BY <2>1, <2>2, NoMore
<1> QED  BY <1>1 DEF TypeOK

LEMMA NoneStranded ==
  ASSUME NEW s, Unspent(s)
  PROVE  Cardinality(Stranded(s)) = 0
<1>1. Stranded(s) = {}
  BY DEF Stranded, Unspent
<1> QED  BY <1>1, FS_EmptySet

StrandedFew == /\ Cardinality(Stranded(q)) <= faults + Doubt
               /\ Cardinality(Stranded(doc)) <= faults + Doubt

LEMMA StrandedStep ==
  ASSUME IInv, WInv, StrandedFew, [Next]_vars
  PROVE  StrandedFew'
<1> DEFINE A == Cardinality(Stranded(q))
           B == Cardinality(Stranded(doc))
<1>1. /\ TypeOK /\ faults \in Nat /\ Doubt \in {0, 1} /\ A \in Nat /\ B \in Nat
      /\ A <= faults + Doubt /\ B <= faults + Doubt
  BY StrandedFinite, GatewayAssumption DEF IInv, TypeOK, Doubt, StrandedFew
<1> SUFFICES A' <= faults' + Doubt' /\ B' <= faults' + Doubt'
  BY DEF StrandedFew
<1> USE DEF Stranded
<1>2. CASE Calm
  <2>1. Gone' = Gone /\ q' = q /\ doc' = doc /\ faults' = faults
    BY <1>2 DEF Calm
  <2>2. A' = A /\ B' = B
    BY <2>1
  <2> QED  BY <1>1, <1>2, <2>1, <2>2, CalmHands
<1>3. ASSUME NEW t \in Tasks, PutAnchorSends(t)
      PROVE  A' <= faults' + Doubt' /\ B' <= faults' + Doubt'
  <2>1. /\ Doubt = 0 /\ q' = q /\ doc' = doc /\ Gone' = Gone \cup {q[1]}
        /\ \/ Doubt' = 1 /\ faults' = faults
           \/ Doubt' = 0 /\ faults' = faults + 1
    BY <1>3, SendHands
  <2>2. ASSUME NEW s, IsInjective(s)
        PROVE  \E x : {i \in DOMAIN s : s[i] \in Gone \cup {q[1]}}
                        \subseteq {i \in DOMAIN s : s[i] \in Gone} \cup {x}
    <3>1. CASE \E x \in DOMAIN s : s[x] = q[1]
      <4>1. PICK x \in DOMAIN s : s[x] = q[1]
        BY <3>1
      <4>2. \A i \in DOMAIN s : s[i] = q[1] => i = x
        BY <2>2, <4>1 DEF IsInjective
      <4> QED  BY <4>2
    <3>2. CASE ~\E x \in DOMAIN s : s[x] = q[1]
      BY <3>2
    <3> QED  BY <3>1, <3>2
  <2>3. A' \in Nat /\ A' <= A + 1
    <3>1. PICK x : Stranded(q)' \subseteq Stranded(q) \cup {x}
      BY <2>1, <2>2 DEF WInv, Front
    <3> QED  BY <1>1, <3>1, StrandedFinite, OneMore
  <2>4. B' \in Nat /\ B' <= B + 1
    <3>1. PICK x : Stranded(doc)' \subseteq Stranded(doc) \cup {x}
      BY <2>1, <2>2 DEF WInv, Front
    <3> QED  BY <1>1, <3>1, StrandedFinite, OneMore
  <2> QED  BY <1>1, <2>1, <2>3, <2>4
\* A save leaves nothing spent in what it writes; a failed one may leave the
\* document as it was.
<1>4. ASSUME NEW t \in Tasks, NEW w \in Outcomes, DropUTXO(t, w) \/ KeepChange(t, w)
      PROVE  A' <= faults' + Doubt' /\ B' <= faults' + Doubt'
  <2>1. /\ Gone' = Gone /\ Doubt' = 0
        /\ Doubt = IF call[t].pc = "next" THEN 1 ELSE 0
        /\ w # "ok" => faults' = faults + 1
        /\ w = "ok" => faults' = faults /\ doc' = q'
    BY <1>4, SaveHands
  <2>2. Unspent(q)'
    <3>1. CASE DropUTXO(t, w)
      <4>1. call[t].pc = "next" /\ q' = Tail(q)
        BY <3>1 DEF DropUTXO, At, NextUTXO
      <4> QED  BY <2>1, <4>1 DEF WInv, Pending, Holding, Unspent
    <3>2. CASE KeepChange(t, w)
      BY <3>2, KeepKeeps
    <3> QED  BY <1>4, <3>1, <3>2
  <2>3. Unspent(q') /\ A' = 0
    <3>1. Cardinality({i \in DOMAIN q' : q'[i] \in Gone'}) = 0
      <4>1. {i \in DOMAIN q' : q'[i] \in Gone'} = {}
        BY <2>2 DEF Unspent
      <4> QED  BY <4>1, FS_EmptySet
    <3> QED  BY <2>1, <2>2, <3>1 DEF Unspent
  <2>4. faults' \in Nat
    BY <1>1, <2>1
  <2>5. CASE w = "ok"
    BY <2>1, <2>3, <2>4, <2>5
  <2>6. CASE w # "ok"
    <3>1. doc' \in {doc, q'}
      BY <1>4 DEF DropUTXO, KeepChange, NextUTXO, AddUTXO, save, After
    <3>2. B' \in {B, 0}
      BY <2>1, <2>3, <3>1
    <3> QED  BY <1>1, <2>1, <2>3, <2>6, <3>2
  <2> QED  BY <2>5, <2>6
<1>5. ASSUME Stop \/ (\E read \in BOOLEAN : Start(read))
                  \/ OperatorAdds
      PROVE  A' <= faults' + Doubt' /\ B' <= faults' + Doubt'
  <2>1. /\ Gone' = Gone /\ Doubt' = 0
        /\ \/ Doubt = 0 /\ faults' = faults
           \/ faults' = faults + 1
    BY <1>5, OutsideHands
  <2>2. A' \in {A, B, 0}
    <3>1. q' \in {q, doc, << >>}
      BY <1>5, OperatorMoves DEF Stop, Start, load
    <3>2. Stranded(<< >>) = {}
      OBVIOUS
    <3> QED  BY <2>1, <3>1, <3>2, FS_EmptySet
  <2>3. B' \in Nat /\ B' <= B
    <3>1. Stranded(doc)' \subseteq Stranded(doc)
      <4>1. CASE doc' = doc
        BY <2>1, <4>1
      <4>2. CASE OperatorAdds
        <5>1. PICK u \in Txs : u \notin Gone /\ doc' \in {doc, Append(doc, u), <<u>>}
          BY <4>2, OperatorMoves
        <5>2. CASE doc' = Append(doc, u)
          BY <1>1, <2>1, <5>1, <5>2, AppendAdds DEF TypeOK
        <5>3. CASE doc' = <<u>>
          BY <2>1, <5>1, <5>3
        <5> QED  BY <4>1, <5>1, <5>2, <5>3
      <4> QED  BY <1>5, <4>1, <4>2 DEF Stop, Start
    <3> QED  BY <1>1, <3>1, StrandedFinite, NoMore
  <2> QED  BY <1>1, <2>1, <2>2, <2>3
<1> QED  BY <1>1, <1>2, <1>3, <1>4, <1>5, WalletMoves

\* Each fault leaves at most one spent output in the queue or in the document.
THEOREM StrandedAreFaults == Spec => []StrandedBounded
<1>1. Init => StrandedFew
  <2> SUFFICES ASSUME Init PROVE StrandedFew
    OBVIOUS
  <2>1. q = << >> /\ doc = InWallet /\ chain = Funding /\ faults = 0 /\ Doubt = 0
    BY DEF Init, CLIInit, Idle, Doubt
  <2>2. \A i \in DOMAIN doc : doc[i] # 0
    BY <2>1, GatewayAssumption, BitcoinCLIAssumption
  <2>3. \A v \in DOMAIN chain : chain[v].spends = 0
    BY <2>1 DEF Funding
  <2>4. Unspent(q) /\ Unspent(doc)
    BY <2>1, <2>2, <2>3 DEF Unspent, Gone
  <2> QED  BY <2>1, <2>4, NoneStranded DEF StrandedFew
<1>2. IInv /\ WInv /\ StrandedFew /\ [Next]_vars => StrandedFew'
  BY StrandedStep
<1>3. StrandedFew => StrandedBounded
  BY DEF StrandedFew, Stranded, StrandedBounded, Spent, Gone
<1> QED  BY <1>1, <1>2, <1>3, WInvHolds, PTL DEF Spec

RiskFew == IsFiniteSet(AtRisk) /\ Cardinality(AtRisk) <= faults

LEMMA RiskStep ==
  ASSUME IInv, WInv, RiskFew, [Next]_vars
  PROVE  RiskFew'
<1>1. TypeOK /\ faults \in Nat /\ doc \in Seq(Txs) /\ q \in Seq(Txs)
  BY GatewayAssumption DEF IInv, TypeOK
\* Nothing new at risk, or one output and a fault for it.
<1>2. ASSUME faults' = faults, AtRisk' \subseteq AtRisk
      PROVE  RiskFew'
  BY <1>1, <1>2, NoMore DEF RiskFew
<1>3. ASSUME NEW x, faults' = faults + 1, AtRisk' \subseteq AtRisk \cup {x}
      PROVE  RiskFew'
  <2>1. /\ IsFiniteSet(AtRisk)' /\ Cardinality(AtRisk)' \in Nat /\ Cardinality(AtRisk) \in Nat
        /\ Cardinality(AtRisk)' <= Cardinality(AtRisk) + 1
    BY <1>3, OneMore DEF RiskFew
  <2>2. Cardinality(AtRisk) <= faults
    BY DEF RiskFew
  <2>3. Cardinality(AtRisk)' <= faults'
    BY <1>1, <1>3, <2>1, <2>2
  <2> QED  BY <2>1, <2>3 DEF RiskFew
<1>4. CASE Calm
  <2>1. /\ Gone' = Gone /\ Ours' = Ours /\ doc' = doc /\ wiped' = wiped
        /\ faults' = faults /\ InHand' = InHand
    BY <1>4, CalmHands DEF Calm
  <2>2. AtRisk' = AtRisk
    BY <2>1 DEF AtRisk
  <2> QED  BY <1>2, <2>1, <2>2
<1>5. ASSUME NEW t \in Tasks, PutAnchorSends(t)
      PROVE  RiskFew'
  <2>1. /\ InHand = {} /\ doc' = doc /\ wiped' = wiped /\ Gone \subseteq Gone'
        /\ Ours' \subseteq Ours \cup {Len(chain')}
        /\ \/ InHand' = {Len(chain')} /\ faults' = faults
           \/ InHand' = {} /\ faults' = faults + 1
    BY <1>5, SendHands
  <2>2. CASE InHand' = {Len(chain')} /\ faults' = faults
    <3>1. AtRisk' \subseteq AtRisk
      BY <2>1, <2>2 DEF AtRisk
    <3> QED  BY <1>2, <2>2, <3>1
  <2>3. CASE InHand' = {} /\ faults' = faults + 1
    <3>1. AtRisk' \subseteq AtRisk \cup {Len(chain')}
      BY <2>1, <2>3 DEF AtRisk
    <3> QED  BY <1>3, <2>3, <3>1
  <2> QED  BY <2>1, <2>2, <2>3
<1>6. ASSUME NEW t \in Tasks, NEW w \in Outcomes, DropUTXO(t, w) \/ KeepChange(t, w)
      PROVE  RiskFew'
  <2>1. /\ Gone' = Gone /\ Ours' = Ours /\ InHand = {call[t].tx} /\ wiped' = wiped
        /\ w # "ok" => InHand' = {} /\ faults' = faults + 1
        /\ w = "ok" => faults' = faults /\ doc' = q'
                       /\ InHand' = IF DropUTXO(t, w) THEN InHand ELSE {}
    BY <1>6, SaveHands
\* The save writes no less than what is not spent.
  <2>2. /\ Range(doc) \subseteq Gone \cup Range(q')
        /\ KeepChange(t, w) => call[t].tx \in Range(q')
    <3>1. CASE DropUTXO(t, w)
      <4>1. call[t].pc = "next" /\ q' = Tail(q) /\ q # << >>
        BY <3>1 DEF DropUTXO, At, NextUTXO
      <4>2. q[1] \in Gone
        BY <4>1, HeadSpent
      <4>3. \A l \in DOMAIN q : q[l] \in Gone \/ q[l] \in Range(q')
        <5> SUFFICES ASSUME NEW l \in DOMAIN q, l # 1 PROVE q[l] \in Range(q')
          BY <4>2
        <5>1. l - 1 \in DOMAIN q' /\ q[l] = q'[l - 1]
          BY <1>1, <4>1, TailShifts
        <5> QED  BY <5>1 DEF Range
      <4>4. Range(doc) \subseteq Gone \cup Range(q')
        BY <4>1, <4>3 DEF WInv, Kept, Range
      <4>5. ~KeepChange(t, w)
        BY <4>1 DEF KeepChange, At
      <4> QED  BY <4>4, <4>5
    <3>2. CASE KeepChange(t, w)
      BY <3>2, KeepKeeps
    <3> QED  BY <1>6, <3>1, <3>2
  <2>3. CASE w = "ok"
    <3>1. AtRisk' \subseteq AtRisk
      <4>1. CASE DropUTXO(t, w)
        BY <2>1, <2>2, <2>3, <4>1 DEF AtRisk
      <4>2. CASE ~DropUTXO(t, w)
        BY <1>6, <2>1, <2>2, <2>3, <4>2 DEF AtRisk
      <4> QED  BY <4>1, <4>2
    <3> QED  BY <1>2, <2>1, <2>3, <3>1
  <2>4. CASE w # "ok"
    <3>1. doc' \in {doc, q'}
      BY <1>6 DEF DropUTXO, KeepChange, NextUTXO, AddUTXO, save, After
    <3>2. Range(doc) \subseteq Gone \cup Range(doc')
      BY <2>2, <3>1
    <3>3. AtRisk' \subseteq AtRisk \cup {call[t].tx}
      BY <2>1, <2>4, <3>2 DEF AtRisk
    <3> QED  BY <1>3, <2>1, <2>4, <3>3
  <2> QED  BY <2>3, <2>4
<1>7. ASSUME Stop \/ (\E read \in BOOLEAN : Start(read))
                  \/ OperatorAdds
      PROVE  RiskFew'
  <2>1. /\ Gone' = Gone /\ Ours' = Ours /\ InHand' = {}
        /\ Range(doc) \cup wiped \subseteq Range(doc') \cup wiped'
        /\ \/ InHand = {} /\ faults' = faults
           \/ faults' = faults + 1 /\ \E u : InHand \subseteq {u}
    BY <1>7, OutsideHands
  <2>2. CASE InHand = {} /\ faults' = faults
    <3>1. AtRisk' \subseteq AtRisk
      BY <2>1, <2>2 DEF AtRisk
    <3> QED  BY <1>2, <2>2, <3>1
  <2>3. ASSUME NEW u, faults' = faults + 1, InHand \subseteq {u}
        PROVE  RiskFew'
    <3>1. AtRisk' \subseteq AtRisk \cup {u}
      BY <2>1, <2>3 DEF AtRisk
    <3> QED  BY <1>3, <2>3, <3>1
  <2> QED  BY <2>1, <2>2, <2>3
<1> QED  BY <1>1, <1>4, <1>5, <1>6, <1>7, WalletMoves

\* Each fault loses at most one spendable output of the gateway's; the others
\* that are lost were overwritten by a utxoadd that could not read the wallet.
THEOREM LostAreFaults == Spec => []LostBounded
<1>1. Init => RiskFew
  <2> SUFFICES ASSUME Init PROVE RiskFew
    OBVIOUS
  <2>1. doc = InWallet /\ chain = Funding /\ faults = 0
    BY DEF Init, CLIInit
  <2>2. \A v \in DOMAIN chain : chain[v].spends = 0
    BY <2>1 DEF Funding
  <2>3. AtRisk = {}
    BY <2>1, <2>2 DEF AtRisk, Ours, Txs
  <2> QED  BY <2>1, <2>3, FS_EmptySet DEF RiskFew
<1>2. IInv /\ WInv /\ RiskFew /\ [Next]_vars => RiskFew'
  BY RiskStep
<1>3. IInv /\ RiskFew => LostBounded
  <2> SUFFICES ASSUME IInv, RiskFew PROVE LostBounded
    OBVIOUS
  <2>1. Lost \ wiped \subseteq AtRisk
    BY SpentIsGone DEF Lost, AtRisk
  <2>2. faults \in Nat
    BY GatewayAssumption DEF IInv, TypeOK
  <2> QED  BY <2>1, <2>2, NoMore DEF RiskFew, LostBounded
<1> QED  BY <1>1, <1>2, <1>3, WInvHolds, PTL DEF Spec

=============================================================================

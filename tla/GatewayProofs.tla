--------------------------- MODULE GatewayProofs ---------------------------
(***************************************************************************)
(* Theorems about Gateway, for every value of its constants.               *)
(***************************************************************************)
EXTENDS Gateway, SequenceTheorems, TLAPS

USE DEF Outcomes, RunFails

(***************************************************************************)
(* The inductive invariant.  Typing alone is not inductive: KeepChange     *)
(* appends xUTXO to the queue, which is an output only because the task    *)
(* that is past the send has set it.  That in turn needs the lock, and the *)
(* fact that nothing is in flight while the process is down.               *)
(***************************************************************************)
DownIsIdle == ~up => mu = None /\ \A t \in Tasks : call[t] = Idle

IInv == TypeOK /\ RegisterHoldsHead /\ DownIsIdle

-----------------------------------------------------------------------------
\* What call[t] holds at each program counter.
LEMMA CallFields ==
  ASSUME TypeOK, NEW t \in Tasks
  PROVE  LET c == call[t] IN
         /\ c.pc \in {"register", "put"} =>
              /\ c \in [pc : {"register", "put"}, anchor : Anchors]
              /\ c.anchor \in Anchors
         /\ c.pc \in {"next", "add"} =>
              /\ c \in [pc : {"next", "add", "ok"}, tx : 1..MaxTx]
              /\ c.tx \in 1..MaxTx
         /\ c.pc = "store" => c.tx \in 0..MaxTx
         /\ c.pc = "storePut" => c.ar \in Record
         /\ c.pc = "refresh" =>
              /\ c.key \in Keys /\ c.tx \in 1..MaxTx
              /\ c.name \in Names \cup {None} /\ c.note \in Notes \cup {None}
         /\ c.pc = "conf" =>
              /\ c.key \in Keys /\ c.tx \in 1..MaxTx /\ c.conf \in Told
              /\ c.name \in Names \cup {None} /\ c.note \in Notes \cup {None}
         /\ c.pc = "name" =>
              c.key \in Keys /\ c.name \in Names /\ c.note \in Notes \cup {None}
         /\ c.pc = "note" => c.key \in Keys /\ c.note \in Notes
<1>1. call[t] \in Call
  BY DEF TypeOK
<1>2. QED
  BY <1>1 DEF Call

LEMMA GotoType ==
  ASSUME TypeOK, NEW t \in Tasks, NEW c \in Call, Goto(t, c)
  PROVE  call' \in [Tasks -> Call]
BY DEF TypeOK, Goto

LEMMA ReturnType ==
  ASSUME TypeOK, NEW t \in Tasks, NEW res \in {"ok", "err"}, Return(t, res)
  PROVE  call' \in [Tasks -> Call]
<1>1. [pc |-> res] \in Call
  BY DEF Call
<1>2. QED
  BY <1>1, GotoType DEF Return

LEMMA IdsKnown ==
  /\ \A r \in Requests : NewAnchor(r) \in Anchors /\ CID(r) \in Keys
  /\ \A a \in Anchors : CID(a) \in Keys /\ a # NoAnchor
<1>1. \A x, y : Len(<<x, y>>) = 2
  OBVIOUS
<1>2. \A r \in Requests : NewAnchor(r) # NoAnchor
  BY <1>1 DEF NewAnchor, NoAnchor
<1>3. QED
  BY <1>2 DEF Anchors, Keys

LEMMA SeqWider ==
  ASSUME NEW S, NEW T, S \subseteq T, NEW s \in Seq(S)
  PROVE  s \in Seq(T)
OBVIOUS

-----------------------------------------------------------------------------
LEMMA InitIInv == Init => IInv
<1> SUFFICES ASSUME Init PROVE IInv
  OBVIOUS
<1> USE DEF Init, CLIInit, Idle
<1>1. Funding \in Seq(Transaction) /\ Len(Funding) <= MaxTx
  <2>1. Funds \in [1..Len(Funds) -> Nat] /\ Len(Funds) \in Nat
    BY BitcoinCLIAssumption
  <2>2. \A u \in 1..Len(Funds) :
          [spends |-> 0, amt |-> Funds[u], anchor |-> NoAnchor,
           at |-> 0, died |-> 0] \in Transaction
    BY <2>1, BitcoinCLIAssumption DEF Transaction
  <2>3. Funding \in [1..Len(Funds) -> Transaction]
    BY <2>1, <2>2 DEF Funding
  <2>4. QED
    BY <2>1, <2>3, BitcoinCLIAssumption
<1>2. \A u \in Txs : /\ chain[u].spends < u
                    /\ chain[u].at <= height /\ chain[u].died <= height
  BY BitcoinCLIAssumption DEF Txs, Funding
<1>3. doc \in Seq(Txs)
  BY GatewayAssumption DEF Txs, Funding
<1>4. TypeOK
  <2>1. [pc |-> "idle"] \in Call
    BY DEF Call
  <2>2. call \in [Tasks -> Call] /\ recs \in [Keys -> Record \cup {None}]
    BY <2>1
  <2>3. /\ q \in Seq(Txs) /\ faults \in 0..MaxFaults /\ height \in 0..MaxHeight
        /\ wiped \subseteq Txs
    BY BitcoinCLIAssumption, GatewayAssumption
  <2>4. QED
    BY <1>1, <1>2, <1>3, <2>2, <2>3 DEF TypeOK
<1>5. RegisterHoldsHead /\ DownIsIdle
  BY GatewayAssumption DEF RegisterHoldsHead, Sending, DownIsIdle
<1>6. QED
  BY <1>4, <1>5 DEF IInv

-----------------------------------------------------------------------------
\* Typing of the steps that only move a call on.
LEMMA CallOnly ==
  ASSUME TypeOK, call' \in [Tasks -> Call],
         UNCHANGED <<cliVars, walletVars, recs, up, faults, wiped>>,
         mu' = mu \/ mu' = "panicked"
  PROVE  TypeOK'
BY DEF TypeOK, cliVars, walletVars, Txs

\* Typing of the steps that also write one record.
LEMMA RecsOnly ==
  ASSUME TypeOK, call' \in [Tasks -> Call],
         recs' \in [Keys -> Record \cup {None}],
         UNCHANGED <<cliVars, walletVars, mu, up, faults, wiped>>
  PROVE  TypeOK'
BY DEF TypeOK, cliVars, walletVars, Txs

LEMMA UpdateType ==
  ASSUME TypeOK, NEW k \in Keys, NEW r \in Record, NEW w,
         recs' = [recs EXCEPT ![k] = After(recs[k], r, w)]
  PROVE  recs' \in [Keys -> Record \cup {None}]
BY DEF TypeOK, After

LEMMA FieldsType ==
  ASSUME TypeOK, NEW k \in Keys, recs[k] # None
  PROVE  /\ \A c \in Told : [recs[k] EXCEPT !.conf = c] \in Record
         /\ \A n \in Names : [recs[k] EXCEPT !.name = n] \in Record
         /\ \A n \in Notes : [recs[k] EXCEPT !.note = n] \in Record
BY DEF TypeOK, Record

LEMMA TxType ==
  ASSUME TypeOK, NEW u \in Txs
  PROVE  /\ chain[u] \in Transaction /\ u \in 1..MaxTx /\ u \in 1..Len(chain)
         /\ chain[u].spends \in Nat /\ chain[u].spends < u
         /\ chain[u].at \in 0..MaxHeight /\ chain[u].at <= height
         /\ chain[u].died \in 0..MaxHeight /\ chain[u].died <= height
<1>1. /\ chain \in Seq(Transaction) /\ Len(chain) <= MaxTx /\ height \in 0..MaxHeight
      /\ chain[u].spends < u /\ chain[u].at <= height /\ chain[u].died <= height
  BY DEF TypeOK
<1>2. chain[u] \in Transaction /\ u \in 1..Len(chain) /\ Len(chain) \in Nat
  BY <1>1 DEF Txs
<1>3. /\ chain[u].spends \in Nat
      /\ chain[u].at \in 0..MaxHeight /\ chain[u].died \in 0..MaxHeight
  BY <1>2, BitcoinCLIAssumption DEF Transaction
<1>4. QED
  BY <1>1, <1>2, <1>3, BitcoinCLIAssumption

\* What the node tells of a transaction, and what becomes of it in the client.
LEMMA ConfirmationsRange ==
  ASSUME TypeOK, NEW u \in Txs
  PROVE  /\ Confirmations(chain[u]) \in Int
         /\ chain[u].died = 0 =>
              /\ Confirmations(chain[u]) = height - chain[u].at
              /\ Confirmations(chain[u]) \in 0..MaxHeight
         /\ chain[u].died # 0 =>
              /\ Confirmations(chain[u]) = chain[u].died - height - 1
              /\ 0 - MaxHeight <= Confirmations(chain[u])
              /\ Confirmations(chain[u]) < 0
         /\ ParseTransactionConfirmations(Confirmations(chain[u]))
              \subseteq Answers(u) \cap Told
<1>1. /\ chain[u].at \in 0..MaxHeight /\ chain[u].at <= height
      /\ chain[u].died \in 0..MaxHeight /\ chain[u].died <= height
      /\ height \in 0..MaxHeight
  BY TxType DEF TypeOK
<1>2. PICK c : c = Confirmations(chain[u])
  OBVIOUS
<1>3. /\ c \in Int
      /\ chain[u].died = 0 => c = height - chain[u].at /\ c \in 0..MaxHeight
      /\ chain[u].died # 0 => /\ c = chain[u].died - height - 1
                              /\ 0 - MaxHeight <= c /\ c < 0
  <2>1. MaxHeight \in Nat
    BY BitcoinCLIAssumption
  <2>2. c = IF chain[u].died # 0 THEN chain[u].died - height - 1
                                 ELSE height - chain[u].at
    BY <1>2 DEF Confirmations
  <2>3. CASE chain[u].died # 0
    BY <1>1, <2>1, <2>2, <2>3
  <2>4. CASE chain[u].died = 0
    BY <1>1, <2>1, <2>2, <2>4
  <2>5. QED
    BY <2>3, <2>4
<1>4. ASSUME NEW n \in ParseTransactionConfirmations(c)
      PROVE  n \in Told /\ n \in Answers(u)
  <2>1. CASE c < 0
    <3>1. /\ n = 0 \/ n = UintMod + c
          /\ 0 - MaxHeight <= c
      BY <1>3, <1>4, <2>1 DEF ParseTransactionConfirmations
    <3>2. n \in Told
      BY <1>3, <2>1, <3>1, BitcoinCLIAssumption DEF Told
    <3>3. Answers(u) = {0} \cup ((UintMod + c)..(UintMod - 1))
      BY <1>2, <2>1 DEF Answers
    <3>4. QED
      BY <1>3, <2>1, <3>1, <3>2, <3>3, BitcoinCLIAssumption
  <2>2. CASE ~(c < 0)
    <3>1. n = c /\ c \in 0..MaxHeight
      BY <1>3, <1>4, <2>2 DEF ParseTransactionConfirmations
    <3>2. Answers(u) = 0..c
      BY <1>2, <2>2 DEF Answers
    <3>3. QED
      BY <3>1, <3>2, BitcoinCLIAssumption DEF Told
  <2>3. QED
    BY <2>1, <2>2
<1>5. QED
  BY <1>2, <1>3, <1>4

\* A block changes nothing about a transaction, or makes one that waits a
\* conflicted one.
LEMMA BlockMoves ==
  ASSUME TypeOK, Mine \/ \E lost \in SUBSET DOMAIN chain : DoubleSpend(lost)
  PROVE  /\ height' = height + 1 /\ height' \in 0..MaxHeight
         /\ chain' \in Seq(Transaction) /\ Len(chain') = Len(chain) /\ Txs' = Txs
         /\ UNCHANGED xUTXO
         /\ \A u \in Txs : \/ chain'[u] = chain[u]
                           \/ /\ chain[u].died = 0 /\ chain[u].at = height
                              /\ chain'[u] = [chain[u] EXCEPT !.died = height']
<1>1. /\ height' = height + 1 /\ height < MaxHeight /\ height \in 0..MaxHeight
      /\ UNCHANGED xUTXO
  BY DEF Mine, DoubleSpend, TypeOK
<1>2. height' \in 0..MaxHeight
  BY <1>1, BitcoinCLIAssumption
<1>3. /\ chain \in Seq(Transaction) /\ Len(chain) \in Nat
      /\ DOMAIN chain = 1..Len(chain)
  BY DEF TypeOK
<1>4. CASE Mine
  BY <1>1, <1>2, <1>3, <1>4 DEF Mine, Txs
<1>5. ASSUME NEW lost \in SUBSET DOMAIN chain, DoubleSpend(lost)
      PROVE  /\ chain' \in Seq(Transaction) /\ Len(chain') = Len(chain)
             /\ Txs' = Txs
             /\ \A u \in Txs : \/ chain'[u] = chain[u]
                               \/ /\ chain[u].died = 0 /\ chain[u].at = height
                                  /\ chain'[u] = [chain[u] EXCEPT !.died = height']
  <2>1. chain' = [u \in DOMAIN chain |->
                    IF u \in lost THEN [chain[u] EXCEPT !.died = height']
                                  ELSE chain[u]]
    BY <1>5 DEF DoubleSpend
  <2>2. \A u \in lost : chain[u].died = 0 /\ ~Mined(chain[u])
    BY <1>5 DEF DoubleSpend
  <2>3. \A u \in lost : chain[u].died = 0 /\ chain[u].at = height
    <3>1. TAKE u \in lost
    <3>2. /\ chain[u].at \in 0..MaxHeight /\ chain[u].at <= height
      BY TxType DEF Txs
    <3>3. chain[u].died = 0 /\ ~(chain[u].at < height)
      BY <2>2 DEF Mined
    <3>4. QED
      BY <1>1, <3>2, <3>3, BitcoinCLIAssumption
  <2>4. \A u \in DOMAIN chain : [chain[u] EXCEPT !.died = height'] \in Transaction
    <3>1. TAKE u \in DOMAIN chain
    <3>2. chain[u] \in Transaction
      BY <1>3
    <3>3. QED
      BY <1>2, <3>2 DEF Transaction
  <2>5. chain' \in [1..Len(chain) -> Transaction]
    BY <1>3, <2>1, <2>4
  <2>6. QED
    BY <1>3, <2>1, <2>3, <2>5 DEF Txs
<1>6. QED
  BY <1>1, <1>2, <1>4, <1>5

LEMMA GetAnchorType ==
  ASSUME TypeOK, NEW u, HasAnchor(u), NEW ar \in GetAnchor(u)
  PROVE  /\ u \in Txs /\ u \in 1..MaxTx
         /\ ar \in Record /\ ar.btctx = u /\ ar.anchor = chain[u].anchor
         /\ ar.conf \in Answers(u) /\ ar.conf \in Told
<1>1. u \in Txs
  BY DEF HasAnchor, Txs
<1>2. chain[u].anchor \in Anchors
  BY <1>1, TxType DEF HasAnchor, Transaction
<1>3. PICK c \in ParseTransactionConfirmations(Confirmations(chain[u])) :
        ar = [anchor |-> chain[u].anchor, btctx |-> u, conf |-> c,
              name |-> "", note |-> ""]
  BY DEF GetAnchor
<1>4. c \in Answers(u) /\ c \in Told
  BY <1>1, ConfirmationsRange
<1>5. QED
  BY <1>1, <1>2, <1>3, <1>4, TxType DEF Record

LEMMA UpdatedType ==
  ASSUME TypeOK, NEW t \in Tasks, NEW w, NEW c \in Call, Updated(t, w, c)
  PROVE  call' \in [Tasks -> Call]
<1>1. CASE w = "ok"
  BY <1>1, GotoType DEF Updated
<1>2. CASE w # "ok"
  BY <1>2, ReturnType DEF Updated
<1>3. QED
  BY <1>1, <1>2

LEMMA SaveType ==
  ASSUME NEW S, NEW w, doc \in Seq(S), q' \in Seq(S), save(w)
  PROVE  doc' \in Seq(S)
BY DEF save, After

\* The ledger after a send is typed like the one before, and every output
\* known before is known after.
LEMMA SendType ==
  ASSUME TypeOK, NEW a \in Anchors, NEW b, PutAnchor(GwNet, a, b)
  PROVE  /\ chain' \in Seq(Transaction)
         /\ Len(chain') = Len(chain) + 1 /\ Len(chain') <= MaxTx
         /\ \A u \in Txs' : /\ chain'[u].spends < u
                           /\ chain'[u].at <= height' /\ chain'[u].died <= height'
         /\ \A u \in Txs : chain'[u] = chain[u]
         /\ chain'[Len(chain')].spends = xUTXO
         /\ chain'[Len(chain')].anchor = a
         /\ chain'[Len(chain')].at = height /\ chain'[Len(chain')].died = 0
         /\ Txs' = Txs \cup {Len(chain')} /\ Len(chain') \notin Txs
         /\ xUTXO \in Txs /\ xUTXO' \in Txs'
         /\ Len(chain') \in 1..MaxTx
<1> DEFINE new == [spends |-> xUTXO, amt |-> Satoshi(chain[xUTXO].amt) - Fee,
                   anchor |-> a, at |-> height, died |-> 0]
<1>1. /\ xUTXO \in Txs /\ Len(chain) < MaxTx
      /\ chain \in Seq(Transaction) /\ Len(chain) \in Nat
  BY DEF TypeOK, PutAnchor, CanSend, Txs
<1>2. Satoshi(chain[xUTXO].amt) - Fee \in Nat
  <2>1. chain[xUTXO].amt \in Nat
    BY <1>1, TxType DEF Transaction
  <2>2. Satoshi(chain[xUTXO].amt) \in Int
    BY <2>1 DEF Satoshi
  <2>3. Satoshi(chain[xUTXO].amt) >= Fee + Dust
    BY DEF PutAnchor, CanSend
  <2>4. QED
    BY <2>2, <2>3, BitcoinCLIAssumption
<1>3. new \in Transaction
  <2>1. xUTXO \in 0..MaxTx /\ height \in 0..MaxHeight /\ 0 \in 0..MaxHeight
    BY <1>1, TxType, BitcoinCLIAssumption DEF TypeOK
  <2>2. QED
    BY <1>2, <2>1 DEF Transaction
<1>4. chain' = Append(chain, new) /\ height' = height
  BY DEF PutAnchor
<1>5. /\ chain' \in Seq(Transaction) /\ Len(chain') = Len(chain) + 1
      /\ \A u \in 1..Len(chain) : chain'[u] = chain[u]
      /\ chain'[Len(chain) + 1] = new
      /\ DOMAIN chain = 1..Len(chain) /\ DOMAIN chain' = 1..(Len(chain) + 1)
  <2> HIDE DEF new
  <2>1. QED
    BY <1>1, <1>3, <1>4
<1>6. Txs' = Txs \cup {Len(chain')} /\ Len(chain') \notin Txs
  BY <1>1, <1>5 DEF Txs
<1>7. \A u \in Txs' : /\ chain'[u].spends < u
                     /\ chain'[u].at <= height' /\ chain'[u].died <= height'
  <2>1. TAKE u \in Txs'
  <2>2. CASE u = Len(chain) + 1
    <3>1. xUTXO < u /\ height <= height /\ 0 <= height
      BY <2>2, <1>1, TxType, BitcoinCLIAssumption DEF TypeOK
    <3>2. QED
      BY <2>2, <3>1, <1>4, <1>5
  <2>3. CASE u \in Txs
    BY <2>3, <1>4, <1>5, TxType
  <2>4. QED
    BY <2>1, <2>2, <2>3, <1>5, <1>6
<1>8. xUTXO' \in Txs'
  BY <1>1, <1>6 DEF PutAnchor
<1>9. /\ chain'[Len(chain')].spends = xUTXO
      /\ chain'[Len(chain')].anchor = a
      /\ chain'[Len(chain')].at = height /\ chain'[Len(chain')].died = 0
  BY <1>5
<1>10. Len(chain') <= MaxTx /\ Len(chain') \in 1..MaxTx
  BY <1>1, <1>5, BitcoinCLIAssumption
<1> HIDE DEF new
<1>11. \A u \in Txs : chain'[u] = chain[u]
  BY <1>5 DEF Txs
<1>12. QED
  BY <1>1, <1>5, <1>6, <1>7, <1>8, <1>9, <1>10, <1>11

-----------------------------------------------------------------------------
\* Every step keeps the types.
LEMMA TypeStep == IInv /\ [Next]_vars => TypeOK'
<1> SUFFICES ASSUME IInv, [Next]_vars PROVE TypeOK'
  OBVIOUS
<1> TypeOK
  BY DEF IInv
<1>1. ASSUME NEW t \in Tasks, NEW r \in Requests, RegisterTransaction(t, r)
      PROVE  TypeOK'
  <2>1. [pc |-> "register", anchor |-> NewAnchor(r)] \in Call
    BY IdsKnown DEF Call
  <2>2. QED
    BY <1>1, <2>1, GotoType, CallOnly DEF RegisterTransaction
<1>2. ASSUME NEW t \in Tasks, SetUTXO(t)
      PROVE  TypeOK'
  <2>1. call' \in [Tasks -> Call]
    <3>1. CASE q # << >>
      <4>1. [call[t] EXCEPT !.pc = "put"] \in Call
        BY <1>2, CallFields DEF Call, SetUTXO, At
      <4>2. QED
        BY <1>2, <3>1, <4>1, GotoType DEF SetUTXO
    <3>2. CASE q = << >>
      BY <1>2, <3>2, ReturnType DEF SetUTXO
    <3>3. QED
      BY <3>1, <3>2
  <2>2. xUTXO' \in {0} \cup Txs
    <3>1. CASE q # << >>
      <4>1. Head(q) \in Txs
        BY <3>1 DEF TypeOK
      <4>2. QED
        BY <1>2, <3>1, <4>1 DEF SetUTXO, XSetUTXO, PeekNextUTXO
    <3>2. CASE q = << >>
      BY <1>2, <3>2 DEF SetUTXO, TypeOK
    <3>3. QED
      BY <3>1, <3>2
  <2>3. mu' \in Tasks \cup {None, "panicked"}
    BY <1>2 DEF SetUTXO, Lock, TypeOK
  <2>4. QED
    BY <1>2, <2>1, <2>2, <2>3 DEF SetUTXO, TypeOK, walletVars, Txs
<1>3. ASSUME NEW t \in Tasks, PutAnchorFails(t)
      PROVE  TypeOK'
  <2>1. call' \in [Tasks -> Call]
    BY <1>3, ReturnType DEF PutAnchorFails
  <2>2. QED
    BY <1>3, <2>1 DEF PutAnchorFails, Unlock, TypeOK, cliVars, walletVars, Txs
<1>4. ASSUME NEW t \in Tasks, PutAnchorSends(t)
      PROVE  TypeOK'
  <2>1. PICK b \in BOOLEAN : PutAnchor(GwNet, call[t].anchor, b)
    BY <1>4 DEF PutAnchorSends
  <2>2. call[t].anchor \in Anchors
    BY <1>4, CallFields DEF PutAnchorSends, At
  <2>3. /\ chain' \in Seq(Transaction) /\ Len(chain') <= MaxTx
        /\ \A u \in Txs' : /\ chain'[u].spends < u
                          /\ chain'[u].at <= height' /\ chain'[u].died <= height'
        /\ Txs \subseteq Txs' /\ xUTXO' \in {0} \cup Txs'
        /\ Len(chain') \in 1..MaxTx
    BY <2>1, <2>2, SendType
  <2>4. call' \in [Tasks -> Call] /\ mu' \in Tasks \cup {None, "panicked"}
        /\ faults' \in 0..MaxFaults
    <3>1. CASE PutAnchor(GwNet, call[t].anchor, TRUE) /\ UNCHANGED <<mu, faults>>
               /\ Goto(t, [pc |-> "next", tx |-> xUTXO'])
      <4>1. [pc |-> "next", tx |-> xUTXO'] \in Call
        BY <2>3, <3>1 DEF PutAnchor, Call
      <4>2. QED
        BY <3>1, <4>1, GotoType DEF TypeOK
    <3>2. CASE Fault("unacked") /\ Unlock(t) /\ Return(t, "err")
      <4>1. call' \in [Tasks -> Call]
        BY <3>2, ReturnType
      <4>2. QED
        BY <3>2, <4>1, GatewayAssumption DEF Fault, Unlock, TypeOK
    <3>3. QED
      BY <1>4, <3>1, <3>2 DEF PutAnchorSends
  <2>5. q \in Seq(Txs') /\ doc \in Seq(Txs')
    BY <2>3, SeqWider DEF TypeOK
  <2>6. UNCHANGED <<q, doc, recs, up, height, wiped>>
    BY <1>4, <2>1 DEF PutAnchorSends, PutAnchor, walletVars
  <2>7. QED
    BY <2>3, <2>4, <2>5, <2>6 DEF TypeOK
<1>5. ASSUME NEW t \in Tasks, NEW w \in Outcomes, DropUTXO(t, w)
      PROVE  TypeOK'
  <2>1. call' \in [Tasks -> Call] /\ mu' \in Tasks \cup {None, "panicked"}
    <3>1. CASE w = "ok"
      <4>1. [call[t] EXCEPT !.pc = "add"] \in Call
        BY <1>5, CallFields DEF Call, DropUTXO, At
      <4>2. QED
        BY <1>5, <3>1, <4>1, GotoType DEF DropUTXO, TypeOK
    <3>2. CASE w # "ok"
      BY <1>5, <3>2, ReturnType DEF DropUTXO, Unlock
    <3>3. QED
      BY <3>1, <3>2
  <2>2. q' \in Seq(Txs) /\ doc' \in Seq(Txs)
    <3>1. q' \in Seq(Txs)
      BY <1>5 DEF DropUTXO, NextUTXO, TypeOK
    <3>2. QED
      BY <1>5, <3>1, SaveType DEF DropUTXO, NextUTXO, TypeOK
  <2>3. faults' \in 0..MaxFaults
    BY <1>5, GatewayAssumption DEF DropUTXO, Fault, TypeOK
  <2>4. QED
    BY <1>5, <2>1, <2>2, <2>3 DEF DropUTXO, TypeOK, cliVars, Txs
<1>6. ASSUME NEW t \in Tasks, NEW w \in Outcomes, KeepChange(t, w)
      PROVE  TypeOK'
  <2>1. call[t] \in [pc : {"next", "add", "ok"}, tx : 1..MaxTx]
        /\ call[t].tx = xUTXO
    BY <1>6, CallFields DEF KeepChange, At, IInv, RegisterHoldsHead
  <2>2. xUTXO \in Txs
    BY <2>1 DEF TypeOK
  <2>3. call' \in [Tasks -> Call] /\ mu' \in Tasks \cup {None, "panicked"}
    <3>1. CASE w = "ok"
      <4>1. [call[t] EXCEPT !.pc = "ok"] \in Call
        BY <2>1 DEF Call
      <4>2. QED
        BY <1>6, <3>1, <4>1, GotoType DEF KeepChange, Unlock
    <3>2. CASE w # "ok"
      BY <1>6, <3>2, ReturnType DEF KeepChange, Unlock
    <3>3. QED
      BY <3>1, <3>2
  <2>4. q' \in Seq(Txs) /\ doc' \in Seq(Txs)
    <3>1. q' \in Seq(Txs)
      BY <1>6, <2>2 DEF KeepChange, AddUTXO, TypeOK
    <3>2. QED
      BY <1>6, <3>1, SaveType DEF KeepChange, AddUTXO, TypeOK
  <2>5. faults' \in 0..MaxFaults
    BY <1>6, GatewayAssumption DEF KeepChange, Fault, TypeOK
  <2>6. QED
    BY <1>6, <2>3, <2>4, <2>5 DEF KeepChange, TypeOK, cliVars, Txs
<1>7. ASSUME NEW t \in Tasks, NEW tx \in 0..MaxTx, StoreRecord(t, tx)
      PROVE  TypeOK'
  <2>1. [pc |-> "store", tx |-> tx] \in Call
    BY DEF Call
  <2>2. QED
    BY <1>7, <2>1, GotoType, CallOnly DEF StoreRecord
<1>8. ASSUME NEW t \in Tasks, NEW ask \in BOOLEAN, StoreGetAnchor(t, ask)
      PROVE  TypeOK'
  <2>1. ASSUME HasAnchor(call[t].tx), NEW ar \in GetAnchor(call[t].tx),
               Goto(t, [pc |-> "storePut", ar |-> ar])
        PROVE  call' \in [Tasks -> Call]
    <3>1. [pc |-> "storePut", ar |-> ar] \in Call
      BY <2>1, GetAnchorType DEF Call
    <3>2. QED
      BY <1>8, <2>1, <3>1, GotoType
  <2>2. ASSUME Return(t, "err")
        PROVE  call' \in [Tasks -> Call]
    BY <1>8, <2>2, ReturnType
  <2>3. call' \in [Tasks -> Call]
    BY <1>8, <2>1, <2>2 DEF StoreGetAnchor, GetAnchorPanics
  <2>4. QED
    BY <1>8, <2>3, CallOnly DEF StoreGetAnchor, GetAnchorPanics
<1>9. ASSUME NEW t \in Tasks, NEW w \in Outcomes, StorePut(t, w)
      PROVE  TypeOK'
  <2>1. call[t].ar \in Record /\ CID(call[t].ar.anchor) \in Keys
    BY <1>9, CallFields, IdsKnown DEF StorePut, At, Record
  <2>2. recs' \in [Keys -> Record \cup {None}]
    BY <1>9, <2>1, UpdateType DEF StorePut, Put
  <2>3. call' \in [Tasks -> Call]
    BY <1>9, ReturnType DEF StorePut
  <2>4. QED
    BY <1>9, <2>2, <2>3, RecsOnly DEF StorePut
<1>10. ASSUME NEW t \in Tasks, NEW r \in Requests, NEW read \in BOOLEAN,
              GetRecord(t, r, read)
       PROVE  TypeOK'
  <2>1. CASE read /\ recs[CID(r)] # None
    <3>1. [pc |-> "ok", ar |-> recs[CID(r)]] \in Call
      BY <2>1, IdsKnown DEF TypeOK, Call
    <3>2. QED
      BY <1>10, <2>1, <3>1, GotoType, CallOnly DEF GetRecord
  <2>2. CASE ~(read /\ recs[CID(r)] # None)
    BY <1>10, <2>2, ReturnType, CallOnly DEF GetRecord
  <2>3. QED
    BY <2>1, <2>2
<1>11. ASSUME NEW t \in Tasks, NEW r \in Requests, NEW read \in BOOLEAN,
              NEW name \in Names \cup {None}, NEW note \in Notes \cup {None},
              RefreshRecord(t, r, name, note, read)
       PROVE  TypeOK'
  <2>1. CASE read /\ recs[CID(r)] # None
    <3>1. recs[CID(r)] \in Record /\ CID(r) \in Keys
      BY <2>1, IdsKnown DEF TypeOK
    <3>2. recs[CID(r)].btctx \in 1..MaxTx
      BY <3>1 DEF Record
    <3>3. [pc |-> "refresh", key |-> CID(r), tx |-> recs[CID(r)].btctx,
           name |-> name, note |-> note] \in Call
      BY <3>1, <3>2 DEF Call
    <3>4. QED
      BY <1>11, <2>1, <3>3, GotoType, CallOnly DEF RefreshRecord
  <2>2. CASE ~(read /\ recs[CID(r)] # None)
    BY <1>11, <2>2, ReturnType, CallOnly DEF RefreshRecord
  <2>3. QED
    BY <2>1, <2>2
<1>12. ASSUME NEW t \in Tasks, NEW ask \in BOOLEAN, RefreshGetAnchor(t, ask)
       PROVE  TypeOK'
  <2>1. ASSUME HasAnchor(call[t].tx), NEW ar \in GetAnchor(call[t].tx),
               Goto(t, [pc |-> "conf", key |-> call[t].key, tx |-> call[t].tx,
                        conf |-> ar.conf,
                        name |-> call[t].name, note |-> call[t].note])
        PROVE  call' \in [Tasks -> Call]
    <3>1. ar.conf \in Told
      BY <2>1, GetAnchorType
    <3>2. [pc |-> "conf", key |-> call[t].key, tx |-> call[t].tx,
           conf |-> ar.conf,
           name |-> call[t].name, note |-> call[t].note] \in Call
      BY <1>12, <3>1, CallFields DEF RefreshGetAnchor, At, Call
    <3>3. QED
      BY <1>12, <2>1, <3>2, GotoType
  <2>2. ASSUME Return(t, "err")
        PROVE  call' \in [Tasks -> Call]
    BY <1>12, <2>2, ReturnType
  <2>3. call' \in [Tasks -> Call]
    BY <1>12, <2>1, <2>2 DEF RefreshGetAnchor, GetAnchorPanics
  <2>4. QED
    BY <1>12, <2>3, CallOnly DEF RefreshGetAnchor, GetAnchorPanics
<1>13. ASSUME NEW t \in Tasks, NEW w \in Outcomes, RefreshConfirmations(t, w)
       PROVE  TypeOK'
  <2>1. AfterConf(call[t]) \in Call
    BY <1>13, CallFields DEF RefreshConfirmations, At, AfterConf, AfterName, Call
  <2>2. [recs[call[t].key] EXCEPT !.conf = call[t].conf] \in Record
        /\ call[t].key \in Keys
    BY <1>13, CallFields, FieldsType
    DEF RefreshConfirmations, At, UpdateConfirmations, UpdateEntity
  <2>3. recs' \in [Keys -> Record \cup {None}]
    BY <1>13, <2>2, UpdateType
    DEF RefreshConfirmations, UpdateConfirmations, UpdateEntity
  <2>4. QED
    BY <1>13, <2>1, <2>3, UpdatedType, RecsOnly DEF RefreshConfirmations
<1>14. ASSUME NEW t \in Tasks, NEW w \in Outcomes, RefreshName(t, w)
       PROVE  TypeOK'
  <2>1. AfterName(call[t]) \in Call
    BY <1>14, CallFields DEF RefreshName, At, AfterName, Call
  <2>2. [recs[call[t].key] EXCEPT !.name = call[t].name] \in Record
        /\ call[t].key \in Keys
    BY <1>14, CallFields, FieldsType
    DEF RefreshName, At, UpdateBBc1DomainName, UpdateEntity
  <2>3. recs' \in [Keys -> Record \cup {None}]
    BY <1>14, <2>2, UpdateType DEF RefreshName, UpdateBBc1DomainName, UpdateEntity
  <2>4. QED
    BY <1>14, <2>1, <2>3, UpdatedType, RecsOnly DEF RefreshName
<1>15. ASSUME NEW t \in Tasks, NEW w \in Outcomes, RefreshNote(t, w)
       PROVE  TypeOK'
  <2>1. [pc |-> "ok"] \in Call
    BY DEF Call
  <2>2. [recs[call[t].key] EXCEPT !.note = call[t].note] \in Record
        /\ call[t].key \in Keys
    BY <1>15, CallFields, FieldsType DEF RefreshNote, At, UpdateNote, UpdateEntity
  <2>3. recs' \in [Keys -> Record \cup {None}]
    BY <1>15, <2>2, UpdateType DEF RefreshNote, UpdateNote, UpdateEntity
  <2>4. QED
    BY <1>15, <2>1, <2>3, UpdatedType, RecsOnly DEF RefreshNote
<1>16. ASSUME NEW t \in Tasks, Done(t)
       PROVE  TypeOK'
  <2>1. Idle \in Call
    BY DEF Idle, Call
  <2>2. QED
    BY <1>16, <2>1, GotoType, CallOnly DEF Done
<1>17. ASSUME Stop
       PROVE  TypeOK'
  <2>1. call' \in [Tasks -> Call]
    BY <1>17 DEF Stop, Idle, Call
  <2>2. faults' \in 0..MaxFaults
    BY <1>17, GatewayAssumption DEF Stop, Fault, TypeOK
  <2>3. q' \in Seq(Txs) /\ UNCHANGED <<chain, height, doc, recs, wiped>>
        /\ xUTXO' = 0 /\ mu' = None /\ up' = FALSE
    BY <1>17 DEF Stop
  <2>4. QED
    BY <2>1, <2>2, <2>3 DEF TypeOK, Txs
<1>18. ASSUME NEW read \in BOOLEAN, Start(read)
       PROVE  TypeOK'
  <2>1. q' \in Seq(Txs)
    BY <1>18 DEF Start, load, TypeOK
  <2>2. up' = TRUE /\ UNCHANGED <<chain, height, xUTXO, doc, recs, mu, call, faults, wiped>>
    BY <1>18 DEF Start, cliVars
  <2>3. QED
    BY <2>1, <2>2 DEF TypeOK, Txs
<1>19. ASSUME NEW u \in Txs, NEW read \in BOOLEAN, NEW w \in Outcomes,
              NEW wClose \in Outcomes, OperatorAdd(u, read, w, wClose)
       PROVE  TypeOK'
  <2>1. doc' = doc \/ doc' = Append(IF read THEN doc ELSE << >>, u)
    BY <1>19 DEF OperatorAdd, After
  <2>2. doc \in Seq(Txs) /\ doc' \in Seq(Txs)
    <3>1. doc \in Seq(Txs) /\ << >> \in Seq(Txs)
      BY DEF TypeOK
    <3>2. Append(doc, u) \in Seq(Txs) /\ Append(<< >>, u) \in Seq(Txs)
      BY <1>19, <3>1, AppendProperties
    <3>3. QED
      BY <2>1, <3>1, <3>2
  <2>3. wiped' \subseteq Txs
    <3>1. Range(doc) \subseteq Txs
      BY <2>2 DEF Range
    <3>2. QED
      BY <1>19, <3>1 DEF OperatorAdd, TypeOK
  <2>4. UNCHANGED <<chain, height, xUTXO, q, recs, mu, call, up, faults>>
    BY <1>19 DEF OperatorAdd, cliVars
  <2>5. QED
    BY <2>2, <2>3, <2>4 DEF TypeOK, Txs
<1>20. ASSUME Blocks
       PROVE  TypeOK'
  <2>1. /\ height' = height + 1 /\ height' \in 0..MaxHeight
        /\ chain' \in Seq(Transaction) /\ Len(chain') = Len(chain) /\ Txs' = Txs
        /\ UNCHANGED <<xUTXO, q, doc, recs, mu, call, up, faults, wiped>>
    BY <1>20, BlockMoves DEF Blocks, walletVars, gwVars
  <2>2. ASSUME NEW u \in Txs
        PROVE  /\ chain'[u].spends < u
               /\ chain'[u].at <= height' /\ chain'[u].died <= height'
    <3>1. /\ chain[u] \in Transaction /\ chain[u].spends < u
          /\ chain[u].at \in 0..MaxHeight /\ chain[u].at <= height
          /\ chain[u].died \in 0..MaxHeight /\ chain[u].died <= height
          /\ height \in 0..MaxHeight
      BY TxType DEF TypeOK
    <3>2. CASE chain'[u] = chain[u]
      BY <2>1, <3>1, <3>2, BitcoinCLIAssumption
    <3>3. CASE chain'[u] = [chain[u] EXCEPT !.died = height']
      <4>1. /\ chain'[u].spends = chain[u].spends /\ chain'[u].at = chain[u].at
            /\ chain'[u].died = height'
        BY <3>1, <3>3 DEF Transaction
      <4>2. QED
        BY <2>1, <3>1, <4>1, BitcoinCLIAssumption
    <3>4. QED
      BY <1>20, <3>2, <3>3, BlockMoves DEF Blocks
  <2>3. QED
    BY <2>1, <2>2 DEF TypeOK
<1>21. ASSUME UNCHANGED vars
       PROVE  TypeOK'
  BY <1>21 DEF vars, TypeOK, Txs
<1>22. QED
  BY <1>1, <1>2, <1>3, <1>4, <1>5, <1>6, <1>7, <1>8, <1>9, <1>10, <1>11, <1>12,
     <1>13, <1>14, <1>15, <1>16, <1>17, <1>18, <1>19, <1>20, <1>21
  DEF Next, Request, Acquire, Serve, Txs

-----------------------------------------------------------------------------
\* A task that is not past the lock, before and after a step that touches
\* neither lock, queue, ledger nor xUTXO, disturbs nobody's hold.
LEMMA OthersHold ==
  ASSUME IInv, NEW t \in Tasks, up, UNCHANGED <<chain, xUTXO, q, mu, up>>,
         call[t].pc \notin Sending,
         NEW c, Goto(t, c), c.pc \notin Sending
  PROVE  RegisterHoldsHead' /\ DownIsIdle'
<1>1. call' = [call EXCEPT ![t] = c] /\ call \in [Tasks -> Call]
  BY DEF Goto, IInv, TypeOK
<1>2. \A s \in Tasks : s # t => call'[s] = call[s]
  BY <1>1
<1>3. call'[t].pc \notin Sending
  BY <1>1
<1>4. QED
  BY <1>2, <1>3 DEF RegisterHoldsHead, DownIsIdle, Sending, IInv

\* After an unlock by the holder, nobody is past the lock.
LEMMA UnlockFrees ==
  ASSUME IInv, NEW t \in Tasks, mu = t, Unlock(t), up' = up, up,
         NEW c, Goto(t, c), c.pc \notin Sending
  PROVE  RegisterHoldsHead' /\ DownIsIdle'
<1>1. call' = [call EXCEPT ![t] = c] /\ call \in [Tasks -> Call]
  BY DEF Goto, IInv, TypeOK
<1>2. \A s \in Tasks : call'[s].pc \notin Sending
  <2>1. TAKE s \in Tasks
  <2>2. CASE s = t
    BY <1>1, <2>2
  <2>3. CASE s # t
    BY <1>1, <2>3 DEF IInv, RegisterHoldsHead
  <2>4. QED
    BY <2>2, <2>3
<1>3. QED
  BY <1>2, GatewayAssumption DEF RegisterHoldsHead, DownIsIdle, Sending, Unlock

\* What the holder may do without letting the lock go.
LEMMA HolderMoves ==
  ASSUME IInv, NEW t \in Tasks, up, up' = up, mu' = t,
         \A s \in Tasks : s # t => call[s].pc \notin Sending,
         NEW c, Goto(t, c), c.pc \in Sending,
         c.pc = "put"  => q' # << >> /\ xUTXO' = Head(q'),
         c.pc = "next" => /\ q' # << >> /\ chain'[xUTXO'].spends = Head(q')
                          /\ c.tx = xUTXO',
         c.pc = "add"  => c.tx = xUTXO'
  PROVE  RegisterHoldsHead' /\ DownIsIdle'
<1>1. call' = [call EXCEPT ![t] = c] /\ call \in [Tasks -> Call]
  BY DEF Goto, IInv, TypeOK
<1>2. call'[t] = c /\ \A s \in Tasks : s # t => call'[s] = call[s]
  BY <1>1
<1>3. QED
  BY <1>2 DEF RegisterHoldsHead, DownIsIdle, Sending

\* Every step keeps the lock's discipline.
LEMMA HoldStep == IInv /\ [Next]_vars => RegisterHoldsHead' /\ DownIsIdle'
<1> SUFFICES ASSUME IInv, [Next]_vars PROVE RegisterHoldsHead' /\ DownIsIdle'
  OBVIOUS
<1> TypeOK /\ RegisterHoldsHead /\ DownIsIdle
  BY DEF IInv
<1> USE DEF Sending
<1>1. ASSUME NEW t \in Tasks, NEW r \in Requests, RegisterTransaction(t, r)
      PROVE  RegisterHoldsHead' /\ DownIsIdle'
  BY <1>1, OthersHold DEF RegisterTransaction, At, cliVars, walletVars
<1>2. ASSUME NEW t \in Tasks, SetUTXO(t)
      PROVE  RegisterHoldsHead' /\ DownIsIdle'
  <2>1. CASE q # << >>
    <3>1. \A s \in Tasks : s # t => call[s].pc \notin Sending
      BY <1>2, <2>1, GatewayAssumption DEF SetUTXO, Lock, RegisterHoldsHead
    <3>2. [call[t] EXCEPT !.pc = "put"].pc = "put"
      BY <1>2, CallFields DEF SetUTXO, At
    <3>3. q' = q /\ xUTXO' = Head(q') /\ mu' = t /\ up /\ up' = up
          /\ Goto(t, [call[t] EXCEPT !.pc = "put"])
      BY <1>2, <2>1 DEF SetUTXO, Lock, XSetUTXO, PeekNextUTXO, At, walletVars
    <3>4. QED
      BY <2>1, <3>1, <3>2, <3>3, HolderMoves
  <2>2. CASE q = << >>
    BY <1>2, <2>2, OthersHold DEF SetUTXO, At, Return, walletVars
  <2>3. QED
    BY <2>1, <2>2
<1>3. ASSUME NEW t \in Tasks, PutAnchorFails(t)
      PROVE  RegisterHoldsHead' /\ DownIsIdle'
  BY <1>3, UnlockFrees DEF PutAnchorFails, At, Return, RegisterHoldsHead
<1>4. ASSUME NEW t \in Tasks, PutAnchorSends(t)
      PROVE  RegisterHoldsHead' /\ DownIsIdle'
  <2>1. mu = t /\ up /\ up' = up /\ q' = q /\ q # << >> /\ xUTXO = Head(q)
    BY <1>4 DEF PutAnchorSends, At, RegisterHoldsHead, walletVars
  <2>2. CASE Unlock(t) /\ Return(t, "err")
    BY <2>1, <2>2, UnlockFrees DEF Return
  <2>3. CASE PutAnchor(GwNet, call[t].anchor, TRUE) /\ UNCHANGED mu
             /\ Goto(t, [pc |-> "next", tx |-> xUTXO'])
    <3>1. call[t].anchor \in Anchors
      BY <1>4, CallFields DEF PutAnchorSends, At
    <3>2. chain'[xUTXO'].spends = xUTXO
      BY <2>3, <3>1, SendType DEF PutAnchor
    <3>3. \A s \in Tasks : s # t => call[s].pc \notin Sending
      BY <2>1 DEF RegisterHoldsHead
    <3>4. QED
      BY <2>1, <2>3, <3>2, <3>3, HolderMoves
  <2>4. QED
    BY <1>4, <2>2, <2>3 DEF PutAnchorSends
<1>5. ASSUME NEW t \in Tasks, NEW w \in Outcomes, DropUTXO(t, w)
      PROVE  RegisterHoldsHead' /\ DownIsIdle'
  <2>1. mu = t /\ up /\ up' = up /\ call[t].tx = xUTXO /\ xUTXO' = xUTXO
    BY <1>5 DEF DropUTXO, At, RegisterHoldsHead, cliVars
  <2>2. CASE w = "ok"
    <3>1. [call[t] EXCEPT !.pc = "add"].pc = "add"
          /\ [call[t] EXCEPT !.pc = "add"].tx = xUTXO
      BY <1>5, <2>1, CallFields DEF DropUTXO, At
    <3>2. \A s \in Tasks : s # t => call[s].pc \notin Sending
      BY <2>1 DEF RegisterHoldsHead
    <3>3. QED
      BY <1>5, <2>1, <2>2, <3>1, <3>2, HolderMoves DEF DropUTXO
  <2>3. CASE w # "ok"
    BY <1>5, <2>1, <2>3, UnlockFrees DEF DropUTXO, Return
  <2>4. QED
    BY <2>2, <2>3
<1>6. ASSUME NEW t \in Tasks, NEW w \in Outcomes, KeepChange(t, w)
      PROVE  RegisterHoldsHead' /\ DownIsIdle'
  <2>1. mu = t /\ up /\ up' = up /\ Unlock(t)
    BY <1>6 DEF KeepChange, At, RegisterHoldsHead
  <2>2. CASE w = "ok"
    <3>1. [call[t] EXCEPT !.pc = "ok"].pc = "ok"
      BY <1>6, CallFields DEF KeepChange, At
    <3>2. QED
      BY <1>6, <2>1, <2>2, <3>1, UnlockFrees DEF KeepChange
  <2>3. CASE w # "ok"
    BY <1>6, <2>1, <2>3, UnlockFrees DEF KeepChange, Return
  <2>4. QED
    BY <2>2, <2>3
<1>7. ASSUME NEW t \in Tasks, NEW tx \in 0..MaxTx, StoreRecord(t, tx)
      PROVE  RegisterHoldsHead' /\ DownIsIdle'
  BY <1>7, OthersHold DEF StoreRecord, At, cliVars, walletVars
<1>g. ASSUME NEW t \in Tasks, up, UNCHANGED <<chain, xUTXO, q, up>>, mu = None,
             call[t].pc \notin Sending, NEW c, Goto(t, c), c.pc \notin Sending,
             mu' = mu \/ mu' = "panicked"
      PROVE  RegisterHoldsHead' /\ DownIsIdle'
  <2>1. call' = [call EXCEPT ![t] = c] /\ call \in [Tasks -> Call]
    BY <1>g DEF Goto, TypeOK
  <2>2. \A s \in Tasks : call[s].pc \notin Sending
    BY <1>g, GatewayAssumption DEF RegisterHoldsHead
  <2>3. \A s \in Tasks : call'[s].pc \notin Sending
    BY <1>g, <2>1, <2>2
  <2>4. mu' \notin Tasks
    BY <1>g, GatewayAssumption
  <2>5. QED
    BY <1>g, <2>3, <2>4 DEF RegisterHoldsHead, DownIsIdle
<1>8. ASSUME NEW t \in Tasks, NEW ask \in BOOLEAN, StoreGetAnchor(t, ask)
      PROVE  RegisterHoldsHead' /\ DownIsIdle'
  <2>1. ASSUME NEW ar, Goto(t, [pc |-> "storePut", ar |-> ar])
        PROVE  \E c : Goto(t, c) /\ c.pc \notin Sending
    BY <2>1
  <2>2. ASSUME Return(t, "err")
        PROVE  \E c : Goto(t, c) /\ c.pc \notin Sending
    BY <2>2 DEF Return
  <2>3. PICK c : Goto(t, c) /\ c.pc \notin Sending
    BY <1>8, <2>1, <2>2 DEF StoreGetAnchor, GetAnchorPanics
  <2>4. QED
    BY <1>8, <1>g, <2>3
    DEF StoreGetAnchor, GetAnchorPanics, At, cliVars, walletVars
<1>9. ASSUME NEW t \in Tasks, NEW w \in Outcomes, StorePut(t, w)
      PROVE  RegisterHoldsHead' /\ DownIsIdle'
  BY <1>9, OthersHold DEF StorePut, At, Return, cliVars, walletVars
<1>10. ASSUME NEW t \in Tasks, NEW r \in Requests, NEW read \in BOOLEAN,
              GetRecord(t, r, read)
       PROVE  RegisterHoldsHead' /\ DownIsIdle'
  BY <1>10, OthersHold DEF GetRecord, At, Return, cliVars, walletVars
<1>11. ASSUME NEW t \in Tasks, NEW r \in Requests, NEW read \in BOOLEAN,
              NEW name \in Names \cup {None}, NEW note \in Notes \cup {None},
              RefreshRecord(t, r, name, note, read)
       PROVE  RegisterHoldsHead' /\ DownIsIdle'
  BY <1>11, OthersHold DEF RefreshRecord, At, Return, cliVars, walletVars
<1>12. ASSUME NEW t \in Tasks, NEW ask \in BOOLEAN, RefreshGetAnchor(t, ask)
       PROVE  RegisterHoldsHead' /\ DownIsIdle'
  <2>1. ASSUME NEW n, Goto(t, [pc |-> "conf", key |-> call[t].key, tx |-> call[t].tx,
                               conf |-> n,
                               name |-> call[t].name, note |-> call[t].note])
        PROVE  \E c : Goto(t, c) /\ c.pc \notin Sending
    BY <2>1
  <2>2. ASSUME Return(t, "err")
        PROVE  \E c : Goto(t, c) /\ c.pc \notin Sending
    BY <2>2 DEF Return
  <2>3. PICK c : Goto(t, c) /\ c.pc \notin Sending
    BY <1>12, <2>1, <2>2 DEF RefreshGetAnchor, GetAnchorPanics
  <2>4. QED
    BY <1>12, <1>g, <2>3
    DEF RefreshGetAnchor, GetAnchorPanics, At, cliVars, walletVars
<1>13. ASSUME NEW t \in Tasks, NEW w \in Outcomes, RefreshConfirmations(t, w)
       PROVE  RegisterHoldsHead' /\ DownIsIdle'
  <2>1. AfterConf(call[t]).pc \notin Sending
    BY DEF AfterConf, AfterName
  <2>2. QED
    BY <1>13, <2>1, OthersHold
    DEF RefreshConfirmations, At, Updated, Return, cliVars, walletVars
<1>14. ASSUME NEW t \in Tasks, NEW w \in Outcomes, RefreshName(t, w)
       PROVE  RegisterHoldsHead' /\ DownIsIdle'
  <2>1. AfterName(call[t]).pc \notin Sending
    BY DEF AfterName
  <2>2. QED
    BY <1>14, <2>1, OthersHold
    DEF RefreshName, At, Updated, Return, cliVars, walletVars
<1>15. ASSUME NEW t \in Tasks, NEW w \in Outcomes, RefreshNote(t, w)
       PROVE  RegisterHoldsHead' /\ DownIsIdle'
  BY <1>15, OthersHold DEF RefreshNote, At, Updated, Return, cliVars, walletVars
<1>16. ASSUME NEW t \in Tasks, Done(t)
       PROVE  RegisterHoldsHead' /\ DownIsIdle'
  BY <1>16, OthersHold DEF Done, Idle, cliVars, walletVars
<1>17. ASSUME Stop
       PROVE  RegisterHoldsHead' /\ DownIsIdle'
  BY <1>17, GatewayAssumption DEF Stop, Idle, RegisterHoldsHead, DownIsIdle
<1>18. ASSUME NEW read \in BOOLEAN, Start(read)
       PROVE  RegisterHoldsHead' /\ DownIsIdle'
  BY <1>18, GatewayAssumption DEF Start, Idle, RegisterHoldsHead, DownIsIdle, cliVars
<1>19. ASSUME NEW u \in Txs, NEW read \in BOOLEAN, NEW w \in Outcomes,
              NEW wClose \in Outcomes, OperatorAdd(u, read, w, wClose)
       PROVE  RegisterHoldsHead' /\ DownIsIdle'
  BY <1>19 DEF OperatorAdd, RegisterHoldsHead, DownIsIdle, cliVars
<1>20. ASSUME Blocks
       PROVE  RegisterHoldsHead' /\ DownIsIdle'
  <2>1. /\ UNCHANGED <<xUTXO, q, mu, call, up>>
        /\ \A u \in Txs : chain'[u].spends = chain[u].spends
    <3>1. \A u \in Txs : chain[u] \in Transaction
      BY TxType
    <3>2. QED
      BY <1>20, <3>1, BlockMoves DEF Blocks, walletVars, gwVars, Transaction
  <2>2. \A t \in Tasks : call[t].pc = "next" => xUTXO \in Txs
    BY CallFields DEF RegisterHoldsHead, TypeOK
  <2>3. QED
    BY <2>1, <2>2 DEF RegisterHoldsHead, DownIsIdle
<1>21. ASSUME UNCHANGED vars
       PROVE  RegisterHoldsHead' /\ DownIsIdle'
  BY <1>21 DEF vars, RegisterHoldsHead, DownIsIdle
<1>22. QED
  BY <1>1, <1>2, <1>3, <1>4, <1>5, <1>6, <1>7, <1>8, <1>9, <1>10, <1>11, <1>12,
     <1>13, <1>14, <1>15, <1>16, <1>17, <1>18, <1>19, <1>20, <1>21
  DEF Next, Request, Acquire, Serve, Txs

LEMMA IInvHolds == Spec => []IInv
<1>1. IInv /\ [Next]_vars => IInv'
  BY TypeStep, HoldStep DEF IInv
<1>2. QED
  BY InitIInv, <1>1, PTL DEF Spec

(***************************************************************************)
(* Type correctness.                                                       *)
(***************************************************************************)
THEOREM TypeCorrect == Spec => []TypeOK
<1>1. IInv => TypeOK
  BY DEF IInv
<1>2. QED
  BY IInvHolds, <1>1, PTL

(***************************************************************************)
(* Whatever fails and whenever the process dies: at most one register call *)
(* is past the lock, it spends the head of the queue it will drop, and it  *)
(* keeps the output it made.                                               *)
(***************************************************************************)
THEOREM RegisterSound == Spec => []RegisterHoldsHead
<1>1. IInv => RegisterHoldsHead
  BY DEF IInv
<1>2. QED
  BY IInvHolds, <1>1, PTL

-----------------------------------------------------------------------------
(***************************************************************************)
(* The records.  What is stored was read from the ledger by some call, and *)
(* between reading and writing other calls and the node go on; so the      *)
(* invariant is also about what the calls carry.  It holds because the     *)
(* ledger only grows: what a call was told of a transaction stays among    *)
(* what was told of it, if perhaps no longer the newest.                   *)
(***************************************************************************)
IsAnchorOf(k, u) == /\ u \in Txs /\ chain[u].anchor \in Anchors
                  /\ CID(chain[u].anchor) = k

RecordOK(k, r) == /\ IsAnchorOf(k, r.btctx)
                  /\ r.anchor = chain[r.btctx].anchor
                  /\ \E u \in Txs : IsAnchorOf(k, u) /\ r.conf \in Answers(u)

CallOK(c) == /\ c.pc = "storePut" => /\ c.ar.btctx \in Txs
                                     /\ c.ar.anchor = chain[c.ar.btctx].anchor
                                     /\ c.ar.conf \in Answers(c.ar.btctx)
             /\ c.pc = "refresh" => IsAnchorOf(c.key, c.tx)
             /\ c.pc = "conf" => IsAnchorOf(c.key, c.tx) /\ c.conf \in Answers(c.tx)

Evidence == /\ \A k \in Keys : recs[k] # None => RecordOK(k, recs[k])
            /\ \A t \in Tasks : CallOK(call[t])

\* The ledger after the step contains the one before.
Grows == /\ Txs \subseteq Txs'
         /\ \A u \in Txs : /\ chain'[u].anchor = chain[u].anchor
                           /\ chain'[u].spends = chain[u].spends
                           /\ Answers(u) \subseteq Answers(u)'

\* What was told of a transaction that stays as it is, before or after a block.
LEMMA AnswersStay ==
  ASSUME TypeOK, NEW u \in Txs, chain'[u] = chain[u],
         height' = height \/ height' = height + 1
  PROVE  Answers(u) \subseteq Answers(u)'
<1>1. /\ chain[u].at \in Int /\ chain[u].died \in Int /\ height \in Int
      /\ chain[u].at <= height /\ chain[u].died <= height
  BY TxType, BitcoinCLIAssumption DEF TypeOK
<1>2. /\ Confirmations(chain[u]) = IF chain[u].died # 0 THEN chain[u].died - height - 1
                                                        ELSE height - chain[u].at
      /\ Confirmations(chain[u])' = IF chain[u].died # 0
                                    THEN chain[u].died - height' - 1
                                    ELSE height' - chain[u].at
  BY DEF Confirmations
<1>3. CASE chain[u].died # 0
  <2>1. /\ Confirmations(chain[u]) < 0 /\ Confirmations(chain[u])' < 0
        /\ Confirmations(chain[u])' <= Confirmations(chain[u])
        /\ Confirmations(chain[u]) \in Int /\ Confirmations(chain[u])' \in Int
    BY <1>1, <1>2, <1>3
  <2>2. QED
    BY <2>1, BitcoinCLIAssumption DEF Answers
<1>4. CASE chain[u].died = 0
  <2>1. /\ ~(Confirmations(chain[u]) < 0) /\ ~(Confirmations(chain[u])' < 0)
        /\ Confirmations(chain[u]) <= Confirmations(chain[u])'
        /\ Confirmations(chain[u]) \in Int /\ Confirmations(chain[u])' \in Int
    BY <1>1, <1>2, <1>4
  <2>2. QED
    BY <2>1 DEF Answers
<1>5. QED
  BY <1>3, <1>4

\* One that becomes conflicted was told to have 0 confirmations, and still may be.
LEMMA AnswersOfLost ==
  ASSUME TypeOK, NEW u \in Txs, chain[u].died = 0, chain[u].at = height,
         height' = height + 1, chain'[u].died = height'
  PROVE  Answers(u) \subseteq Answers(u)'
<1>1. height \in Nat
  BY BitcoinCLIAssumption DEF TypeOK
<1>2. Confirmations(chain[u]) = 0 /\ Confirmations(chain[u])' = 0 - 1
  BY <1>1 DEF Confirmations
<1>3. Answers(u) = 0..0 /\ 0 \in Answers(u)'
  BY <1>2 DEF Answers
<1>4. QED
  BY <1>3

LEMMA LedgerGrows == IInv /\ [Next]_vars => Grows
<1> SUFFICES ASSUME IInv, [Next]_vars PROVE Grows
  OBVIOUS
<1> TypeOK
  BY DEF IInv
<1>1. ASSUME UNCHANGED <<chain, height>>
      PROVE  Grows
  <2>1. Txs' = Txs
    BY <1>1 DEF Txs
  <2>2. \A u \in Txs : chain'[u] = chain[u] /\ Answers(u) \subseteq Answers(u)'
    BY <1>1, AnswersStay
  <2>3. QED
    BY <2>1, <2>2 DEF Grows
<1>2. ASSUME NEW t \in Tasks, PutAnchorSends(t)
      PROVE  Grows
  <2>1. PICK b \in BOOLEAN : PutAnchor(GwNet, call[t].anchor, b)
    BY <1>2 DEF PutAnchorSends
  <2>2. call[t].anchor \in Anchors
    BY <1>2, CallFields DEF PutAnchorSends, At
  <2>3. height' = height /\ Txs \subseteq Txs' /\ \A u \in Txs : chain'[u] = chain[u]
    BY <2>1, <2>2, SendType DEF PutAnchor
  <2>4. \A u \in Txs : Answers(u) \subseteq Answers(u)'
    BY <2>3, AnswersStay
  <2>5. QED
    BY <2>3, <2>4 DEF Grows
<1>3. CASE \E t \in Tasks : PutAnchorSends(t)
  BY <1>2, <1>3
<1>4. CASE Blocks
  <2>1. /\ height' = height + 1 /\ Txs' = Txs
        /\ \A u \in Txs : \/ chain'[u] = chain[u]
                          \/ /\ chain[u].died = 0 /\ chain[u].at = height
                             /\ chain'[u] = [chain[u] EXCEPT !.died = height']
    BY <1>4, BlockMoves DEF Blocks
  <2>2. ASSUME NEW u \in Txs
        PROVE  /\ chain'[u].anchor = chain[u].anchor
               /\ chain'[u].spends = chain[u].spends
               /\ Answers(u) \subseteq Answers(u)'
    <3>1. CASE chain'[u] = chain[u]
      BY <2>1, <3>1, AnswersStay
    <3>2. CASE /\ chain[u].died = 0 /\ chain[u].at = height
               /\ chain'[u] = [chain[u] EXCEPT !.died = height']
      <4>1. /\ chain'[u].anchor = chain[u].anchor
            /\ chain'[u].spends = chain[u].spends /\ chain'[u].died = height'
        <5>1. chain[u] \in Transaction
          BY TxType
        <5>2. QED
          BY <3>2, <5>1 DEF Transaction
      <4>2. QED
        BY <2>1, <3>2, <4>1, AnswersOfLost
    <3>3. QED
      BY <2>1, <3>1, <3>2
  <2>3. QED
    BY <2>1, <2>2 DEF Grows
<1>5. CASE ~Blocks /\ ~\E t \in Tasks : PutAnchorSends(t)
  <2>1. UNCHANGED <<chain, height>>
    <3> DEFINE Same == UNCHANGED <<chain, height>>
    <3> USE DEF cliVars
    <3>1. \A t \in Tasks : Request(t) => Same
      BY DEF Request, RegisterTransaction, GetRecord, RefreshRecord, StoreRecord
    <3>2. \A t \in Tasks : Acquire(t) => Same
      BY DEF Acquire, SetUTXO, StoreGetAnchor, RefreshGetAnchor
    <3>3. \A t \in Tasks : PutAnchorFails(t) \/ Done(t) => Same
      BY DEF PutAnchorFails, Done
    <3>4. \A t \in Tasks, w \in Outcomes :
            DropUTXO(t, w) \/ KeepChange(t, w) \/ StorePut(t, w) => Same
      BY DEF DropUTXO, KeepChange, StorePut
    <3>5. \A t \in Tasks, w \in Outcomes :
            RefreshConfirmations(t, w) \/ RefreshName(t, w) \/ RefreshNote(t, w)
              => Same
      BY DEF RefreshConfirmations, RefreshName, RefreshNote
    <3>6. Stop \/ (\E read \in BOOLEAN : Start(read))
               \/ (\E u \in DOMAIN chain, read \in BOOLEAN, w, wClose \in Outcomes :
                     OperatorAdd(u, read, w, wClose))
               \/ UNCHANGED vars => Same
      BY DEF Stop, Start, OperatorAdd, vars
    <3> HIDE DEF Same
    <3>7. Same
      BY <1>5, <3>1, <3>2, <3>3, <3>4, <3>5, <3>6 DEF Next, Serve
    <3> QED  BY <3>7 DEF Same
  <2>2. QED
    BY <1>1, <2>1
<1>6. QED
  BY <1>3, <1>4, <1>5

\* What a record or a call says of the ledger stays true.
LEMMA RecordStays ==
  ASSUME Grows, NEW k, NEW r, RecordOK(k, r)
  PROVE  RecordOK(k, r)'
<1>1. IsAnchorOf(k, r.btctx)' /\ (r.anchor = chain[r.btctx].anchor)'
  BY DEF Grows, RecordOK, IsAnchorOf
<1>2. PICK u \in Txs : IsAnchorOf(k, u) /\ r.conf \in Answers(u)
  BY DEF RecordOK
<1>3. IsAnchorOf(k, u)' /\ r.conf \in Answers(u)' /\ u \in Txs'
  BY <1>2 DEF Grows, IsAnchorOf
<1>4. QED
  BY <1>1, <1>3 DEF RecordOK

LEMMA CallStays ==
  ASSUME Grows, NEW c, CallOK(c)
  PROVE  CallOK(c)'
<1>1. c.pc = "storePut" => /\ c.ar.btctx \in Txs'
                           /\ c.ar.anchor = chain'[c.ar.btctx].anchor
                           /\ c.ar.conf \in Answers(c.ar.btctx)'
  BY DEF Grows, CallOK
<1>2. c.pc \in {"refresh", "conf"} => IsAnchorOf(c.key, c.tx)'
  BY DEF Grows, CallOK, IsAnchorOf
<1>3. c.pc = "conf" => c.conf \in Answers(c.tx)'
  BY DEF Grows, CallOK, IsAnchorOf
<1>4. QED
  BY <1>1, <1>2, <1>3 DEF CallOK

\* A call, and a record, that the step does not touch.
LEMMA CallKept ==
  ASSUME IInv, Evidence, Grows, NEW s \in Tasks, call'[s] = call[s]
  PROVE  CallOK(call[s])'
<1>1. PICK c : c = call[s]
  OBVIOUS
<1>2. CallOK(c) /\ call'[s] = c
  BY <1>1 DEF Evidence
<1>3. CallOK(c)'
  BY <1>2, CallStays
<1>4. QED
  BY <1>2, <1>3

LEMMA RecordKept ==
  ASSUME IInv, Evidence, Grows, NEW k \in Keys, recs'[k] = recs[k], recs[k] # None
  PROVE  RecordOK(k, recs[k])'
<1>1. PICK r : r = recs[k]
  OBVIOUS
<1>2. RecordOK(k, r) /\ recs'[k] = r
  BY <1>1 DEF Evidence
<1>3. RecordOK(k, r)'
  BY <1>2, RecordStays
<1>4. QED
  BY <1>2, <1>3

\* One call goes on, no record is written.
LEMMA CallMoves ==
  ASSUME IInv, Evidence, Grows, UNCHANGED recs,
         NEW t \in Tasks, NEW c, Goto(t, c), CallOK(c)'
  PROVE  Evidence'
<1>1. call'[t] = c /\ \A s \in Tasks : s # t => call'[s] = call[s]
  BY DEF Goto, IInv, TypeOK
<1>2. \A s \in Tasks : CallOK(call[s])'
  BY <1>1, CallKept
<1>3. QED
  BY <1>2, RecordKept DEF Evidence

\* One call ends or goes on to a place where it carries nothing that has to
\* be true of the ledger, and writes at most one record.
LEMMA CallWrites ==
  ASSUME IInv, Evidence, Grows, NEW t \in Tasks, NEW c, Goto(t, c),
         c.pc \notin {"storePut", "refresh", "conf"},
         NEW k \in Keys, \A j \in Keys : j # k => recs'[j] = recs[j],
         recs'[k] # None => RecordOK(k, recs[k])'
  PROVE  Evidence'
<1>1. call'[t] = c /\ \A s \in Tasks : s # t => call'[s] = call[s]
  BY DEF Goto, IInv, TypeOK
<1>2. \A s \in Tasks : CallOK(call[s])'
  BY <1>1, CallKept DEF CallOK
<1>3. \A j \in Keys : recs'[j] # None => RecordOK(j, recs[j])'
  BY RecordKept
<1>4. QED
  BY <1>2, <1>3 DEF Evidence

LEMMA InitEvidence == Init => Evidence
BY DEF Init, Idle, Evidence, CallOK

LEMMA EvidenceStep == IInv /\ Evidence /\ [Next]_vars => Evidence'
<1> SUFFICES ASSUME IInv, Evidence, [Next]_vars PROVE Evidence'
  OBVIOUS
<1> TypeOK /\ Grows
  BY LedgerGrows DEF IInv
<1> DEFINE Quiet(c) == c.pc \notin {"storePut", "refresh", "conf"}
<1>q. ASSUME NEW t \in Tasks, NEW c, Goto(t, c), Quiet(c), UNCHANGED recs
      PROVE  Evidence'
  <2>1. CallOK(c)'
    BY <1>q DEF CallOK
  <2>2. QED
    BY <1>q, <2>1, CallMoves
<1>r. ASSUME NEW t \in Tasks, NEW res \in {"ok", "err"}, Return(t, res), UNCHANGED recs
      PROVE  Evidence'
  BY <1>q, <1>r DEF Return
<1>1. ASSUME NEW t \in Tasks, NEW r \in Requests, RegisterTransaction(t, r)
      PROVE  Evidence'
  BY <1>1, <1>q DEF RegisterTransaction
<1>2. ASSUME NEW t \in Tasks, SetUTXO(t)
      PROVE  Evidence'
  <2>1. [call[t] EXCEPT !.pc = "put"].pc = "put"
    BY <1>2, CallFields DEF SetUTXO, At
  <2>2. QED
    BY <1>2, <1>q, <1>r, <2>1 DEF SetUTXO
<1>3. ASSUME NEW t \in Tasks, PutAnchorFails(t)
      PROVE  Evidence'
  BY <1>3, <1>r DEF PutAnchorFails
<1>4. ASSUME NEW t \in Tasks, PutAnchorSends(t)
      PROVE  Evidence'
  <2>1. [pc |-> "next", tx |-> xUTXO'].pc = "next"
    OBVIOUS
  <2>2. QED
    BY <1>4, <1>q, <1>r, <2>1 DEF PutAnchorSends
<1>5. ASSUME NEW t \in Tasks, NEW w \in Outcomes, DropUTXO(t, w)
      PROVE  Evidence'
  <2>1. [call[t] EXCEPT !.pc = "add"].pc = "add"
    BY <1>5, CallFields DEF DropUTXO, At
  <2>2. QED
    BY <1>5, <1>q, <1>r, <2>1 DEF DropUTXO
<1>6. ASSUME NEW t \in Tasks, NEW w \in Outcomes, KeepChange(t, w)
      PROVE  Evidence'
  <2>1. [call[t] EXCEPT !.pc = "ok"].pc = "ok"
    BY <1>6, CallFields DEF KeepChange, At
  <2>2. QED
    BY <1>6, <1>q, <1>r, <2>1 DEF KeepChange
<1>7. ASSUME NEW t \in Tasks, NEW tx \in 0..MaxTx, StoreRecord(t, tx)
      PROVE  Evidence'
  BY <1>7, <1>q DEF StoreRecord
<1>8. ASSUME NEW t \in Tasks, NEW ask \in BOOLEAN, StoreGetAnchor(t, ask)
      PROVE  Evidence'
  <2>1. ASSUME NEW tx, HasAnchor(tx), NEW ar \in GetAnchor(tx),
               Goto(t, [pc |-> "storePut", ar |-> ar])
        PROVE  Evidence'
    <3>1. PICK c : c = [pc |-> "storePut", ar |-> ar]
      OBVIOUS
    <3>2. tx \in Txs /\ c.pc = "storePut" /\ c.ar.btctx = tx
          /\ c.ar.anchor = chain[tx].anchor /\ c.ar.conf \in Answers(tx)
      BY <2>1, <3>1, GetAnchorType
    <3>3. CallOK(c)
      BY <3>2 DEF CallOK
    <3>4. CallOK(c)'
      BY <3>3, CallStays
    <3>5. QED
      BY <1>8, <2>1, <3>1, <3>4, CallMoves DEF StoreGetAnchor
  <2>2. CASE Return(t, "err")
    BY <1>8, <2>2, <1>r DEF StoreGetAnchor
  <2>3. QED
    BY <1>8, <2>1, <2>2 DEF StoreGetAnchor, GetAnchorPanics
<1>9. ASSUME NEW t \in Tasks, NEW w \in Outcomes, StorePut(t, w)
      PROVE  Evidence'
  <2>1. PICK r : r = call[t].ar
    OBVIOUS
  <2>2. PICK k : k = CID(r.anchor)
    OBVIOUS
  <2>3. r \in Record /\ k \in Keys /\ r.anchor \in Anchors
    BY <1>9, <2>1, <2>2, CallFields, IdsKnown DEF StorePut, At, Record
  <2>4. RecordOK(k, r)
    BY <1>9, <2>1, <2>2, <2>3
    DEF StorePut, At, Evidence, CallOK, RecordOK, IsAnchorOf
  <2>5. RecordOK(k, r)'
    BY <2>4, RecordStays
  <2>6. /\ \A j \in Keys : j # k => recs'[j] = recs[j]
        /\ recs'[k] = recs[k] \/ recs'[k] = r
    BY <1>9, <2>1, <2>2, <2>3 DEF StorePut, Put, After, TypeOK
  <2>7. recs'[k] # None => RecordOK(k, recs[k])'
    <3>1. CASE recs'[k] = r
      BY <3>1, <2>5
    <3>2. CASE recs'[k] = recs[k]
      BY <3>2, <2>3, RecordKept
    <3>3. QED
      BY <2>6, <3>1, <3>2
  <2>8. QED
    BY <1>9, <2>3, <2>6, <2>7, CallWrites DEF StorePut, Return
<1>10. ASSUME NEW t \in Tasks, NEW r \in Requests, NEW read \in BOOLEAN,
              GetRecord(t, r, read)
       PROVE  Evidence'
  BY <1>10, <1>q, <1>r DEF GetRecord
<1>11. ASSUME NEW t \in Tasks, NEW r \in Requests, NEW read \in BOOLEAN,
              NEW name \in Names \cup {None}, NEW note \in Notes \cup {None},
              RefreshRecord(t, r, name, note, read)
       PROVE  Evidence'
  <2>1. CASE read /\ recs[CID(r)] # None
    <3>1. PICK c : c = [pc |-> "refresh", key |-> CID(r), tx |-> recs[CID(r)].btctx,
                        name |-> name, note |-> note]
      OBVIOUS
    <3>2. CID(r) \in Keys /\ IsAnchorOf(CID(r), recs[CID(r)].btctx)
      BY <2>1, IdsKnown DEF Evidence, RecordOK
    <3>3. c.pc = "refresh" /\ IsAnchorOf(c.key, c.tx)
      BY <3>1, <3>2
    <3>c. CallOK(c)
      BY <3>3 DEF CallOK
    <3>4. CallOK(c)'
      BY <3>c, CallStays
    <3>5. QED
      BY <1>11, <2>1, <3>1, <3>4, CallMoves DEF RefreshRecord
  <2>2. CASE ~(read /\ recs[CID(r)] # None)
    BY <1>11, <2>2, <1>r DEF RefreshRecord
  <2>3. QED
    BY <2>1, <2>2
<1>12. ASSUME NEW t \in Tasks, NEW ask \in BOOLEAN, RefreshGetAnchor(t, ask)
       PROVE  Evidence'
  <2>1. ASSUME HasAnchor(call[t].tx), NEW ar \in GetAnchor(call[t].tx),
               Goto(t, [pc |-> "conf", key |-> call[t].key, tx |-> call[t].tx,
                        conf |-> ar.conf,
                        name |-> call[t].name, note |-> call[t].note])
        PROVE  Evidence'
    <3>1. PICK c : c = [pc |-> "conf", key |-> call[t].key, tx |-> call[t].tx,
                        conf |-> ar.conf,
                        name |-> call[t].name, note |-> call[t].note]
      OBVIOUS
    <3>2. IsAnchorOf(call[t].key, call[t].tx)
      BY <1>12 DEF RefreshGetAnchor, At, Evidence, CallOK
    <3>3. c.pc = "conf" /\ IsAnchorOf(c.key, c.tx) /\ c.conf \in Answers(c.tx)
      BY <2>1, <3>1, <3>2, GetAnchorType
    <3>c. CallOK(c)
      BY <3>3 DEF CallOK
    <3>4. CallOK(c)'
      BY <3>c, CallStays
    <3>5. QED
      BY <1>12, <2>1, <3>1, <3>4, CallMoves DEF RefreshGetAnchor
  <2>2. CASE Return(t, "err")
    BY <1>12, <2>2, <1>r DEF RefreshGetAnchor
  <2>3. QED
    BY <1>12, <2>1, <2>2 DEF RefreshGetAnchor, GetAnchorPanics
<1>u. ASSUME NEW t \in Tasks, NEW w \in Outcomes, NEW c, Quiet(c), Updated(t, w, c),
             NEW k \in Keys, NEW r \in Record, RecordOK(k, r), UpdateEntity(k, r, w)
      PROVE  Evidence'
  <2>1. PICK d : Goto(t, d) /\ Quiet(d)
    BY <1>u DEF Updated, Return
  <2>2. RecordOK(k, r)'
    BY <1>u, RecordStays
  <2>3. /\ \A j \in Keys : j # k => recs'[j] = recs[j]
        /\ recs'[k] = recs[k] \/ recs'[k] = r
    BY <1>u DEF UpdateEntity, After, TypeOK
  <2>4. recs'[k] # None => RecordOK(k, recs[k])'
    <3>1. CASE recs'[k] = r
      BY <3>1, <2>2
    <3>2. CASE recs'[k] = recs[k]
      BY <3>2, RecordKept
    <3>3. QED
      BY <2>3, <3>1, <3>2
  <2>5. QED
    BY <2>1, <2>3, <2>4, CallWrites
<1>13. ASSUME NEW t \in Tasks, NEW w \in Outcomes, RefreshConfirmations(t, w)
       PROVE  Evidence'
  <2>1. PICK k, r : k = call[t].key /\ r = [recs[k] EXCEPT !.conf = call[t].conf]
    OBVIOUS
  <2>2. k \in Keys /\ recs[k] # None /\ recs[k] \in Record /\ RecordOK(k, recs[k])
        /\ call[t].conf \in Told
    BY <1>13, <2>1, CallFields
    DEF RefreshConfirmations, At, UpdateConfirmations, UpdateEntity, TypeOK, Evidence
  <2>3. r \in Record /\ r.btctx = recs[k].btctx /\ r.anchor = recs[k].anchor
        /\ r.conf = call[t].conf
    BY <2>1, <2>2, FieldsType DEF Record
  <2>4. IsAnchorOf(k, call[t].tx) /\ call[t].conf \in Answers(call[t].tx)
    BY <1>13, <2>1 DEF RefreshConfirmations, At, Evidence, CallOK
  <2>5. RecordOK(k, r)
    BY <2>2, <2>3, <2>4 DEF RecordOK, IsAnchorOf
  <2>6. Quiet(AfterConf(call[t]))
    BY DEF AfterConf, AfterName
  <2>7. QED
    BY <1>13, <1>u, <2>1, <2>2, <2>3, <2>5, <2>6
    DEF RefreshConfirmations, UpdateConfirmations
<1>14. ASSUME NEW t \in Tasks, NEW w \in Outcomes, RefreshName(t, w)
       PROVE  Evidence'
  <2>1. PICK k, r : k = call[t].key /\ r = [recs[k] EXCEPT !.name = call[t].name]
    OBVIOUS
  <2>2. k \in Keys /\ recs[k] # None /\ recs[k] \in Record /\ RecordOK(k, recs[k])
        /\ call[t].name \in Names
    BY <1>14, <2>1, CallFields
    DEF RefreshName, At, UpdateBBc1DomainName, UpdateEntity, TypeOK, Evidence
  <2>3. r \in Record /\ r.btctx = recs[k].btctx /\ r.anchor = recs[k].anchor
        /\ r.conf = recs[k].conf
    BY <2>1, <2>2, FieldsType DEF Record
  <2>4. RecordOK(k, r)
    BY <2>2, <2>3 DEF RecordOK
  <2>5. Quiet(AfterName(call[t]))
    BY DEF AfterName
  <2>6. QED
    BY <1>14, <1>u, <2>1, <2>2, <2>3, <2>4, <2>5 DEF RefreshName, UpdateBBc1DomainName
<1>15. ASSUME NEW t \in Tasks, NEW w \in Outcomes, RefreshNote(t, w)
       PROVE  Evidence'
  <2>1. PICK k, r : k = call[t].key /\ r = [recs[k] EXCEPT !.note = call[t].note]
    OBVIOUS
  <2>2. k \in Keys /\ recs[k] # None /\ recs[k] \in Record /\ RecordOK(k, recs[k])
        /\ call[t].note \in Notes
    BY <1>15, <2>1, CallFields
    DEF RefreshNote, At, UpdateNote, UpdateEntity, TypeOK, Evidence
  <2>3. r \in Record /\ r.btctx = recs[k].btctx /\ r.anchor = recs[k].anchor
        /\ r.conf = recs[k].conf
    BY <2>1, <2>2, FieldsType DEF Record
  <2>4. RecordOK(k, r)
    BY <2>2, <2>3 DEF RecordOK
  <2>5. Quiet([pc |-> "ok"])
    OBVIOUS
  <2>6. QED
    BY <1>15, <1>u, <2>1, <2>2, <2>3, <2>4, <2>5 DEF RefreshNote, UpdateNote
<1>16. ASSUME NEW t \in Tasks, Done(t)
       PROVE  Evidence'
  BY <1>16, <1>q DEF Done, Idle
<1>17. ASSUME Stop
       PROVE  Evidence'
  <2>1. \A s \in Tasks : CallOK(call[s])'
    BY <1>17 DEF Stop, Idle, CallOK
  <2>2. UNCHANGED recs
    BY <1>17 DEF Stop
  <2>3. QED
    BY <2>1, <2>2, RecordKept DEF Evidence
<1>18. ASSUME UNCHANGED <<recs, call>>
       PROVE  Evidence'
  BY <1>18, RecordKept, CallKept DEF Evidence
<1>19. QED
  BY <1>1, <1>2, <1>3, <1>4, <1>5, <1>6, <1>7, <1>8, <1>9, <1>10, <1>11, <1>12,
     <1>13, <1>14, <1>15, <1>16, <1>17, <1>18
  DEF Next, Request, Acquire, Serve, Start, OperatorAdd, Blocks, vars, gwVars

LEMMA EvidenceHolds == Spec => [](IInv /\ Evidence)
<1>1. Init => IInv /\ Evidence
  BY InitIInv, InitEvidence
<1>2. (IInv /\ Evidence) /\ [Next]_vars => (IInv /\ Evidence)'
  BY TypeStep, HoldStep, EvidenceStep DEF IInv
<1>3. QED
  BY <1>1, <1>2, PTL DEF Spec

-----------------------------------------------------------------------------
(***************************************************************************)
(* The key of a record joins two identifiers without a mark between them.  *)
(* With identifiers of the anchor's length that loses nothing.             *)
(***************************************************************************)
LEMMA JoinInjective ==
  ASSUME NEW a \in Seq(Nat), NEW b \in Seq(Nat), NEW c \in Seq(Nat), NEW d \in Seq(Nat),
         Len(a) = Len(c), a \o b = c \o d
  PROVE  a = c /\ b = d
<1> DEFINE ab == a \o b
           cd == c \o d
<1>1. /\ Len(ab) = Len(a) + Len(b)
      /\ \A i \in 1..Len(a) + Len(b) :
           ab[i] = IF i <= Len(a) THEN a[i] ELSE b[i - Len(a)]
  BY ConcatProperties, Zenon
<1>2. /\ Len(cd) = Len(c) + Len(d)
      /\ \A i \in 1..Len(c) + Len(d) :
           cd[i] = IF i <= Len(c) THEN c[i] ELSE d[i - Len(c)]
  BY ConcatProperties, Zenon
<1>3. Len(a) \in Nat /\ Len(b) \in Nat /\ Len(d) \in Nat
  BY LenProperties
<1>4. ab = cd
  OBVIOUS
<1> HIDE DEF ab, cd
<1>5. Len(b) = Len(d)
  BY <1>1, <1>2, <1>3, <1>4
<1>6. \A i \in 1..Len(a) : a[i] = c[i]
  BY <1>1, <1>2, <1>3, <1>4, <1>5
<1>7. \A i \in 1..Len(b) : b[i] = d[i]
  <2>1. TAKE i \in 1..Len(b)
  <2>2. /\ Len(a) + i \in 1..(Len(a) + Len(b)) /\ ~(Len(a) + i <= Len(a))
        /\ (Len(a) + i) - Len(a) = i
    BY <1>3
  <2>3. ab[Len(a) + i] = b[i] /\ cd[Len(a) + i] = d[i]
    BY <1>1, <1>2, <1>5, <2>2
  <2>4. QED
    BY <1>4, <2>3
<1>8. a = c
  BY <1>6, SeqEqual
<1>9. b = d
  BY <1>5, <1>7, SeqEqual
<1>10. QED
  BY <1>8, <1>9

LEMMA FixedSeq ==
  ASSUME NEW s \in Seq(Nat)
  PROVE  /\ Fixed(s) \in Seq(Nat) /\ Len(Fixed(s)) = IDLen
         /\ Len(s) = IDLen => Fixed(s) = s
<1>1. \A i \in 1..IDLen : (IF i <= Len(s) THEN s[i] ELSE 0) \in Nat
  BY IDLenAssumption
<1>2. Fixed(s) \in [1..IDLen -> Nat]
  BY <1>1 DEF Fixed
<1>3. Fixed(s) \in Seq(Nat) /\ Len(Fixed(s)) = IDLen
  BY <1>2, IDLenAssumption
<1>4. ASSUME Len(s) = IDLen PROVE Fixed(s) = s
  <2>1. \A i \in 1..IDLen : Fixed(s)[i] = s[i]
    BY <1>4, IDLenAssumption DEF Fixed
  <2>2. QED
    BY <1>3, <1>4, <2>1
<1>5. QED
  BY <1>3, <1>4

LEMMA ExactKey ==
  ASSUME NEW r \in Requests, Exact(r), NEW a \in Anchors, CID(a) = CID(r)
  PROVE  a = NewAnchor(r)
<1>1. PICK p \in Requests : a = NewAnchor(p)
  BY DEF Anchors
<1>2. /\ r[1] \in Seq(Nat) /\ r[2] \in Seq(Nat)
      /\ p[1] \in Seq(Nat) /\ p[2] \in Seq(Nat)
  BY GatewayAssumption
<1>3. Fixed(p[1]) \o Fixed(p[2]) = r[1] \o r[2]
  BY <1>1 DEF CID, NewAnchor
<1>4. Fixed(p[1]) = r[1] /\ Fixed(p[2]) = r[2]
  <2>1. /\ Fixed(p[1]) \in Seq(Nat) /\ Fixed(p[2]) \in Seq(Nat)
        /\ Len(Fixed(p[1])) = Len(r[1])
    BY <1>2, FixedSeq DEF Exact
  <2>2. \A x, y, z, w \in Seq(Nat) :
          Len(x) = Len(z) /\ x \o y = z \o w => x = z /\ y = w
    BY JoinInjective
  <2> DEFINE x == Fixed(p[1])
             y == Fixed(p[2])
             z == r[1]
             w == r[2]
  <2>3. /\ x \in Seq(Nat) /\ y \in Seq(Nat) /\ z \in Seq(Nat) /\ w \in Seq(Nat)
        /\ Len(x) = Len(z) /\ x \o y = z \o w
    BY <1>2, <1>3, <2>1, Zenon
  <2> HIDE DEF x, y, z, w
  <2>4. x = z /\ y = w
    BY <2>2, <2>3
  <2>5. QED
    BY <2>4 DEF x, y, z, w
<1>5. Fixed(r[1]) = r[1] /\ Fixed(r[2]) = r[2]
  BY <1>2, FixedSeq DEF Exact
<1>6. QED
  BY <1>1, <1>4, <1>5 DEF NewAnchor

(***************************************************************************)
(* A request with identifiers of the right length never gets the record of *)
(* another digest, nor one whose transaction anchors something else.       *)
(***************************************************************************)
THEOREM RecordsSound == Spec => []RecordsOnChain
<1>1. Evidence => RecordsOnChain
  <2> SUFFICES ASSUME Evidence, NEW r \in Requests, Exact(r), recs[CID(r)] # None
               PROVE  /\ recs[CID(r)].anchor = NewAnchor(r)
                      /\ recs[CID(r)].btctx \in Txs
                      /\ chain[recs[CID(r)].btctx].anchor = NewAnchor(r)
    BY DEF RecordsOnChain
  <2>1. RecordOK(CID(r), recs[CID(r)])
    BY IdsKnown DEF Evidence
  <2>2. QED
    BY <2>1, ExactKey DEF RecordOK, IsAnchorOf
<1>2. QED
  BY <1>1, EvidenceHolds, PTL

(***************************************************************************)
(* A record never claims confirmations that the node did not tell of some  *)
(* transaction for its digest, in the client's words: of a conflicted one  *)
(* 0, or a number that far below 2^64.                                     *)
(***************************************************************************)
THEOREM ConfsSound == Spec => []ConfsReached
<1>1. Evidence => ConfsReached
  BY IdsKnown DEF Evidence, RecordOK, IsAnchorOf, ConfsReached, HasAnchor, Txs
<1>2. QED
  BY <1>1, EvidenceHolds, PTL

-----------------------------------------------------------------------------
(***************************************************************************)
(* Where the confirmations of a record are those of its own transaction.   *)
(* ConfsOfOwnTx fails when two transactions anchor one digest and a store  *)
(* call comes between the read and the write of a refresh; it takes both.  *)
(***************************************************************************)

\* At most one transaction anchors the pair with this key.
AnchoredOnce(k) == \A u, v \in Txs : IsAnchorOf(k, u) /\ IsAnchorOf(k, v) => u = v

\* As long as only one transaction anchors a digest, its record claims what was
\* told of that transaction, conflicted or not, whatever calls are under way at
\* one time.
THEOREM OneAnchorOwnConfs ==
  Spec => [](\A k \in Keys : recs[k] # None /\ AnchoredOnce(k)
                             => recs[k].conf \in Answers(recs[k].btctx))
<1> DEFINE Claim == \A k \in Keys : recs[k] # None /\ AnchoredOnce(k)
                                    => recs[k].conf \in Answers(recs[k].btctx)
<1>1. Evidence => Claim
  BY DEF Evidence, RecordOK, IsAnchorOf, AnchoredOnce
<1>2. QED
  BY <1>1, EvidenceHolds, PTL

\* A refresh that is alone finds the record as it read it.
OwnConfs(r) == r.conf \in Answers(r.btctx)

OwnCall(c) == c.pc \in {"refresh", "conf"} => recs[c.key] # None /\ recs[c.key].btctx = c.tx

Own == ConfsOfOwnTx /\ \A t \in Tasks : OwnCall(call[t])

\* One call goes on; a record that it writes claims what was told of its
\* transaction.
LEMMA OwnMoves ==
  ASSUME \A s, t \in Tasks : s = t,
         IInv, Evidence, Own, Grows, NEW t \in Tasks, NEW c, Goto(t, c), OwnCall(c)',
         \A k \in Keys : recs'[k] = recs[k] \/ OwnConfs(recs[k])'
  PROVE  Own'
<1>1. call'[t] = c
  BY DEF Goto, IInv, TypeOK
<1>2. \A s \in Tasks : OwnCall(call[s])'
  BY <1>1
<1>3. ASSUME NEW k \in Keys, recs'[k] = recs[k], recs[k] # None
      PROVE  OwnConfs(recs[k])'
  <2>1. PICK r : r = recs[k]
    OBVIOUS
  <2>2. r.btctx \in Txs /\ r.conf \in Answers(r.btctx)
    BY <1>3, <2>1 DEF Evidence, RecordOK, IsAnchorOf, Own, ConfsOfOwnTx
  <2>3. r.conf \in Answers(r.btctx)'
    BY <2>2 DEF Grows
  <2>4. recs'[k] = r
    BY <1>3, <2>1
  <2>5. QED
    BY <2>3, <2>4 DEF OwnConfs
<1>4. ConfsOfOwnTx'
  BY <1>3 DEF ConfsOfOwnTx, OwnConfs
<1>5. QED
  BY <1>2, <1>4 DEF Own

LEMMA OwnStep ==
  ASSUME \A s, t \in Tasks : s = t
  PROVE  IInv /\ Evidence /\ Own /\ [Next]_vars => Own'
<1> SUFFICES ASSUME IInv, Evidence, Own, [Next]_vars PROVE Own'
  OBVIOUS
<1> TypeOK /\ Grows
  BY LedgerGrows DEF IInv
<1> DEFINE Quiet(c) == c.pc \notin {"refresh", "conf"}
<1>q. ASSUME NEW t \in Tasks, NEW c, Goto(t, c), Quiet(c),
             \A k \in Keys : recs'[k] = recs[k] \/ OwnConfs(recs[k])'
      PROVE  Own'
  <2>1. OwnCall(c)'
    BY <1>q DEF OwnCall
  <2>2. QED
    BY <1>q, <2>1, OwnMoves
<1>r. ASSUME NEW t \in Tasks, NEW res \in {"ok", "err"}, Return(t, res), UNCHANGED recs
      PROVE  Own'
  BY <1>q, <1>r DEF Return
<1>c. ASSUME NEW k \in Keys, recs[k] # None
      PROVE  OwnConfs(recs[k])
  BY <1>c DEF Own, ConfsOfOwnTx, OwnConfs
<1>1. ASSUME NEW t \in Tasks, NEW r \in Requests, RegisterTransaction(t, r)
      PROVE  Own'
  BY <1>1, <1>q DEF RegisterTransaction
<1>2. ASSUME NEW t \in Tasks, SetUTXO(t)
      PROVE  Own'
  <2>1. [call[t] EXCEPT !.pc = "put"].pc = "put"
    BY <1>2, CallFields DEF SetUTXO, At
  <2>2. QED
    BY <1>2, <1>q, <1>r, <2>1 DEF SetUTXO
<1>3. ASSUME NEW t \in Tasks, PutAnchorFails(t)
      PROVE  Own'
  BY <1>3, <1>r DEF PutAnchorFails
<1>4. ASSUME NEW t \in Tasks, PutAnchorSends(t)
      PROVE  Own'
  <2>1. [pc |-> "next", tx |-> xUTXO'].pc = "next"
    OBVIOUS
  <2>2. QED
    BY <1>4, <1>q, <1>r, <2>1 DEF PutAnchorSends
<1>5. ASSUME NEW t \in Tasks, NEW w \in Outcomes, DropUTXO(t, w)
      PROVE  Own'
  <2>1. [call[t] EXCEPT !.pc = "add"].pc = "add"
    BY <1>5, CallFields DEF DropUTXO, At
  <2>2. QED
    BY <1>5, <1>q, <1>r, <2>1 DEF DropUTXO
<1>6. ASSUME NEW t \in Tasks, NEW w \in Outcomes, KeepChange(t, w)
      PROVE  Own'
  <2>1. [call[t] EXCEPT !.pc = "ok"].pc = "ok"
    BY <1>6, CallFields DEF KeepChange, At
  <2>2. QED
    BY <1>6, <1>q, <1>r, <2>1 DEF KeepChange
<1>7. ASSUME NEW t \in Tasks, NEW tx \in 0..MaxTx, StoreRecord(t, tx)
      PROVE  Own'
  BY <1>7, <1>q DEF StoreRecord
<1>8. ASSUME NEW t \in Tasks, NEW ask \in BOOLEAN, StoreGetAnchor(t, ask)
      PROVE  Own'
  <2>1. ASSUME NEW ar, Goto(t, [pc |-> "storePut", ar |-> ar])
        PROVE  Own'
    <3>1. [pc |-> "storePut", ar |-> ar].pc = "storePut"
      OBVIOUS
    <3>2. QED
      BY <1>8, <1>q, <2>1, <3>1 DEF StoreGetAnchor
  <2>2. CASE Return(t, "err")
    BY <1>8, <1>r, <2>2 DEF StoreGetAnchor
  <2>3. QED
    BY <1>8, <2>1, <2>2 DEF StoreGetAnchor, GetAnchorPanics
<1>9. ASSUME NEW t \in Tasks, NEW w \in Outcomes, StorePut(t, w)
      PROVE  Own'
  <2>1. PICK r : r = call[t].ar
    OBVIOUS
  <2>2. PICK k : k = CID(r.anchor)
    OBVIOUS
  <2>3. r \in Record /\ k \in Keys
    BY <1>9, <2>1, <2>2, CallFields, IdsKnown DEF StorePut, At, Record
  <2>4. r.btctx \in Txs /\ r.conf \in Answers(r.btctx)
    BY <1>9, <2>1 DEF StorePut, At, Evidence, CallOK
  <2>5. OwnConfs(r)'
    BY <2>3, <2>4 DEF OwnConfs, Grows
  <2>6. /\ \A j \in Keys : j # k => recs'[j] = recs[j]
        /\ recs'[k] = recs[k] \/ recs'[k] = r
    BY <1>9, <2>1, <2>2, <2>3 DEF StorePut, Put, After, TypeOK
  <2>7. \A j \in Keys : recs'[j] = recs[j] \/ OwnConfs(recs[j])'
    BY <2>5, <2>6 DEF OwnConfs
  <2>8. QED
    BY <1>9, <1>q, <2>7 DEF StorePut, Return
<1>10. ASSUME NEW t \in Tasks, NEW r \in Requests, NEW read \in BOOLEAN,
              GetRecord(t, r, read)
       PROVE  Own'
  BY <1>10, <1>q, <1>r DEF GetRecord
<1>11. ASSUME NEW t \in Tasks, NEW r \in Requests, NEW read \in BOOLEAN,
              NEW name \in Names \cup {None}, NEW note \in Notes \cup {None},
              RefreshRecord(t, r, name, note, read)
       PROVE  Own'
  <2>1. CASE read /\ recs[CID(r)] # None
    <3>1. PICK c : c = [pc |-> "refresh", key |-> CID(r), tx |-> recs[CID(r)].btctx,
                        name |-> name, note |-> note]
      OBVIOUS
    <3>2. Goto(t, c) /\ UNCHANGED recs
      BY <1>11, <2>1, <3>1 DEF RefreshRecord
    <3>3. OwnCall(c)'
      BY <2>1, <3>1, <3>2 DEF OwnCall
    <3>4. QED
      BY <3>2, <3>3, OwnMoves
  <2>2. CASE ~(read /\ recs[CID(r)] # None)
    BY <1>11, <2>2, <1>r DEF RefreshRecord
  <2>3. QED
    BY <2>1, <2>2
<1>12. ASSUME NEW t \in Tasks, NEW ask \in BOOLEAN, RefreshGetAnchor(t, ask)
       PROVE  Own'
  <2>1. ASSUME NEW n, Goto(t, [pc |-> "conf", key |-> call[t].key, tx |-> call[t].tx,
                               conf |-> n,
                               name |-> call[t].name, note |-> call[t].note])
        PROVE  Own'
    <3>1. PICK c : c = [pc |-> "conf", key |-> call[t].key, tx |-> call[t].tx,
                        conf |-> n,
                        name |-> call[t].name, note |-> call[t].note]
      OBVIOUS
    <3>2. Goto(t, c) /\ UNCHANGED recs /\ OwnCall(call[t]) /\ call[t].pc = "refresh"
      BY <1>12, <2>1, <3>1 DEF RefreshGetAnchor, At, Own
    <3>3. OwnCall(c)'
      BY <3>1, <3>2 DEF OwnCall
    <3>4. QED
      BY <3>2, <3>3, OwnMoves
  <2>2. CASE Return(t, "err")
    BY <1>12, <2>2, <1>r DEF RefreshGetAnchor
  <2>3. QED
    BY <1>12, <2>1, <2>2 DEF RefreshGetAnchor, GetAnchorPanics
<1>u. ASSUME NEW t \in Tasks, NEW w \in Outcomes, NEW c, Quiet(c), Updated(t, w, c),
             NEW k \in Keys, NEW r \in Record, r.btctx \in Txs, OwnConfs(r),
             UpdateEntity(k, r, w)
      PROVE  Own'
  <2>1. PICK d : Goto(t, d) /\ Quiet(d)
    BY <1>u DEF Updated, Return
  <2>2. OwnConfs(r)'
    BY <1>u DEF OwnConfs, Grows
  <2>3. /\ \A j \in Keys : j # k => recs'[j] = recs[j]
        /\ recs'[k] = recs[k] \/ recs'[k] = r
    BY <1>u DEF UpdateEntity, After, TypeOK
  <2>4. \A j \in Keys : recs'[j] = recs[j] \/ OwnConfs(recs[j])'
    BY <2>2, <2>3 DEF OwnConfs
  <2>5. QED
    BY <1>q, <2>1, <2>4
<1>13. ASSUME NEW t \in Tasks, NEW w \in Outcomes, RefreshConfirmations(t, w)
       PROVE  Own'
  <2>1. PICK k, r : k = call[t].key /\ r = [recs[k] EXCEPT !.conf = call[t].conf]
    OBVIOUS
  <2>2. k \in Keys /\ recs[k] # None /\ recs[k] \in Record /\ recs[k].btctx \in Txs
        /\ call[t].conf \in Told
    BY <1>13, <2>1, CallFields
    DEF RefreshConfirmations, At, UpdateConfirmations, UpdateEntity, TypeOK, Evidence,
        RecordOK, IsAnchorOf
  <2>3. r \in Record /\ r.btctx = recs[k].btctx /\ r.conf = call[t].conf
    BY <2>1, <2>2, FieldsType DEF Record
  <2>4. call[t].conf \in Answers(call[t].tx) /\ recs[k].btctx = call[t].tx
    BY <1>13, <2>1 DEF RefreshConfirmations, At, Evidence, CallOK, Own, OwnCall
  <2>5. OwnConfs(r)
    BY <2>3, <2>4 DEF OwnConfs
  <2>6. Quiet(AfterConf(call[t]))
    BY DEF AfterConf, AfterName
  <2>7. QED
    BY <1>13, <1>u, <2>1, <2>2, <2>3, <2>5, <2>6
    DEF RefreshConfirmations, UpdateConfirmations
<1>14. ASSUME NEW t \in Tasks, NEW w \in Outcomes, RefreshName(t, w)
       PROVE  Own'
  <2>1. PICK k, r : k = call[t].key /\ r = [recs[k] EXCEPT !.name = call[t].name]
    OBVIOUS
  <2>2. k \in Keys /\ recs[k] # None /\ recs[k] \in Record /\ recs[k].btctx \in Txs
        /\ call[t].name \in Names
    BY <1>14, <2>1, CallFields
    DEF RefreshName, At, UpdateBBc1DomainName, UpdateEntity, TypeOK, Evidence,
        RecordOK, IsAnchorOf
  <2>3. r \in Record /\ r.btctx = recs[k].btctx /\ r.conf = recs[k].conf
    BY <2>1, <2>2, FieldsType DEF Record
  <2>4. OwnConfs(r)
    BY <1>c, <2>2, <2>3 DEF OwnConfs
  <2>5. Quiet(AfterName(call[t]))
    BY DEF AfterName
  <2>6. QED
    BY <1>14, <1>u, <2>1, <2>2, <2>3, <2>4, <2>5 DEF RefreshName, UpdateBBc1DomainName
<1>15. ASSUME NEW t \in Tasks, NEW w \in Outcomes, RefreshNote(t, w)
       PROVE  Own'
  <2>1. PICK k, r : k = call[t].key /\ r = [recs[k] EXCEPT !.note = call[t].note]
    OBVIOUS
  <2>2. k \in Keys /\ recs[k] # None /\ recs[k] \in Record /\ recs[k].btctx \in Txs
        /\ call[t].note \in Notes
    BY <1>15, <2>1, CallFields
    DEF RefreshNote, At, UpdateNote, UpdateEntity, TypeOK, Evidence, RecordOK, IsAnchorOf
  <2>3. r \in Record /\ r.btctx = recs[k].btctx /\ r.conf = recs[k].conf
    BY <2>1, <2>2, FieldsType DEF Record
  <2>4. OwnConfs(r)
    BY <1>c, <2>2, <2>3 DEF OwnConfs
  <2>5. Quiet([pc |-> "ok"])
    OBVIOUS
  <2>6. QED
    BY <1>15, <1>u, <2>1, <2>2, <2>3, <2>4, <2>5 DEF RefreshNote, UpdateNote
<1>16. ASSUME NEW t \in Tasks, Done(t)
       PROVE  Own'
  BY <1>16, <1>q DEF Done, Idle
<1>s. ASSUME UNCHANGED recs, \A s \in Tasks : OwnCall(call[s])'
      PROVE  Own'
  <2>1. ASSUME NEW k \in Keys, recs[k] # None
        PROVE  OwnConfs(recs[k])'
    <3>1. PICK r : r = recs[k]
      OBVIOUS
    <3>2. r.btctx \in Txs /\ OwnConfs(r)
      BY <1>c, <2>1, <3>1 DEF Evidence, RecordOK, IsAnchorOf
    <3>3. OwnConfs(r)'
      BY <3>2 DEF OwnConfs, Grows
    <3>4. QED
      BY <1>s, <3>1, <3>3 DEF OwnConfs
  <2>2. QED
    BY <1>s, <2>1 DEF Own, ConfsOfOwnTx, OwnConfs
<1>17. ASSUME Stop
       PROVE  Own'
  <2>1. \A s \in Tasks : OwnCall(call[s])'
    BY <1>17 DEF Stop, Idle, OwnCall
  <2>2. QED
    BY <1>17, <1>s, <2>1 DEF Stop
<1>18. ASSUME UNCHANGED <<recs, call>>
       PROVE  Own'
  BY <1>18, <1>s DEF Own, OwnCall
<1>19. QED
  BY <1>1, <1>2, <1>3, <1>4, <1>5, <1>6, <1>7, <1>8, <1>9, <1>10, <1>11, <1>12,
     <1>13, <1>14, <1>15, <1>16, <1>17, <1>18
  DEF Next, Request, Acquire, Serve, Start, OperatorAdd, Blocks, vars, gwVars

\* One call at a time keeps the promise of RefreshRecord (gw.go:36), with every
\* failed write, lost answer, stop, repeated registration and conflicted
\* transaction: the record says what was told of its own.
THEOREM SerialOwnConfs ==
  ASSUME \A s, t \in Tasks : s = t
  PROVE  Spec => []ConfsOfOwnTx
<1>1. Init => Own
  BY DEF Init, Idle, Own, OwnCall, ConfsOfOwnTx
<1>2. Own => ConfsOfOwnTx
  BY DEF Own
<1>3. QED
  BY <1>1, <1>2, OwnStep, EvidenceHolds, PTL DEF Spec

-----------------------------------------------------------------------------
(***************************************************************************)
(* The gateway implements AnchorBook.                                      *)
(***************************************************************************)
LEMMA LedgerSeq ==
  ASSUME TypeOK
  PROVE  /\ DOMAIN Ledger = 1..Len(chain) /\ Len(chain) \in Nat
         /\ \A S : (\A u \in Txs : Ledger[u] \in S) => Ledger \in Seq(S)
         /\ Len(Ledger) = Len(chain)
<1>1. Txs = 1..Len(chain) /\ Len(chain) \in Nat
  BY DEF TypeOK, Txs
<1>2. QED
  BY <1>1 DEF Ledger

LEMMA BookInit == Init => Book!Init
<1> SUFFICES ASSUME Init PROVE Book!Init
  OBVIOUS
<1>1. \A u \in DOMAIN Ledger : Ledger[u] = [anchor |-> << >>, age |-> 0]
  BY DEF Init, CLIInit, Funding, Ledger, Txs, Confirmations, NoAnchor
<1>2. Pages = [k \in Keys |-> None]
  BY DEF Init, Pages
<1>3. QED
  BY <1>1, <1>2 DEF Book!Init

\* A step that leaves ledger, height and the evidence in the records alone.
LEMMA BookStutters ==
  ASSUME UNCHANGED <<chain, height>>, UNCHANGED Pages
  PROVE  UNCHANGED Book!bookVars
BY DEF Book!bookVars, Ledger, Txs, Confirmations

LEMMA SendPublishes ==
  ASSUME TypeOK, NEW a \in Anchors, NEW b, PutAnchor(GwNet, a, b), UNCHANGED recs
  PROVE  Book!Publish(a)
<1> DEFINE e == [anchor |-> a, age |-> 0]
           S == {Ledger[u] : u \in Txs}
<1>1. /\ Len(chain') = Len(chain) + 1 /\ Txs' = Txs \cup {Len(chain')}
      /\ \A u \in Txs : chain'[u] = chain[u]
      /\ chain'[Len(chain')].anchor = a
      /\ chain'[Len(chain')].at = height /\ chain'[Len(chain')].died = 0
      /\ height' = height /\ height \in Int
  <2>1. height' = height /\ height \in Int
    BY BitcoinCLIAssumption DEF PutAnchor, TypeOK
  <2>2. QED
    BY <2>1, SendType
<1>2. Ledger \in Seq(S) /\ Len(Ledger) = Len(chain) /\ DOMAIN Ledger = Txs
      /\ Len(chain) \in Nat /\ Txs = 1..Len(chain)
  BY LedgerSeq DEF Ledger
<1>3. DOMAIN Ledger' = 1..(Len(chain) + 1)
  BY <1>1, <1>2 DEF Ledger
<1>4. /\ \A u \in 1..Len(chain) : Ledger'[u] = Ledger[u]
      /\ Ledger'[Len(chain) + 1] = e
  BY <1>1, <1>2 DEF Ledger, Confirmations
<1>5. Ledger' = Append(Ledger, e)
  <2> DEFINE T == S \cup {e}
  <2>1. Ledger \in Seq(T) /\ e \in T
    BY <1>2, SeqMonotonic
  <2> HIDE DEF S, T, e
  <2>2. /\ Append(Ledger, e) \in Seq(T) /\ Len(Append(Ledger, e)) = Len(chain) + 1
        /\ \A u \in 1..Len(chain) : Append(Ledger, e)[u] = Ledger[u]
        /\ Append(Ledger, e)[Len(chain) + 1] = e
    BY <1>2, <2>1, AppendProperties
  <2>3. \A u \in 1..(Len(chain) + 1) : Ledger'[u] = Append(Ledger, e)[u]
    BY <1>2, <1>4, <2>2
  <2>4. DOMAIN Append(Ledger, e) = 1..(Len(chain) + 1)
    BY <2>2, LenProperties
  <2>5. Ledger' = [u \in 1..(Len(chain) + 1) |-> Ledger'[u]]
    BY <1>3 DEF Ledger
  <2>6. Append(Ledger, e) = [u \in 1..(Len(chain) + 1) |-> Append(Ledger, e)[u]]
    BY <2>2, <2>4, LenProperties
  <2>7. QED
    BY <2>3, <2>5, <2>6
<1>6. UNCHANGED Pages
  BY DEF Pages
<1>7. QED
  BY <1>5, <1>6 DEF Book!Publish

LEMMA BlockRipens ==
  ASSUME TypeOK, Blocks
  PROVE  \E lost \in SUBSET DOMAIN Ledger : Book!Ripen(lost)
<1> DEFINE lost == {u \in Txs : chain'[u] # chain[u]}
           old == [u \in Txs |-> Ledger[u]]
           new == [u \in Txs |->
                     [old[u] EXCEPT !.age = IF u \in lost \/ old[u].age < 0
                                            THEN old[u].age - 1
                                            ELSE old[u].age + 1]]
<1>1. /\ height' = height + 1 /\ height \in Nat /\ Txs' = Txs /\ UNCHANGED recs
      /\ \A u \in Txs : \/ chain'[u] = chain[u]
                        \/ /\ chain[u].died = 0 /\ chain[u].at = height
                           /\ chain'[u] = [chain[u] EXCEPT !.died = height']
  <2>1. height \in Nat
    BY BitcoinCLIAssumption DEF TypeOK
  <2>2. Mine \/ \E l \in SUBSET DOMAIN chain : DoubleSpend(l)
    BY DEF Blocks
  <2>3. QED
    BY <2>1, <2>2, BlockMoves DEF Blocks
<1>2. Ledger = old /\ DOMAIN Ledger = Txs /\ lost \in SUBSET DOMAIN Ledger
  BY DEF Ledger
<1>3. ASSUME NEW u \in Txs
      PROVE  /\ u \in lost => old[u].age = 0
             /\ Ledger'[u] = new[u]
  <2>1. /\ chain[u] \in Transaction /\ chain[u].at \in Int /\ chain[u].died \in Int
        /\ chain[u].at <= height /\ chain[u].died <= height
    BY TxType, BitcoinCLIAssumption
  <2>2. /\ old[u] = [anchor |-> chain[u].anchor, age |-> Confirmations(chain[u])]
        /\ Ledger'[u] = [anchor |-> chain'[u].anchor, age |-> Confirmations(chain[u])']
    BY <1>1 DEF Ledger
  <2>3. CASE u \in lost
    <3>1. /\ chain[u].died = 0 /\ chain[u].at = height
          /\ chain'[u] = [chain[u] EXCEPT !.died = height']
      BY <1>1, <2>3
    <3>2. chain'[u].anchor = chain[u].anchor /\ chain'[u].died = height'
      BY <2>1, <3>1 DEF Transaction
    <3>3. Confirmations(chain[u]) = 0 /\ Confirmations(chain[u])' = 0 - 1
      BY <1>1, <3>1, <3>2 DEF Confirmations
    <3>4. QED
      BY <2>2, <2>3, <3>2, <3>3
  <2>4. CASE u \notin lost
    <3>1. chain'[u] = chain[u]
      BY <2>4
    <3>2. Confirmations(chain[u])' = IF Confirmations(chain[u]) < 0
                                     THEN Confirmations(chain[u]) - 1
                                     ELSE Confirmations(chain[u]) + 1
      BY <1>1, <2>1, <3>1 DEF Confirmations
    <3>3. QED
      BY <2>2, <2>4, <3>1, <3>2
  <2>5. QED
    BY <2>3, <2>4
<1>4. Ledger' = new
  BY <1>1, <1>3 DEF Ledger
<1>5. UNCHANGED Pages
  BY <1>1 DEF Pages
<1> HIDE DEF lost
<1>6. Book!Ripen(lost)
  BY <1>2, <1>3, <1>4, <1>5 DEF Book!Ripen
<1>7. QED
  BY <1>2, <1>6

\* What a write of one record does to the pages.
LEMMA PageWritten ==
  ASSUME TypeOK, NEW k \in Keys, NEW r \in Record, recs' = [recs EXCEPT ![k] = r]
  PROVE  Pages' = [Pages EXCEPT ![k] = [btctx |-> r.btctx, conf |-> r.conf]]
<1>1. recs'[k] = r /\ \A j \in Keys : j # k => recs'[j] = recs[j]
  BY DEF TypeOK
<1>2. r # None
  BY RecordAssumption
<1> DEFINE old == [j \in Keys |-> Pages[j]]
           new == [old EXCEPT ![k] = [btctx |-> r.btctx, conf |-> r.conf]]
<1>3. \A j \in Keys : Pages'[j] = new[j]
  BY <1>1, <1>2 DEF Pages
<1>4. Pages' = [j \in Keys |-> Pages'[j]] /\ Pages = old
  BY DEF Pages
<1>5. QED
  BY <1>3, <1>4

\* An anchor of a request is what AnchorBook takes for one, and what is told of
\* the transaction is told of the entry.
LEMMA IsAnchoring ==
  ASSUME TypeOK, NEW k, NEW u, IsAnchorOf(k, u)
  PROVE  /\ Book!Anchoring(k, u) /\ u \in DOMAIN Ledger
         /\ Book!Told(Ledger[u].age) = Answers(u)
<1>1. u \in Txs /\ chain[u].anchor \in Anchors /\ CID(chain[u].anchor) = k
  BY DEF IsAnchorOf
<1>2. chain[u].anchor # << >>
  BY <1>1 DEF Anchors, NewAnchor
<1>3. /\ Ledger[u] = [anchor |-> chain[u].anchor, age |-> Confirmations(chain[u])]
      /\ u \in DOMAIN Ledger
  BY <1>1 DEF Ledger
<1>4. Ledger[u].anchor = chain[u].anchor /\ Ledger[u].age = Confirmations(chain[u])
  BY <1>3
<1>5. Book!CID(Ledger[u].anchor) = CID(chain[u].anchor)
  BY <1>4, Zenon DEF Book!CID, CID
<1>6. Book!Anchoring(k, u)
  BY <1>1, <1>2, <1>4, <1>5, Zenon DEF Book!Anchoring
<1>7. Book!Told(Ledger[u].age) = Answers(u)
  BY <1>4 DEF Book!Told, Answers
<1>8. QED
  BY <1>3, <1>6, <1>7

LEMMA BookStep == IInv /\ Evidence /\ [Next]_vars => [Book!Next]_(Book!bookVars)
<1> SUFFICES ASSUME IInv, Evidence, [Next]_vars
             PROVE  Book!Next \/ UNCHANGED Book!bookVars
  OBVIOUS
<1> TypeOK
  BY DEF IInv
<1>s. ASSUME UNCHANGED <<chain, height, recs>>
      PROVE  UNCHANGED Book!bookVars
  <2>1. UNCHANGED Pages
    BY <1>s DEF Pages
  <2>2. QED
    BY <1>s, <2>1, BookStutters
<1>1. ASSUME NEW t \in Tasks, PutAnchorSends(t)
      PROVE  Book!Next
  <2>1. PICK b \in BOOLEAN : PutAnchor(GwNet, call[t].anchor, b)
    BY <1>1 DEF PutAnchorSends
  <2>2. call[t].anchor \in Anchors /\ UNCHANGED recs
    BY <1>1, CallFields DEF PutAnchorSends, At
  <2>3. Book!Publish(call[t].anchor)
    BY <2>1, <2>2, SendPublishes
  <2>4. QED
    BY <2>2, <2>3 DEF Book!Next
<1>2. ASSUME NEW t \in Tasks, NEW w \in Outcomes, StorePut(t, w)
      PROVE  Book!Next \/ UNCHANGED Book!bookVars
  <2>1. PICK r : r = call[t].ar
    OBVIOUS
  <2>2. PICK k : k = CID(r.anchor)
    OBVIOUS
  <2>3. r \in Record /\ k \in Keys /\ r.anchor \in Anchors
    BY <1>2, <2>1, <2>2, CallFields, IdsKnown DEF StorePut, At, Record
  <2>4. IsAnchorOf(k, r.btctx) /\ r.conf \in Answers(r.btctx)
    BY <1>2, <2>1, <2>2, <2>3 DEF StorePut, At, Evidence, CallOK, IsAnchorOf
  <2>5. UNCHANGED <<chain, height>>
    BY <1>2 DEF StorePut, cliVars
  <2>6. recs' = recs \/ recs' = [recs EXCEPT ![k] = r]
    BY <1>2, <2>1, <2>2, <2>3 DEF StorePut, Put, After, TypeOK
  <2>7. ASSUME recs' = [recs EXCEPT ![k] = r]
        PROVE  Book!Next
    <3>1. Pages' = [Pages EXCEPT ![k] = [btctx |-> r.btctx, conf |-> r.conf]]
      BY <2>3, <2>7, PageWritten
    <3>2. UNCHANGED Ledger
      BY <2>5 DEF Ledger, Txs, Confirmations
    <3>3. Book!File(k, r.btctx, r.conf)
      BY <2>4, <3>1, <3>2, IsAnchoring DEF Book!File
    <3>4. r.conf \in Book!Told(Ledger[r.btctx].age) /\ r.btctx \in DOMAIN Ledger
      BY <2>4, IsAnchoring
    <3>5. QED
      BY <2>3, <3>3, <3>4 DEF Book!Next
  <2>8. QED
    BY <1>s, <2>5, <2>6, <2>7
<1>3. ASSUME NEW t \in Tasks, NEW w \in Outcomes, RefreshConfirmations(t, w)
      PROVE  Book!Next \/ UNCHANGED Book!bookVars
  <2>1. PICK k, c, u : k = call[t].key /\ c = call[t].conf /\ u = call[t].tx
    OBVIOUS
  <2>2. PICK r : r = [recs[k] EXCEPT !.conf = c]
    OBVIOUS
  <2>3. /\ k \in Keys /\ recs[k] # None /\ recs[k] \in Record /\ c \in Told
        /\ UNCHANGED <<chain, height>>
    BY <1>3, <2>1, CallFields
    DEF RefreshConfirmations, At, UpdateConfirmations, UpdateEntity, TypeOK, cliVars
  <2>4. r \in Record /\ r.btctx = recs[k].btctx /\ r.conf = c
    BY <2>2, <2>3, FieldsType DEF Record
  <2>5. IsAnchorOf(k, u) /\ c \in Answers(u)
    BY <1>3, <2>1 DEF RefreshConfirmations, At, Evidence, CallOK
  <2>6. recs' = recs \/ recs' = [recs EXCEPT ![k] = r]
    BY <1>3, <2>1, <2>2, <2>3
    DEF RefreshConfirmations, UpdateConfirmations, UpdateEntity, After, TypeOK
  <2>7. ASSUME recs' = [recs EXCEPT ![k] = r]
        PROVE  Book!Next
    <3>1. Pages' = [Pages EXCEPT ![k] = [btctx |-> recs[k].btctx, conf |-> c]]
      BY <2>3, <2>4, <2>7, PageWritten
    <3>2. PICK p \in Page : p = [btctx |-> recs[k].btctx, conf |-> recs[k].conf]
      BY <2>3 DEF Record, Page
    <3>3. Pages = [j \in Keys |-> Pages[j]] /\ Pages[k] = p /\ p # None
      BY <2>3, <3>2, RecordAssumption DEF Pages
    <3>4. [p EXCEPT !.conf = c] = [btctx |-> recs[k].btctx, conf |-> c]
      BY <3>2
    <3>5. Pages' = [Pages EXCEPT ![k].conf = c]
      BY <3>1, <3>3, <3>4
    <3>6. UNCHANGED Ledger
      BY <2>3 DEF Ledger, Txs, Confirmations
    <3>7. Book!Confirm(k, u, c)
      BY <2>5, <3>3, <3>5, <3>6, IsAnchoring DEF Book!Confirm
    <3>8. c \in Book!Told(Ledger[u].age) /\ u \in DOMAIN Ledger
      BY <2>5, IsAnchoring
    <3>9. QED
      BY <2>3, <3>7, <3>8 DEF Book!Next
  <2>8. QED
    BY <1>s, <2>3, <2>6, <2>7
<1>n. ASSUME NEW k \in Keys, NEW r \in Record, NEW w \in Outcomes, UpdateEntity(k, r, w),
             r.btctx = recs[k].btctx, r.conf = recs[k].conf, UNCHANGED <<chain, height>>
      PROVE  UNCHANGED Book!bookVars
  <2>1. recs[k] # None /\ (recs' = recs \/ recs' = [recs EXCEPT ![k] = r])
    BY <1>n DEF UpdateEntity, After, TypeOK
  <2>2. ASSUME recs' = [recs EXCEPT ![k] = r]
        PROVE  UNCHANGED Pages
    <3>1. Pages' = [Pages EXCEPT ![k] = [btctx |-> r.btctx, conf |-> r.conf]]
      BY <2>2, PageWritten
    <3>2. Pages[k] = [btctx |-> r.btctx, conf |-> r.conf]
      BY <1>n, <2>1 DEF Pages
    <3>3. Pages = [j \in Keys |-> Pages[j]]
      BY DEF Pages
    <3>4. QED
      BY <3>1, <3>2, <3>3
  <2>3. QED
    BY <1>n, <1>s, <2>1, <2>2, BookStutters
<1>4. ASSUME NEW t \in Tasks, NEW w \in Outcomes, RefreshName(t, w)
      PROVE  UNCHANGED Book!bookVars
  <2>1. PICK k, r : k = call[t].key /\ r = [recs[k] EXCEPT !.name = call[t].name]
    OBVIOUS
  <2>2. /\ k \in Keys /\ recs[k] # None /\ recs[k] \in Record
        /\ call[t].name \in Names /\ UNCHANGED <<chain, height>>
    BY <1>4, <2>1, CallFields
    DEF RefreshName, At, UpdateBBc1DomainName, UpdateEntity, TypeOK, cliVars
  <2>3. r \in Record /\ r.btctx = recs[k].btctx /\ r.conf = recs[k].conf
    BY <2>1, <2>2, FieldsType DEF Record
  <2>4. QED
    BY <1>4, <1>n, <2>1, <2>2, <2>3 DEF RefreshName, UpdateBBc1DomainName
<1>5. ASSUME NEW t \in Tasks, NEW w \in Outcomes, RefreshNote(t, w)
      PROVE  UNCHANGED Book!bookVars
  <2>1. PICK k, r : k = call[t].key /\ r = [recs[k] EXCEPT !.note = call[t].note]
    OBVIOUS
  <2>2. /\ k \in Keys /\ recs[k] # None /\ recs[k] \in Record
        /\ call[t].note \in Notes /\ UNCHANGED <<chain, height>>
    BY <1>5, <2>1, CallFields
    DEF RefreshNote, At, UpdateNote, UpdateEntity, TypeOK, cliVars
  <2>3. r \in Record /\ r.btctx = recs[k].btctx /\ r.conf = recs[k].conf
    BY <2>1, <2>2, FieldsType DEF Record
  <2>4. QED
    BY <1>5, <1>n, <2>1, <2>2, <2>3 DEF RefreshNote, UpdateNote
<1>6. ASSUME Blocks
      PROVE  Book!Next
  BY <1>6, BlockRipens DEF Book!Next
<1>7. ASSUME NEW t \in Tasks, SetUTXO(t) \/ PutAnchorFails(t)
                              \/ \E w \in Outcomes : DropUTXO(t, w) \/ KeepChange(t, w)
      PROVE  UNCHANGED Book!bookVars
  BY <1>7, <1>s DEF SetUTXO, PutAnchorFails, DropUTXO, KeepChange, cliVars
<1>8. ASSUME NEW t \in Tasks, Request(t)
      PROVE  UNCHANGED Book!bookVars
  BY <1>8, <1>s
  DEF Request, RegisterTransaction, GetRecord, RefreshRecord, StoreRecord, cliVars
<1>9. ASSUME NEW t \in Tasks, NEW ask \in BOOLEAN,
             StoreGetAnchor(t, ask) \/ RefreshGetAnchor(t, ask)
      PROVE  UNCHANGED Book!bookVars
  BY <1>9, <1>s DEF StoreGetAnchor, RefreshGetAnchor, cliVars
<1>10. ASSUME NEW t \in Tasks, Done(t)
       PROVE  UNCHANGED Book!bookVars
  BY <1>10, <1>s DEF Done, cliVars
<1>11. ASSUME \/ Stop
              \/ \E read \in BOOLEAN : Start(read)
              \/ \E u \in DOMAIN chain, read \in BOOLEAN, w, wClose \in Outcomes :
                   OperatorAdd(u, read, w, wClose)
              \/ UNCHANGED vars
       PROVE  UNCHANGED Book!bookVars
  BY <1>11, <1>s DEF Stop, Start, OperatorAdd, cliVars, vars
<1>12. QED
  BY <1>1, <1>2, <1>3, <1>4, <1>5, <1>6, <1>7, <1>8, <1>9, <1>10, <1>11
  DEF Next, Acquire, Serve

(***************************************************************************)
(* The gateway keeps the promise of AnchorBook, with any number of         *)
(* goroutines, requests, transactions and faults: whatever interleaving of *)
(* the calls in gw.go, lost answers, failed writes and restarts, a page    *)
(* names a transaction that anchors the digest of its key, with a number   *)
(* of confirmations told of one for that digest, and is never removed.     *)
(***************************************************************************)
THEOREM BookKept == Spec => KeepsBook
<1>1. Init => Book!Init
  BY BookInit
<1>2. (IInv /\ Evidence) /\ [Next]_vars => [Book!Next]_(Book!bookVars)
  BY BookStep
<1>3. QED
  BY <1>1, <1>2, EvidenceHolds, PTL DEF Spec, KeepsBook, Book!Spec

=============================================================================

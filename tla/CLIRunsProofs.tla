--------------------------- MODULE CLIRunsProofs ----------------------------
(***************************************************************************)
(* Theorems about the runs of bitcoin-cli, for any wallet, any anchors and *)
(* any number of transactions and blocks.                                  *)
(***************************************************************************)
EXTENDS CLIRuns, OpReturnProofs

PutTask == [anchor : Anchors, before : Nat]
GetTask == [tx : Nat]
Entry == [category : {"send", "receive"}, address : {"addr", "second"},
          amount : Nat, vout : Nat]

\* A call with what it has found out by then, or with its answer.
Asking(j) == j \in [pc : {"ping", "get"}, task : PutTask \cup GetTask, got : {None}]
Paying(j) == j \in [pc : {"create", "sign", "send"}, task : PutTask, got : Entry]
Decoding(j) == j \in [pc : {"decode"}, task : GetTask, got : Nat]
Failing(j) == j \in [pc : {"done"}, task : PutTask \cup GetTask, error : Errors]
Told(j) == j \in [pc : {"done"}, task : PutTask, error : {None}, id : Nat]
Answered(j) == \E task \in GetTask, conf \in Nat : \E a :
                 j = [pc |-> "done", task |-> task, error |-> None,
                      anchor |-> a, conf |-> conf]

JobTyped == \/ job = Idle \/ Asking(job) \/ Paying(job) \/ Decoding(job)
            \/ Failing(job) \/ Told(job) \/ Answered(job)

Typed == /\ txs \in Seq(Transaction) /\ Len(txs) <= MaxTx
         /\ height \in 0..MaxHeight
         /\ xUTXO \in 0..Len(txs)
         /\ JobTyped

LEMMA TaskDomains ==
  /\ \A t \in PutTask : DOMAIN t = {"anchor", "before"}
  /\ \A t \in GetTask : DOMAIN t = {"tx"}
BY DEF PutTask, GetTask

\* A job is of one kind, and its kind can be told from where it is.
LEMMA JobKinds ==
  ASSUME JobTyped
  PROVE  /\ job.pc \in {"idle", "ping", "get", "create", "sign", "send", "decode",
                        "done"}
         /\ job.pc \in {"ping", "get"} => Asking(job)
         /\ job.pc \in {"create", "sign", "send"} => Paying(job)
         /\ job.pc = "decode" => Decoding(job)
         /\ job.pc = "done" => Failing(job) \/ Told(job) \/ Answered(job)
         /\ job.pc = "idle" => job = Idle
BY DEF JobTyped, Idle, Asking, Paying, Decoding, Failing, Told, Answered

-----------------------------------------------------------------------------
\* Lemmas about the operators.

LEMMA EncodedSize ==
  ASSUME NEW a \in Anchors
  PROVE  a \in Anchor /\ EncodeOpReturn(a) \in Seq(Byte) /\ Len(EncodeOpReturn(a)) = Size
<1>1. a \in Anchor
  BY NewAnchorIsAnchor, CLIRunsAssumption
<1> QED  BY <1>1, Layout

\* Among some entries there is a first one.
LEMMA FirstIsOne ==
  ASSUME NEW entries \in SUBSET Entry
  PROVE  IF entries = {} THEN First(entries) = None ELSE First(entries) \in entries
<1>1. CASE entries = {}
  BY <1>1 DEF First
<1>2. CASE entries # {}
  <2> DEFINE places == {e.vout : e \in entries}
  <2>1. places \subseteq Nat /\ places # {}
    BY <1>2 DEF Entry
  <2>2. PICK n \in places : \A m \in places : n <= m
    BY <2>1, Smallest
  <2>3. \E e \in entries : \A f \in entries : e.vout <= f.vout
    BY <2>2
  <2> QED  BY <1>2, <2>3 DEF First
<1> QED  BY <1>1, <1>2

\* What is received is an output to the address, with its place and amount.
LEMMA ReceivedIsOutput ==
  ASSUME NEW t \in Transaction, ParseTransactionReceived(t) # None
  PROVE  LET r == ParseTransactionReceived(t) IN
         /\ r \in Entry
         /\ r.vout \in DOMAIN t.outs
         /\ t.outs[r.vout].to = "addr" /\ t.outs[r.vout].amt = r.amount
<1> DEFINE entries == {e \in Details(t) : e.category = "receive" /\ e.address = "addr"}
<1>1. \A e \in entries : \E i \in DOMAIN t.outs :
        /\ t.outs[i].to = "addr"
        /\ e = [category |-> "receive", address |-> t.outs[i].to,
                amount |-> t.outs[i].amt, vout |-> i]
  BY DEF Details
<1>2. /\ DOMAIN t.outs \subseteq Nat
      /\ \A i \in DOMAIN t.outs : t.outs[i].amt \in Nat
  <2>1. t.outs \in Seq(Output)
    BY DEF Transaction
  <2>2. DOMAIN t.outs \subseteq Nat /\ \A i \in DOMAIN t.outs : t.outs[i] \in Output
    BY <2>1
  <2> QED  BY <2>2 DEF Output
<1>3. entries \in SUBSET Entry
  BY <1>1, <1>2 DEF Entry
<1>4. ParseTransactionReceived(t) = First(entries)
  BY DEF ParseTransactionReceived
<1>5. ParseTransactionReceived(t) \in entries
  BY <1>3, <1>4, FirstIsOne
<1> HIDE DEF entries
<1> QED  BY <1>1, <1>3, <1>5

\* The change of a transaction of the program is received.
LEMMA ChangeIsReceived ==
  ASSUME NEW t \in Transaction, NEW x \in Nat, NEW data,
         t.outs = <<Pays("addr", x), Carries(data)>>
  PROVE  /\ ParseTransactionReceived(t) # None
         /\ ParseTransactionReceived(t).amount = x
<1> DEFINE entries == {e \in Details(t) : e.category = "receive" /\ e.address = "addr"}
           change == [category |-> "receive", address |-> "addr",
                      amount |-> x, vout |-> 1]
<1>1. /\ DOMAIN t.outs = {1, 2} /\ t.outs[1].to = "addr" /\ t.outs[1].amt = x
      /\ t.outs[2].to = "nobody"
  BY DEF Pays, Carries
<1>2. entries = {change}
  BY <1>1 DEF Details
<1>3. change \in Entry
  BY DEF Entry
<1>4. ParseTransactionReceived(t) = First({change})
  BY <1>2 DEF ParseTransactionReceived
<1>5. First({change}) \in {change}
  BY <1>3, FirstIsOne
<1>6. change # None
  BY <1>3, NoneAssumption DEF Entry
<1> QED  BY <1>4, <1>5, <1>6

-----------------------------------------------------------------------------
\* The invariant.

\* Nothing happens to a transaction in a block that is not there yet.
ChainOK == \A u \in DOMAIN txs : txs[u].at <= height /\ txs[u].died <= height

\* C!Answers in terms of txs: what was ever told of a transaction.
Reached(u) ==
  IF txs[u].died # 0
  THEN {0} \cup ((UintMod + txs[u].died - height - 1)..(UintMod - 1))
  ELSE 0..(height - txs[u].at)

Counted(u, c) == u \in DOMAIN txs /\ c \in Reached(u)

ReadOK == /\ job.pc = "decode" => Counted(job.task.tx, job.got)
          /\ HasRead(job) => Counted(job.task.tx, job.conf)

\* What leaves open whether the anchor was sent.
Unclear == {"ErrFailedToExec", "ErrExitCode1", "ErrUnexpectedExitCode",
            "ErrFailedToDecode"}

SentOK == IsPut(job) /\ (job.pc = "done" => job.error \notin {None} \cup Unclear)
          => Len(txs) = job.task.before

\* A transaction of the program hands an output of the address on.
HandsOn(all, t, x) ==
  LET input == all[t.spends].outs[t.vout] IN
  /\ t.spends \in DOMAIN all /\ t.vout \in DOMAIN all[t.spends].outs
  /\ \E a \in Anchors : t.outs = <<Pays("addr", x), Carries(EncodeOpReturn(a))>>
  /\ x >= Dust
  /\ input.to = "addr" /\ input.amt - x \in {Fee, Fee + 1}

TxsOK == \A u \in DOMAIN txs :
           txs[u].spends # 0 => \E x \in Nat : HandsOn(txs, txs[u], x)

\* The output that a call has found is one of the address, and stays it.
GotOK ==
  job.pc \in {"create", "sign", "send"} =>
    LET outs == txs[xUTXO].outs IN
    /\ xUTXO \in DOMAIN txs
    /\ job.got.vout \in DOMAIN outs
    /\ outs[job.got.vout].to = "addr" /\ outs[job.got.vout].amt = job.got.amount
    /\ job.pc # "create" => C!Satoshi(job.got.amount) >= Fee

IInv == Typed /\ ChainOK /\ ReadOK /\ SentOK /\ TxsOK /\ GotOK

Running == job.pc \in {"ping", "get", "create", "sign", "send", "decode"}

LEMMA InitHolds == Init => IInv
<1> SUFFICES ASSUME Init PROVE IInv
  OBVIOUS
<1>1. txs \in Seq(Transaction)
  BY CLIRunsAssumption DEF Init
<1>2. /\ Len(txs) <= MaxTx
      /\ \A u \in DOMAIN txs : txs[u].spends = 0 /\ txs[u].at = 0 /\ txs[u].died = 0
  BY CLIRunsAssumption DEF Init
<1>3. height = 0 /\ xUTXO = 0 /\ job = Idle /\ MaxHeight \in Nat
  BY CLIRunsAssumption DEF Init
<1>4. Typed
  BY <1>1, <1>2, <1>3 DEF Typed, JobTyped
<1>5. ChainOK /\ TxsOK
  BY <1>2, <1>3 DEF ChainOK, TxsOK
<1>6. ReadOK /\ SentOK /\ GotOK
  BY <1>3 DEF Idle, ReadOK, HasRead, SentOK, IsPut, GotOK
<1> QED  BY <1>4, <1>5, <1>6 DEF IInv

\* A running call has a task, and nothing was sent for it.
LEMMA RunningTask ==
  ASSUME IInv, Running
  PROVE  /\ job.task \in PutTask \cup GetTask /\ job # Idle
         /\ IsPut(job) <=> job.task \in PutTask
         /\ IsPut(job) => Len(txs) = job.task.before
<1>1. Asking(job) \/ Paying(job) \/ Decoding(job)
  BY JobKinds DEF IInv, Typed, Running
<1>2. job.task \in PutTask \cup GetTask
  BY <1>1 DEF Asking, Paying, Decoding
<1>3. job # Idle
  BY DEF Running, Idle
<1>4. IsPut(job) <=> job.task \in PutTask
  BY <1>2, <1>3, TaskDomains DEF IsPut
<1>5. job.pc # "done"
  BY DEF Running
<1> QED  BY <1>2, <1>3, <1>4, <1>5 DEF IInv, SentOK

\* A call that ends with an error before anything is sent.
LEMMA Failure ==
  ASSUME IInv, Running, NEW e \in Errors, job' = Fails(job.task, e),
         UNCHANGED <<txs, height, xUTXO>>
  PROVE  IInv'
<1>1. /\ job.task \in PutTask \cup GetTask
      /\ IsPut(job) => Len(txs) = job.task.before
  BY RunningTask
<1>2. Failing(job')
  BY <1>1 DEF Failing, Fails
<1>3. Typed'
  BY <1>2 DEF IInv, Typed, JobTyped
<1>4. ChainOK' /\ TxsOK'
  BY DEF IInv, ChainOK, TxsOK, HandsOn
<1>5. job'.pc = "done" /\ job'.task = job.task /\ job'.error = e /\ e # None
  BY NoneAssumption DEF Fails
<1>6. ReadOK' /\ GotOK'
  BY <1>5 DEF ReadOK, HasRead, GotOK
<1>7. IsPut(job)' => IsPut(job)
  BY <1>5, RunningTask DEF IsPut
<1>8. SentOK'
  BY <1>1, <1>5, <1>7 DEF SentOK
<1> QED  BY <1>3, <1>4, <1>6, <1>8 DEF IInv

\* A call that goes on, or ends with an answer, while the node does nothing.
LEMMA GoesOn ==
  ASSUME IInv, Running, UNCHANGED <<txs, height>>,
         xUTXO' \in 0..Len(txs), JobTyped', SentOK', ReadOK', GotOK'
  PROVE  IInv'
<1>1. Typed'
  BY DEF IInv, Typed
<1>2. ChainOK' /\ TxsOK'
  BY DEF IInv, ChainOK, TxsOK, HandsOn
<1> QED  BY <1>1, <1>2 DEF IInv

-----------------------------------------------------------------------------
\* One lemma per action.

LEMMA CallKeeps ==
  ASSUME IInv,
         \/ \E a \in Anchors : CallPutAnchor(a)
         \/ \E u \in 0..Len(txs) : CallGetAnchor(u)
  PROVE  IInv'
<1>1. job = Idle /\ UNCHANGED <<txs, height, xUTXO>>
  BY DEF CallPutAnchor, CallGetAnchor
<1>2. ChainOK' /\ TxsOK'
  BY <1>1 DEF IInv, ChainOK, TxsOK, HandsOn
<1>3. Len(txs) \in Nat
  BY DEF IInv, Typed
<1>4. CASE \E a \in Anchors : CallPutAnchor(a)
  <2> PICK a \in Anchors : CallPutAnchor(a)
    BY <1>4
  <2>1. Put(a) \in PutTask /\ "ErrInconsistentBTCNet" \in Errors
    BY <1>3 DEF Put, PutTask, Errors
  <2>2. \/ job' = Asked(Put(a))
        \/ job' = Fails(Put(a), "ErrInconsistentBTCNet")
    BY DEF CallPutAnchor
  <2>3. JobTyped'
    BY <2>1, <2>2 DEF JobTyped, Asking, Failing, Asked, Fails
  <2>4. job'.pc \in {"ping", "done"} /\ job'.task = Put(a)
    BY <2>2 DEF Asked, Fails
  <2>5. ReadOK' /\ GotOK'
    BY <2>1, <2>2, <2>4, TaskDomains DEF ReadOK, HasRead, GotOK
  <2>6. SentOK'
    BY <1>1, <2>4 DEF SentOK, Put
  <2> QED  BY <1>1, <1>2, <2>3, <2>5, <2>6 DEF IInv, Typed
<1>5. CASE \E u \in 0..Len(txs) : CallGetAnchor(u)
  <2> PICK u \in 0..Len(txs) : CallGetAnchor(u)
    BY <1>5
  <2>1. Get(u) \in GetTask
    BY <1>3 DEF Get, GetTask
  <2>2. job' = Asked(Get(u))
    BY DEF CallGetAnchor
  <2>3. JobTyped'
    BY <2>1, <2>2 DEF JobTyped, Asking, Asked
  <2>4. job'.pc = "ping" /\ job'.task = Get(u)
    BY <2>2 DEF Asked
  <2>5. ReadOK' /\ GotOK' /\ SentOK'
    BY <2>1, <2>4, TaskDomains DEF ReadOK, HasRead, GotOK, SentOK, IsPut
  <2> QED  BY <1>1, <1>2, <2>3, <2>5 DEF IInv, Typed
<1> QED  BY <1>4, <1>5

LEMMA BetweenCallsKeeps ==
  ASSUME IInv, Return \/ \E u \in DOMAIN txs : XSetUTXO(u)
  PROVE  IInv'
<1>1. job' = Idle /\ UNCHANGED <<txs, height>>
  BY DEF Return, XSetUTXO
<1>2. xUTXO' \in 0..Len(txs)
  BY DEF Return, XSetUTXO, C!XSetUTXO, IInv, Typed
<1>3. ChainOK' /\ TxsOK'
  BY <1>1 DEF IInv, ChainOK, TxsOK, HandsOn
<1>4. ReadOK' /\ SentOK' /\ GotOK'
  BY <1>1 DEF Idle, ReadOK, HasRead, SentOK, IsPut, GotOK
<1> QED  BY <1>1, <1>2, <1>3, <1>4 DEF IInv, Typed, JobTyped

LEMMA PingKeeps ==
  ASSUME IInv, NEW error \in {None} \cup PingErrors, Ping(error)
  PROVE  IInv'
<1>1. Running /\ UNCHANGED <<txs, height, xUTXO>> /\ job.pc = "ping"
  BY DEF Ping, Running
<1>2. CASE Net = BTCTestnet4 \/ error # None
  <2>1. CASE Net = BTCTestnet4
    <3>1. "panic" \in Errors
      BY <2>1 DEF Errors
    <3> QED  BY <1>1, <2>1, <3>1, Failure DEF Ping
  <2>2. CASE Net # BTCTestnet4 /\ error # None
    BY <1>1, <2>2, Failure DEF Ping, Errors
  <2> QED  BY <1>2, <2>1, <2>2
<1>3. CASE Net # BTCTestnet4 /\ error = None
  <2>1. job' = [job EXCEPT !.pc = "get"] /\ Asking(job)
    BY <1>1, <1>3, JobKinds DEF Ping, IInv, Typed
  <2>2. Asking(job') /\ job'.pc = "get" /\ job'.task = job.task
    BY <2>1 DEF Asking
  <2>3. SentOK'
    BY <1>1, <2>2, RunningTask DEF SentOK, IsPut
  <2>4. ReadOK' /\ GotOK'
    BY <2>2 DEF ReadOK, HasRead, GotOK
  <2> QED  BY <1>1, <2>2, <2>3, <2>4, GoesOn DEF IInv, Typed, JobTyped
<1> QED  BY <1>2, <1>3

LEMMA RunFailsKeeps ==
  ASSUME IInv, Garbled \/ \E code \in Codes : RunFails(code)
  PROVE  IInv'
<1>1. Running /\ UNCHANGED <<txs, height, xUTXO>>
  BY DEF RunFails, Garbled, Running
<1>2. \E e \in Errors : job' = Fails(job.task, e)
  <2>1. CASE Garbled
    BY <2>1 DEF Garbled, Errors
  <2>2. CASE \E code \in Codes : RunFails(code)
    BY <2>2 DEF RunFails, Errors
  <2> QED  BY <2>1, <2>2
<1> QED  BY <1>1, <1>2, Failure

\* Where a call pays, it is PutAnchor, and before the sending nothing was sent.
LEMMA PayingGoesOn ==
  ASSUME IInv, Running, Paying(job'), job'.task = job.task, job'.pc # "done",
         UNCHANGED <<txs, height, xUTXO>>, GotOK'
  PROVE  IInv'
<1>1. job'.pc \in {"create", "sign", "send"} /\ JobTyped'
  BY DEF Paying, JobTyped
<1>2. ReadOK'
  BY <1>1 DEF ReadOK, HasRead
<1>3. SentOK'
  BY RunningTask DEF SentOK, IsPut
<1> QED  BY <1>1, <1>2, <1>3, GoesOn DEF IInv, Typed

\* What is read as a number of confirmations was told of the transaction.
LEMMA ConfirmationsCount ==
  ASSUME IInv, NEW u \in DOMAIN txs, NEW c \in Confs(u)
  PROVE  c \in Nat /\ Counted(u, c)
<1>1. txs[u] \in Transaction /\ height \in 0..MaxHeight
  BY DEF IInv, Typed
<1>2. txs[u].died <= height /\ txs[u].at <= height
  BY DEF IInv, ChainOK
<1>3. txs[u].died \in 0..MaxHeight /\ txs[u].at \in 0..MaxHeight
  BY <1>1 DEF Transaction
<1>4. MaxHeight \in Nat /\ UintMod \in Nat /\ 2 * MaxHeight < UintMod
  BY CLIRunsAssumption
<1>5. CASE txs[u].died = 0
  <2>1. c = height - txs[u].at
    BY <1>1, <1>2, <1>3, <1>4, <1>5
       DEF Confs, C!Confirmations, C!ParseTransactionConfirmations
  <2> QED  BY <1>1, <1>2, <1>3, <1>4, <1>5, <2>1 DEF Counted, Reached
<1>6. CASE txs[u].died # 0
  <2>1. c \in {0, UintMod + (txs[u].died - height - 1)}
    BY <1>1, <1>2, <1>3, <1>4, <1>6
       DEF Confs, C!Confirmations, C!ParseTransactionConfirmations
  <2>2. c \in Nat /\ c \in Reached(u)
    BY <1>1, <1>2, <1>3, <1>4, <1>6, <2>1 DEF Reached
  <2> QED  BY <2>2 DEF Counted
<1> QED  BY <1>5, <1>6

LEMMA GetUTXOKeeps ==
  ASSUME IInv, NEW confs, GetUTXO(confs)
  PROVE  IInv'
<1> DEFINE received == ParseTransactionReceived(txs[xUTXO])
<1>1. /\ Running /\ IsPut(job) /\ job.pc = "get" /\ xUTXO \in DOMAIN txs
      /\ UNCHANGED <<txs, height, xUTXO>>
  BY DEF GetUTXO, Running
<1>2. \/ \E e \in Errors : job' = Fails(job.task, e)
      \/ received # None /\ job' = [job EXCEPT !.pc = "create", !.got = received]
  <2>1. {"ErrFailedToDecode"} \subseteq Errors
    BY DEF Errors
  <2>2. confs \in Nat /\ ~(confs < leastConfirmationNeeded)
    <3>1. confs \in Nat
      BY <1>1, ConfirmationsCount DEF GetUTXO
    <3> QED  BY <3>1 DEF leastConfirmationNeeded
  <2> QED  BY <2>1, <2>2 DEF GetUTXO
<1>3. CASE \E e \in Errors : job' = Fails(job.task, e)
  BY <1>1, <1>3, Failure
<1>4. CASE received # None /\ job' = [job EXCEPT !.pc = "create", !.got = received]
  <2>1. txs[xUTXO] \in Transaction
    BY <1>1 DEF IInv, Typed
  <2>2. /\ received \in Entry /\ received.vout \in DOMAIN txs[xUTXO].outs
        /\ txs[xUTXO].outs[received.vout].to = "addr"
        /\ txs[xUTXO].outs[received.vout].amt = received.amount
    BY <1>4, <2>1, ReceivedIsOutput
  <2> HIDE DEF received
  <2>3. Asking(job) /\ job.task \in PutTask
    BY <1>1, JobKinds, RunningTask DEF IInv, Typed
  <2>4. /\ Paying(job') /\ job'.task = job.task /\ job'.pc = "create"
        /\ job'.got = received
    BY <1>4, <2>2, <2>3 DEF Asking, Paying
  <2>5. GotOK'
    BY <1>1, <2>2, <2>4 DEF GotOK
  <2> QED  BY <1>1, <2>4, <2>5, PayingGoesOn
<1> QED  BY <1>2, <1>3, <1>4

LEMMA CreateKeeps ==
  ASSUME IInv, CreateRawTransactionForAnchor
  PROVE  IInv'
<1>1. Running /\ job.pc = "create" /\ UNCHANGED <<txs, height, xUTXO>>
  BY DEF CreateRawTransactionForAnchor, Running
<1>2. CASE C!Satoshi(job.got.amount) < Fee
  <2>1. "ErrInvalidFee" \in Errors
    BY DEF Errors
  <2> QED  BY <1>1, <1>2, <2>1, Failure DEF CreateRawTransactionForAnchor
<1>3. CASE ~(C!Satoshi(job.got.amount) < Fee)
  <2>1. Paying(job)
    BY <1>1, JobKinds DEF IInv, Typed
  <2>2. job' = [job EXCEPT !.pc = "sign"]
    BY <1>3 DEF CreateRawTransactionForAnchor
  <2>3. /\ Paying(job') /\ job'.task = job.task /\ job'.got = job.got
        /\ job'.pc = "sign"
    BY <2>1, <2>2 DEF Paying
  <2>4. C!Satoshi(job.got.amount) \in Int
    BY <2>1 DEF Paying, Entry, C!Satoshi
  <2>5. C!Satoshi(job.got.amount) >= Fee
    BY <1>3, <2>4, CLIRunsAssumption
  <2>6. GotOK'
    BY <1>1, <2>3, <2>5 DEF IInv, GotOK, C!Satoshi
  <2> QED  BY <1>1, <2>3, <2>6, PayingGoesOn
<1> QED  BY <1>2, <1>3

LEMMA SignKeeps ==
  ASSUME IInv, NEW complete \in BOOLEAN, SignRawTransactionWithWallet(complete)
  PROVE  IInv'
<1>1. Running /\ job.pc = "sign" /\ UNCHANGED <<txs, height, xUTXO>>
  BY DEF SignRawTransactionWithWallet, Running
<1>2. CASE ~complete
  <2>1. "ErrFailedToSign" \in Errors
    BY DEF Errors
  <2> QED  BY <1>1, <1>2, <2>1, Failure DEF SignRawTransactionWithWallet
<1>3. CASE complete
  <2>1. Paying(job)
    BY <1>1, JobKinds DEF IInv, Typed
  <2>2. job' = [job EXCEPT !.pc = "send"]
    BY <1>3 DEF SignRawTransactionWithWallet
  <2>3. /\ Paying(job') /\ job'.task = job.task /\ job'.got = job.got
        /\ job'.pc = "send"
    BY <2>1, <2>2 DEF Paying
  <2>4. GotOK'
    BY <1>1, <2>3 DEF IInv, GotOK, C!Satoshi
  <2> QED  BY <1>1, <2>3, <2>4, PayingGoesOn
<1> QED  BY <1>2, <1>3

\* A transaction stays what it is when others are added.
LEMMA HandsOnStays ==
  ASSUME NEW all, NEW more, NEW t, NEW x, HandsOn(all, t, x),
         \A u \in DOMAIN all : u \in DOMAIN more /\ more[u].outs = all[u].outs
  PROVE  HandsOn(more, t, x)
BY DEF HandsOn

LEMMA SendKeeps ==
  ASSUME IInv, NEW code \in {0} \cup UnclearCodes, NEW parsed \in BOOLEAN,
         SendRawTransaction(code, parsed)
  PROVE  IInv'
<1> DEFINE x == C!Satoshi(job.got.amount) - Fee
<1>1. /\ Running /\ job.pc = "send" /\ Paying(job) /\ Len(txs) < MaxTx
      /\ txs' = Append(txs, AnchorTx) /\ UNCHANGED height /\ AnchorTx.outs[1].amt >= Dust
  BY JobKinds DEF SendRawTransaction, Running, IInv, Typed
<1>2. /\ job.task \in PutTask /\ job.task.anchor \in Anchors /\ job.got.vout \in Nat
      /\ job.got.amount \in Nat
  BY <1>1 DEF Paying, PutTask, Entry
<1>3. /\ xUTXO \in DOMAIN txs /\ job.got.vout \in DOMAIN txs[xUTXO].outs
      /\ txs[xUTXO].outs[job.got.vout].to = "addr"
      /\ txs[xUTXO].outs[job.got.vout].amt = job.got.amount
      /\ C!Satoshi(job.got.amount) >= Fee
  BY <1>1 DEF IInv, GotOK
<1>4. x \in Nat /\ job.got.amount - x \in {Fee, Fee + 1}
  BY <1>2, <1>3, CLIRunsAssumption DEF C!Satoshi
<1>5. /\ AnchorTx.spends = xUTXO /\ AnchorTx.vout = job.got.vout
      /\ AnchorTx.outs = <<Pays("addr", x), Carries(EncodeOpReturn(job.task.anchor))>>
      /\ AnchorTx.at = height /\ AnchorTx.died = 0
      /\ AnchorTx.outs[1].amt = x
  BY DEF AnchorTx, Tx, Pays
<1> HIDE DEF x
<1>6. x >= Dust
  BY <1>1, <1>5
<1>7. AnchorTx \in Transaction
  <2>1. /\ Pays("addr", x) \in Output
        /\ Carries(EncodeOpReturn(job.task.anchor)) \in Output
    BY <1>2, <1>4, EncodedSize DEF Pays, Carries, Output
  <2>2. AnchorTx.outs \in Seq(Output)
    BY <1>5, <2>1
  <2>3. xUTXO \in Nat /\ height \in 0..MaxHeight /\ MaxHeight \in Nat
    BY CLIRunsAssumption DEF IInv, Typed
  <2>4. job.task.anchor \in NewAnchors
    BY <1>2, CLIRunsAssumption
  <2> QED  BY <1>2, <2>2, <2>3, <2>4 DEF AnchorTx, Tx, Transaction
<1>8. /\ txs' \in Seq(Transaction) /\ Len(txs') = Len(txs) + 1 /\ Len(txs) \in Nat
      /\ DOMAIN txs' = DOMAIN txs \cup {Len(txs')} /\ txs'[Len(txs')] = AnchorTx
      /\ \A u \in DOMAIN txs : txs'[u] = txs[u]
  BY <1>1, <1>7 DEF IInv, Typed
<1>9. \/ job' = Sent(Len(txs')) /\ xUTXO' = Len(txs')
      \/ /\ \E e \in Unclear : job' = Fails(job.task, e)
         /\ xUTXO' = xUTXO
  BY DEF SendRawTransaction, UnclearCodes, run, Unclear
<1>10. Unclear \subseteq Errors
  BY DEF Unclear, Errors, Codes, run
<1>11. /\ JobTyped' /\ job'.pc = "done" /\ job'.task = job.task
       /\ job'.error \in {None} \cup Unclear
  BY <1>2, <1>8, <1>9, <1>10 DEF JobTyped, Failing, Told, Fails, Sent
<1>12. Typed'
  BY <1>1, <1>8, <1>9, <1>11, CLIRunsAssumption DEF IInv, Typed
<1>13. ChainOK'
  BY <1>1, <1>5, <1>8 DEF IInv, Typed, ChainOK
<1>14. ReadOK' /\ SentOK' /\ GotOK'
  BY <1>2, <1>11, TaskDomains DEF ReadOK, HasRead, SentOK, GotOK
<1>15. TxsOK'
  <2> SUFFICES ASSUME NEW u \in DOMAIN txs', txs'[u].spends # 0
               PROVE  \E y \in Nat : HandsOn(txs', txs'[u], y)
    BY DEF TxsOK
  <2>1. CASE u \in DOMAIN txs
    <3>1. txs[u].spends # 0 /\ txs'[u] = txs[u]
      BY <1>8, <2>1
    <3>2. PICK y \in Nat : HandsOn(txs, txs[u], y)
      BY <2>1, <3>1 DEF IInv, TxsOK
    <3>3. HandsOn(txs', txs[u], y)
      BY <1>8, <3>2, HandsOnStays
    <3> QED  BY <3>1, <3>3
  <2>2. CASE u = Len(txs')
    <3>1. txs'[u] = AnchorTx /\ txs'[xUTXO] = txs[xUTXO] /\ xUTXO \in DOMAIN txs'
      BY <1>3, <1>8, <2>2
    <3>2. PICK y \in Nat : y = x
      BY <1>4
    <3>3. HandsOn(txs', AnchorTx, y)
      BY <1>2, <1>3, <1>4, <1>5, <1>6, <3>1, <3>2 DEF HandsOn
    <3> QED  BY <3>1, <3>3
  <2> QED  BY <1>8, <2>1, <2>2
<1> QED  BY <1>12, <1>13, <1>14, <1>15 DEF IInv

LEMMA SendAgainKeeps ==
  ASSUME IInv, NEW u \in DOMAIN txs, NEW parsed \in BOOLEAN, SendAgain(u, parsed)
  PROVE  IInv'
<1>1. Running /\ job.pc = "send" /\ Paying(job) /\ UNCHANGED <<txs, height>>
  BY JobKinds DEF SendAgain, Running, IInv, Typed
<1>2. job.task \in PutTask /\ u \in 1..Len(txs)
  BY <1>1 DEF Paying, IInv, Typed
<1>3. \/ job' = Sent(u) /\ xUTXO' = u
      \/ job' = Fails(job.task, "ErrFailedToDecode") /\ xUTXO' = xUTXO
  BY DEF SendAgain
<1>4. "ErrFailedToDecode" \in Errors \cap Unclear
  BY DEF Errors, Unclear
<1>5. /\ JobTyped' /\ job'.pc = "done" /\ job'.task = job.task
      /\ job'.error \in {None} \cup Unclear
  BY <1>2, <1>3, <1>4 DEF JobTyped, Failing, Told, Fails, Sent
<1>6. ReadOK' /\ SentOK' /\ GotOK'
  BY <1>2, <1>5, TaskDomains DEF ReadOK, HasRead, SentOK, GotOK
<1>7. xUTXO' \in 0..Len(txs)
  BY <1>2, <1>3 DEF IInv, Typed
<1> QED  BY <1>1, <1>5, <1>6, <1>7, GoesOn

LEMMA GetAnchorTxKeeps ==
  ASSUME IInv, NEW conf, GetAnchorTx(conf)
  PROVE  IInv'
<1>1. /\ Running /\ ~IsPut(job) /\ job.pc = "get" /\ job.task.tx \in DOMAIN txs
      /\ UNCHANGED <<txs, height, xUTXO>>
  BY DEF GetAnchorTx, Running
<1>2. conf \in Nat /\ Counted(job.task.tx, conf)
  BY <1>1, ConfirmationsCount DEF GetAnchorTx
<1>3. Asking(job) /\ job.task \in GetTask
  BY <1>1, JobKinds, RunningTask DEF IInv, Typed
<1>4. job' = [job EXCEPT !.pc = "decode", !.got = conf]
  BY DEF GetAnchorTx
<1>5. /\ Decoding(job') /\ job'.task = job.task /\ job'.pc = "decode"
      /\ job'.got = conf
  BY <1>2, <1>3, <1>4 DEF Asking, Decoding
<1>6. ReadOK' /\ SentOK' /\ GotOK'
  BY <1>1, <1>2, <1>3, <1>5, TaskDomains
     DEF ReadOK, HasRead, Counted, Reached, SentOK, IsPut, GotOK
<1> QED  BY <1>1, <1>5, <1>6, GoesOn DEF IInv, Typed, JobTyped

LEMMA DecodeKeeps ==
  ASSUME IInv, DecodeAnchorTx
  PROVE  IInv'
<1>1. /\ Running /\ job.pc = "decode" /\ Decoding(job) /\ UNCHANGED <<txs, height, xUTXO>>
  BY JobKinds DEF DecodeAnchorTx, Running, IInv, Typed
<1>2. \/ \E e \in Errors : job' = Fails(job.task, e)
      \/ \E a : job' = Read(a)
  BY DEF DecodeAnchorTx, Errors
<1>3. CASE \E e \in Errors : job' = Fails(job.task, e)
  BY <1>1, <1>3, Failure
<1>4. CASE \E a : job' = Read(a)
  <2>1. job.task \in GetTask /\ job.got \in Nat
    BY <1>1 DEF Decoding
  <2>2. JobTyped'
    BY <1>4, <2>1 DEF JobTyped, Answered, Read
  <2>3. /\ job'.pc = "done" /\ job'.task = job.task /\ job'.error = None
        /\ job'.conf = job.got
    BY <1>4 DEF Read
  <2>4. ReadOK' /\ SentOK' /\ GotOK'
    BY <1>1, <2>1, <2>3, TaskDomains
       DEF IInv, ReadOK, HasRead, Counted, Reached, SentOK, IsPut, GotOK
  <2> QED  BY <1>1, <2>2, <2>4, GoesOn DEF IInv, Typed
<1> QED  BY <1>2, <1>3, <1>4

LEMMA InChain ==
  ASSUME IInv, NEW u \in DOMAIN txs
  PROVE  /\ txs[u] \in Transaction /\ txs[u].outs \in Seq(Output)
         /\ txs[u].at \in Nat /\ txs[u].died \in Nat
         /\ txs[u].at <= height /\ txs[u].died <= height
<1>1. txs[u] \in Transaction
  BY DEF IInv, Typed
<1>2. MaxHeight \in Nat
  BY CLIRunsAssumption
<1> QED  BY <1>1, <1>2 DEF Transaction, IInv, ChainOK

\* What was told of a transaction stays told of it when a block comes, also one
\* that it is lost to.
LEMMA ReachedGrows ==
  ASSUME IInv, NEW u \in DOMAIN txs, height' = height + 1, height' <= MaxHeight,
         u \in DOMAIN txs', txs'[u].at = txs[u].at,
         \/ txs'[u].died = txs[u].died
         \/ /\ txs[u].died = 0 /\ ~C!Mined(txs[u])
            /\ txs'[u].died = height'
  PROVE  \A c : Counted(u, c) => Counted(u, c)'
<1>1. /\ txs[u].at \in Nat /\ txs[u].died \in Nat /\ height \in Nat
      /\ txs[u].at <= height /\ txs[u].died <= height
  BY InChain, CLIRunsAssumption DEF IInv, Typed
<1>2. UintMod \in Nat
  BY CLIRunsAssumption
<1>3. CASE txs'[u].died = txs[u].died
  <2>1. CASE txs[u].died # 0
    BY <1>1, <1>2, <1>3, <2>1 DEF Counted, Reached
  <2>2. CASE txs[u].died = 0
    BY <1>1, <1>3, <2>2 DEF Counted, Reached
  <2> QED  BY <2>1, <2>2
<1>4. CASE /\ txs[u].died = 0 /\ ~C!Mined(txs[u])
           /\ txs'[u].died = height'
  <2>1. txs[u].at = height
    BY <1>1, <1>4 DEF C!Mined
  <2>2. Reached(u) = {0}
    BY <1>1, <1>4, <2>1 DEF Reached
  <2>3. txs'[u].died # 0
    BY <1>1, <1>4
  <2> QED  BY <2>2, <2>3 DEF Counted, Reached
<1> QED  BY <1>3, <1>4

LEMMA MineKeeps ==
  ASSUME IInv, Mine
  PROVE  IInv'
<1>1. /\ height < MaxHeight /\ height' = height + 1 /\ UNCHANGED <<txs, job, xUTXO>>
  BY DEF Mine, C!Mine
<1>2. height \in 0..MaxHeight /\ height' \in 0..MaxHeight /\ MaxHeight \in Nat
  BY <1>1, CLIRunsAssumption DEF IInv, Typed
<1>3. Typed'
  BY <1>1, <1>2 DEF IInv, Typed, JobTyped
<1>4. \A u \in DOMAIN txs : txs[u].at \in Nat /\ txs[u].died \in Nat
  BY InChain
<1>5. ChainOK'
  BY <1>1, <1>2, <1>4 DEF IInv, ChainOK
<1>6. ReadOK'
  <2>1. \A u, c : Counted(u, c) => Counted(u, c)'
    <3> SUFFICES ASSUME NEW u, NEW c, Counted(u, c) PROVE Counted(u, c)'
      OBVIOUS
    <3>1. u \in DOMAIN txs /\ height' <= MaxHeight
      BY <1>2 DEF Counted
    <3> QED  BY <1>1, <3>1, ReachedGrows
  <2>2. job.pc = "decode" => Counted(job.task.tx, job.got)'
    BY <1>1, <2>1 DEF IInv, ReadOK
  <2>3. HasRead(job) => Counted(job.task.tx, job.conf)'
    BY <1>1, <2>1 DEF IInv, ReadOK
  <2> QED  BY <1>1, <2>2, <2>3 DEF ReadOK
<1>7. SentOK' /\ TxsOK' /\ GotOK'
  BY <1>1 DEF IInv, SentOK, TxsOK, GotOK, C!Satoshi
<1> QED  BY <1>3, <1>5, <1>6, <1>7 DEF IInv

LEMMA DoubleSpendKeeps ==
  ASSUME IInv, NEW lost \in SUBSET DOMAIN txs, DoubleSpend(lost)
  PROVE  IInv'
<1>1. /\ height < MaxHeight /\ height' = height + 1 /\ UNCHANGED <<job, xUTXO>>
      /\ \A u \in lost : txs[u].died = 0 /\ ~C!Mined(txs[u])
  BY DEF DoubleSpend
<1>2. height \in 0..MaxHeight /\ height' \in 0..MaxHeight /\ MaxHeight \in Nat
  BY <1>1, CLIRunsAssumption DEF IInv, Typed
<1>3. \A u \in DOMAIN txs :
        /\ txs[u] \in Transaction
        /\ txs'[u] = IF u \in lost THEN [txs[u] EXCEPT !.died = height + 1] ELSE txs[u]
  BY DEF DoubleSpend, IInv, Typed
<1>4. \A u \in DOMAIN txs :
        /\ txs'[u] \in Transaction
        /\ txs'[u].spends = txs[u].spends /\ txs'[u].vout = txs[u].vout
        /\ txs'[u].outs = txs[u].outs /\ txs'[u].at = txs[u].at
        /\ txs'[u].at \in Nat
        /\ txs'[u].died = IF u \in lost THEN height' ELSE txs[u].died
  <2> SUFFICES ASSUME NEW u \in DOMAIN txs
               PROVE  /\ txs'[u] \in Transaction
                      /\ txs'[u].spends = txs[u].spends /\ txs'[u].vout = txs[u].vout
                      /\ txs'[u].outs = txs[u].outs /\ txs'[u].at = txs[u].at
                      /\ txs'[u].at \in Nat
                      /\ txs'[u].died = IF u \in lost THEN height' ELSE txs[u].died
    OBVIOUS
  <2>1. CASE u \in lost
    <3>1. txs'[u] = [txs[u] EXCEPT !.died = height'] /\ txs[u] \in Transaction
      BY <1>1, <1>3, <2>1
    <3> QED  BY <1>2, <2>1, <3>1 DEF Transaction
  <2>2. CASE u \notin lost
    <3>1. txs'[u] = txs[u]
      BY <1>3, <2>2
    <3> QED  BY <2>2, <3>1, InChain
  <2> QED  BY <2>1, <2>2
<1>5. txs' \in Seq(Transaction) /\ Len(txs') = Len(txs) /\ DOMAIN txs' = DOMAIN txs
  <2>1. DOMAIN txs = 1..Len(txs) /\ Len(txs) \in Nat
    BY DEF IInv, Typed
  <2>2. DOMAIN txs' = 1..Len(txs) /\ txs' = [u \in 1..Len(txs) |-> txs'[u]]
    BY <2>1 DEF DoubleSpend
  <2>3. txs' \in [1..Len(txs) -> Transaction]
    BY <1>4, <2>1, <2>2
  <2> QED  BY <2>1, <2>2, <2>3, FunctionIsSeq
<1>6. Typed'
  BY <1>1, <1>2, <1>5 DEF IInv, Typed, JobTyped
<1>7. ChainOK'
  <2> SUFFICES ASSUME NEW u \in DOMAIN txs
               PROVE  txs'[u].at <= height' /\ txs'[u].died <= height'
    BY <1>5 DEF ChainOK
  <2>1. /\ txs[u].at \in Nat /\ txs[u].died \in Nat
        /\ txs[u].at <= height /\ txs[u].died <= height
    BY InChain
  <2> QED  BY <1>1, <1>2, <1>4, <2>1
<1>8. \A u, c : Counted(u, c) => Counted(u, c)'
  <2> SUFFICES ASSUME NEW u, NEW c, Counted(u, c) PROVE Counted(u, c)'
    OBVIOUS
  <2>1. u \in DOMAIN txs /\ height' <= MaxHeight
    BY <1>2 DEF Counted
  <2>2. /\ u \in DOMAIN txs' /\ txs'[u].at = txs[u].at
        /\ txs'[u].died = IF u \in lost THEN height' ELSE txs[u].died
    BY <1>4, <1>5, <2>1
  <2> QED  BY <1>1, <2>1, <2>2, ReachedGrows
<1>9. ReadOK'
  <2>1. job.pc = "decode" => Counted(job.task.tx, job.got)'
    BY <1>1, <1>8 DEF IInv, ReadOK
  <2>2. HasRead(job) => Counted(job.task.tx, job.conf)'
    BY <1>1, <1>8 DEF IInv, ReadOK
  <2> QED  BY <1>1, <2>1, <2>2 DEF ReadOK
<1>10. SentOK'
  BY <1>1, <1>5 DEF IInv, SentOK
<1>11. GotOK'
  BY <1>1, <1>4, <1>5 DEF IInv, GotOK, C!Satoshi
<1>12. TxsOK'
  <2> SUFFICES ASSUME NEW u \in DOMAIN txs', txs'[u].spends # 0
               PROVE  \E y \in Nat : HandsOn(txs', txs'[u], y)
    BY DEF TxsOK
  <2>1. u \in DOMAIN txs /\ txs[u].spends # 0
    BY <1>4, <1>5
  <2>2. PICK y \in Nat : HandsOn(txs, txs[u], y)
    BY <2>1 DEF IInv, TxsOK
  <2>3. HandsOn(txs', txs[u], y)
    BY <1>4, <1>5, <2>2, HandsOnStays
  <2>4. HandsOn(txs', txs'[u], y)
    BY <1>4, <2>1, <2>3 DEF HandsOn
  <2> QED  BY <2>4
<1> QED  BY <1>6, <1>7, <1>9, <1>10, <1>11, <1>12 DEF IInv

LEMMA StepHolds == IInv /\ [Next]_vars => IInv'
<1> SUFFICES ASSUME IInv, [Next]_vars PROVE IInv'
  OBVIOUS
<1>1. CASE \/ \E a \in Anchors : CallPutAnchor(a)
           \/ \E u \in 0..Len(txs) : CallGetAnchor(u)
  BY <1>1, CallKeeps
<1>2. CASE Return \/ \E u \in DOMAIN txs : XSetUTXO(u)
  BY <1>2, BetweenCallsKeeps
<1>3. CASE \E error \in {None} \cup PingErrors : Ping(error)
  BY <1>3, PingKeeps
<1>4. CASE Garbled \/ \E code \in Codes : RunFails(code)
  BY <1>4, RunFailsKeeps
<1>5. CASE \E confs \in 0..(UintMod + MaxHeight) : GetUTXO(confs)
  BY <1>5, GetUTXOKeeps
<1>6. CASE \E confs \in 0..(UintMod + MaxHeight) : GetAnchorTx(confs)
  BY <1>6, GetAnchorTxKeeps
<1>7. CASE CreateRawTransactionForAnchor
  BY <1>7, CreateKeeps
<1>8. CASE \E complete \in BOOLEAN : SignRawTransactionWithWallet(complete)
  BY <1>8, SignKeeps
<1>9. CASE \E code \in {0} \cup UnclearCodes, parsed \in BOOLEAN :
             SendRawTransaction(code, parsed)
  BY <1>9, SendKeeps
<1>10. CASE \E u \in DOMAIN txs, parsed \in BOOLEAN : SendAgain(u, parsed)
  BY <1>10, SendAgainKeeps
<1>11. CASE DecodeAnchorTx
  BY <1>11, DecodeKeeps
<1>12. CASE Mine
  BY <1>12, MineKeeps
<1>13. CASE \E lost \in SUBSET DOMAIN txs : DoubleSpend(lost)
  BY <1>13, DoubleSpendKeeps
<1>14. CASE UNCHANGED vars
  BY <1>14 DEF vars, IInv, Typed, JobTyped, ChainOK, ReadOK, Counted, Reached, HasRead,
               SentOK, TxsOK, GotOK, C!Satoshi
<1> QED
  BY <1>1, <1>2, <1>3, <1>4, <1>5, <1>6, <1>7, <1>8, <1>9, <1>10, <1>11, <1>12,
     <1>13, <1>14 DEF Next

LEMMA Invariant == Spec => []IInv
BY InitHolds, StepHolds, PTL DEF Spec

-----------------------------------------------------------------------------
\* Any program of this kind ends its calls with declared errors only, asks for
\* no second confirmation, and sends nothing that is too long or negative.
THEOREM CLIRunsTypeCorrect == Spec => []TypeOK
<1>1. IInv => TypeOK
  <2> SUFFICES ASSUME IInv PROVE TypeOK
    OBVIOUS
  <2>1. /\ Len(txs) <= MaxTx /\ height \in 0..MaxHeight /\ xUTXO \in 0..Len(txs)
        /\ job.pc \in {"idle", "ping", "get", "create", "sign", "send", "decode", "done"}
    BY JobKinds DEF IInv, Typed
  <2>2. job.pc = "done" => job.error \in Errors \cup {None}
    BY JobKinds DEF IInv, Typed, Failing, Told, Answered
  <2>3. ASSUME NEW u \in DOMAIN txs, NEW i \in DOMAIN txs[u].outs
        PROVE  LET out == txs[u].outs[i] IN
               /\ out.amt \in Nat
               /\ txs[u].spends # 0 /\ out.data # None => Len(out.data) = Size
    <3>1. txs[u].outs \in Seq(Output)
      BY <2>3, InChain
    <3>2. txs[u].outs[i] \in Output
      BY <2>3, <3>1
    <3>3. ASSUME txs[u].spends # 0, txs[u].outs[i].data # None
          PROVE  Len(txs[u].outs[i].data) = Size
      <4>1. PICK x \in Nat, a \in Anchors :
              txs[u].outs = <<Pays("addr", x), Carries(EncodeOpReturn(a))>>
        BY <3>3 DEF IInv, TxsOK, HandsOn
      <4>2. txs[u].outs[i].data \in {None, EncodeOpReturn(a)}
        BY <4>1 DEF Pays, Carries
      <4> QED  BY <3>3, <4>2, EncodedSize
    <3> QED  BY <3>2, <3>3 DEF Output
  <2> QED  BY <2>1, <2>2, <2>3 DEF TypeOK
<1> QED  BY <1>1, Invariant, PTL

\* In any chain, a possible number of confirmations stands for a transaction in
\* the chain with as many.
THEOREM ConfirmedIsMined == Spec => []ConfsMeanMined
<1>1. IInv => ConfsMeanMined
  <2> SUFFICES ASSUME IInv, HasRead(job), job.conf \in 1..height
               PROVE  LET t == txs[job.task.tx]
                      IN  C!Mined(t) /\ job.conf <= height - t.at
    BY DEF ConfsMeanMined
  <2> DEFINE t == txs[job.task.tx]
  <2>1. job.task.tx \in DOMAIN txs /\ job.conf \in Reached(job.task.tx)
    BY DEF IInv, ReadOK, Counted
  <2>2. t.at \in Nat /\ t.died \in Nat /\ height \in Nat /\ t.died <= height
    BY <2>1, InChain, CLIRunsAssumption DEF IInv, Typed
  <2>3. UintMod \in Nat /\ 2 * height < UintMod
    <3>1. height <= MaxHeight /\ MaxHeight \in Nat
      BY CLIRunsAssumption DEF IInv, Typed
    <3> QED  BY <2>2, <3>1, CLIRunsAssumption
  <2>4. t.died = 0
    <3> SUFFICES ASSUME t.died # 0 PROVE FALSE
      OBVIOUS
    <3>1. job.conf = 0 \/ job.conf >= UintMod + t.died - height - 1
      BY <2>1, <2>2, <2>3 DEF Reached
    <3> QED  BY <2>2, <2>3, <3>1
  <2>5. job.conf \in 0..(height - t.at)
    BY <2>1, <2>4 DEF Reached
  <2> QED  BY <2>2, <2>4, <2>5 DEF C!Mined
<1> QED  BY <1>1, Invariant, PTL

\* Whatever the node does, all but four errors say that nothing was sent.
THEOREM UnsentIsCertain == Spec => []ErrorMeansUnsent
<1>1. IInv => ErrorMeansUnsent
  BY DEF IInv, SentOK, Unclear, ErrorMeansUnsent
<1> QED  BY <1>1, Invariant, PTL

\* Any chain of anchors can go on: the change of each is found, and no satoshi
\* but the fee and the one that was cut is lost.
THEOREM ChainGoesOn == Spec => []ChangeIsFound
<1>1. IInv => ChangeIsFound
  <2> SUFFICES ASSUME IInv, NEW u \in DOMAIN txs, txs[u].spends # 0
               PROVE  LET t == txs[u]
                          change == ParseTransactionReceived(t)
                          input == txs[t.spends].outs[t.vout]
                      IN  /\ change # None /\ change.amount >= Dust
                          /\ input.to = "addr"
                          /\ input.amt - change.amount \in {Fee, Fee + 1}
    BY DEF ChangeIsFound
  <2>1. PICK x \in Nat : HandsOn(txs, txs[u], x)
    BY DEF IInv, TxsOK
  <2>2. txs[u] \in Transaction
    BY DEF IInv, Typed
  <2>3. ParseTransactionReceived(txs[u]) # None
        /\ ParseTransactionReceived(txs[u]).amount = x
    BY <2>1, <2>2, ChangeIsReceived DEF HandsOn
  <2> QED  BY <2>1, <2>3 DEF HandsOn
<1> QED  BY <1>1, Invariant, PTL

-----------------------------------------------------------------------------
\* What stands in a transaction, and what a call knows of it.

LEMMA RawIsData ==
  ASSUME NEW t \in Transaction, ParseRawTransactionOpReturn(t) # None
  PROVE  ParseRawTransactionOpReturn(t) \in Seq(Byte)
<1> DEFINE datas == {i \in DOMAIN t.outs : t.outs[i].data # None}
           first == CHOOSE i \in datas : \A j \in datas : i <= j
<1>1. t.outs \in Seq(Output)
  BY DEF Transaction
<1>2. datas \subseteq Nat /\ \A i \in datas : t.outs[i] \in Output /\ t.outs[i].data # None
  BY <1>1
<1>3. datas # {} /\ ParseRawTransactionOpReturn(t) = t.outs[first].data
  BY DEF ParseRawTransactionOpReturn
<1> HIDE DEF datas
<1>4. \E i \in datas : \A j \in datas : i <= j
  BY <1>2, <1>3, Smallest
<1>5. first \in datas
  BY <1>4
<1> HIDE DEF first
<1>6. t.outs[first] \in Output /\ t.outs[first].data # None
  BY <1>2, <1>5
<1> QED  BY <1>3, <1>6 DEF Output

\* The data of a transaction of the program is its anchor.
LEMMA RawIsCarried ==
  ASSUME NEW t \in Transaction, NEW x, NEW data, data # None,
         t.outs = <<Pays("addr", x), Carries(data)>>
  PROVE  ParseRawTransactionOpReturn(t) = data
<1> DEFINE datas == {i \in DOMAIN t.outs : t.outs[i].data # None}
           first == CHOOSE i \in datas : \A j \in datas : i <= j
<1>1. /\ DOMAIN t.outs = {1, 2} /\ t.outs[1].data = None /\ t.outs[2].data = data
  BY DEF Pays, Carries
<1>2. datas = {2}
  BY <1>1
<1>3. ParseRawTransactionOpReturn(t) = t.outs[first].data
  BY <1>2 DEF ParseRawTransactionOpReturn
<1>4. first = 2
  <2> HIDE DEF datas
  <2>1. \E i \in datas : \A j \in datas : i <= j
    BY <1>2
  <2>2. first \in datas
    BY <2>1
  <2> QED  BY <1>2, <2>2
<1> HIDE DEF datas, first
<1> QED  BY <1>1, <1>3, <1>4

\* An anchor that was encoded into a transaction is read from it.
LEMMA WrittenIsEncoded ==
  ASSUME NEW t, NEW a \in NewAnchors,
         ParseRawTransactionOpReturn(t) = EncodeOpReturn(a)
  PROVE  Written(t) = IF a.net \in Nets
                      THEN [error |-> None, anchor |-> [a EXCEPT !.time.nsec = 0]]
                      ELSE Failed("ErrInvalidBTCNet")
<1>1. a \in Anchor
  BY NewAnchorIsAnchor
<1>2. EncodeOpReturn(a) \in Seq(Byte) /\ Len(EncodeOpReturn(a)) = Size
  BY <1>1, Layout
<1>3. EncodeOpReturn(a) # None
  BY <1>2, OpReturnAssumption
<1>4. Written(t) = DecodeOpReturn(EncodeOpReturn(a))
  BY <1>2, <1>3 DEF Written
<1> QED  BY <1>4, DecodeEncoded

LEMMA SameOutputsSameSight ==
  ASSUME NEW s, NEW t, s.outs = t.outs, s.spends = t.spends
  PROVE  /\ ParseTransactionReceived(s) = ParseTransactionReceived(t)
         /\ Written(s) = Written(t)
         /\ s.at = t.at => Seen(s) = [Seen(t) EXCEPT !.died = s.died]
<1>1. Details(s) = Details(t)
  BY DEF Details
<1>2. ParseTransactionReceived(s) = ParseTransactionReceived(t)
  BY <1>1 DEF ParseTransactionReceived
<1>3. Written(s) = Written(t)
  BY DEF Written, ParseRawTransactionOpReturn
<1> QED  BY <1>2, <1>3 DEF Seen

\* PutAnchor goes on for anchors of its network only, with what the first lookup
\* returned; GetAnchor answers what stands in the transaction.
AskedOK == IsPut(job) /\ Running => job.task.anchor.net = Net

FoundOK == job.pc \in {"create", "sign", "send"} =>
             job.got = ParseTransactionReceived(txs[xUTXO])

AnswerOK ==
  job.pc = "done" /\ ~IsPut(job) =>
    LET u == job.task.tx IN
    /\ job.error = None => /\ u \in DOMAIN txs /\ Written(txs[u]).error = None
                           /\ job.anchor = Written(txs[u]).anchor
    /\ job.error = "ErrInvalidOpReturn" =>
         u \in DOMAIN txs /\ Written(txs[u]).error # None

\* No run ends well for the network that connArgs panics for.
NetOK == job.pc \in {"get", "create", "sign", "send", "decode"} => Net # BTCTestnet4

Heard == AskedOK /\ FoundOK /\ AnswerOK /\ NetOK

OtherErrors == Errors \ {"ErrInvalidOpReturn"}

LEMMA OtherErrorsAre ==
  /\ PingErrors \cup {run(code) : code \in Codes} \subseteq OtherErrors
  /\ {"ErrInconsistentBTCNet", "ErrFailedToDecode", "ErrInvalidFee", "ErrFailedToSign"}
       \subseteq OtherErrors
  /\ Net = BTCTestnet4 => "panic" \in OtherErrors
  /\ \A e \in OtherErrors : e # None /\ e # "ErrInvalidOpReturn"
<1>1. \A code \in Codes : run(code) # "ErrInvalidOpReturn"
  BY DEF run
<1>2. "ErrInvalidOpReturn" \notin PingErrors
  BY <1>1 DEF PingErrors
<1> QED  BY <1>1, <1>2, NoneAssumption DEF OtherErrors, Errors

LEMMA HeardFails ==
  ASSUME IInv, Running, NEW e \in OtherErrors, job' = Fails(job.task, e)
  PROVE  Heard'
<1>1. job'.pc = "done" /\ job'.error = e
  BY DEF Fails
<1> QED  BY <1>1, OtherErrorsAre DEF Heard, AskedOK, FoundOK, AnswerOK, NetOK, Running

LEMMA HeardGoes ==
  ASSUME IInv, Heard, Running, Running', job'.task = job.task,
         job'.pc \in {"create", "sign", "send"} =>
           job'.got = ParseTransactionReceived(txs[xUTXO])',
         job.pc # "ping" \/ Net # BTCTestnet4,
         UNCHANGED <<txs, xUTXO>>
  PROVE  Heard'
<1>1. IsPut(job') => IsPut(job)
  BY RunningTask DEF IsPut
<1>2. job'.pc # "done"
  BY DEF Running
<1> QED  BY <1>1, <1>2 DEF Heard, AskedOK, FoundOK, AnswerOK, NetOK, Running

LEMMA HeardSent ==
  ASSUME job'.pc = "done", job' # Idle, "anchor" \in DOMAIN job'.task
  PROVE  Heard'
BY DEF Heard, AskedOK, FoundOK, AnswerOK, NetOK, IsPut, Running

LEMMA HeardInit == Init => Heard
BY DEF Init, Idle, Heard, AskedOK, FoundOK, AnswerOK, NetOK, IsPut, Running

\* What stands in a transaction stays.
LEMMA OutputsStay ==
  ASSUME IInv, [Next]_vars
  PROVE  \A u \in DOMAIN txs :
           /\ u \in DOMAIN txs'
           /\ txs'[u].outs = txs[u].outs /\ txs'[u].spends = txs[u].spends
           /\ txs'[u].at = txs[u].at
<1>1. CASE txs' = txs
  BY <1>1
<1>2. CASE txs' = Append(txs, AnchorTx)
  <2>1. txs \in Seq(Transaction)
    BY DEF IInv, Typed
  <2>2. \A u \in DOMAIN txs : u \in DOMAIN txs' /\ txs'[u] = txs[u]
    BY <1>2, <2>1
  <2> QED  BY <2>2
<1>3. CASE \E lost \in SUBSET DOMAIN txs : DoubleSpend(lost)
  <2>1. PICK lost \in SUBSET DOMAIN txs : DoubleSpend(lost)
    BY <1>3
  <2>2. \A u \in DOMAIN txs :
          /\ u \in DOMAIN txs'
          /\ txs'[u] = IF u \in lost THEN [txs[u] EXCEPT !.died = height + 1] ELSE txs[u]
    BY <2>1 DEF DoubleSpend
  <2>3. \A u \in DOMAIN txs : txs[u] \in Transaction
    BY DEF IInv, Typed
  <2> QED  BY <2>2, <2>3 DEF Transaction
<1>4. txs' = txs \/ txs' = Append(txs, AnchorTx)
      \/ \E lost \in SUBSET DOMAIN txs : DoubleSpend(lost)
  BY DEF Next, vars, CallPutAnchor, CallGetAnchor, XSetUTXO, SendAgain, Ping, RunFails,
         GetUTXO, GetAnchorTx, SignRawTransactionWithWallet, SendRawTransaction,
         CreateRawTransactionForAnchor, DecodeAnchorTx, Garbled, Return, Mine
<1> QED  BY <1>1, <1>2, <1>3, <1>4

LEMMA HeardCall ==
  ASSUME IInv, \/ \E a \in Anchors : CallPutAnchor(a)
               \/ \E u \in 0..Len(txs) : CallGetAnchor(u)
               \/ Return
               \/ \E u \in DOMAIN txs : XSetUTXO(u)
  PROVE  Heard'
<1>1. CASE \E a \in Anchors : CallPutAnchor(a)
  <2>1. PICK a \in Anchors : CallPutAnchor(a)
    BY <1>1
  <2>2. CASE a.net = Net
    <3>1. job' = Asked(Put(a))
      BY <2>1, <2>2 DEF CallPutAnchor
    <3>2. job'.pc = "ping" /\ job'.task.anchor = a
      BY <3>1 DEF Asked, Put
    <3> QED  BY <2>2, <3>2 DEF Heard, AskedOK, FoundOK, AnswerOK, NetOK
  <2>3. CASE a.net # Net
    <3>1. job' = Fails(Put(a), "ErrInconsistentBTCNet")
      BY <2>1, <2>3 DEF CallPutAnchor
    <3>2. job'.pc = "done" /\ "anchor" \in DOMAIN job'.task /\ job' # Idle
      BY <3>1 DEF Fails, Put, Idle
    <3> QED  BY <3>2, HeardSent
  <2> QED  BY <2>2, <2>3
<1>2. CASE \E u \in 0..Len(txs) : CallGetAnchor(u)
  <2>1. PICK u \in 0..Len(txs) : job' = Asked(Get(u))
    BY <1>2 DEF CallGetAnchor
  <2>2. job'.pc = "ping" /\ "anchor" \notin DOMAIN job'.task
    BY <2>1 DEF Asked, Get
  <2> QED  BY <2>2 DEF Heard, AskedOK, FoundOK, AnswerOK, NetOK, IsPut
<1>3. CASE Return \/ \E u \in DOMAIN txs : XSetUTXO(u)
  <2>1. job' = Idle
    BY <1>3 DEF Return, XSetUTXO
  <2> QED  BY <2>1 DEF Heard, AskedOK, FoundOK, AnswerOK, NetOK, IsPut, Running, Idle
<1> QED  BY <1>1, <1>2, <1>3

LEMMA HeardRun ==
  ASSUME IInv, Heard,
         \/ \E error \in {None} \cup PingErrors : Ping(error)
         \/ Garbled \/ \E code \in Codes : RunFails(code)
         \/ \E confs \in 0..(UintMod + MaxHeight) : GetUTXO(confs) \/ GetAnchorTx(confs)
         \/ CreateRawTransactionForAnchor
         \/ \E complete \in BOOLEAN : SignRawTransactionWithWallet(complete)
  PROVE  Heard'
<1>1. Running /\ UNCHANGED <<txs, xUTXO>>
  BY DEF Ping, Garbled, RunFails, GetUTXO, GetAnchorTx, CreateRawTransactionForAnchor,
         SignRawTransactionWithWallet, Running
<1>2. CASE \E e \in OtherErrors : job' = Fails(job.task, e)
  BY <1>1, <1>2, HeardFails
<1>3. Asking(job) \/ Paying(job) \/ Decoding(job)
  BY <1>1, JobKinds DEF IInv, Typed, Running
<1>4. CASE /\ job' = [job EXCEPT !.pc = "get"] /\ job.pc = "ping"
           /\ Net # BTCTestnet4
  <2>1. job'.pc = "get" /\ job'.task = job.task
    BY <1>3, <1>4 DEF Asking, Paying, Decoding
  <2> QED  BY <1>1, <1>4, <2>1, HeardGoes DEF Running
<1>5. CASE \E confs \in 0..(UintMod + MaxHeight) : GetAnchorTx(confs)
  <2>1. job'.pc = "decode" /\ job'.task = job.task /\ job.pc = "get"
    BY <1>3, <1>5 DEF Asking, Paying, Decoding, GetAnchorTx
  <2> QED  BY <1>1, <2>1, HeardGoes DEF Running
<1>6. CASE /\ job.pc = "get"
           /\ job' = [job EXCEPT !.pc = "create",
                                 !.got = ParseTransactionReceived(txs[xUTXO])]
  <2>1. /\ job'.pc = "create" /\ job'.task = job.task
        /\ job'.got = ParseTransactionReceived(txs[xUTXO])
    BY <1>3, <1>6 DEF Asking, Paying, Decoding
  <2>2. job'.got = ParseTransactionReceived(txs[xUTXO])'
    BY <1>1, <2>1
  <2> QED  BY <1>1, <1>6, <2>1, <2>2, HeardGoes DEF Running
<1>7. CASE /\ job.pc \in {"create", "sign"}
           /\ \E pc \in {"sign", "send"} : job' = [job EXCEPT !.pc = pc]
  <2>1. /\ job'.pc \in {"sign", "send"} /\ job'.task = job.task /\ job'.got = job.got
    BY <1>3, <1>7 DEF Asking, Paying, Decoding
  <2>2. job'.got = ParseTransactionReceived(txs[xUTXO])
    BY <1>7, <2>1 DEF Heard, FoundOK
  <2>3. job'.got = ParseTransactionReceived(txs[xUTXO])'
    BY <1>1, <2>2
  <2> QED  BY <1>1, <1>7, <2>1, <2>3, HeardGoes DEF Running
<1>8. ASSUME NEW confs \in 0..(UintMod + MaxHeight), GetUTXO(confs)
      PROVE  \/ \E e \in OtherErrors : job' = Fails(job.task, e)
             \/ /\ job.pc = "get"
                /\ job' = [job EXCEPT !.pc = "create",
                                      !.got = ParseTransactionReceived(txs[xUTXO])]
  BY <1>8, OtherErrorsAre DEF GetUTXO, leastConfirmationNeeded
<1>9. ASSUME Garbled \/ \E code \in Codes : RunFails(code)
      PROVE  \E e \in OtherErrors : job' = Fails(job.task, e)
  BY <1>9, OtherErrorsAre DEF Garbled, RunFails
<1>10. ASSUME NEW error \in {None} \cup PingErrors, Ping(error)
       PROVE  \/ \E e \in OtherErrors : job' = Fails(job.task, e)
              \/ /\ job' = [job EXCEPT !.pc = "get"] /\ job.pc = "ping"
                 /\ Net # BTCTestnet4
  BY <1>10, OtherErrorsAre DEF Ping
<1>11. ASSUME \/ CreateRawTransactionForAnchor
              \/ \E complete \in BOOLEAN : SignRawTransactionWithWallet(complete)
       PROVE  \/ \E e \in OtherErrors : job' = Fails(job.task, e)
              \/ /\ job.pc \in {"create", "sign"}
                 /\ \E pc \in {"sign", "send"} : job' = [job EXCEPT !.pc = pc]
  BY <1>11, OtherErrorsAre DEF CreateRawTransactionForAnchor, SignRawTransactionWithWallet
<1> QED  BY <1>2, <1>4, <1>5, <1>6, <1>7, <1>8, <1>9, <1>10, <1>11

LEMMA HeardSend ==
  ASSUME IInv,
         \/ \E code \in {0} \cup UnclearCodes, parsed \in BOOLEAN :
              SendRawTransaction(code, parsed)
         \/ \E u \in DOMAIN txs, parsed \in BOOLEAN : SendAgain(u, parsed)
  PROVE  Heard'
<1>1. job.pc = "send" /\ Paying(job)
  BY JobKinds DEF SendRawTransaction, SendAgain, IInv, Typed
<1>2. "anchor" \in DOMAIN job.task
  BY <1>1, TaskDomains DEF Paying
<1>3. \E u, e : job' = Sent(u) \/ job' = Fails(job.task, e)
  BY DEF SendRawTransaction, SendAgain
<1>4. job'.pc = "done" /\ job'.task = job.task /\ job' # Idle
  BY <1>3 DEF Sent, Fails, Idle
<1> QED  BY <1>2, <1>4, HeardSent

LEMMA HeardDecode ==
  ASSUME IInv, DecodeAnchorTx
  PROVE  Heard'
<1> DEFINE u == job.task.tx
<1>1. Running /\ Decoding(job) /\ UNCHANGED txs
  BY JobKinds DEF DecodeAnchorTx, Running, IInv, Typed
<1>2. u \in DOMAIN txs
  BY DEF DecodeAnchorTx, IInv, ReadOK, Counted
<1>3. CASE ParseRawTransactionOpReturn(txs[u]) = None
  <2>1. job' = Fails(job.task, "ErrFailedToDecode")
    BY <1>3 DEF DecodeAnchorTx
  <2>2. "ErrFailedToDecode" \in OtherErrors
    BY OtherErrorsAre
  <2> QED  BY <1>1, <2>1, <2>2, HeardFails
<1>4. CASE ParseRawTransactionOpReturn(txs[u]) # None
  <2>1. \/ /\ Written(txs[u]).error # None
           /\ job' = Fails(job.task, "ErrInvalidOpReturn")
        \/ /\ Written(txs[u]).error = None
           /\ job' = Read(Written(txs[u]).anchor)
    BY <1>4 DEF DecodeAnchorTx
  <2>2. job'.pc = "done" /\ job'.task = job.task
    BY <2>1 DEF Fails, Read
  <2>3. "ErrInvalidOpReturn" # None
    BY NoneAssumption DEF Errors
  <2>4. \/ Written(txs[u]).error # None /\ job'.error = "ErrInvalidOpReturn"
        \/ /\ Written(txs[u]).error = None /\ job'.error = None
           /\ job'.anchor = Written(txs[u]).anchor
    BY <2>1 DEF Fails, Read
  <2>5. AnswerOK'
    BY <1>1, <1>2, <2>2, <2>3, <2>4 DEF AnswerOK
  <2> QED  BY <2>2, <2>5 DEF Heard, AskedOK, FoundOK, NetOK, Running
<1> QED  BY <1>3, <1>4

\* The chain may change as long as the call does not.
LEMMA HeardWaits ==
  ASSUME IInv, Heard, [Next]_vars, UNCHANGED <<job, xUTXO>>
  PROVE  Heard'
<1>1. \A u \in DOMAIN txs :
        /\ u \in DOMAIN txs'
        /\ Written(txs'[u]) = Written(txs[u])
        /\ ParseTransactionReceived(txs'[u]) = ParseTransactionReceived(txs[u])
  BY OutputsStay, SameOutputsSameSight
<1>2. AskedOK'
  BY DEF Heard, AskedOK, IsPut, Running
<1>3. FoundOK'
  <2>1. job.pc \in {"create", "sign", "send"} => xUTXO \in DOMAIN txs
    BY DEF IInv, GotOK
  <2> QED  BY <1>1, <2>1 DEF Heard, FoundOK
<1>4. AnswerOK'
  BY <1>1 DEF Heard, AnswerOK, IsPut
<1> QED  BY <1>2, <1>3, <1>4 DEF Heard, NetOK

LEMMA HeardStep == IInv /\ Heard /\ [Next]_vars => Heard'
<1> SUFFICES ASSUME IInv, Heard, [Next]_vars PROVE Heard'
  OBVIOUS
<1>1. CASE \/ Mine \/ \E lost \in SUBSET DOMAIN txs : DoubleSpend(lost)
           \/ UNCHANGED vars
  <2>1. UNCHANGED <<job, xUTXO>>
    BY <1>1 DEF Mine, C!Mine, DoubleSpend, vars
  <2> QED  BY <2>1, HeardWaits
<1>2. CASE ~(\/ Mine \/ \E lost \in SUBSET DOMAIN txs : DoubleSpend(lost)
             \/ UNCHANGED vars)
  BY <1>2, HeardCall, HeardRun, HeardSend, HeardDecode DEF Next
<1> QED  BY <1>1, <1>2

LEMMA HeardHolds == Spec => [](IInv /\ Heard)
BY InitHolds, StepHolds, HeardInit, HeardStep, PTL DEF Spec

-----------------------------------------------------------------------------
\* Whatever the time, the network and the size of a time stamp, an anchor that
\* stands in a transaction is read back, or refused because its network has no
\* name.
THEOREM AnchorsReadBack == Spec => []RoundTrip
<1>1. IInv /\ Heard => RoundTrip
  <2> SUFFICES ASSUME IInv, Heard, NEW u \in DOMAIN txs, NEW a, a = txs[u].of,
                      a # None, ParseRawTransactionOpReturn(txs[u]) = EncodeOpReturn(a),
                      job.pc = "done", job.task = Get(u)
               PROVE  /\ job.error = None => /\ a.net \in Nets
                                             /\ job.anchor = [a EXCEPT !.time.nsec = 0]
                      /\ a.net \in Nets => job.error # "ErrInvalidOpReturn"
    BY DEF RoundTrip
  <2>1. a \in NewAnchors
    BY InChain DEF Transaction
  <2>2. Written(txs[u]) = IF a.net \in Nets
                          THEN [error |-> None, anchor |-> [a EXCEPT !.time.nsec = 0]]
                          ELSE Failed("ErrInvalidBTCNet")
    BY <2>1, WrittenIsEncoded
  <2>3. ~IsPut(job) /\ job.task.tx = u
    BY DEF IsPut, Get
  <2>4. "ErrInvalidBTCNet" # None
    BY OpReturnAssumption DEF OpReturnErrors
  <2>5. a.net \in Nets <=> Written(txs[u]).error = None
    BY <2>2, <2>4 DEF Failed
  <2>6. a.net \in Nets => Written(txs[u]).anchor = [a EXCEPT !.time.nsec = 0]
    BY <2>2
  <2> QED  BY <2>3, <2>5, <2>6 DEF Heard, AnswerOK
<1> QED  BY <1>1, HeardHolds, PTL

\* What a call that read an anchor has to show for it.
LEMMA ReadStands ==
  ASSUME IInv, Heard, HasRead(job)
  PROVE  LET t == txs[job.task.tx]
             data == ParseRawTransactionOpReturn(t)
         IN  /\ job.task.tx \in DOMAIN txs /\ Written(t).error = None
             /\ job.anchor = Written(t).anchor
             /\ data \in Seq(Byte) /\ Len(data) = Size
             /\ Written(t) = DecodeOpReturn(data)
<1> DEFINE t == txs[job.task.tx]
           data == ParseRawTransactionOpReturn(t)
<1>1. Answered(job) \/ Failing(job) \/ Told(job)
  BY JobKinds DEF HasRead, IInv, Typed
<1>2. job.task \in PutTask \cup GetTask
  BY <1>1 DEF Answered, Failing, Told
<1>3. ~IsPut(job)
  BY <1>2, TaskDomains DEF HasRead, IsPut
<1>4. /\ job.task.tx \in DOMAIN txs /\ Written(t).error = None
      /\ job.anchor = Written(t).anchor
  BY <1>3 DEF HasRead, Heard, AnswerOK
<1>5. t \in Transaction
  BY <1>4, InChain
<1> HIDE DEF t
<1>6. "ErrInvalidOpReturn" # None
  BY NoneAssumption DEF Errors
<1>7. data # None /\ Len(data) = Size /\ Written(t) = DecodeOpReturn(data)
  BY <1>4, <1>6 DEF Written, Failed
<1>8. data \in Seq(Byte)
  BY <1>5, <1>7, RawIsData
<1> QED  BY <1>4, <1>7, <1>8 DEF t

\* Whoever made the transaction, what is answered is an anchor of its bytes.
THEOREM AnswersAreWritten == Spec => []NothingOverlooked
<1>1. IInv /\ Heard => NothingOverlooked
  <2> SUFFICES ASSUME IInv, Heard, HasRead(job) PROVE NothingOverlooked
    BY DEF NothingOverlooked
  <2> DEFINE t == txs[job.task.tx]
             data == ParseRawTransactionOpReturn(t)
  <2>1. /\ Written(t).error = None /\ job.anchor = Written(t).anchor
        /\ data \in Seq(Byte) /\ Len(data) = Size
        /\ Written(t) = DecodeOpReturn(data)
    BY ReadStands
  <2> HIDE DEF data
  <2>2. /\ job.anchor.version \in Versions /\ job.anchor.net \in Nets
        /\ \A i \in (1..Size) \ {7, 8} : EncodeOpReturn(job.anchor)[i] = data[i]
    BY <2>1, EncodeDecoded
  <2> QED  BY <2>1, <2>2 DEF NothingOverlooked, data
<1> QED  BY <1>1, HeardHolds, PTL

-----------------------------------------------------------------------------
\* Every step is one of BitcoinCLI, seen through Seen, or changes nothing of it.

Chain == [u \in DOMAIN txs |-> Seen(txs[u])]

\* What BitcoinCLI sees of the transaction that is sent.
LEMMA SeenAnchorTx ==
  ASSUME IInv, Heard, job.pc = "send",
         AnchorTx.outs[1].amt >= Dust
  PROVE  /\ IsPut(job) /\ job.task.anchor.net = Net
         /\ xUTXO \in DOMAIN txs /\ AnchorTx \in Transaction
         /\ C!Satoshi(Seen(txs[xUTXO]).amt) >= Fee + Dust
         /\ Seen(AnchorTx) =
              [spends |-> xUTXO, amt |-> C!Satoshi(Seen(txs[xUTXO]).amt) - Fee,
               anchor |-> [job.task.anchor EXCEPT !.time.nsec = 0],
               at |-> height, died |-> 0]
<1> DEFINE a == job.task.anchor
           amount == job.got.amount
           x == C!Satoshi(amount) - Fee
<1>1. Running /\ Paying(job)
  BY JobKinds DEF Running, IInv, Typed
<1>2. /\ job.task \in PutTask /\ a \in Anchors /\ job.got \in Entry /\ amount \in Nat
      /\ job.got # None
  BY <1>1, NoneAssumption DEF Paying, PutTask, Entry
<1>3. IsPut(job) /\ a.net = Net
  BY <1>1, <1>2, RunningTask DEF Heard, AskedOK
<1>4. /\ xUTXO \in DOMAIN txs /\ C!Satoshi(amount) >= Fee
      /\ job.got = ParseTransactionReceived(txs[xUTXO])
  BY DEF IInv, GotOK, Heard, FoundOK
<1>5. Seen(txs[xUTXO]).amt = amount
  BY <1>2, <1>4 DEF Seen
<1>6. C!Satoshi(amount) \in Int /\ x \in Nat
  BY <1>2, <1>4, CLIRunsAssumption DEF C!Satoshi
<1>7. /\ AnchorTx.spends = xUTXO /\ AnchorTx.at = height /\ AnchorTx.died = 0
      /\ AnchorTx.outs = <<Pays("addr", x), Carries(EncodeOpReturn(a))>>
      /\ AnchorTx.outs[1].amt = x
  BY DEF AnchorTx, Tx, Pays
<1>8. AnchorTx \in Transaction
  <2>1. Pays("addr", x) \in Output /\ Carries(EncodeOpReturn(a)) \in Output
    BY <1>2, <1>6, EncodedSize DEF Pays, Carries, Output
  <2>2. AnchorTx.outs \in Seq(Output)
    BY <1>7, <2>1
  <2>3. /\ xUTXO \in Nat /\ height \in 0..MaxHeight /\ 0 \in 0..MaxHeight
        /\ job.got.vout \in Nat
    BY <1>2, CLIRunsAssumption DEF IInv, Typed, Entry
  <2>4. a \in NewAnchors
    BY <1>2, CLIRunsAssumption
  <2> QED  BY <2>2, <2>3, <2>4 DEF AnchorTx, Tx, Transaction
<1> HIDE DEF x
<1>9. C!Satoshi(amount) >= Fee + Dust /\ x = C!Satoshi(amount) - Fee
  BY <1>6, <1>7, CLIRunsAssumption DEF x
<1>10. ParseTransactionReceived(AnchorTx) # None
       /\ ParseTransactionReceived(AnchorTx).amount = x
  BY <1>6, <1>7, <1>8, ChangeIsReceived
<1>11. Written(AnchorTx) = [error |-> None, anchor |-> [a EXCEPT !.time.nsec = 0]]
  <2>1. a \in NewAnchors /\ EncodeOpReturn(a) # None
    BY <1>2, EncodedSize, CLIRunsAssumption, OpReturnAssumption
  <2>2. ParseRawTransactionOpReturn(AnchorTx) = EncodeOpReturn(a)
    BY <1>7, <1>8, <2>1, RawIsCarried
  <2>3. a.net \in Nets
    BY <1>3, NetAssumption
  <2> QED  BY <2>1, <2>2, <2>3, WrittenIsEncoded
<1>12. Seen(AnchorTx) = [spends |-> xUTXO, amt |-> x,
                         anchor |-> [a EXCEPT !.time.nsec = 0],
                         at |-> height, died |-> 0]
  BY <1>7, <1>10, <1>11 DEF Seen
<1> QED  BY <1>3, <1>4, <1>5, <1>8, <1>9, <1>12

\* A sequence that gets longer, as a function.
LEMMA Appended ==
  ASSUME NEW S, NEW s \in Seq(S), NEW e \in S
  PROVE  /\ Len(s) \in Nat
         /\ DOMAIN Append(s, e) = 1..(Len(s) + 1)
         /\ \A u \in 1..Len(s) : Append(s, e)[u] = s[u]
         /\ Append(s, e)[Len(s) + 1] = e
         /\ Append(s, e) = [u \in 1..(Len(s) + 1) |->
                              IF u \in 1..Len(s) THEN s[u] ELSE e]
<1> DEFINE r == Append(s, e)
<1>1. /\ Len(s) \in Nat /\ r \in Seq(S) /\ Len(r) = Len(s) + 1
  OBVIOUS
<1>2. \A u \in 1..(Len(s) + 1) : r[u] = IF u \in 1..Len(s) THEN s[u] ELSE e
  OBVIOUS
<1> HIDE DEF r
<1>3. r \in [1..(Len(s) + 1) -> S]
  BY <1>1
<1>4. r = [u \in 1..(Len(s) + 1) |-> IF u \in 1..Len(s) THEN s[u] ELSE e]
  BY <1>2, <1>3
<1>5. Len(s) + 1 \in 1..(Len(s) + 1) /\ Len(s) + 1 \notin 1..Len(s)
      /\ 1..Len(s) \subseteq 1..(Len(s) + 1)
  BY <1>1
<1>6. DOMAIN r = 1..(Len(s) + 1)
  BY <1>3
<1> QED  BY <1>1, <1>2, <1>4, <1>5, <1>6 DEF r

LEMMA AppendSeen ==
  ASSUME IInv, NEW t \in Transaction, txs' = Append(txs, t)
  PROVE  /\ Chain' = Append(Chain, Seen(t)) /\ Len(Chain') = Len(txs')
         /\ Len(Chain) = Len(txs)
<1> DEFINE S == {Seen(txs[u]) : u \in DOMAIN txs} \cup {Seen(t)}
<1>1. txs \in Seq(Transaction) /\ Len(txs) \in Nat /\ DOMAIN txs = 1..Len(txs)
  BY DEF IInv, Typed
<1>2. /\ DOMAIN txs' = 1..(Len(txs) + 1) /\ Len(txs') = Len(txs) + 1
      /\ \A u \in DOMAIN txs : txs'[u] = txs[u]
      /\ txs'[Len(txs) + 1] = t
  BY <1>1
<1>3. Chain \in Seq(S) /\ Len(Chain) = Len(txs)
  <2>1. Chain \in [1..Len(txs) -> S]
    BY <1>1 DEF Chain
  <2> HIDE DEF S
  <2> QED  BY <1>1, <2>1, FunctionIsSeq
<1>4. Chain' = [u \in 1..(Len(txs) + 1) |-> IF u \in 1..Len(txs) THEN Chain[u] ELSE Seen(t)]
  BY <1>1, <1>2 DEF Chain
<1>5. Seen(t) \in S
  OBVIOUS
<1> HIDE DEF S
<1>6. Chain' = Append(Chain, Seen(t))
  BY <1>3, <1>4, <1>5, Appended
<1>7. Len(Chain') = Len(txs) + 1
  BY <1>3, <1>5, <1>6
<1> QED  BY <1>2, <1>3, <1>6, <1>7

\* What the program does not see in BitcoinCLI's terms.
LEMMA SeesNothing ==
  ASSUME UNCHANGED <<txs, height, xUTXO>>
  PROVE  UNCHANGED C!cliVars
BY DEF C!cliVars

\* A block that spends inputs of the program's transactions.
LEMMA LostAlike ==
  ASSUME IInv, [Next]_vars, NEW lost \in SUBSET DOMAIN txs, DoubleSpend(lost)
  PROVE  C!DoubleSpend(lost)
<1>1. /\ height < MaxHeight /\ lost # {} /\ height' = height + 1 /\ UNCHANGED xUTXO
      /\ \A u \in lost : txs[u].spends # 0 /\ txs[u].died = 0 /\ ~C!Mined(txs[u])
      /\ \A v \in DOMAIN txs : txs[v].spends \in lost => v \in lost
      /\ DOMAIN txs' = DOMAIN txs
      /\ \A u \in DOMAIN txs :
           txs'[u] = IF u \in lost THEN [txs[u] EXCEPT !.died = height + 1] ELSE txs[u]
  BY DEF DoubleSpend
<1>2. DOMAIN Chain = DOMAIN txs /\ \A u \in DOMAIN txs : Chain[u] = Seen(txs[u])
  BY DEF Chain
<1>3. \A u \in DOMAIN txs : /\ Chain[u].spends = txs[u].spends
                            /\ Chain[u].at = txs[u].at /\ Chain[u].died = txs[u].died
  BY <1>2 DEF Seen
<1>4. \A u \in lost : Chain[u].spends # 0 /\ Chain[u].died = 0 /\ ~C!Mined(Chain[u])
  BY <1>1, <1>3 DEF C!Mined
<1>5. \A v \in DOMAIN Chain : Chain[v].spends \in lost => v \in lost
  BY <1>1, <1>2, <1>3
<1>6. \A u \in DOMAIN txs :
        Seen(txs'[u]) = IF u \in lost THEN [Seen(txs[u]) EXCEPT !.died = height']
                                      ELSE Seen(txs[u])
  <2> SUFFICES ASSUME NEW u \in DOMAIN txs
               PROVE  Seen(txs'[u]) = IF u \in lost THEN [Seen(txs[u]) EXCEPT !.died = height']
                                                    ELSE Seen(txs[u])
    OBVIOUS
  <2>1. CASE u \in lost
    <3>1. txs'[u] = [txs[u] EXCEPT !.died = height'] /\ txs[u] \in Transaction
      BY <1>1, <2>1, InChain
    <3>2. txs'[u].died = height'
      BY <3>1 DEF Transaction
    <3>3. Seen(txs'[u]) = [Seen(txs[u]) EXCEPT !.died = txs'[u].died]
      BY OutputsStay, SameOutputsSameSight
    <3> QED  BY <2>1, <3>2, <3>3
  <2>2. CASE u \notin lost
    BY <1>1, <2>2
  <2> QED  BY <2>1, <2>2
<1>7. Chain' = [u \in DOMAIN Chain |-> IF u \in lost THEN [Chain[u] EXCEPT !.died = height']
                                                     ELSE Chain[u]]
  BY <1>1, <1>2, <1>6 DEF Chain
<1> QED  BY <1>1, <1>2, <1>4, <1>5, <1>7 DEF C!DoubleSpend, Chain

\* An output is spent in BitcoinCLI when a transaction of the node spends it.
LEMMA SentIsPutAnchor ==
  ASSUME IInv, Heard,
         NEW code \in {0} \cup UnclearCodes, NEW parsed \in BOOLEAN,
         SendRawTransaction(code, parsed)
  PROVE  /\ IsPut(job)
         /\ C!PutAnchor(job.task.anchor.net, [job.task.anchor EXCEPT !.time.nsec = 0],
                        job'.error = None)
<1> DEFINE a == [job.task.anchor EXCEPT !.time.nsec = 0]
<1>1. /\ job.pc = "send" /\ Len(txs) < MaxTx /\ AnchorTx.outs[1].amt >= Dust
      /\ \A u \in DOMAIN txs : txs[u].spends # xUTXO
      /\ txs[xUTXO].died = 0 /\ Net # BTCTestnet4
      /\ txs' = Append(txs, AnchorTx) /\ UNCHANGED height
  BY DEF SendRawTransaction, Heard, NetOK
<1>2. /\ IsPut(job) /\ job.task.anchor.net = Net /\ xUTXO \in DOMAIN txs
      /\ AnchorTx \in Transaction
      /\ C!Satoshi(Seen(txs[xUTXO]).amt) >= Fee + Dust
      /\ Seen(AnchorTx) = [spends |-> xUTXO, amt |-> C!Satoshi(Seen(txs[xUTXO]).amt) - Fee,
                           anchor |-> a, at |-> height, died |-> 0]
  BY <1>1, SeenAnchorTx
<1>4. /\ Chain' = Append(Chain, Seen(AnchorTx)) /\ Len(Chain') = Len(txs')
      /\ Len(Chain) = Len(txs)
  BY <1>1, <1>2, AppendSeen
<1>5. /\ DOMAIN Chain = DOMAIN txs /\ Chain[xUTXO] = Seen(txs[xUTXO])
      /\ \A v \in DOMAIN txs : /\ Chain[v].spends = txs[v].spends
                              /\ Chain[v].died = txs[v].died
  BY <1>2 DEF Chain, Seen
<1>6. xUTXO' = IF job'.error = None THEN Len(txs') ELSE xUTXO
  <2> DEFINE error == CASE code # 0 -> run(code)
                        [] code = 0 /\ ~parsed -> "ErrFailedToDecode"
                        [] OTHER -> None
  <2>1. /\ xUTXO' = IF error = None THEN Len(txs') ELSE xUTXO
        /\ job' = IF error = None THEN Sent(Len(txs')) ELSE Fails(job.task, error)
    BY DEF SendRawTransaction
  <2> HIDE DEF error
  <2>2. CASE error = None
    BY <2>1, <2>2 DEF Sent
  <2>3. CASE error # None
    BY <2>1, <2>3 DEF Fails
  <2> QED  BY <2>2, <2>3
<1>7. C!CanSend(Net)
  <2>1. \A v \in DOMAIN Chain : Chain[v].spends # xUTXO
    BY <1>1, <1>5
  <2> QED  BY <1>1, <1>2, <1>4, <1>5, <2>1 DEF C!CanSend, C!Spent, Chain
<1>8. /\ Chain' = Append(Chain, [spends |-> xUTXO, amt |-> C!Satoshi(Chain[xUTXO].amt) - Fee,
                                 anchor |-> a, at |-> height, died |-> 0])
      /\ xUTXO' = IF job'.error = None THEN Len(Chain') ELSE xUTXO
  BY <1>2, <1>4, <1>5, <1>6
<1> QED  BY <1>1, <1>2, <1>7, <1>8 DEF C!PutAnchor, Chain

LEMMA StepImplements ==
  ASSUME IInv, Heard, [Next]_vars
  PROVE  \/ C!Mine
         \/ \E lost \in SUBSET DOMAIN txs : C!DoubleSpend(lost)
         \/ \E u \in DOMAIN txs : C!XSetUTXO(u) /\ UNCHANGED <<txs, height>>
         \/ /\ IsPut(job)
            /\ C!PutAnchor(job.task.anchor.net, [job.task.anchor EXCEPT !.time.nsec = 0],
                           job'.error = None)
         \/ UNCHANGED C!cliVars
<1>1. CASE Mine \/ \E lost \in SUBSET DOMAIN txs : DoubleSpend(lost)
  BY <1>1, LostAlike DEF Mine
<1>2. CASE \E u \in DOMAIN txs : XSetUTXO(u)
  BY <1>2 DEF XSetUTXO
<1>3. CASE \E u \in DOMAIN txs, parsed \in BOOLEAN : SendAgain(u, parsed)
  <2>1. PICK u \in DOMAIN txs, parsed \in BOOLEAN : SendAgain(u, parsed)
    BY <1>3
  <2>2. CASE parsed
    BY <2>1, <2>2 DEF SendAgain, C!XSetUTXO
  <2>3. CASE ~parsed
    BY <2>1, <2>3, SeesNothing DEF SendAgain
  <2> QED  BY <2>2, <2>3
<1>4. CASE \E code \in {0} \cup UnclearCodes, parsed \in BOOLEAN :
             SendRawTransaction(code, parsed)
  BY <1>4, SentIsPutAnchor
<1>5. CASE UNCHANGED <<txs, height, xUTXO>>
  BY <1>5, SeesNothing
<1> QED
  BY <1>1, <1>2, <1>3, <1>4, <1>5
     DEF Next, vars, CallPutAnchor, CallGetAnchor, Ping, RunFails, GetUTXO, GetAnchorTx,
         SignRawTransactionWithWallet, CreateRawTransactionForAnchor, DecodeAnchorTx,
         Garbled, Return

\* What GetAnchor answers run by run, BitcoinCLI could answer in one step: an
\* anchor that is there, with confirmations that were told of its transaction,
\* those of a double-spent one included.
THEOREM AnswersSound == Spec => []AnswersAsCLI
<1>1. IInv /\ Heard => AnswersAsCLI
  <2> SUFFICES ASSUME IInv, Heard, HasRead(job) PROVE AnswersAsCLI
    BY DEF AnswersAsCLI
  <2> DEFINE u == job.task.tx
             t == txs[u]
             data == ParseRawTransactionOpReturn(t)
  <2>1. /\ u \in DOMAIN txs /\ Written(t).error = None /\ job.anchor = Written(t).anchor
        /\ data \in Seq(Byte) /\ Len(data) = Size
        /\ Written(t) = DecodeOpReturn(data)
    BY ReadStands
  <2>2. job.conf \in Reached(u)
    BY DEF IInv, ReadOK, Counted
  <2>3. /\ Seen(t).anchor = job.anchor
        /\ Seen(t).at = t.at /\ Seen(t).died = t.died
    BY <2>1 DEF Seen
  <2>4. t \in Transaction /\ t.at <= height /\ t.died <= height
    BY <2>1, InChain DEF IInv, ChainOK
  <2>5. u \in DOMAIN Chain /\ Chain[u] = Seen(t)
    BY <2>1 DEF Chain
  <2> HIDE DEF data
  <2>6. job.anchor \in Anchor
    BY <2>1, EncodeDecoded
  <2> HIDE DEF t
  <2>7. "net" \in DOMAIN job.anchor
    BY <2>6 DEF Anchor
  <2>8. job.anchor # << >>
    BY <2>7
  <2>9. C!HasAnchor(u) /\ job.anchor = Chain[u].anchor
    BY <2>3, <2>5, <2>8 DEF C!HasAnchor, C!NoAnchor, Chain
  <2>10. job.conf \in C!Answers(u)
    <3>1. t.died \in Nat /\ t.at \in Nat /\ height \in Nat /\ UintMod \in Nat
      BY <2>4, CLIRunsAssumption DEF Transaction, IInv, Typed
    <3>2. C!Answers(u) = LET c == C!Confirmations(Seen(t))
                         IN  IF c < 0 THEN {0} \cup ((UintMod + c)..(UintMod - 1)) ELSE 0..c
      BY <2>5 DEF C!Answers, Chain
    <3>3. C!Confirmations(Seen(t)) = IF t.died # 0 THEN t.died - height - 1
                                                   ELSE height - t.at
      BY <2>3 DEF C!Confirmations
    <3>4. CASE t.died # 0
      <4>1. t.died - height - 1 < 0
        BY <2>4, <3>1
      <4>2. UintMod + (t.died - height - 1) = UintMod + t.died - height - 1
        BY <3>1
      <4> QED  BY <2>2, <3>2, <3>3, <3>4, <4>1, <4>2 DEF Reached, t
    <3>5. CASE t.died = 0
      <4>1. ~(height - t.at < 0)
        BY <2>4, <3>1
      <4> QED  BY <2>2, <3>2, <3>3, <3>5, <4>1 DEF Reached, t
    <3> QED  BY <3>4, <3>5
  <2> QED  BY <2>5, <2>9, <2>10 DEF AnswersAsCLI, t
<1> QED  BY <1>1, HeardHolds, PTL

\* Whatever fails between the calls of bitcoin-cli, and whenever, the client is
\* the BitcoinCLI that the gateway is checked with.
THEOREM RunsImplementCLI == Spec => ImplementsCLI
BY StepImplements, HeardHolds, PTL DEF Spec, ImplementsCLI

=============================================================================

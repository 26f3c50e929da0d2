------------------------------ MODULE CLIRuns ------------------------------
(***************************************************************************)
(* btc/bitcoincli.go run by run: PutAnchor and GetAnchor as the chains of  *)
(* bitcoin-cli calls they are, each of which can fail in its own way, with *)
(* blocks, double spends and lost answers between them.  BitcoinCLI, which *)
(* Gateway uses, has each of the two as one step; ImplementsCLI and        *)
(* AnswersAsCLI say that this is sound.  One call at a time: the gateway's *)
(* mutex.                                                                  *)
(***************************************************************************)
EXTENDS OpReturn

CONSTANTS Net,        \* b.btcNet
          Fee,        \* txFee, in satoshi
          Dust,       \* the smallest output the node relays
          Truncated,  \* balances whose product with 1e8 is not exact
          Fundings,   \* what the wallet can have when the program starts
          Anchors,    \* anchors that PutAnchor is asked for
          UintMod,    \* 2^64
          BTCTestnet4, \* the network connArgs has no argument for
          MaxTx,      \* bound: transactions the node ever accepts
          MaxHeight   \* bound: blocks after the funding

VARIABLES txs,        \* the transactions of the wallet, as they were accepted
          height,     \* blocks mined so far
          xUTXO,      \* b.xTransactionID, 0 when it was never set
          job         \* the call that is under way

vars == <<txs, height, xUTXO, job>>

\* Outputs: to the program's address ("addr"), to another address of the same
\* wallet ("second"), to somebody else ("other"), or data.
Pays(to, amt) == [to |-> to, amt |-> amt, data |-> None]
Carries(data) == [to |-> "nobody", amt |-> 0, data |-> data]

\* A transaction spends the output vout of spends (0: it came from elsewhere);
\* of is the anchor that was encoded into it, if any.
Tx(u, vout, outs, at, of) ==
  [spends |-> u, vout |-> vout, outs |-> outs, at |-> at, died |-> 0, of |-> of]

-----------------------------------------------------------------------------
\* (mutant) Exit code 1 is taken for one of the node's refusals.
RunAsRefusal(code) ==
  CASE code = -1 -> "ErrFailedToExec"
    [] code \in {1, 18} -> "ErrWalletNotLoaded"
    [] code \in {5, 8} -> "ErrInvalidTransactionID"
    [] code = 22 -> "ErrTxDecodeFailed"
    [] code = 25 -> "ErrTxAlreadySpent"
    [] code = 27 -> "ErrTxAlreadyExists"
    [] OTHER -> "ErrUnexpectedExitCode"

\* The error of a run that ends with a code other than 0; -1 when it does not
\* start, is killed, or cmdproxy gives no answer.
run(code) ==
  CASE code = -1 -> "ErrFailedToExec"
    [] code = 1 -> "ErrExitCode1"
    [] code = 18 -> "ErrWalletNotLoaded"
    [] code \in {5, 8} -> "ErrInvalidTransactionID"
    [] code = 22 -> "ErrTxDecodeFailed"
    [] code = 25 -> "ErrTxAlreadySpent"
    [] code = 27 -> "ErrTxAlreadyExists"
    [] OTHER -> "ErrUnexpectedExitCode"

\* Codes of one error are the same for the program; 28 stands for all others.
Codes == {-1, 1, 5, 18, 22, 25, 27, 28}

\* Those that come when the node may have done what it was asked.
UnclearCodes == {-1, 1, 28}

-----------------------------------------------------------------------------
\* The details of gettransaction: what the wallet paid, when it made the
\* transaction, before what it received.  Data is an output without address.
Details(t) ==
  LET entry(cat, i) == [category |-> cat, address |-> t.outs[i].to,
                        amount |-> t.outs[i].amt, vout |-> i]
  IN  {entry("send", i) : i \in {i \in DOMAIN t.outs : t.spends # 0}} \cup
      {entry("receive", i) :
         i \in {i \in DOMAIN t.outs : t.outs[i].to \in {"addr", "second"}}}

First(entries) ==
  IF entries = {} THEN None
  ELSE CHOOSE e \in entries : \A f \in entries : e.vout <= f.vout

\* (mutant) The address is looked at before the category.
ParseReceivedByAddress(t) ==
  IF \E e \in Details(t) : e.category = "send" /\ e.address = "nobody"
  THEN None
  ELSE First({e \in Details(t) : e.category = "receive" /\ e.address = "addr"})

\* Only the first output that pays the address counts.
ParseTransactionReceived(t) ==
  First({e \in Details(t) : e.category = "receive" /\ e.address = "addr"})

\* (mutant) An output needs a block before it is spent.
oneConfirmationNeeded == 1

leastConfirmationNeeded == 0

ParseRawTransactionOpReturn(t) ==
  LET datas == {i \in DOMAIN t.outs : t.outs[i].data # None}
  IN  IF datas = {} THEN None
      ELSE t.outs[CHOOSE i \in datas : \A j \in datas : i <= j].data

\* What stands in a transaction for whoever reads it.
Written(t) == LET data == ParseRawTransactionOpReturn(t)
              IN  IF data = None \/ Len(data) # Size
                  THEN Failed("ErrInvalidOpReturn")
                  ELSE DecodeOpReturn(data)

-----------------------------------------------------------------------------
\* What BitcoinCLI sees of the transactions: the output the program would spend,
\* and the anchor that is in them.
Seen(t) == LET received == ParseTransactionReceived(t)
           IN  [spends |-> t.spends,
                amt    |-> IF received = None THEN 0 ELSE received.amount,
                anchor |-> IF Written(t).error = None THEN Written(t).anchor
                                                      ELSE << >>,
                at     |-> t.at,
                died   |-> t.died]

C == INSTANCE BitcoinCLI WITH chain <- [u \in DOMAIN txs |-> Seen(txs[u])],
                              CliNet <- Net, Funds <- << >>

\* The confirmations that gettransaction shows, as they are read.
Confs(u) == C!ParseTransactionConfirmations(C!Confirmations(txs[u]))

Output == [to : {"addr", "second", "other", "nobody"}, amt : Nat,
           data : {None} \cup Seq(Byte)]
Transaction == [spends : Nat, vout : Nat, outs : Seq(Output), at : 0..MaxHeight,
                died : 0..MaxHeight, of : {None} \cup NewAnchors]

\* No chain has half as many blocks as a uint has values; what the wallet starts
\* with came from elsewhere and is confirmed by the first block.
ASSUME CLIRunsAssumption ==
  /\ Fee \in Nat /\ Dust \in Nat
  /\ MaxTx \in Nat /\ MaxHeight \in Nat
  /\ UintMod \in Nat /\ 2 * MaxHeight < UintMod
  /\ Anchors \subseteq NewAnchors
  /\ \A funding \in Fundings :
       /\ funding \in Seq(Transaction) /\ Len(funding) <= MaxTx
       /\ \A u \in DOMAIN funding :
            funding[u].spends = 0 /\ funding[u].at = 0 /\ funding[u].died = 0

\* "btcNet sets target Bitcoin network. A valid value must be set."
ASSUME NetAssumption == Net \in Nets

-----------------------------------------------------------------------------
\* What a call was asked, and how many transactions there were then.
Idle == [pc |-> "idle"]
Put(a) == [anchor |-> a, before |-> Len(txs)]
Get(u) == [tx |-> u]
Asked(task) == [pc |-> "ping", task |-> task, got |-> None]

Fails(task, error) == [pc |-> "done", task |-> task, error |-> error]
Sent(u) == [pc |-> "done", task |-> job.task, error |-> None, id |-> u]
Read(a) == [pc |-> "done", task |-> job.task, error |-> None, anchor |-> a,
            conf |-> job.got]

IsPut(j) == j # Idle /\ "anchor" \in DOMAIN j.task

CallPutAnchor(a) ==
  /\ job = Idle
  /\ job' = IF a.net = Net THEN Asked(Put(a))
                            ELSE Fails(Put(a), "ErrInconsistentBTCNet")
  /\ UNCHANGED <<txs, height, xUTXO>>

CallGetAnchor(u) ==
  /\ job = Idle
  /\ job' = Asked(Get(u))
  /\ UNCHANGED <<txs, height, xUTXO>>

XSetUTXO(u) == /\ job = Idle
               /\ C!XSetUTXO(u)
               /\ UNCHANGED <<txs, height, job>>

Return == /\ job.pc = "done"
          /\ job' = Idle
          /\ UNCHANGED <<txs, height, xUTXO>>

\* The version is asked of bitcoin-cli, the rest of the node.  Every call begins
\* with these two runs; connArgs, which every run needs, panics in the first of
\* them for one network.
PingErrors == {"ErrUnsupportedVersion", "ErrPingFailed"} \cup
              {run(code) : code \in Codes \ {1}}

Ping(error) ==
  /\ job.pc = "ping"
  /\ job' = CASE Net = BTCTestnet4 -> Fails(job.task, "panic")
              [] Net # BTCTestnet4 /\ error = None -> [job EXCEPT !.pc = "get"]
              [] OTHER -> Fails(job.task, error)
  /\ UNCHANGED <<txs, height, xUTXO>>

\* A run of any command ends with an error; the node did nothing.
RunFails(code) ==
  /\ job.pc \in {"get", "create", "sign", "send", "decode"}
  /\ job' = Fails(job.task, run(code))
  /\ UNCHANGED <<txs, height, xUTXO>>

\* It ends well and its answer is no JSON or no hexadecimal.
Garbled ==
  /\ job.pc \in {"get", "create", "sign", "decode"}
  /\ job' = Fails(job.task, "ErrFailedToDecode")
  /\ UNCHANGED <<txs, height, xUTXO>>

-----------------------------------------------------------------------------
\* The confirmations are unsigned when they are compared.
GetUTXO(confs) ==
  LET received == ParseTransactionReceived(txs[xUTXO]) IN
  /\ job.pc = "get" /\ IsPut(job) /\ xUTXO \in DOMAIN txs
  /\ confs \in Confs(xUTXO)
  /\ job' = CASE received = None -> Fails(job.task, "ErrFailedToDecode")
              [] received # None /\ confs < leastConfirmationNeeded
                   -> Fails(job.task, "ErrNotEnoughConfirm")
              [] OTHER -> [job EXCEPT !.pc = "create", !.got = received]
  /\ UNCHANGED <<txs, height, xUTXO>>

CreateRawTransactionForAnchor ==
  /\ job.pc = "create"
  /\ job' = IF C!Satoshi(job.got.amount) < Fee
            THEN Fails(job.task, "ErrInvalidFee")
            ELSE [job EXCEPT !.pc = "sign"]
  /\ UNCHANGED <<txs, height, xUTXO>>

\* The wallet signs what a block has not spent yet, unless it is locked.
SignRawTransactionWithWallet(complete) ==
  /\ job.pc = "sign"
  /\ complete => txs[xUTXO].died = 0 /\ \A u \in DOMAIN txs :
                   txs[u].spends = xUTXO => txs[u].died = 0 /\ ~C!Mined(txs[u])
  /\ job' = IF complete THEN [job EXCEPT !.pc = "send"]
                        ELSE Fails(job.task, "ErrFailedToSign")
  /\ UNCHANGED <<txs, height, xUTXO>>

AnchorTx ==
  Tx(xUTXO, job.got.vout,
     <<Pays("addr", C!Satoshi(job.got.amount) - Fee),
       Carries(EncodeOpReturn(job.task.anchor))>>,
     height, job.task.anchor)

\* (mutant) The next output is set before the node has answered.
SendSetsFirst(code, parsed) ==
  /\ job.pc = "send"
  /\ Len(txs) < MaxTx /\ txs[xUTXO].died = 0 /\ AnchorTx.outs[1].amt >= Dust
  /\ \A u \in DOMAIN txs : txs[u].spends # xUTXO
  /\ txs' = Append(txs, AnchorTx)
  /\ xUTXO' = Len(txs')
  /\ job' = CASE code # 0 -> Fails(job.task, run(code))
              [] code = 0 /\ ~parsed -> Fails(job.task, "ErrFailedToDecode")
              [] OTHER -> Sent(Len(txs'))
  /\ UNCHANGED height

\* The node accepts it, and the answer may be lost.
SendRawTransaction(code, parsed) ==
  LET error == CASE code # 0 -> run(code)
                 [] code = 0 /\ ~parsed -> "ErrFailedToDecode"
                 [] OTHER -> None
  IN
  /\ job.pc = "send"
  /\ Len(txs) < MaxTx /\ txs[xUTXO].died = 0 /\ AnchorTx.outs[1].amt >= Dust
  /\ \A u \in DOMAIN txs : txs[u].spends # xUTXO
  /\ txs' = Append(txs, AnchorTx)
  /\ xUTXO' = IF error = None THEN Len(txs') ELSE xUTXO
  /\ job' = IF error = None THEN Sent(Len(txs')) ELSE Fails(job.task, error)
  /\ UNCHANGED height

\* It has this very transaction already, in no block yet: the same anchor in the
\* same second.
SendAgain(u, parsed) ==
  /\ job.pc = "send" /\ ~C!Mined(txs[u])
  /\ txs[u] = [AnchorTx EXCEPT !.at = txs[u].at, !.of = txs[u].of]
  /\ xUTXO' = IF parsed THEN u ELSE xUTXO
  /\ job' = IF parsed THEN Sent(u) ELSE Fails(job.task, "ErrFailedToDecode")
  /\ UNCHANGED <<txs, height>>

-----------------------------------------------------------------------------
GetAnchorTx(conf) ==
  /\ job.pc = "get" /\ ~IsPut(job) /\ job.task.tx \in DOMAIN txs
  /\ conf \in Confs(job.task.tx)
  /\ job' = [job EXCEPT !.pc = "decode", !.got = conf]
  /\ UNCHANGED <<txs, height, xUTXO>>

DecodeAnchorTx ==
  LET t == txs[job.task.tx] IN
  /\ job.pc = "decode"
  /\ job' = CASE ParseRawTransactionOpReturn(t) = None
                   -> Fails(job.task, "ErrFailedToDecode")
              [] ParseRawTransactionOpReturn(t) # None /\ Written(t).error # None
                   -> Fails(job.task, "ErrInvalidOpReturn")
              [] OTHER -> Read(Written(t).anchor)
  /\ UNCHANGED <<txs, height, xUTXO>>

-----------------------------------------------------------------------------
Mine == UNCHANGED <<txs, job>> /\ C!Mine

\* A block spends inputs of transactions that were in no block, in some other
\* way; they are lost with all that spend from them.
DoubleSpend(lost) ==
  /\ height < MaxHeight
  /\ lost # {}
  /\ \A u \in lost : txs[u].spends # 0 /\ txs[u].died = 0 /\ ~C!Mined(txs[u])
  /\ \A v \in DOMAIN txs : txs[v].spends \in lost => v \in lost
  /\ height' = height + 1
  /\ txs' = [u \in DOMAIN txs |-> IF u \in lost
                                  THEN [txs[u] EXCEPT !.died = height + 1]
                                  ELSE txs[u]]
  /\ UNCHANGED <<xUTXO, job>>

Init == /\ txs \in Fundings
        /\ height = 0 /\ xUTXO = 0 /\ job = Idle

Next ==
  \/ \E a \in Anchors : CallPutAnchor(a)
  \/ \E u \in 0..Len(txs) : CallGetAnchor(u)
  \/ \E u \in DOMAIN txs : 
       \/ XSetUTXO(u)
       \/ \E parsed \in BOOLEAN : SendAgain(u, parsed)
  \/ \E error \in {None} \cup PingErrors : Ping(error)
  \/ \E code \in Codes : RunFails(code)
  \/ \E confs \in 0..(UintMod + MaxHeight) : GetUTXO(confs) \/ GetAnchorTx(confs)
  \/ \E complete \in BOOLEAN : SignRawTransactionWithWallet(complete)
  \/ \E code \in {0} \cup UnclearCodes, parsed \in BOOLEAN :
       SendRawTransaction(code, parsed)
  \/ CreateRawTransactionForAnchor \/ DecodeAnchorTx
  \/ Garbled \/ Return \/ Mine
  \/ \E lost \in SUBSET DOMAIN txs : DoubleSpend(lost)

Spec == Init /\ [][Next]_vars

-----------------------------------------------------------------------------
Errors == PingErrors \cup {run(code) : code \in Codes} \cup
          {"ErrInconsistentBTCNet", "ErrFailedToDecode", "ErrInvalidFee",
           "ErrFailedToSign", "ErrInvalidOpReturn"} \cup
          (IF Net = BTCTestnet4 THEN {"panic"} ELSE {})

\* None is neither an error nor an entry of the details.
ASSUME NoneAssumption ==
  /\ None \notin Errors
  /\ None \notin [category : {"send", "receive"}, address : {"addr", "second"},
                  amount : Nat, vout : Nat]

\* A call ends with one of the errors the code declares for it, never with
\* ErrNotEnoughConfirm; what is sent fits into an OP_RETURN output and pays no
\* negative amount.
TypeOK ==
  /\ Len(txs) <= MaxTx /\ height \in 0..MaxHeight
  /\ xUTXO \in 0..Len(txs)
  /\ job.pc \in {"idle", "ping", "get", "create", "sign", "send", "decode", "done"}
  /\ job.pc = "done" => job.error \in Errors \cup {None}
  /\ \A u \in DOMAIN txs : \A i \in DOMAIN txs[u].outs :
       LET out == txs[u].outs[i] IN
       out.amt \in Nat /\ (txs[u].spends # 0 /\ out.data # None => Len(out.data) = Size)

HasRead(j) == j.pc = "done" /\ "tx" \in DOMAIN j.task /\ j.error = None

\* An anchor that is in a transaction as it was encoded, by this program or by
\* another gateway, is read back as it was up to the fraction of its second,
\* also with a time before 1970; one of a network without a name is not read.
RoundTrip ==
  \A u \in DOMAIN txs :
    LET a == txs[u].of IN
    a # None /\ ParseRawTransactionOpReturn(txs[u]) = EncodeOpReturn(a)
             /\ job.pc = "done" /\ job.task = Get(u) =>
      /\ job.error = None => /\ a.net \in Nets
                             /\ job.anchor = [a EXCEPT !.time.nsec = 0]
      /\ a.net \in Nets => job.error # "ErrInvalidOpReturn"

\* What is read from a transaction, also from one of somebody else, is an anchor
\* of its own data: encoded again it gives the same bytes except for the two
\* reserved ones, so no two outputs are mistaken for one another.
NothingOverlooked ==
  HasRead(job) =>
    LET data == ParseRawTransactionOpReturn(txs[job.task.tx]) IN
    /\ job.anchor.version \in Versions /\ job.anchor.net \in Nets
    /\ Len(data) = Size
    /\ \A i \in 1..Size \ {7, 8} : EncodeOpReturn(job.anchor)[i] = data[i]

\* A number of confirmations that can be one, from 1 to the height, is only
\* answered for a transaction that is in the chain, which has at least as many
\* by then; one that was double-spent gets 0 or an absurd number.
ConfsMeanMined ==
  HasRead(job) /\ job.conf \in 1..height =>
    LET t == txs[job.task.tx] IN C!Mined(t) /\ job.conf <= height - t.at

\* GetAnchor answers, over its several runs, what BitcoinCLI lets it answer in one
\* step: the anchor of a transaction that has one, and confirmations that were
\* told of it, also when the transaction was mined or double-spent meanwhile.
AnswersAsCLI ==
  HasRead(job) =>
    LET u == job.task.tx IN
    /\ C!HasAnchor(u) /\ job.anchor = Seen(txs[u]).anchor
    /\ job.conf \in C!Answers(u)

\* Only four errors leave open whether the anchor was sent; after every other
\* one this call sent nothing, and repeating it pays once.
ErrorMeansUnsent ==
  IsPut(job) /\ job.pc = "done" /\
    job.error \notin {None, "ErrFailedToExec", "ErrExitCode1",
                     "ErrUnexpectedExitCode", "ErrFailedToDecode"}
  => Len(txs) = job.task.before

\* What PutAnchor sends can be the input of the next one: its change is found
\* among the details of the wallet, it takes what its input has less the fee and
\* at most one satoshi, and it spends an output of the address.
ChangeIsFound ==
  \A u \in DOMAIN txs : txs[u].spends # 0 =>
    LET t == txs[u]
        change == ParseTransactionReceived(t)
        input == txs[t.spends].outs[t.vout]
    IN  /\ change # None /\ change.amount >= Dust
        /\ input.to = "addr"
        /\ input.amt - change.amount \in {Fee, Fee + 1}

\* Run by run the program does what BitcoinCLI does in single steps: a
\* transaction for the asked anchor, of the own network and only where BitcoinCLI
\* could send, with the next output set exactly when the caller is told its name;
\* and a block changes the transactions as BitcoinCLI lets it.
ImplementsCLI ==
  [][ \/ C!Mine
      \/ \E lost \in SUBSET DOMAIN txs : C!DoubleSpend(lost)
      \/ \E u \in DOMAIN txs : C!XSetUTXO(u) /\ UNCHANGED <<txs, height>>
      \/ /\ IsPut(job)
         /\ C!PutAnchor(job.task.anchor.net, [job.task.anchor EXCEPT !.time.nsec = 0],
                        job'.error = None) ]_C!cliVars

=============================================================================

------------------------------ MODULE Gateway ------------------------------
(***************************************************************************)
(* gw/gw.go: the gateway, composed of the wallet, bitcoin-cli and the      *)
(* record store it calls.  A task is one goroutine that serves requests;   *)
(* call[t] is the method it is in, with the local variables that survive   *)
(* from one outside call to the next.  One action is the code between two  *)
(* points where another goroutine can run or the process can die with an   *)
(* outside effect in between: the call to bitcoin-cli, the save of the     *)
(* wallet, the write of the record.                                        *)
(*                                                                         *)
(* The process can be stopped at any moment and started again; between     *)
(* the two the operator may run cmd/utxoadd.                               *)
(***************************************************************************)
EXTENDS BitcoinCLI, DocstoreWallet, Docstore, AnchorID, FiniteSets,
        Functions

CONSTANTS Tasks,      \* goroutines
          Requests,   \* pairs of identifiers the clients ask about
          Names,      \* domain names a refresh may set
          Notes,      \* notes a refresh may set
          GwNet,      \* the network the gateway was built with
          InWallet,   \* the persisted queue at the beginning
          MaxFaults   \* bound: see the variable faults

ASSUME GatewayAssumption == /\ None \notin Tasks
                            /\ "panicked" \notin Tasks \cup {None}
                            /\ None \notin Names \cup Notes
                            /\ Requests \subseteq Seq(Nat) \X Seq(Nat)
                            /\ InWallet \in Seq(DOMAIN Funds)
                            /\ IsInjective(InWallet)
                            /\ MaxFaults \in Nat

VARIABLES mu,     \* the task that holds g.mu, or None; or "panicked" when
                  \* the holder panicked on the way to its Unlock
          call,   \* task -> the call it is in
          up,     \* the process runs
          faults, \* how often an outside effect and what the process
                  \* knows of it came apart: a save of the wallet without
                  \* a success, an unanswered send, a stop while a register
                  \* call holds the lock.  Only the properties read it.
          wiped   \* outputs that cmd/utxoadd overwrote; likewise

gwVars == <<mu, call, up, faults, wiped>>
vars == <<chain, height, xUTXO, q, doc, recs, mu, call, up, faults, wiped>>

Keys == {CID(r) : r \in Requests} \cup {CID(NewAnchor(r)) : r \in Requests}

Anchors == {NewAnchor(r) : r \in Requests}

Idle == [pc |-> "idle"]

Init == /\ CLIInit
        /\ q = << >> /\ doc = InWallet
        /\ recs = [k \in Keys |-> None]
        /\ mu = None /\ call = [t \in Tasks |-> Idle]
        /\ up = FALSE /\ faults = 0 /\ wiped = {}

-----------------------------------------------------------------------------
Goto(t, c) == call' = [call EXCEPT ![t] = c]

Return(t, res) == Goto(t, [pc |-> res])

At(t, pc) == up /\ call[t].pc = pc

\* (mutant) Every task gets the lock.
LockShared(t) == mu' = t

Lock(t) == mu = None /\ mu' = t
Unlock(t) == mu' = None

Fault(w) == IF w = "ok" THEN UNCHANGED faults
                        ELSE faults < MaxFaults /\ faults' = faults + 1

(***************************************************************************)
(* RegisterTransaction: the anchor is made before the lock is taken, and   *)
(* the lock is held until the call returns, whatever it returns.           *)
(***************************************************************************)
RegisterTransaction(t, r) ==
  /\ At(t, "idle")
  /\ Goto(t, [pc |-> "register", anchor |-> NewAnchor(r)])
  /\ UNCHANGED <<cliVars, walletVars, recs, mu, up, faults, wiped>>

\* (mutant) An empty wallet ends the call without the unlock.
SetUTXOLocked(t) ==
  /\ At(t, "register")
  /\ Lock(t)
  /\ \/ /\ q # << >>
        /\ XSetUTXO(PeekNextUTXO)
        /\ Goto(t, [call[t] EXCEPT !.pc = "put"])
     \/ /\ q = << >>
        /\ Return(t, "err")
        /\ UNCHANGED xUTXO
  /\ UNCHANGED <<chain, height, walletVars, recs, up, faults, wiped>>

\* Lock, PeekNextUTXO, XSetUTXO.
SetUTXO(t) ==
  /\ At(t, "register")
  /\ \/ /\ q # << >>
        /\ Lock(t)
        /\ XSetUTXO(PeekNextUTXO)
        /\ Goto(t, [call[t] EXCEPT !.pc = "put"])
     \/ /\ q = << >>
        /\ mu = None
        /\ Return(t, "err")
        /\ UNCHANGED <<mu, xUTXO>>
  /\ UNCHANGED <<chain, height, walletVars, recs, up, faults, wiped>>

\* (mutant) An error path without the unlock.
PutAnchorFailsLocked(t) ==
  /\ At(t, "put")
  /\ UNCHANGED mu
  /\ Return(t, "err")
  /\ RunFails
  /\ UNCHANGED <<walletVars, recs, up, faults, wiped>>

\* Anything may fail before the transaction is sent; then nothing changed.
PutAnchorFails(t) ==
  /\ At(t, "put")
  /\ Unlock(t)
  /\ Return(t, "err")
  /\ RunFails
  /\ UNCHANGED <<walletVars, recs, up, faults, wiped>>

PutAnchorSends(t) ==
  /\ At(t, "put")
  /\ \/ /\ PutAnchor(GwNet, call[t].anchor, TRUE)
        /\ Goto(t, [pc |-> "next", tx |-> xUTXO'])
        /\ UNCHANGED <<mu, faults>>
     \/ /\ PutAnchor(GwNet, call[t].anchor, FALSE)
        /\ Fault("unacked")
        /\ Unlock(t)
        /\ Return(t, "err")
  /\ UNCHANGED <<walletVars, recs, up, wiped>>

DropUTXO(t, w) ==
  /\ At(t, "next")
  /\ NextUTXO(w)
  /\ Fault(w)
  /\ IF w = "ok" THEN Goto(t, [call[t] EXCEPT !.pc = "add"]) /\ UNCHANGED mu
                 ELSE Return(t, "err") /\ Unlock(t)
  /\ UNCHANGED <<cliVars, recs, up, wiped>>

KeepChange(t, w) ==
  /\ At(t, "add")
  /\ AddUTXO(xUTXO, w)
  /\ Fault(w)
  /\ Unlock(t)
  /\ IF w = "ok" THEN Goto(t, [call[t] EXCEPT !.pc = "ok"])
                 ELSE Return(t, "err")
  /\ UNCHANGED <<cliVars, recs, up, wiped>>

(***************************************************************************)
(* StoreRecord and RefreshRecord ask bitcoin-cli under the lock and touch  *)
(* the store outside it.  Asking changes nothing, so lock, question and    *)
(* unlock are one step that needs the lock to be free; ask is the outcome. *)
(* A panic of connArgs passes by the Unlock, which is not deferred; the    *)
(* HTTP server recovers the goroutine and the lock stays taken.            *)
(***************************************************************************)
GetAnchorPanics(t) == mu' = "panicked" /\ Return(t, "err")

StoreRecord(t, tx) ==
  /\ At(t, "idle")
  /\ Goto(t, [pc |-> "store", tx |-> tx])
  /\ UNCHANGED <<cliVars, walletVars, recs, mu, up, faults, wiped>>

StoreGetAnchor(t, ask) ==
  /\ At(t, "store")
  /\ mu = None
  /\ IF CliNet = BTCTestnet4 THEN GetAnchorPanics(t)
     ELSE /\ IF ask /\ HasAnchor(call[t].tx)
             THEN \E ar \in GetAnchor(call[t].tx) : Goto(t, [pc |-> "storePut", ar |-> ar])
             ELSE Return(t, "err")
          /\ UNCHANGED mu
  /\ UNCHANGED <<cliVars, walletVars, recs, up, faults, wiped>>

StorePut(t, w) ==
  /\ At(t, "storePut")
  /\ Put(CID(call[t].ar.anchor), call[t].ar, w)
  /\ Return(t, IF w = "ok" THEN "ok" ELSE "err")
  /\ UNCHANGED <<cliVars, walletVars, mu, up, faults, wiped>>

\* A failed read looks like a missing record.
GetRecord(t, r, read) ==
  /\ At(t, "idle")
  /\ IF read /\ recs[CID(r)] # None
     THEN Goto(t, [pc |-> "ok", ar |-> recs[CID(r)]])
     ELSE Return(t, "err")
  /\ UNCHANGED <<cliVars, walletVars, recs, mu, up, faults, wiped>>

RefreshRecord(t, r, name, note, read) ==
  /\ At(t, "idle")
  /\ IF read /\ recs[CID(r)] # None
     THEN Goto(t, [pc |-> "refresh", key |-> CID(r), tx |-> recs[CID(r)].btctx,
                   name |-> name, note |-> note])
     ELSE Return(t, "err")
  /\ UNCHANGED <<cliVars, walletVars, recs, mu, up, faults, wiped>>

RefreshGetAnchor(t, ask) ==
  /\ At(t, "refresh")
  /\ mu = None
  /\ IF CliNet = BTCTestnet4 THEN GetAnchorPanics(t)
     ELSE /\ IF ask /\ HasAnchor(call[t].tx)
             THEN \E ar \in GetAnchor(call[t].tx) :
                    Goto(t, [pc |-> "conf", key |-> call[t].key, tx |-> call[t].tx,
                             conf |-> ar.conf,
                             name |-> call[t].name, note |-> call[t].note])
             ELSE Return(t, "err")
          /\ UNCHANGED mu
  /\ UNCHANGED <<cliVars, walletVars, recs, up, faults, wiped>>

\* The three updates, each of its own; the second and the third only when
\* the caller gave a value.  The first that fails ends the call.
AfterName(c) == IF c.note = None THEN [pc |-> "ok"]
                ELSE [pc |-> "note", key |-> c.key, note |-> c.note]
AfterConf(c) == IF c.name = None THEN AfterName(c)
                ELSE [pc |-> "name", key |-> c.key, name |-> c.name, note |-> c.note]

Updated(t, w, next) == IF w = "ok" THEN Goto(t, next) ELSE Return(t, "err")

RefreshConfirmations(t, w) ==
  /\ At(t, "conf")
  /\ UpdateConfirmations(call[t].key, call[t].conf, w)
  /\ Updated(t, w, AfterConf(call[t]))
  /\ UNCHANGED <<cliVars, walletVars, mu, up, faults, wiped>>

RefreshName(t, w) ==
  /\ At(t, "name")
  /\ UpdateBBc1DomainName(call[t].key, call[t].name, w)
  /\ Updated(t, w, AfterName(call[t]))
  /\ UNCHANGED <<cliVars, walletVars, mu, up, faults, wiped>>

RefreshNote(t, w) ==
  /\ At(t, "note")
  /\ UpdateNote(call[t].key, call[t].note, w)
  /\ Updated(t, w, [pc |-> "ok"])
  /\ UNCHANGED <<cliVars, walletVars, mu, up, faults, wiped>>

\* The caller takes the result.
Done(t) ==
  /\ up /\ call[t].pc \in {"ok", "err"}
  /\ Goto(t, Idle)
  /\ UNCHANGED <<cliVars, walletVars, recs, mu, up, faults, wiped>>

-----------------------------------------------------------------------------
(***************************************************************************)
(* The process.  Nothing saves the wallet on the way out: Close closes the *)
(* store only.  What was in memory is gone, and every call with it.        *)
(***************************************************************************)
Stop ==
  /\ up
  /\ up' = FALSE
  /\ IF mu \in Tasks THEN Fault("lost") ELSE UNCHANGED faults
  /\ q' = << >> /\ xUTXO' = 0 /\ mu' = None
  /\ call' = [t \in Tasks |-> Idle]
  /\ UNCHANGED <<chain, height, doc, recs, wiped>>

Start(read) ==
  /\ ~up
  /\ up' = TRUE
  /\ load(read)
  /\ UNCHANGED <<cliVars, doc, recs, mu, call, faults, wiped>>

\* A run of utxoadd with the gateway stopped (the module UtxoAdd is about the
\* other case).  A load that fails leaves the tool an empty queue; its two
\* saves, in AddUTXO and in the Close after it, write what it has over the
\* document.  That the output can be spent and is not in the document is the
\* operator's care: the tool does not look.
OperatorAdd(u, read, w, wClose) ==
  /\ ~up
  /\ u \in DOMAIN chain /\ ~Spent(u) /\ chain[u].died = 0
  /\ \A i \in DOMAIN doc : doc[i] # u
  /\ LET mine == Append(IF read THEN doc ELSE << >>, u)
     IN  doc' = After(After(doc, mine, w), mine, wClose)
  /\ wiped' = (wiped \cup Range(doc)) \ Range(doc')
  /\ UNCHANGED <<cliVars, q, recs, mu, call, up, faults>>

Blocks == /\ \/ Mine
             \/ \E lost \in SUBSET DOMAIN chain : DoubleSpend(lost)
          /\ UNCHANGED <<walletVars, recs, gwVars>>

-----------------------------------------------------------------------------
\* What a task does on its own once a client called.
Serve(t) ==
  \/ PutAnchorFails(t) \/ PutAnchorSends(t)
  \/ \E w \in Outcomes : \/ DropUTXO(t, w) \/ KeepChange(t, w)
                         \/ StorePut(t, w) \/ RefreshConfirmations(t, w)
                         \/ RefreshName(t, w) \/ RefreshNote(t, w)
  \/ Done(t)

Acquire(t) == \/ SetUTXO(t)
              \/ \E ask \in BOOLEAN : StoreGetAnchor(t, ask)
                                      \/ RefreshGetAnchor(t, ask)

Request(t) ==
  \/ \E r \in Requests :
       \/ RegisterTransaction(t, r)
       \/ \E read \in BOOLEAN :
            \/ GetRecord(t, r, read)
            \/ \E name \in Names \cup {None}, note \in Notes \cup {None} :
                 RefreshRecord(t, r, name, note, read)
  \/ \E tx \in 0..MaxTx : StoreRecord(t, tx)

Next == \/ \E t \in Tasks : Request(t) \/ Acquire(t) \/ Serve(t)
        \/ Stop
        \/ \E read \in BOOLEAN : Start(read)
        \/ \E u \in DOMAIN chain, read \in BOOLEAN, w, wClose \in Outcomes :
             OperatorAdd(u, read, w, wClose)
        \/ Blocks

Spec == Init /\ [][Next]_vars

-----------------------------------------------------------------------------
Txs == DOMAIN chain

Sending == {"put", "next", "add"}

Transaction == [spends : 0..MaxTx, amt : Nat,
                anchor : Anchors \cup {NoAnchor}, at : 0..MaxHeight,
                died : 0..MaxHeight]

\* Numbers of confirmations the gateway is told: those that can be reached,
\* and those just below 2^64.
Told == 0..MaxHeight \cup (UintMod - MaxHeight)..(UintMod - 1)

Record == [anchor : Anchors, btctx : 1..MaxTx, conf : Told,
           name : Names \cup {""}, note : Notes \cup {""}]

Page == [btctx : 1..MaxTx, conf : Told]

\* None is no record, and no page of the book below.
ASSUME RecordAssumption == None \notin Record \cup Page

Call == [pc : {"idle", "ok", "err"}]
        \cup [pc : {"register", "put"}, anchor : Anchors]
        \cup [pc : {"next", "add", "ok"}, tx : 1..MaxTx]
        \cup [pc : {"store"}, tx : 0..MaxTx]
        \cup [pc : {"storePut", "ok"}, ar : Record]
        \cup [pc : {"refresh"}, key : Keys, tx : 1..MaxTx,
              name : Names \cup {None}, note : Notes \cup {None}]
        \cup [pc : {"conf"}, key : Keys, tx : 1..MaxTx, conf : Told,
              name : Names \cup {None}, note : Notes \cup {None}]
        \cup [pc : {"name"}, key : Keys, name : Names, note : Notes \cup {None}]
        \cup [pc : {"note"}, key : Keys, note : Notes]

\* Every entry of the wallet is a transaction the node knows; a transaction
\* spends an earlier one, was accepted at a height already reached, was
\* conflicted at one if ever, and carries the anchor of some request or none.
TypeOK ==
  /\ chain \in Seq(Transaction)
  /\ Len(chain) <= MaxTx
  /\ \A u \in Txs : /\ chain[u].spends < u
                  /\ chain[u].at <= height /\ chain[u].died <= height
  /\ height \in 0..MaxHeight
  /\ xUTXO \in {0} \cup Txs
  /\ q \in Seq(Txs) /\ doc \in Seq(Txs)
  /\ recs \in [Keys -> Record \cup {None}]
  /\ mu \in Tasks \cup {None, "panicked"}
  /\ call \in [Tasks -> Call]
  /\ up \in BOOLEAN
  /\ faults \in 0..MaxFaults
  /\ wiped \subseteq Txs

(***************************************************************************)
(* The register call and the lock.  Only the task that holds g.mu is past  *)
(* XSetUTXO; until it returns, xUTXO and the head of the queue belong to   *)
(* its anchor: it spends the head, then drops that very entry, then keeps  *)
(* the output its own transaction made.  (gw.go RegisterTransaction: the   *)
(* wallet and the client's xTransactionID are two places that have to      *)
(* agree over three calls.)                                                *)
(***************************************************************************)
RegisterHoldsHead ==
  /\ \A t \in Tasks : call[t].pc \in Sending <=> mu = t
  /\ \A t \in Tasks :
       /\ call[t].pc = "put"  => q # << >> /\ xUTXO = Head(q)
       /\ call[t].pc = "next" => /\ q # << >> /\ chain[xUTXO].spends = Head(q)
                                 /\ call[t].tx = xUTXO
       /\ call[t].pc = "add"  => call[t].tx = xUTXO

(***************************************************************************)
(* A record that answers for a digest is about this digest and about a     *)
(* transaction that anchors it: no request gets the record of another,     *)
(* whichever of StoreRecord and RefreshRecord wrote the document last.     *)
(* The identifiers have to have the anchor's length; the code does not     *)
(* check it, and the key, the two strings joined, forgets where the first  *)
(* ends.                                                                   *)
(***************************************************************************)
Exact(r) == Len(r[1]) = IDLen /\ Len(r[2]) = IDLen

RecordsOnChain ==
  \A r \in Requests : Exact(r) /\ recs[CID(r)] # None =>
    /\ recs[CID(r)].anchor = NewAnchor(r)
    /\ recs[CID(r)].btctx \in Txs
    /\ chain[recs[CID(r)].btctx].anchor = NewAnchor(r)

\* A record never claims confirmations that were not told of some transaction
\* that anchors its digest (RefreshRecord writes what it read before, in
\* another moment, perhaps of another transaction): a number near 2^64 stands
\* there only when one of them is conflicted.
ConfsReached ==
  \A k \in Keys : recs[k] # None =>
    \E u \in Txs : /\ HasAnchor(u) /\ CID(chain[u].anchor) = k
                   /\ recs[k].conf \in Answers(u)

(***************************************************************************)
(* The wallet.  Saves fail, answers get lost and the process dies between  *)
(* the send and the saves, but spent outputs only ever pile up at the      *)
(* front of the queue and of the document, and no output is in either      *)
(* twice.                                                                  *)
(***************************************************************************)
SpentInFront ==
  \A s \in {q, doc} : /\ IsInjective(s)
                      /\ \A i, j \in DOMAIN s : i < j /\ Spent(s[j]) => Spent(s[i])

Doubt == IF \E t \in Tasks : call[t].pc = "next" THEN 1 ELSE 0

\* Each fault leaves at most one spent output in the queue or the document;
\* one more is there while a register call is between the send and the save.
StrandedBounded ==
  \A s \in {q, doc} : Cardinality({i \in DOMAIN s : Spent(s[i])}) <= faults + Doubt

InHand == {call[t].tx : t \in {s \in Tasks : call[s].pc \in {"next", "add"}}}

Ours == {u \in Txs : chain[u].spends # 0} \cup Range(InWallet)

Lost == {u \in Ours : ~Spent(u) /\ chain[u].died = 0}
          \ (Range(q) \cup Range(doc) \cup InHand)

\* Each fault loses at most one spendable output of the gateway's, besides
\* those that utxoadd overwrote after a load that failed (the module UtxoAdd
\* says what the tool promises of them).
LostBounded == Cardinality(Lost \ wiped) <= faults

(***************************************************************************)
(* A register call that succeeds heals the wallet: the document is what is *)
(* in memory, with the new output in it and no spent one, whatever earlier *)
(* saves did.  A stop right after it loses nothing.                        *)
(***************************************************************************)
Healed(tx) == /\ doc = q /\ tx \in Range(doc)
              /\ \A i \in DOMAIN doc : ~Spent(doc[i])

SuccessIsDurable ==
  [][\A t \in Tasks : call[t].pc = "add" /\ call'[t].pc = "ok" =>
                        Healed(xUTXO)']_vars

(***************************************************************************)
(* A statement of the documentation that the code does not keep.           *)
(***************************************************************************)

\* RefreshRecord "update AnchorRecord.Confirmations by retrieving and
\* checking the Bitcoin transaction" (gw.go:36-37): the confirmations of a
\* record are those told of its own transaction.  (Holds for calls one after
\* the other.)
ConfsOfOwnTx ==
  \A k \in Keys : recs[k] # None => recs[k].conf \in Answers(recs[k].btctx)

\* Every call ends: no way out of a method keeps the lock.  (Checked under the
\* fairness of AnchorAPI.)
CallsReturn ==
  \A t \in Tasks : call[t].pc # "idle" ~> call[t].pc \in {"idle", "ok", "err"}

-----------------------------------------------------------------------------
(***************************************************************************)
(* The gateway keeps the promise of AnchorBook: the ledger is what the     *)
(* node accepted, with its confirmations; a page is the part of a record   *)
(* that is evidence, and what is told of an entry wraps at 2^64.           *)
(***************************************************************************)
Ledger == [u \in Txs |-> [anchor |-> chain[u].anchor, age |-> Confirmations(chain[u])]]

Pages == [k \in Keys |->
            IF recs[k] = None THEN None
            ELSE [btctx |-> recs[k].btctx, conf |-> recs[k].conf]]

Book == INSTANCE AnchorBook WITH ledger <- Ledger, book <- Pages, Wrap <- UintMod

KeepsBook == Book!Spec

=============================================================================

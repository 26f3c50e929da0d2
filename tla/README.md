# Verification of btcgw

TLA+ models of btcgw, the Bitcoin gateway for the BBc-1 ledger subsystem
(`github.com/ebiiim/btcgw`), checked with TLC on small instances and proved
about with TLAPS. The code is the reference: every definition listed in
`PROJECT.json` under "map" translates the lines named there.

## The system

btcgw writes the digest of a BBc-1 transaction into the OP_RETURN output of a
Bitcoin transaction (an *anchor*) and keeps a record of it in a document
database. A client POSTs `/anchors/domains/{domain}/digests/{digest}`, later
GETs the record, and PATCHes it to refresh the number of confirmations.

| Part | Source | State | Operations |
|---|---|---|---|
| Gateway | `gw/gw.go` | the mutex `mu`; everything else is in the parts it calls | `RegisterTransaction`, `StoreRecord`, `GetRecord`, `RefreshRecord`, `Close` |
| Bitcoin client | `btc/bitcoincli.go` | `xTransactionID`, the output the next anchor spends; behind it the node's transactions and blocks | `XSetUTXO`, `XGetUTXO`, `PutAnchor`, `GetAnchor`, `GetBalance` |
| Wallet | `btc/wallet.go` | a FIFO queue of outputs in memory and the same queue as one document | `PeekNextUTXO`, `NextUTXO`, `AddUTXO`, `Close`; `load` when it is opened |
| Record store | `store/` | one document per pair of identifiers | `Put`, `Get`, three `Update...` |
| Anchor and OP_RETURN | `model/` | none | `NewAnchor`, `EncodeOpReturn`, `DecodeOpReturn` |
| Anchor API | `api/anchor-api.go` | none of its own; one goroutine per request | GET, POST, PATCH |
| API keys | `auth/auth.go`, `api/apikey-api.go`, `cmd/apikey`, `cmd/apikey-cli` | one document per key | `Generate`, `Do`, `Delete` |
| Servers | `cmd/btcgw`, `cmd/apikey` | the process, its three collections, the listener, the requests under way | open, serve, signal, graceful shutdown for ten seconds, deferred closing, exit |
| Wallet tool | `cmd/utxoadd` | a wallet of its own on the same document | open, `AddUTXO`, `Close` |
| Examples | `_example/` | a process each, with a store of its own | open, use, deferred closing, exit |

How they interact. A POST reads the record (`GetRecord`); when there is none it
calls `RegisterTransaction`, then `StoreRecord` with the transaction's name,
then `GetRecord` again for the answer. `RegisterTransaction` holds `mu` while it
peeks at the wallet, sets `xTransactionID`, sends the transaction with several
runs of `bitcoin-cli`, takes the spent output off the wallet and adds the
change; both wallet calls write the document. `StoreRecord` and `RefreshRecord`
hold `mu` only while they ask `bitcoin-cli`, and touch the store outside it.
Nothing joins the three places where the state is (node, wallet document, record
documents): there is no transaction over them and no recovery at start.

What is hard about it, and what makes each part correct:

- *Gateway and wallet.* Three outside effects in a row (send, save without the
  head, save with the change), each of which can fail, happen without an answer,
  or be the last before the process dies. Correct means: the output that is
  spent is the one taken off and the one that is added is the one just made
  (`RegisterHoldsHead`), what a fault leaves behind is bounded and in a known
  place (`SpentInFront`, `StrandedBounded`, `LostBounded`), and a success
  repairs it (`SuccessIsDurable`).
- *Records.* Answers of the node are written after the lock is released, so old
  ones overwrite new ones. Correct means: a record is about the digest of its
  key and about a transaction that anchors it, and claims no confirmations that
  were told of nothing for the digest (`RecordsOnChain`, `ConfsReached`,
  `KeepsBook`).
- *API.* Check and registration are two steps, reads that fail look like
  missing records, clients repeat requests. Correct means: the answer is about
  what was asked, a digest is registered once, a note is not lost, every
  request is answered (`AnswersAsked`, `AnsweredIsFound`, `OnePostSucceeds`,
  `NotesStay`, `RequestsAnswered`, `CallsReturn`).
- *Wallet tool.* Two copies of one queue. Correct means: an output whose
  addition was acknowledged stays until it is spent (`AddedStays`).
- *API keys.* Three programs over one collection, with writes whose answers are
  lost. Correct means: a POST is admitted within what its key was granted, a key
  works once its creator is told, and a confirmed deletion holds for every later
  POST (`AdmittedInScope`, `GrantedIsAdmitted`, `RevokedIsRefused`).
- *Bitcoin client.* One call is five to seven runs of `bitcoin-cli`, each of
  which can end without an answer or with an error of its own, while blocks
  arrive and outputs are spent from elsewhere. Correct means: the errors that
  look final are final (`ErrorMeansUnsent`), confirmations stand for blocks
  (`ConfsMeanMined`), the change of one anchor can pay for the next
  (`ChangeIsFound`), and the whole chain of runs is the one step the gateway
  takes it for, in what it sends (`ImplementsCLI`) and in what it answers
  (`AnswersAsCLI`).
- *OP_RETURN.* The only copy of an anchor that outlives the gateway. Correct
  means: it is read back as it was written, and nothing else is read as an
  anchor it is not (`RoundTrip`, `NothingOverlooked`).
- *Programs.* Collections are opened behind a `sync.Once`, closed in deferred
  calls and used by handlers that may outlive both. Correct means: handlers meet
  open collections (`ServedByOpen`), what was opened is closed at a return and
  after a panic, but for three cases (`ClosedAtEnd`), nothing
  dereferences a collection that is not there (`NilOnlyWhenLazy`), and a server
  stops when it is told to or can no longer listen (`StopCompletes`,
  `DeadListenerStops`).

`PROJECT.json` lists every hazard with its line and the properties aimed at it.

## The modules

| Module | Models | Notes |
|---|---|---|
| `Datastore` | the document database, as its callers see it | a write is applied, refused, or applied without an answer |
| `DocstoreWallet` | `btc/wallet.go` | `q` the queue in memory, `doc` the document; used by `Gateway` and, twice, by `UtxoAdd` |
| `AnchorID` | how identifiers are cut or padded and joined to keys | `IDLen` is 32 in the code |
| `Docstore` | `store/docstore.go` | `recs`, one document per key |
| `BitcoinCLI` | `btc/bitcoincli.go` and the node behind it | `chain` every accepted transaction, `height` the blocks, `xUTXO` the field `xTransactionID` |
| `Gateway` | `gw/gw.go` over the five above, with start, stop and the operator | `call[t]` the method a goroutine is in |
| `AnchorBook` | the abstract specification of the gateway: a ledger and a book of pages | what a client may rely on |
| `AnchorAPI` | `api/anchor-api.go` over `Gateway` | `job[t]` the place in the handler, then the answer |
| `UtxoAdd` | `cmd/utxoadd` beside a gateway, both on one document | two instances of `DocstoreWallet` |
| `APIKeys` | `auth/auth.go` under the service, the tool and the check before a POST | `store` the collection, `post[r]` a POST at the validator; what creators asked and were told is kept beside it |
| `OpReturn` | `model/opret.go` | numbers of values, bytes and identifiers as constants; operators only. What a byte counts for (`Weight`) and the sum over the bytes (`Prefixes`) are recursive functions |
| `CLIRuns` | `btc/bitcoincli.go` again, run by run, over `OpReturn` | `txs` the wallet's transactions with their outputs, `job` the call under way; implements the steps of `BitcoinCLI` |
| `Programs` | `cmd/` and `_example/` from `main` to exit | `pc` the place in the program's script, `coll` and `once` the collections, `req` the requests of a server |
| `MCGateway`, `MCAnchorAPI`, `MCAPIKeys`, `MCCLIRuns` | values of the constants for TLC | |
| `GatewayProofs`, `AnchorAPIProofs`, `APIKeysProofs`, `CLIRunsProofs`, `OpReturnProofs`, `ProgramsProofs`, `UtxoAddProofs` | theorems about the module each is named after, and their proofs | |
| `WalletProofs` | the theorems about the wallet under the calls of `Gateway` | extends `GatewayProofs` |

`AnchorAPI` extends `Gateway`, which extends `BitcoinCLI`, `DocstoreWallet`,
`Docstore` and `AnchorID`; `UtxoAdd` has two instances of `DocstoreWallet`;
`CLIRuns` extends `OpReturn` and has an instance of `BitcoinCLI` as its
abstract specification, as `Gateway` has of `AnchorBook`.

### Correspondence

An action of `Gateway` is the code between two points where another goroutine
can run or the process can die with an outside effect in between.

- `RegisterTransaction` (the anchor is made), `SetUTXO` (lock, peek,
  `XSetUTXO`), `PutAnchorFails`/`PutAnchorSends`, `DropUTXO` (`NextUTXO` with
  its save), `KeepChange` (`AddUTXO` with its save, unlock): lines 95-123.
- `StoreRecord`, `StoreGetAnchor`, `StorePut`: lines 125-136. Asking the node
  changes nothing, so lock, question and unlock are one step that needs the
  lock to be free. `connArgs` panics for `BTCTestnet4`, past an unlock that is
  not deferred: the server recovers the goroutine and the lock stays taken
  (`GetAnchorPanics`, `mu = "panicked"`; the client, whose connection is cut, is
  given an error here). `PutAnchor` is not reached then, as it needs the
  network to be the gateway's and every run fails first (`RunFails`).
- `GetRecord`; `RefreshRecord`, `RefreshGetAnchor`, `RefreshConfirmations`,
  `RefreshName`, `RefreshNote`: lines 138-171, each update a step with its own
  outcome.
- `Stop` takes away all memory at any moment, also in the middle of every call;
  `Start(read)` opens the wallet, with a load that may fail and is then taken
  for a missing document.
- `OperatorAdd(u, read, w, wClose)` is a whole run of `utxoadd` while the gateway
  is stopped: a load that may fail, the save of `AddUTXO` and, whatever came of
  it, the save of `Close`. `wiped` keeps which outputs it overwrote after a load
  that failed. The operator adds only outputs that are unspent and that the
  document lacks; the tool checks neither.

`PutAnchor` is one step: everything before `sendrawtransaction` only asks, and
every way it can fail is `PutAnchorFails`. `PutAnchorSends` with a lost answer
is `bitcoin-cli` killed with the request's context or `cmdproxy` timing out
after the node accepted the transaction.

In `AnchorAPI` a gateway call and the handler's next line are two steps, as a
goroutine may be stopped between them; `Arrive` is the router calling a handler.
The calls are the actions of `Gateway` themselves, conjoined with the handler's
own step.

In `APIKeys` each operation on the collection is one step, as it touches one
document and reads nothing before it; a POST takes three, so that a key can be
deleted before and after its check (`Arrive`, `AuthFunc`, `Answered`). A key is
compared with the path as both are written, and `Decode` says which spellings
are one domain. `granted`, `handed`, `unwanted` and `revoked` are what creators
asked for and were told; only properties read them, except that a random key is
never one that was given up (`NextKeyFn`).

In `CLIRuns` an action is one run of `bitcoin-cli` with the parsing of its answer:
`CallPutAnchor` the check of the network, `Ping`, `GetUTXO` (`gettransaction` of
the output to spend, its entry for the address and its confirmations, a number
`ParseTransactionConfirmations` may answer in more than one way),
`CreateRawTransactionForAnchor` with `calcFee`, `SignRawTransactionWithWallet`,
`SendRawTransaction`; and for `GetAnchor` `Ping`, `GetAnchorTx` and
`DecodeAnchorTx`. `RunFails` is a run that ends with another code than 0, whose
error is `run(code)`, and `Garbled` one whose answer cannot be parsed; for
`BTCTestnet4` the first run panics (`Ping`). A send
whose answer is lost is a disjunct of `SendRawTransaction`; one that finds the
very same transaction waiting is `SendAgain`. `Mine` and `DoubleSpend` are the
world outside: a block with everything that waits, or one that spends some of
the inputs otherwise.

In `Programs` each `main` is a script of the steps that can fail or touch a
collection, with what their error leads to (a return, a panic, `os.Exit`), and
each route of a server a script of the collections its handler uses. `MainOpen`,
`MainUse` and `CloseNext` all go through the `sync.Once` of `store/docstore.go`,
whose second call succeeds with nothing opened. A return and a panic run the
deferred calls one by one, `os.Exit` runs none. Of a server there are also the
goroutine of `ListenAndServe`, which hands `SIGTERM` over only while `main`
waits, the signals, `Shutdown` with its timer, and the requests.

### Abstractions

- A transaction is its place in the node's order of acceptance; it spends one
  output, carries one anchor and makes one output the gateway can spend. That
  is the form `CreateRawTransactionForAnchor` gives all of them.
  `CLIRuns` has whole outputs instead, to four kinds of receivers.
- A block confirms everything accepted, or it holds transactions from elsewhere
  that spend the same outputs as some that were waiting (`DoubleSpend`, in
  `Gateway` and in `CLIRuns`): these and their descendants are conflicted from
  then on, with negative confirmations, and `GetAnchor` tells of them 0 or a
  number near 2^64. Blocks that are taken back again are left out, and so are
  outputs the wallet still has and somebody else spends.
- `UintMod` stands for 2^64. The store is taken to keep such a number as it is;
  what the document drivers do with a `uint` that no `int64` holds is not in this
  repository.
- In `Gateway` the time, version and network inside an anchor are left out (the
  network is compared by `PutAnchor`: `GwNet`, `CliNet`), and two calls never
  make the same transaction, as their time stamps differ. `CLIRuns` has all
  three, and two calls in one second. The wallet address is the same everywhere
  and is left out; the wallet lists it in its address book, so a payment to it
  is listed as received.
- JSON, hexadecimal and command lines are left out: a parse that fails is one
  of the ways a call fails.
- `CLIRuns` has one call at a time: every call of the gateway holds its mutex.
- `faults`, `wiped` and `granted` are there for the properties alone. `faults`
  counts and bounds what goes wrong (`MaxFaults`), and no action reads the other
  two.

## The runs

All runs of the gateway bound the number of transactions (`MaxTx`), blocks
(`MaxHeight`) and faults (`MaxFaults`); calls and restarts are not bounded.
Amounts are small: with `Fee` 2 and `Dust` 1, a transaction of 6 (counted as 5
by `calcFee`) pays for two anchors, one of 4 for one. Two goroutines are enough
for every race of two calls; a third would wait for the same lock. Deadlock is
checked in every run but `programs`, whose processes end.

Runs that pass:

- `wallet`: two goroutines, two funded outputs, up to four transactions, one
  block and two faults. Faults are failed and unanswered saves, unanswered sends,
  stops inside a register call; two of them can be of any two kinds. Between
  stop and start `utxoadd` adds outputs with every outcome of its load and its
  saves, and the block may conflict with what is waiting. Spent outputs pile up
  only at the front of the queue and of the document; each fault strands at most
  one and loses at most one, besides those `utxoadd` overwrote after a load that
  failed, which no fault bounds (`utxoadd_unread` shows it); a register call that
  succeeds leaves a document without spent outputs and equal to memory. Nothing is promised of an output
  that was conflicted: at the head of the queue it makes every register call
  fail until an operator edits the document.
- `records`: two domains with the same digest, two anchors, one block. Store and
  refresh calls of both goroutines interleave, with and without a domain name, with
  and without a note (which is the empty one here; `api_serial` has others); `MaxHeight` 1 is enough for two
  transactions of one digest to differ in confirmations, and for one of them to
  be conflicted while the other is not. A number near 2^64 stands in a record
  only when a transaction for its digest is conflicted. `KeepsBook` says that this
  implements `AnchorBook`, whose pages have numbers that were told of an entry
  for the digest. Names and notes are not in the book.
- `api_serial`: one request at a time, two exact requests, a store that can be
  read, failed writes, lost answers and restarts; two anchors on two outputs, one
  block and two faults, so that a POST can fail after its send or lose its record
  and be repeated. One POST of a digest
  succeeds, a record has confirmations that were told of its own transaction, also
  after a failed POST left a second one on the chain or a block conflicted with
  one of them, and a note is not erased.
- `api_concurrent`: two requests at a time, reads that may fail, one funded output
  that pays for two anchors and two faults. Each answer
  is about what was asked; what was answered with 200 stays on record.
- `api_liveness`: every request is answered and every call returns, or the
  process stops. Fairness is weak for the steps of a handler (a goroutine that
  can run does, an outside call answers or times out: `bitcoin-cli` runs with
  the request's context, `cmdproxy` with ten seconds, the wallet's saves with
  five) and strong for taking the lock (`sync.Mutex` hands the lock to the
  longest waiter once it has waited for a millisecond). The request's context
  has no deadline of its own (`btcgw.go:162-165` sets no timeouts of the
  server): it ends when the client goes away. An outside call that hangs while
  its client waits for ever is assumed away. Nothing is assumed of clients
  otherwise, of blocks, stops or starts.
- `utxoadd`: the tool and a gateway that do not run at the same time, with
  failed and unanswered saves, interrupts and the tool's second save in `Close`.
- `api_keys`: two keys, one POST after the other, a domain in two spellings,
  another one, a string that is no hexadecimal and the empty one. A POST changes
  nothing, so a second one at the same time would add nothing; creations and
  deletions come in between its steps.
- `cli`: PutAnchor and GetAnchor run by run. Bytes have four values, time stamps
  two bytes (so from -8 to 7 seconds), identifiers one byte, a `uint` sixteen
  values: every field then has values that are valid and invalid, and there are
  times before 1970. The wallet has a transaction with three outputs, of which
  the first and largest is for another address, and one that pays for one anchor
  only; of the three anchors two are of the same second and one is of another
  network. Or the wallet has one transaction of another program, with every
  anchor there is or with one changed byte in it (the decoder looks at one field
  after the other, so changes of two bytes meet the same branches). Four
  transactions and two blocks let an anchor be made from the change of another,
  both be lost to a double spend, and a block follow. What is sent and what is
  answered, blocks and double spends between the runs included, is what the
  single steps of `BitcoinCLI` send and answer.
- `programs`: all ten programs, three connections to a server, any number of
  requests. At a return, a panic or a dereference of nil everything opened is
  closed but a wallet whose save failed and, in btcgw, the wallet, which nothing
  closes, and the store when a later opening panics before the `defer` at
  `btcgw.go:135`. Three connections let one request be answered, one be under way and
  one hang when the server stops. Fairness is weak for `main` (`MainCheck` to
  `Exit`), for the goroutine that sends `SIGTERM` and for the timer of
  `Shutdown`, since goroutines that can run do and timers expire; nothing is
  assumed of handlers, which may hang, of the listener, or of signals.

Runs that are expected to find a violation, each a disagreement between the code
and what is written about it:

- `own_confs`: a refresh writes the confirmations of the transaction it read
  about into a record that meanwhile names another one (`gw.go:36`).
- `api_race`: two POSTs of one digest at the same time both succeed
  (`var.go:35` "Digest already exists.").
- `utxoadd_unread`: a wallet whose load failed is written (`wallet.go:115`).

Disagreements that have no run of their own:

- Identifiers of other lengths than 32 bytes are accepted (`var.go:26` asks for
  32), and as the key of a record is both strings joined, a GET can be answered
  with the record of another pair: `AnswersAsked` is run, and holds, for
  identifiers of full length only.
- The tool beside a running gateway loses an output whose addition was
  acknowledged: `AddedStays` fails in `UtxoAdd` with `Overlap = TRUE`.
- A key created for a domain in upper-case hexadecimal is refused for the same
  domain in lower case (`auth.go:119`), where `openapi.yml` speaks of "the BBc-1
  domain specified by ID". `GrantedIsAdmitted` therefore promises a key only for
  its own spelling, while `AdmittedInScope` allows every spelling.
- A missing digest is answered with 404 where `openapi.yml` lists 403.
- `bitcoincli.go:491` and `:494` contradict each other on whether `PutAnchor`
  sets the next output. It does (line 566), except when the answer of the send
  is lost, as `ImplementsCLI` says.
- A register call whose transaction was sent ends with `ErrCouldNotPutAnchor`
  (`gw.go:50`) when the answer of the send was lost or a save of the wallet
  failed: an anchor was put.
- `ParseTransactionConfirmations` turns negative confirmations into 0 or a number
  near 2^64, as the processor has it, and the comparison at `bitcoincli.go:540`
  is one of an unsigned number with 0: `ErrNotEnoughConfirm` never comes up
  (`TypeOK` of `CLIRuns` says that no call ends with it), and the anchor of a
  double-spent transaction is put into the store, with 0 or as if it were
  confirmed (`ParseTransactionConfirmations`, `Answers` in `BitcoinCLI`).
  `ConfsMeanMined` therefore speaks of numbers from 1 to the height, and
  `ConfsReached`, `ConfsOfOwnTx` and `KeepsBook` of numbers that were told.
- The comments "Possible errors" of `bitcoincli.go` leave some out: most
  functions can also end with `ErrExitCode1`, and those that parse with
  `ErrFailedToDecode`.
- The gateway of `cmd/btcgw` makes anchors for the third test network only
  (`btcgw.go:126`), whatever `BITCOIN_NETWORK` says (line 28): with another value
  every register call ends with `ErrInconsistentBTCNet`. The value is cut to
  eight bits, so 259 is 3 too, and one without a name gives `bitcoin-cli` no
  `-chain`.
- `connArgs` panics for `BTCTestnet4`, which `model/var.go` names as a network.
  After a POST that stores, or a refresh, the lock is then taken for good
  (`gw.go:126`, `gw.go:151`). The networks of the runs are others, so no run
  fires it; the theorems are about any `CliNet`.
- The signal channel has no buffer: a signal between `Notify` and the receive is
  dropped (in `Programs`, `Signal` needs `main` to wait).
- `_example/store_access` leaves opening to the first use. When that fails, the
  next call and `Close` find a nil collection behind a `sync.Once` that has run,
  and dereference it (`NilOnlyWhenLazy` excepts this program).
- A handler that still runs when `Shutdown` gives up can meet closed collections:
  its POST may then have sent a transaction that no save and no record follows.

Each property of a passing run has a *mutant*: a variant of one definition with
a plausible slip (marked `(mutant)` in the modules) under which TLC finds the
property violated.

## The proofs

`GatewayProofs` proves about `Gateway`, for any sets of goroutines, requests,
names and notes and any bounds:

- `TypeCorrect`: `Spec => []TypeOK`.
- `RegisterSound`: `Spec => []RegisterHoldsHead`.
- `RecordsSound`: `Spec => []RecordsOnChain`.
- `ConfsSound`: `Spec => []ConfsReached`.
- `OneAnchorOwnConfs` and `SerialOwnConfs`: what `own_confs` finds takes two
  transactions for one digest and two calls at one time. With one transaction for
  the digest, or with one goroutine (`ConfsOfOwnTx`), a record has confirmations
  that were told of its own transaction. When this one is conflicted that is 0 or
  a number near 2^64: the theorems say so (`Answers`) and promise nothing better.
- `BookKept`: `Spec => KeepsBook`, the refinement of `AnchorBook`.

The assumptions are those named in the modules: the constants have the right
kinds (`BitcoinCLIAssumption`, `IDLenAssumption`, `GatewayAssumption`), twice the
number of blocks is less than `UintMod` (so that a number near 2^64 is none that
can be reached), the
wallet's document names no output twice at the beginning, and `None` is no task,
name, note, record or page (`RecordAssumption`). For the keys: `None` and the
empty key are no keys, and `None` is no document (`KeysAssumption`,
`DocumentsAssumption`); the empty string is a domain that can be written
(`DomainsAssumption`).

`WalletProofs` proves about the wallet under `Gateway`, from the same
assumptions: `SpentFirst` (`SpentInFront`), `SuccessSaves` (`SuccessIsDurable`),
`StrandedAreFaults` (`StrandedBounded`) and `LostAreFaults` (`LostBounded`, with
`utxoadd` failing in every way it can; what it overwrote after a failed load is
not counted).

`UtxoAddProofs` proves about `UtxoAdd`: `AddedIsKept` (`AddedStays`), when the
tool and the gateway do not overlap and the tool can read an existing document.
Without the first condition the property fails, without the second
`utxoadd_unread` shows what the tool does.

`AnchorAPIProofs` proves about `AnchorAPI`: `HandlersUseGateway`
(`APISpec => Spec`), so that all the above, `WalletProofs` included, is true
under the handlers;
`BookKeptUnderAPI` (`KeepsBook`); `AnswersSound` (`AnswersAsked`) and
`GrantedStays` (`AnsweredIsFound`) when all requests have identifiers of the
anchor's length; `SerialPostsOnce` (`OnePostSucceeds`) when there is one request
at a time and the store can be read; `SerialKeepsNotes` (`NotesStay`) when, in
addition, the identifiers have the anchor's length and no PATCH sets the empty
note. Without one request at a time and a readable store, `api_race` and the
hazards say how both fail; `RacingPosts` says how much the race costs while the
store can be read: a digest is registered for at most as many POSTs as are served
at one time.

`APIKeysProofs` proves about `APIKeys`, for any keys, POSTs, domains and
spellings: `KeysTypeCorrect`, `ScopeSound` (`AdmittedInScope`),
`RevocationSound` (`RevokedIsRefused`) and `GrantSound` (`GrantedIsAdmitted`).

`OpReturnProofs` proves about the codec, for any size of a byte, any number of
bytes of a time stamp and of an identifier: `DecodeEncoded` (what `NewAnchor`
makes is decoded to itself without the fraction of its second, or refused because
its network has no name) and `EncodeDecoded` (whatever bytes decode to an anchor
are that anchor's, except for the two reserved ones). It assumes the kinds of the
constants, that the number of values of a byte is even (so that the sign of a
time stamp is its highest bit), and that `None` is neither a sequence of bytes nor
an error (`OpReturnAssumption`).

`CLIRunsProofs` proves about `CLIRuns`, for any wallet, anchors, fee, dust limit,
width of bytes, time stamps and identifiers: `CLIRunsTypeCorrect`,
`ConfirmedIsMined` (`ConfsMeanMined`), `UnsentIsCertain` (`ErrorMeansUnsent`),
`ChainGoesOn` (`ChangeIsFound`), `AnchorsReadBack` (`RoundTrip`),
`AnswersAreWritten` (`NothingOverlooked`), `AnswersSound` (`AnswersAsCLI`) and
`RunsImplementCLI`
(`ImplementsCLI`, the refinement of `BitcoinCLI`). It assumes that the wallet
starts with transactions from elsewhere, whose anchors, if they are said to have
one, were made by `NewAnchor` (`CLIRunsAssumption`), that there are fewer blocks
than half the values of a `uint`, and that `None` is neither an error nor an
entry of `gettransaction` (`NoneAssumption`). `RunsImplementCLI` alone uses
`NetAssumption`: the network of the client has a name, as `bitcoincli.go:118`
asks ("A valid value must be set."). Without it the client would send anchors that
nobody, itself included, can read back.

`ProgramsProofs` proves about `Programs`, for any number of connections:
`ProgramsTypeCorrect`, `RequestsMeetOpenCollections` (`ServedByOpen`),
`EndCloses` (`ClosedAtEnd`) and `NilNeedsLazyOpen` (`NilOnlyWhenLazy`). It needs no assumption.

The argument for the gateway. `IInv` is `TypeOK`, `RegisterHoldsHead` and "a
stopped process has no calls and no lock holder"; without the last, a start
could find a task that is still sending. `IInv` is inductive (`TypeStep`,
`HoldStep`). It gives `Grows`: a step never changes what an accepted transaction
anchors, and what was once told of a transaction stays among what was told of it
(`AnswersStay`; for one that is conflicted in this step, 0, `AnswersOfLost`). On
top of it stands `Evidence`: each record, and each local variable of a call that
will be written into a record, names a transaction that anchors the digest of
its key, and its confirmations were told of some transaction for that digest. A
record alone is not inductive: what `StorePut` and `RefreshConfirmations` write
was read in an earlier step, so the invariant has to speak of the calls'
variables (`CallOK`), and it survives the delay because the ledger only grows.
`RecordsSound` adds that for identifiers of the anchor's length the key
determines the pair (`JoinInjective`, `ExactKey`). `BookStep` maps every step: a
send to `Publish`, a block to `Ripen` of what it conflicts with, a write of a
record to `File`, an update of the confirmations to `Confirm`, everything else
to a stutter. For `SerialOwnConfs`, `Own` adds to `Evidence` that the record a
refresh is about to write still names the transaction it asked about
(`OwnCall`): true while nobody else can write a record in between.

The argument for the wallet. The document is what the queue was at some earlier
save, so a common entry has the same entries before it in both, or spent ones
(`Ordered`), and a queue that is not empty has all that the document still has
to offer (`Kept`; an empty one may come from a load that failed, and then nothing
is sent until the next start). The two speak of different moments and are what
makes `SpentInFront` inductive: a send spends the head of the queue, and the
document may have that entry further back. Between the send and the return only
the holder of the lock counts (`Pending`): its output is nowhere yet, behind the
head nothing is spent, and after the first save the document is the queue. That
gives `SuccessSaves`. For the bounds, `AtRisk` is what a stop at this moment would
lose; it is larger than `Lost` and, unlike it, inductive. Each step adds at most
one output to it, or one position to the stranded ones, and then it is a fault
(`SendHands`, `SaveHands`, `OutsideHands`).

The argument for the tool. Whoever runs alone has in memory all that the document
still has to offer (`GatewayHas`, `ToolHas`), so no save can drop it.

The argument for the keys. A stored document says what its creator asked
(`StoreBacked`), a key somebody was told is stored until it is unwanted
(`HandedKept`), a confirmed deletion leaves nothing (`RevokedGone`), and of a
POST in flight `PostSound` says what still holds when its key changes under it:
its grant cannot change, since a key in use is stored or unwanted and neither
can be generated.

The argument for the API. `Jobs` types the place of a handler and couples it with
the gateway call it made (`Fits`): a handler that waits has a call of its own
kind for its own request, one that is free or has answered has none. Each step of
a handler is then one step of the gateway or a stutter (`HandlersUseGateway`).
An answer's record was read under `Evidence`, which pins it to the request when
the identifiers have full length. `Found`, for `GrantedStays`: what a POST was
granted is on record, and a POST in its last read is about a key that has a
record, since records are replaced and never removed (`RecordsStay`). `Once`, for
`SerialPostsOnce`: a POST past its first read is about a digest that was granted
to nobody. `Bounded`, for `RacingPosts`: once a POST of a digest was granted, there
is a record, so no other one gets past its first read; the grants and the POSTs of
the digest that are already past it (`Past`) are together no more than the
goroutines there are. `Fresh`, for `SerialKeepsNotes`: a POST that has not stored its record
has none under its key, and the transaction it goes on with carries what the POST
asked for, so the record it writes, with its empty note, replaces nothing.

The argument for the client. Every transaction but the funding has its change as
output 1 for the address, and spends an output that pays it (`TxsOK`); the
output a call found belongs to `xTransactionID` as long as the call goes on
(`GotOK`, `HandsOnStays`), also when a block comes in between; the number of
confirmations it read can only have grown since, or the transaction was lost
(`ReadOK`); and until the send nothing was appended (`SentOK`). The first output
for the address exists and is unique (`Smallest`, which is the least element of a
set of numbers), so `CHOOSE` in the parser can be reasoned with
(`ReceivedIsOutput`, `ChangeIsReceived`).

For what is read, `Heard` couples the call with the node: a call that asks is for
the network of the client (`AskedOK`), the output it found is what
`ParseTransactionReceived` still returns (`FoundOK`), and an answer is what stands
in the transaction (`AnswerOK`), which no later step changes, since a double spend
takes a transaction out of the chain and leaves its outputs (`OutputsStay`). With
the two theorems about the codec `Heard` gives `RoundTrip` and
`NothingOverlooked`. For the refinement, what `BitcoinCLI` sees of a transaction
depends on its outputs only (`SameOutputsSameSight`), so a block is `Mine` and a
double spend that of `BitcoinCLI` (`LostAlike`: both lose the same
transactions); the transaction that is sent is seen as the one
`BitcoinCLI` appends (`SeenAnchorTx`, `SentIsPutAnchor`: the amount looked up
before is still that of the output, and the bytes decode to the asked anchor); a
transaction sent again is only `XSetUTXO`; everything else changes nothing
(`StepImplements`). For what is answered, a number read once stays among the
numbers told (`Reached`, `ReachedGrows`), and what a call read is what stands in
the transaction it asked about (`ReadStands`).

The argument for the codec. Its core is the time stamp: that the number of some
bytes has these bytes (`GetPut`, `PutGet`), with `Weight[n]` behind the last `n`
of them. Both are inductions over the number of bytes, and the library's
induction theorems cannot be instantiated; so the induction is over a set
(`UpTo`: what holds of 0 and is handed on holds up to `n`, from the least element
of the rest), and a recursive function exists because its beginnings do
(`Recursion`), which says what `Weight` and `Prefixes` compute for every input
(`WeightDefined`, `PrefixesDefined`). `Divided`, `Quotient` and `DividedTwice` are
the facts about division that shifting by one byte after the other needs,
`SignedUnsigned` and `UnsignedSigned` the conversion between `int64` and
`uint64`. The rest is where each field stands among the bytes (`Layout`, `Cuts`).

The argument for the programs. What a script has opened by its step `pc` is read
off the script once for each program; the invariant says that exactly this is
open, that a server that serves has opened all that its routes use, that no
request is there before it listens, and that what is open once `main` is left is
among the deferred calls that are still to run, but for what `ClosedAtEnd`
excepts (`Closing`, `StillDeferred`): a panic in the middle of a script included,
since every program but btcgw defers a closing right after its opening, and
`_example/store_access` before its own (`Unwinding`, `LazyDefers`).

Only model-checked. Liveness (`CallsReturn`, `RequestsAnswered`, `StopCompletes`,
`DeadListenerStops`) stays with TLC: the prover has no rules for fairness. Every
other property of a passing run is a theorem.

## Not modelled, and the plan

Done: the modules above. What would come next:

- `APIKeys` before the POSTs of `AnchorAPI`: every transaction was paid for with
  a key that was good for its domain.

Not modelled, because nothing of the state depends on it: the JSON and the
command lines of `bitcoin-cli`, `GetBalance` and the time of a transaction
(nothing calls the first, the second is only copied); how anchors, records and
keys are printed; the types and the embedded document in the generated
handlers; conversions in `util`. Not modelled, because it is the work of
libraries: rate limit, CORS, request logging and the validator around the check
of the key. The Bitcoin node is modelled as far as its answers show it.

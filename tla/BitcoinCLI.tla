----------------------------- MODULE BitcoinCLI -----------------------------
(***************************************************************************)
(* btc/bitcoincli.go, and the Bitcoin node behind it as far as the gateway *)
(* sees it.  The node's part is chain and height: every transaction it     *)
(* accepted, in the order it accepted them, and the number of blocks.  A   *)
(* transaction is named by its place in chain; it spends one earlier       *)
(* transaction and carries one anchor, as every transaction of this        *)
(* program does, and has one output the gateway's address can spend.  A    *)
(* block confirms everything the node has accepted, or it holds foreign    *)
(* transactions that spend the same outputs as some of those which were    *)
(* still waiting; then these, and what was paid from them, are conflicted. *)
(***************************************************************************)
EXTENDS Integers, Sequences

CONSTANTS CliNet,     \* the network bitcoin-cli talks to
          Fee,        \* txFee, in satoshi
          Dust,       \* the smallest output the node relays
          Truncated,  \* balances whose product with 1e8 is not exact
          Funds,      \* amounts of the transactions that fund the wallet
          MaxTx,      \* bound: transactions the node ever accepts
          MaxHeight,  \* bound: blocks after the funding
          UintMod,    \* 2^64, the number of values of uint
          BTCTestnet4 \* the network connArgs has no argument for

VARIABLES chain,      \* accepted transactions
          height,     \* blocks mined so far
          xUTXO       \* b.xTransactionID, 0 when it was never set

cliVars == <<chain, height, xUTXO>>

ASSUME BitcoinCLIAssumption == /\ Fee \in Nat /\ Dust \in Nat
                               /\ MaxTx \in Nat /\ MaxHeight \in Nat
                               /\ Funds \in Seq(Nat) /\ Len(Funds) <= MaxTx
                               /\ UintMod \in Nat /\ 2 * MaxHeight < UintMod

\* The anchor of a transaction that carries none.
NoAnchor == << >>

Funding == [u \in DOMAIN Funds |->
              [spends |-> 0, amt |-> Funds[u], anchor |-> NoAnchor,
               at |-> 0, died |-> 0]]

CLIInit == chain = Funding /\ height = 0 /\ xUTXO = 0

Spent(u) == \E v \in DOMAIN chain : chain[v].spends = u

\* t is in a block.
Mined(t) == t.died = 0 /\ t.at < height

\* The confirmations the node tells: blocks since and with its own, 0 for one
\* that waits; of a conflicted transaction the blocks since and with the one
\* of the foreign transaction, with a minus sign.
Confirmations(t) == IF t.died # 0 THEN t.died - height - 1 ELSE height - t.at

\* (mutant) A number below zero loses its sign.
ParseConfirmationsAbs(c) == {IF c < 0 THEN 0 - c ELSE c}

\* uint(confs) of a float64: Go leaves the result open when the number is
\* below zero; compilers give 0 or the number modulo 2^64.
ParseTransactionConfirmations(c) == IF c < 0 THEN {0, UintMod + c} ELSE {c}

Mine == /\ height < MaxHeight
        /\ height' = height + 1
        /\ UNCHANGED <<chain, xUTXO>>

\* The block conflicts with the transactions in lost.
DoubleSpend(lost) ==
  /\ height < MaxHeight
  /\ lost # {} /\ lost \subseteq DOMAIN chain
  /\ \A u \in lost : chain[u].spends # 0 /\ chain[u].died = 0 /\ ~Mined(chain[u])
  /\ \A v \in DOMAIN chain : chain[v].spends \in lost => v \in lost
  /\ height' = height + 1
  /\ chain' = [u \in DOMAIN chain |->
                 IF u \in lost THEN [chain[u] EXCEPT !.died = height']
                               ELSE chain[u]]
  /\ UNCHANGED xUTXO

XSetUTXO(u) == xUTXO' = u

\* calcFee goes through float64 and int() cuts: 0.29 BTC counts as 28999999
\* satoshi.
Satoshi(bal) == IF bal \in Truncated THEN bal - 1 ELSE bal

\* (mutant) The balance is not compared with the fee.
CanSendAnyAmount(net) == /\ net = CliNet /\ CliNet # BTCTestnet4
                         /\ xUTXO \in DOMAIN chain
                         /\ ~Spent(xUTXO) /\ chain[xUTXO].died = 0
                         /\ Len(chain) < MaxTx

\* Every check between the call and sendrawtransaction passes: the networks
\* agree, the output is known, calcFee leaves no negative amount, and the
\* node neither sees it spent or conflicted nor finds the new output too
\* small.  Zero confirmations are enough.
CanSend(net) == /\ net = CliNet /\ CliNet # BTCTestnet4
                /\ xUTXO \in DOMAIN chain
                /\ Satoshi(chain[xUTXO].amt) >= Fee + Dust
                /\ ~Spent(xUTXO) /\ chain[xUTXO].died = 0
                /\ Len(chain) < MaxTx

\* A run of bitcoin-cli fails: it does not start, is killed, has an unknown
\* version, answers nothing that can be parsed, or ends with any other code than
\* 0 (PutAnchor pings first and sees all of them); or connArgs panics, which
\* it does on every run for BTCTestnet4.  Nothing is sent by then.
RunFails == UNCHANGED cliVars

\* The transaction is sent.  When bitcoin-cli's answer is lost (killed with
\* the request's context, cmdproxy timed out) the next output is not set.
PutAnchor(net, a, answered) ==
  /\ CanSend(net)
  /\ chain' = Append(chain, [spends |-> xUTXO,
                             amt |-> Satoshi(chain[xUTXO].amt) - Fee,
                             anchor |-> a, at |-> height, died |-> 0])
  /\ xUTXO' = IF answered THEN Len(chain') ELSE xUTXO
  /\ UNCHANGED height

\* What GetAnchor returns for a transaction that carries an anchor: the
\* domain name and the note are not on the chain.
HasAnchor(u) == u \in DOMAIN chain /\ chain[u].anchor # NoAnchor

\* The answers of GetAnchor about a transaction that carries one, conflicted
\* or not.
GetAnchor(u) ==
  {[anchor |-> chain[u].anchor, btctx |-> u, conf |-> c, name |-> "", note |-> ""] :
     c \in ParseTransactionConfirmations(Confirmations(chain[u]))}

\* The numbers of confirmations that were ever told of a transaction: no more
\* than it has, and of a conflicted one 0 or, for each block since, the number
\* that far below 2^64.
Answers(u) ==
  LET c == Confirmations(chain[u])
  IN  IF c < 0 THEN {0} \cup ((UintMod + c)..(UintMod - 1)) ELSE 0..c

=============================================================================

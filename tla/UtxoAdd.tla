------------------------------ MODULE UtxoAdd ------------------------------
(***************************************************************************)
(* cmd/utxoadd: the operator's tool that adds an output to the wallet.  It *)
(* opens a DocstoreWallet of its own on the document a gateway may have    *)
(* open, so there are two queues in two memories over one document.  Of    *)
(* the gateway only the calls on its wallet are here, with the node's      *)
(* refusal to spend an output twice.  Outputs are numbered as they appear. *)
(***************************************************************************)
EXTENDS Naturals, Sequences, Functions, Datastore

CONSTANTS Overlap,      \* the tool may run while the gateway runs
          LoadMayFail,  \* the tool's load may fail on an existing document
          MaxOut        \* bound: outputs that ever appear

ASSUME UtxoAddAssumption == /\ Overlap \in BOOLEAN /\ LoadMayFail \in BOOLEAN
                            /\ MaxOut \in Nat

VARIABLES doc,     \* the wallet's document
          gq, gpc, \* the gateway: its queue and what it does
          uq, upc, \* the tool: its queue and what it does
          loaded,  \* the tool's load succeeded
          last,    \* the newest output
          spent,   \* outputs the gateway has spent
          added    \* outputs for which some AddUTXO returned no error

vars == <<doc, gq, gpc, uq, upc, loaded, last, spent, added>>

G == INSTANCE DocstoreWallet WITH q <- gq
U == INSTANCE DocstoreWallet WITH q <- uq

Init == /\ doc = << >> /\ gq = << >> /\ uq = << >>
        /\ gpc = "down" /\ upc = "off" /\ loaded = FALSE
        /\ last = 0 /\ spent = {} /\ added = {}

NewOutput == last < MaxOut /\ last' = last + 1

Acknowledge(w) == added' = IF w = "ok" THEN added \cup {last'} ELSE added

-----------------------------------------------------------------------------
GatewayStart(read) ==
  /\ gpc = "down" /\ (Overlap \/ upc = "off")
  /\ gpc' = "idle"
  /\ G!load(read)
  /\ UNCHANGED <<doc, uq, upc, loaded, last, spent, added>>

\* The head was sent and leaves the queue.
GatewaySpends(w) ==
  /\ gpc = "idle" /\ gq # << >>
  /\ G!PeekNextUTXO \notin spent
  /\ spent' = spent \cup {G!PeekNextUTXO}
  /\ G!NextUTXO(w)
  /\ gpc' = IF w = "ok" THEN "add" ELSE "idle"
  /\ UNCHANGED <<uq, upc, loaded, last, added>>

GatewayKeeps(w) ==
  /\ gpc = "add"
  /\ NewOutput
  /\ G!AddUTXO(last', w)
  /\ Acknowledge(w)
  /\ gpc' = "idle"
  /\ UNCHANGED <<uq, upc, loaded, spent>>

GatewayStops ==
  /\ gpc # "down"
  /\ gpc' = "down"
  /\ gq' = << >>
  /\ UNCHANGED <<doc, uq, upc, loaded, last, spent, added>>

\* (mutant) The tool starts from an empty queue.
OpenWalletEmpty(read) ==
  /\ upc = "off" /\ (Overlap \/ gpc = "down")
  /\ read \/ LoadMayFail
  /\ uq' = << >>
  /\ loaded' = read
  /\ upc' = "add"
  /\ UNCHANGED <<doc, gq, gpc, last, spent, added>>

\* MustNewDocstoreWallet goes on whatever load answers.
OpenWallet(read) ==
  /\ upc = "off" /\ (Overlap \/ gpc = "down")
  /\ read \/ LoadMayFail
  /\ U!load(read)
  /\ loaded' = read
  /\ upc' = "add"
  /\ UNCHANGED <<doc, gq, gpc, last, spent, added>>

\* The exit code says what this save said; Close runs either way.
AddOutput(w) ==
  /\ upc = "add"
  /\ NewOutput
  /\ U!AddUTXO(last', w)
  /\ Acknowledge(w)
  /\ upc' = "close"
  /\ UNCHANGED <<gq, gpc, spent, loaded>>

CloseWallet(w) ==
  /\ upc = "close"
  /\ U!Close(w)
  /\ upc' = "off"
  /\ UNCHANGED <<gq, gpc, last, spent, loaded, added>>

\* The tool is interrupted.
Killed == /\ upc # "off"
          /\ upc' = "off"
          /\ UNCHANGED <<doc, gq, gpc, uq, last, spent, loaded, added>>

Next == \/ \E read \in BOOLEAN : GatewayStart(read) \/ OpenWallet(read)
        \/ \E w \in Outcomes : \/ GatewaySpends(w) \/ GatewayKeeps(w)
                               \/ AddOutput(w) \/ CloseWallet(w)
        \/ GatewayStops
        \/ Killed

Spec == Init /\ [][Next]_vars

-----------------------------------------------------------------------------
\* An output that the tool or the gateway was told is saved stays in the
\* wallet until it is spent, through every later run of either of them, with
\* the tool's second save in Close and with saves that fail or are not
\* answered.
AddedStays == added \subseteq spent \cup Range(doc)

\* A tool that could not read an existing wallet does not write it
\* (wallet.go:115-116 "panics if failed to access datastore").
UnreadIsUnwritten == [][upc # "off" /\ doc # << >> /\ doc' # doc => loaded]_vars

=============================================================================

------------------------------ MODULE Programs ------------------------------
(***************************************************************************)
(* The processes of cmd/ and _example/ from main to exit: what they open,  *)
(* check, use and close, in which order, and what they do when a step      *)
(* fails.  The two servers go on: they answer requests until a signal or a *)
(* broken listener stops them, and give the requests ten seconds to end.   *)
(***************************************************************************)
EXTENDS Naturals, Sequences, Functions

CONSTANTS Conns,    \* connections a server can hold at one time
          Free      \* a connection without a request

VARIABLES prog,     \* the program
          pc,       \* its next step
          phase,    \* what main is at
          how,      \* how it ended, once that is clear
          coll,     \* the collection behind each handle
          once,     \* sync.Once of each handle
          defers,   \* handles that deferred calls still close
          listener, \* the goroutine of ListenAndServe
          forced,   \* Shutdown gave up
          req       \* what the request of each connection still needs

vars == <<prog, pc, phase, how, coll, once, defers, listener, forced, req>>

-----------------------------------------------------------------------------
\* A step of a main function or of a handler: whether it opens, uses or will
\* close collections, and what its error leads to.
Check(fails) == [op |-> "check", on |-> << >>, fails |-> fails]
Open(h, fails) == [op |-> "open", on |-> <<h>>, fails |-> fails]
Use(h, fails) == [op |-> "use", on |-> <<h>>, fails |-> fails]
Defer(hs) == [op |-> "defer", on |-> hs, fails |-> "return"]
Serve == [op |-> "serve", on |-> << >>, fails |-> "return"]

\* Variables of the package that are read from the environment before main.
Environment == Check("panic")

\* The checks of the wallet's address and of cmdproxy come first.  The wallet is
\* opened and never closed.
btcgw == <<Environment, Check("return"), Check("panic"), Open("store", "return"),
           Open("wallet", "panic"), Open("auth", "panic"),
           Defer(<<"store", "auth">>), Serve>>

apikey == <<Open("auth", "panic"), Defer(<<"auth">>), Serve>>

\* flag.ExitOnError ends the process without its deferred calls.
apikey_cli == <<Check("return"), Open("auth", "panic"), Defer(<<"auth">>),
                Check("exit"), Check("return"), Use("auth", "return")>>

utxoadd == <<Check("return"), Open("wallet", "panic"), Defer(<<"wallet">>),
             Use("wallet", "return")>>

\* The only program that leaves the opening of its store to the first use.
store_access == <<Environment, Defer(<<"store">>), Check("exit"),
                  Use("store", "return"), Use("store", "return")>>

gw_access == <<Environment, Open("store", "return"), Defer(<<"store">>),
               Check("return"), Use("store", "return"), Use("store", "return")>>

gw_refresh == <<Environment, Open("store", "return"), Defer(<<"store">>),
                Use("store", "return"), Use("store", "return"),
                Check("return"), Use("store", "return"),
                Use("store", "return"), Use("store", "return")>>

gw_register == <<Environment, Open("store", "return"), Defer(<<"store">>),
                 Check("return")>>

btc_putanchor == <<Environment, Check("exit")>>

btc_getanchor == <<Environment, Check("exit")>>

Script == [btcgw |-> btcgw, apikey |-> apikey, apikey_cli |-> apikey_cli,
           utxoadd |-> utxoadd, store_access |-> store_access,
           gw_access |-> gw_access, gw_refresh |-> gw_refresh,
           gw_register |-> gw_register, btc_putanchor |-> btc_putanchor,
           btc_getanchor |-> btc_getanchor]

Handles == {"store", "wallet", "auth"}

\* What a request uses in its turn: the router and the parameters may refuse
\* it, a POST is checked by the validator, and only its look at the store may
\* fail without an end.
AnchorRoutes ==
  {<< >>,
   <<Use("store", "reply")>>,
   <<Use("store", "reply"), Use("store", "reply"), Use("store", "reply")>>,
   <<Use("auth", "reply"), Use("store", "go on"), Use("wallet", "reply"),
     Use("wallet", "reply"), Use("store", "reply"), Use("store", "reply")>>}

KeyRoutes == {<< >>, <<Use("auth", "reply")>>}

Routes == [p \in DOMAIN Script |-> CASE p = "btcgw" -> AnchorRoutes
                                     [] p = "apikey" -> KeyRoutes
                                     [] OTHER -> {}]

-----------------------------------------------------------------------------
\* (mutant) The error is not looked at.
OpenUnchecked(h, ok) == TRUE

\* Open runs open once; every later call returns no error, whatever the first
\* one did.
Opens(h, ok) == once[h] \/ ok

AfterOpen(h, ok) == IF once[h] \/ ~ok THEN coll[h] ELSE "open"

step == Script[prog][pc]

AtStep(op) == phase = "main" /\ pc \in DOMAIN Script[prog] /\ step.op = op

Continue == pc' = pc + 1 /\ UNCHANGED <<phase, how>>

\* A return and a panic run the deferred calls, os.Exit does not.
Fail(fails) ==
  /\ phase' = IF fails = "exit" THEN "exited" ELSE "unwind"
  /\ how' = fails
  /\ UNCHANGED pc

MainCheck(ok) ==
  /\ AtStep("check")
  /\ IF ok THEN Continue ELSE Fail(step.fails)
  /\ UNCHANGED <<prog, coll, once, defers, listener, forced, req>>

\* (mutant) The handle forgets that it was opened.
MainOpenForgets(ok) ==
  LET h == step.on[1] IN
  /\ AtStep("open")
  /\ coll' = [coll EXCEPT ![h] = AfterOpen(h, ok)]
  /\ IF Opens(h, ok) THEN Continue ELSE Fail(step.fails)
  /\ UNCHANGED <<prog, once, defers, listener, forced, req>>

MainOpen(ok) ==
  LET h == step.on[1] IN
  /\ AtStep("open")
  /\ coll' = [coll EXCEPT ![h] = AfterOpen(h, ok)]
  /\ once' = [once EXCEPT ![h] = TRUE]
  /\ IF Opens(h, ok) THEN Continue ELSE Fail(step.fails)
  /\ UNCHANGED <<prog, defers, listener, forced, req>>

\* A method of a collection that is not there dereferences nil.
MainUse(ok, answers) ==
  LET h == step.on[1] IN
  /\ AtStep("use")
  /\ coll' = [coll EXCEPT ![h] = AfterOpen(h, ok)]
  /\ once' = [once EXCEPT ![h] = TRUE]
  /\ CASE ~Opens(h, ok) -> Fail(step.fails)
       [] Opens(h, ok) /\ coll'[h] = "nil" -> Fail("nil")
       [] OTHER -> IF answers THEN Continue ELSE Fail(step.fails)
  /\ UNCHANGED <<prog, defers, listener, forced, req>>

MainDefer ==
  /\ AtStep("defer")
  /\ defers' = step.on
  /\ Continue
  /\ UNCHANGED <<prog, coll, once, listener, forced, req>>

MainReturn ==
  /\ phase = "main" /\ pc = Len(Script[prog]) + 1
  /\ phase' = "unwind" /\ how' = "return"
  /\ UNCHANGED <<prog, pc, coll, once, defers, listener, forced, req>>

-----------------------------------------------------------------------------
\* signal.Notify and the goroutine that listens.
MainServe ==
  /\ AtStep("serve")
  /\ phase' = "notified" /\ listener' = "starting"
  /\ UNCHANGED <<prog, pc, how, coll, once, defers, forced, req>>

Wait == /\ phase = "notified"
        /\ phase' = "waiting"
        /\ UNCHANGED <<prog, pc, how, coll, once, defers, listener, forced, req>>

\* The channel has no buffer: a signal that comes before main waits is dropped.
Signal == /\ phase = "waiting"
          /\ phase' = "stopping"
          /\ UNCHANGED <<prog, pc, how, coll, once, defers, listener, forced, req>>

Listen == /\ listener = "starting" /\ phase # "exited"
          /\ listener' = "listening"
          /\ UNCHANGED <<prog, pc, phase, how, coll, once, defers, forced, req>>

\* The port is taken, or accepting fails later on.
ListenFails ==
  /\ listener \in {"starting", "listening"} /\ phase # "exited"
  /\ listener' = "failed"
  /\ UNCHANGED <<prog, pc, phase, how, coll, once, defers, forced, req>>

\* (mutant) The goroutine only logs the error.
LogOnly == /\ listener = "failed"
           /\ listener' = "over"
           /\ UNCHANGED <<prog, pc, phase, how, coll, once, defers, forced, req>>

\* The goroutine sends SIGTERM to main, and waits until main is there.
SendTerm ==
  /\ listener = "failed" /\ phase = "waiting"
  /\ listener' = "over" /\ phase' = "stopping"
  /\ UNCHANGED <<prog, pc, how, coll, once, defers, forced, req>>

\* (mutant) Shutdown is called in a goroutine, and main returns.
ShutdownUnwaited ==
  /\ phase = "stopping"
  /\ phase' = "unwind" /\ how' = "return" /\ listener' = "over"
  /\ UNCHANGED <<prog, pc, coll, once, defers, forced, req>>

\* Shutdown ends ListenAndServe, or lets it not begin.
Shutdown ==
  /\ phase = "stopping"
  /\ phase' = "draining" /\ listener' = "over"
  /\ UNCHANGED <<prog, pc, how, coll, once, defers, forced, req>>

Drained ==
  /\ phase = "draining" /\ \A c \in Conns : req[c] = Free
  /\ phase' = "unwind" /\ how' = "return"
  /\ UNCHANGED <<prog, pc, coll, once, defers, listener, forced, req>>

\* (mutant) Shutdown gets context.Background().
NeverGiveUp == phase = "draining" /\ UNCHANGED vars

\* The context of Shutdown ends after ten seconds, with requests or without.
GiveUp ==
  /\ phase = "draining"
  /\ phase' = "unwind" /\ how' = "return" /\ forced' = TRUE
  /\ UNCHANGED <<prog, pc, coll, once, defers, listener, req>>

-----------------------------------------------------------------------------
\* (mutant) Close returns the first error and closes nothing after it.
CloseUntilError(ok) ==
  LET h == Head(defers) IN
  /\ phase = "unwind" /\ defers # << >>
  /\ once' = [once EXCEPT ![h] = TRUE]
  /\ coll' = IF ok THEN [coll EXCEPT ![h] = "closed"] ELSE coll
  /\ defers' = IF ok THEN Tail(defers) ELSE << >>
  /\ UNCHANGED <<prog, pc, phase, how, listener, forced, req>>

\* What closing leaves of a collection that is there: the wallet is saved first
\* and is not closed when that fails, the others are closed also with an error.
AfterClose(h, ok) == IF h = "wallet" /\ ~ok THEN "unsaved" ELSE "closed"

\* One Close of the deferred call; it opens what was never opened.
CloseNext(ok) ==
  LET h == Head(defers)
      c == AfterOpen(h, ok)
  IN
  /\ phase = "unwind" /\ defers # << >>
  /\ once' = [once EXCEPT ![h] = TRUE]
  /\ coll' = [coll EXCEPT ![h] = IF c = "nil" THEN c ELSE AfterClose(h, ok)]
  /\ IF c = "nil" /\ once[h]
     THEN defers' = << >> /\ how' = "nil"
     ELSE defers' = Tail(defers) /\ UNCHANGED how
  /\ UNCHANGED <<prog, pc, phase, listener, forced, req>>

\* Requests that are still there are cut off.
Exit ==
  /\ phase = "unwind" /\ defers = << >>
  /\ phase' = "exited"
  /\ UNCHANGED <<prog, pc, how, coll, once, defers, listener, forced, req>>

\* SIGKILL, or any signal before Notify.
Killed ==
  /\ phase # "exited"
  /\ phase' = "exited" /\ how' = "killed"
  /\ UNCHANGED <<prog, pc, coll, once, defers, listener, forced, req>>

-----------------------------------------------------------------------------
Arrive(c, route) ==
  /\ listener = "listening" /\ phase # "exited" /\ req[c] = Free
  /\ req' = [req EXCEPT ![c] = route]
  /\ UNCHANGED <<prog, pc, phase, how, coll, once, defers, listener, forced>>

\* A collection that is closed answers with an error.
Handle(c, answers) ==
  LET use == Head(req[c]) IN
  /\ phase # "exited" /\ req[c] \notin {Free, << >>}
  /\ answers => coll[use.on[1]] = "open"
  /\ req' = [req EXCEPT ![c] = IF answers \/ use.fails = "go on"
                               THEN Tail(@) ELSE << >>]
  /\ UNCHANGED <<prog, pc, phase, how, coll, once, defers, listener, forced>>

Answer(c) ==
  /\ phase # "exited" /\ req[c] = << >>
  /\ req' = [req EXCEPT ![c] = Free]
  /\ UNCHANGED <<prog, pc, phase, how, coll, once, defers, listener, forced>>

-----------------------------------------------------------------------------
Init == /\ prog \in DOMAIN Script
        /\ pc = 1 /\ phase = "main" /\ how = "running"
        /\ coll = [h \in Handles |-> "nil"]
        /\ once = [h \in Handles |-> FALSE]
        /\ defers = << >>
        /\ listener = "none" /\ forced = FALSE
        /\ req = [c \in Conns |-> Free]

Main == \/ \E ok \in BOOLEAN : \/ MainCheck(ok) \/ MainOpen(ok)
                               \/ \E answers \in BOOLEAN : MainUse(ok, answers)
                               \/ CloseNext(ok)
        \/ MainDefer \/ MainReturn \/ MainServe \/ Wait
        \/ Shutdown \/ Drained \/ Exit

Listening == Listen \/ ListenFails

Request(c) == \/ \E route \in Routes[prog] : Arrive(c, route)
              \/ \E answers \in BOOLEAN : Handle(c, answers)
              \/ Answer(c)

Next == \/ Main \/ Listening \/ SendTerm \/ GiveUp \/ Signal \/ Killed
        \/ \E c \in Conns : Request(c)

\* Main and the goroutine run on, and the timer of Shutdown expires; handlers
\* may hang, and nobody has to send signals.
Spec == /\ Init /\ [][Next]_vars
        /\ WF_vars(Main) /\ WF_vars(SendTerm) /\ WF_vars(GiveUp)

-----------------------------------------------------------------------------
Steps == UNION {Range(route) : route \in AnchorRoutes \cup KeyRoutes}

\* What is there was opened by its own sync.Once, a program ends in one of the
\* known ways, and a request is the rest of some route.
TypeOK ==
  /\ prog \in DOMAIN Script /\ pc \in 1..(Len(Script[prog]) + 1)
  /\ phase \in {"main", "notified", "waiting", "stopping", "draining", "unwind",
                "exited"}
  /\ how \in {"running", "return", "panic", "exit", "nil", "killed"}
  /\ how = "running" <=> phase \notin {"unwind", "exited"}
  /\ coll \in [Handles -> {"nil", "open", "closed", "unsaved"}]
  /\ once \in [Handles -> BOOLEAN]
  /\ \A h \in Handles : coll[h] # "nil" => once[h]
  /\ defers \in Seq(Handles)
  /\ listener \in {"none", "starting", "listening", "failed", "over"}
  /\ forced \in BOOLEAN
  /\ req \in [Conns -> {Free} \cup Seq(Steps)]

\* A request never meets a collection that is missing or closed already, as long
\* as Shutdown has not given up: nothing is served before everything is open,
\* and the deferred calls come after the last handler.
ServedByOpen ==
  \A c \in Conns :
    req[c] # Free /\ phase # "exited" /\ ~forced =>
      \A use \in Range(req[c]) : coll[use.on[1]] = "open"

\* Whatever leaves main, by a return, a panic or the dereference of nil in a
\* deferred call, has closed what it opened, also when one Close fails.  Left
\* open are a wallet that could not be saved, and in btcgw the wallet, which
\* nothing closes, and the store when a later opening panics before the defer.
ClosedAtEnd ==
  phase = "exited" /\ how \in {"return", "panic", "nil"} =>
    \A h \in Handles : coll[h] = "open" =>
      prog = "btcgw" /\ (h = "wallet" \/ (h = "store" /\ how = "panic"))

\* Only a program that opens its store with the first use can end with a
\* dereference of nil: sync.Once hides from Close that the opening failed.
NilOnlyWhenLazy == how = "nil" => prog = "store_access"

\* Once it is told to stop a server does, whatever its handlers do.
StopCompletes == phase = "stopping" ~> phase = "exited"

\* A server that cannot listen, or no longer can, does not stay.
DeadListenerStops == listener = "failed" ~> phase = "exited"

=============================================================================

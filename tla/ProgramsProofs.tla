--------------------------- MODULE ProgramsProofs ---------------------------
(***************************************************************************)
(* Theorems about the processes, for any set of connections.  What the     *)
(* main functions do is first read off their scripts, one lemma for each   *)
(* script; the invariant then follows the state along any script of that   *)
(* kind.                                                                   *)
(***************************************************************************)
EXTENDS Programs, TLAPS

StepSet == [op : {"check", "open", "use", "defer", "serve"},
            on : Seq(Handles),
            fails : {"return", "panic", "exit"}]

\* Step i of script s comes after one that opens h.
OpenedBefore(s, i, h) == \E j \in 1..(i - 1) : s[j].op = "open" /\ s[j].on[1] = h

\* Step i of script s comes after a defer that closes h.
DeferredBefore(s, i, h) ==
  \E j \in 1..(i - 1) : s[j].op = "defer" /\ h \in Range(s[j].on)

MayOpen(step_) == step_.op \in {"open", "use"}

WellTyped(s) ==
  /\ s \in Seq(StepSet)
  /\ \A i \in 1..Len(s) : MayOpen(s[i]) => Len(s[i].on) = 1

OneDefer(s) ==
  \A i, j \in 1..Len(s) : s[i].op = "defer" /\ s[j].op = "defer" => i = j

DefersOpened(s) ==
  \A i \in 1..Len(s) : s[i].op = "defer" =>
    \A h \in Range(s[i].on) : OpenedBefore(s, i, h)

\* What a deferred call closes when program p ends with a return or a panic:
\* everything but the wallet of btcgw and, as long as it still opens, its store.
Closing(p, end) == IF p # "btcgw" THEN Handles
                   ELSE IF end = "panic" THEN {"auth"} ELSE {"store", "auth"}

\* Wherever program p, with script s, can return or panic, a defer has seen what
\* was opened up to there.
DefersItsOwn(s, p) ==
  /\ \A i \in 1..Len(s) : s[i].fails \in {"return", "panic"} /\ s[i].op # "defer" =>
       \A j \in 1..i :
         MayOpen(s[j]) /\ s[j].on[1] \in Closing(p, s[i].fails)
         /\ (i = j => s[j].op = "use") =>
           DeferredBefore(s, i, s[j].on[1])
  /\ \A j \in 1..Len(s) :
       MayOpen(s[j]) /\ s[j].on[1] \in Closing(p, "return") =>
         DeferredBefore(s, Len(s) + 1, s[j].on[1])

\* A script that serves does so last and has opened the collections in hs.
ServesOpened(s, hs) ==
  \A i \in 1..Len(s) : s[i].op = "serve" =>
    /\ s[i].fails = "return"
    /\ \A h \in hs : OpenedBefore(s, i, h)

Sound(s, p, hs) == /\ WellTyped(s) /\ OneDefer(s) /\ DefersItsOwn(s, p)
                   /\ ServesOpened(s, hs)

-----------------------------------------------------------------------------
LEMMA Sound_btcgw == Sound(btcgw, "btcgw", Handles) /\ DefersOpened(btcgw)
<1> USE DEF btcgw, Environment, Check, Open, Use, Defer, Serve
<1>1. WellTyped(btcgw)
  BY DEF WellTyped, StepSet, Handles, MayOpen
<1>2. OneDefer(btcgw)
  BY DEF OneDefer
<1>3. DefersItsOwn(btcgw, "btcgw")
  BY DEF DefersItsOwn, Closing, Handles, DeferredBefore, MayOpen, Range
<1>4. ServesOpened(btcgw, Handles)
  BY DEF ServesOpened, OpenedBefore, Handles
<1>5. DefersOpened(btcgw)
  BY DEF DefersOpened, OpenedBefore, Range
<1> QED  BY <1>1, <1>2, <1>3, <1>4, <1>5 DEF Sound

LEMMA Sound_apikey == Sound(apikey, "apikey", {"auth"}) /\ DefersOpened(apikey)
<1> USE DEF apikey, Environment, Check, Open, Use, Defer, Serve
<1>1. WellTyped(apikey)
  BY DEF WellTyped, StepSet, Handles, MayOpen
<1>2. OneDefer(apikey)
  BY DEF OneDefer
<1>3. DefersItsOwn(apikey, "apikey")
  BY DEF DefersItsOwn, Closing, Handles, DeferredBefore, MayOpen, Range
<1>4. ServesOpened(apikey, {"auth"})
  BY DEF ServesOpened, OpenedBefore, Handles
<1>5. DefersOpened(apikey)
  BY DEF DefersOpened, OpenedBefore, Range
<1> QED  BY <1>1, <1>2, <1>3, <1>4, <1>5 DEF Sound

LEMMA Sound_apikey_cli == Sound(apikey_cli, "apikey_cli", {}) /\ DefersOpened(apikey_cli)
<1> USE DEF apikey_cli, Environment, Check, Open, Use, Defer, Serve
<1>1. WellTyped(apikey_cli)
  BY DEF WellTyped, StepSet, Handles, MayOpen
<1>2. OneDefer(apikey_cli)
  BY DEF OneDefer
<1>3. DefersItsOwn(apikey_cli, "apikey_cli")
  BY DEF DefersItsOwn, Closing, Handles, DeferredBefore, MayOpen, Range
<1>4. ServesOpened(apikey_cli, {})
  BY DEF ServesOpened, OpenedBefore, Handles
<1>5. DefersOpened(apikey_cli)
  BY DEF DefersOpened, OpenedBefore, Range
<1> QED  BY <1>1, <1>2, <1>3, <1>4, <1>5 DEF Sound

LEMMA Sound_utxoadd == Sound(utxoadd, "utxoadd", {}) /\ DefersOpened(utxoadd)
<1> USE DEF utxoadd, Environment, Check, Open, Use, Defer, Serve
<1>1. WellTyped(utxoadd)
  BY DEF WellTyped, StepSet, Handles, MayOpen
<1>2. OneDefer(utxoadd)
  BY DEF OneDefer
<1>3. DefersItsOwn(utxoadd, "utxoadd")
  BY DEF DefersItsOwn, Closing, Handles, DeferredBefore, MayOpen, Range
<1>4. ServesOpened(utxoadd, {})
  BY DEF ServesOpened, OpenedBefore, Handles
<1>5. DefersOpened(utxoadd)
  BY DEF DefersOpened, OpenedBefore, Range
<1> QED  BY <1>1, <1>2, <1>3, <1>4, <1>5 DEF Sound

LEMMA Sound_store_access == Sound(store_access, "store_access", {})
<1> USE DEF store_access, Environment, Check, Open, Use, Defer, Serve
<1>1. WellTyped(store_access)
  BY DEF WellTyped, StepSet, Handles, MayOpen
<1>2. OneDefer(store_access)
  BY DEF OneDefer
<1>3. DefersItsOwn(store_access, "store_access")
  BY DEF DefersItsOwn, Closing, Handles, DeferredBefore, MayOpen, Range
<1>4. ServesOpened(store_access, {})
  BY DEF ServesOpened, OpenedBefore, Handles
<1> QED  BY <1>1, <1>2, <1>3, <1>4 DEF Sound

\* It defers the closing of its store alone.
LEMMA LazyDefer ==
  \A i \in 1..Len(store_access) :
    store_access[i].op = "defer" => Range(store_access[i].on) \subseteq {"store"}
BY DEF store_access, Environment, Check, Use, Defer, Range

LEMMA Sound_gw_access == Sound(gw_access, "gw_access", {}) /\ DefersOpened(gw_access)
<1> USE DEF gw_access, Environment, Check, Open, Use, Defer, Serve
<1>1. WellTyped(gw_access)
  BY DEF WellTyped, StepSet, Handles, MayOpen
<1>2. OneDefer(gw_access)
  BY DEF OneDefer
<1>3. DefersItsOwn(gw_access, "gw_access")
  BY DEF DefersItsOwn, Closing, Handles, DeferredBefore, MayOpen, Range
<1>4. ServesOpened(gw_access, {})
  BY DEF ServesOpened, OpenedBefore, Handles
<1>5. DefersOpened(gw_access)
  BY DEF DefersOpened, OpenedBefore, Range
<1> QED  BY <1>1, <1>2, <1>3, <1>4, <1>5 DEF Sound

LEMMA Sound_gw_refresh == Sound(gw_refresh, "gw_refresh", {}) /\ DefersOpened(gw_refresh)
<1> USE DEF gw_refresh, Environment, Check, Open, Use, Defer, Serve
<1>1. WellTyped(gw_refresh)
  BY DEF WellTyped, StepSet, Handles, MayOpen
<1>2. OneDefer(gw_refresh)
  BY DEF OneDefer
<1>3. DefersItsOwn(gw_refresh, "gw_refresh")
  BY DEF DefersItsOwn, Closing, Handles, DeferredBefore, MayOpen, Range
<1>4. ServesOpened(gw_refresh, {})
  BY DEF ServesOpened, OpenedBefore, Handles
<1>5. DefersOpened(gw_refresh)
  BY DEF DefersOpened, OpenedBefore, Range
<1> QED  BY <1>1, <1>2, <1>3, <1>4, <1>5 DEF Sound

LEMMA Sound_gw_register == Sound(gw_register, "gw_register", {}) /\ DefersOpened(gw_register)
<1> USE DEF gw_register, Environment, Check, Open, Use, Defer, Serve
<1>1. WellTyped(gw_register)
  BY DEF WellTyped, StepSet, Handles, MayOpen
<1>2. OneDefer(gw_register)
  BY DEF OneDefer
<1>3. DefersItsOwn(gw_register, "gw_register")
  BY DEF DefersItsOwn, Closing, Handles, DeferredBefore, MayOpen, Range
<1>4. ServesOpened(gw_register, {})
  BY DEF ServesOpened, OpenedBefore, Handles
<1>5. DefersOpened(gw_register)
  BY DEF DefersOpened, OpenedBefore, Range
<1> QED  BY <1>1, <1>2, <1>3, <1>4, <1>5 DEF Sound

LEMMA Sound_btc_putanchor == Sound(btc_putanchor, "btc_putanchor", {}) /\ DefersOpened(btc_putanchor)
<1> USE DEF btc_putanchor, Environment, Check, Open, Use, Defer, Serve
<1>1. WellTyped(btc_putanchor)
  BY DEF WellTyped, StepSet, Handles, MayOpen
<1>2. OneDefer(btc_putanchor)
  BY DEF OneDefer
<1>3. DefersItsOwn(btc_putanchor, "btc_putanchor")
  BY DEF DefersItsOwn, Closing, Handles, DeferredBefore, MayOpen, Range
<1>4. ServesOpened(btc_putanchor, {})
  BY DEF ServesOpened, OpenedBefore, Handles
<1>5. DefersOpened(btc_putanchor)
  BY DEF DefersOpened, OpenedBefore, Range
<1> QED  BY <1>1, <1>2, <1>3, <1>4, <1>5 DEF Sound

LEMMA Sound_btc_getanchor == Sound(btc_getanchor, "btc_getanchor", {}) /\ DefersOpened(btc_getanchor)
<1> USE DEF btc_getanchor, Environment, Check, Open, Use, Defer, Serve
<1>1. WellTyped(btc_getanchor)
  BY DEF WellTyped, StepSet, Handles, MayOpen
<1>2. OneDefer(btc_getanchor)
  BY DEF OneDefer
<1>3. DefersItsOwn(btc_getanchor, "btc_getanchor")
  BY DEF DefersItsOwn, Closing, Handles, DeferredBefore, MayOpen, Range
<1>4. ServesOpened(btc_getanchor, {})
  BY DEF ServesOpened, OpenedBefore, Handles
<1>5. DefersOpened(btc_getanchor)
  BY DEF DefersOpened, OpenedBefore, Range
<1> QED  BY <1>1, <1>2, <1>3, <1>4, <1>5 DEF Sound

-----------------------------------------------------------------------------
\* The handles whose collections the requests of a server use.
Served(p) == CASE p = "btcgw" -> Handles
               [] p = "apikey" -> {"auth"}
               [] OTHER -> {}

LEMMA ScriptSound ==
  ASSUME NEW p \in DOMAIN Script
  PROVE  /\ Sound(Script[p], p, Served(p))
         /\ p # "store_access" => DefersOpened(Script[p])
<1>1. CASE p = "btcgw"
  BY <1>1, Sound_btcgw DEF Script, Served
<1>2. CASE p = "apikey"
  BY <1>2, Sound_apikey DEF Script, Served
<1>3. CASE p = "apikey_cli"
  BY <1>3, Sound_apikey_cli DEF Script, Served
<1>4. CASE p = "utxoadd"
  BY <1>4, Sound_utxoadd DEF Script, Served
<1>5. CASE p = "store_access"
  BY <1>5, Sound_store_access DEF Script, Served
<1>6. CASE p = "gw_access"
  BY <1>6, Sound_gw_access DEF Script, Served
<1>7. CASE p = "gw_refresh"
  BY <1>7, Sound_gw_refresh DEF Script, Served
<1>8. CASE p = "gw_register"
  BY <1>8, Sound_gw_register DEF Script, Served
<1>9. CASE p = "btc_putanchor"
  BY <1>9, Sound_btc_putanchor DEF Script, Served
<1>10. CASE p = "btc_getanchor"
  BY <1>10, Sound_btc_getanchor DEF Script, Served
<1> QED
  BY <1>1, <1>2, <1>3, <1>4, <1>5, <1>6, <1>7, <1>8, <1>9, <1>10 DEF Script

Uses == {Use("store", "reply"), Use("store", "go on"),
         Use("wallet", "reply"), Use("auth", "reply")}

LEMMA HeadAndTail ==
  ASSUME NEW S, NEW s \in Seq(S), s # << >>
  PROVE  /\ Head(s) \in S /\ Tail(s) \in Seq(S)
         /\ Range(s) = {Head(s)} \cup Range(Tail(s))
<1>1. /\ Len(s) \in Nat \ {0} /\ Head(s) = s[1] /\ Tail(s) \in Seq(S)
      /\ DOMAIN s = 1..Len(s) /\ DOMAIN Tail(s) = 1..(Len(s) - 1)
      /\ \A i \in 1..(Len(s) - 1) : Tail(s)[i] = s[i + 1]
  OBVIOUS
<1>2. \A x : x \in Range(s) <=> \E i \in 1..Len(s) : x = s[i]
  BY <1>1 DEF Range
<1>3. \A x : x \in Range(Tail(s)) <=> \E i \in 1..(Len(s) - 1) : x = s[i + 1]
  BY <1>1 DEF Range
<1>4. \A x : (\E i \in 1..Len(s) : x = s[i])
             <=> x = s[1] \/ \E i \in 1..(Len(s) - 1) : x = s[i + 1]
  <2>1. \A i \in 1..Len(s) : i = 1 \/ (i - 1 \in 1..(Len(s) - 1) /\ (i - 1) + 1 = i)
    BY <1>1
  <2>2. 1 \in 1..Len(s) /\ \A i \in 1..(Len(s) - 1) : i + 1 \in 1..Len(s)
    BY <1>1
  <2> QED  BY <2>1, <2>2
<1>5. \A x : x \in Range(s) <=> x \in {Head(s)} \cup Range(Tail(s))
  BY <1>1, <1>2, <1>3, <1>4
<1>6. Head(s) \in S
  BY <1>1
<1> QED  BY <1>1, <1>5, <1>6

LEMMA RangeOfSeq ==
  ASSUME NEW S, NEW s \in Seq(S)
  PROVE  /\ Range(s) \subseteq S
         /\ s \in Seq(Range(s))
<1>1. \A i \in 1..Len(s) : s[i] \in Range(s)
  BY DEF Range
<1>2. s \in Seq(Range(s))
  BY <1>1
<1> QED  BY <1>2 DEF Range

\* (auth, store, wallet, store in the order of a POST)
LEMMA RoutesOverUses ==
  ASSUME NEW S, NEW a \in S, NEW b \in S, NEW c \in S, NEW d \in S
  PROVE  {<< >>, <<a>>, <<d>>, <<d, d, d>>, <<a, b, c, c, d, d>>} \subseteq Seq(S)
OBVIOUS

\* The routes are sequences of steps, and use what their program serves.
LEMMA RoutesTyped ==
  ASSUME NEW p \in DOMAIN Script, NEW route \in Routes[p]
  PROVE  /\ route \in Seq(Steps)
         /\ \A use \in Range(route) : use.on[1] \in Served(p)
<1>1. CASE p = "btcgw"
  <2>1. route \in AnchorRoutes
    BY <1>1 DEF Routes, Script
  <2>2. route \in Seq(Uses)
    <3>1. /\ Use("auth", "reply") \in Uses /\ Use("store", "go on") \in Uses
          /\ Use("wallet", "reply") \in Uses /\ Use("store", "reply") \in Uses
      BY DEF Uses
    <3> DEFINE auth == Use("auth", "reply")
               look == Use("store", "go on")
               wallet == Use("wallet", "reply")
               store == Use("store", "reply")
    <3>2. AnchorRoutes = {<< >>, <<store>>, <<store, store, store>>,
                          <<auth, look, wallet, wallet, store, store>>}
      BY DEF AnchorRoutes
    <3> HIDE DEF auth, look, wallet, store
    <3>3. AnchorRoutes \subseteq Seq(Uses)
      <4>1. {<< >>, <<auth>>, <<store>>, <<store, store, store>>,
             <<auth, look, wallet, wallet, store, store>>} \subseteq Seq(Uses)
        BY <3>1, RoutesOverUses DEF auth, look, wallet, store
      <4> QED  BY <3>2, <4>1
    <3> QED  BY <2>1, <3>3
  <2>3. Range(route) \subseteq Steps
    BY <2>1 DEF Steps
  <2>4. route \in Seq(Steps)
    BY <2>2, <2>3, RangeOfSeq
  <2>5. \A use \in Uses : use.on[1] \in Handles
    <3>1. \A h, f : Use(h, f).on[1] = h
      BY DEF Use
    <3> QED  BY <3>1 DEF Uses, Handles
  <2> QED  BY <1>1, <2>2, <2>4, <2>5, RangeOfSeq DEF Served
<1>2. CASE p = "apikey"
  <2>1. route \in KeyRoutes
    BY <1>2 DEF Routes, Script
  <2>2. route \in Seq({Use("auth", "reply")})
    <3>1. Use("auth", "reply") \in {Use("auth", "reply")}
      OBVIOUS
    <3> QED  BY <2>1, <3>1, RoutesOverUses DEF KeyRoutes
  <2>3. Range(route) \subseteq Steps
    BY <2>1 DEF Steps
  <2>4. route \in Seq(Steps)
    BY <2>2, <2>3, RangeOfSeq
  <2>5. \A use \in {Use("auth", "reply")} : use.on[1] = "auth"
    BY DEF Use
  <2> QED  BY <1>2, <2>2, <2>4, <2>5, RangeOfSeq DEF Served
<1>3. CASE p \notin {"btcgw", "apikey"}
  <2>1. Routes[p] = {}
    BY <1>3 DEF Routes
  <2> QED  BY <2>1
<1> QED  BY <1>1, <1>2, <1>3

-----------------------------------------------------------------------------
Serving == {"notified", "waiting", "stopping", "draining"}

\* A program that goes on has opened all it tried to open, and nothing else.
OpenedSoFar ==
  phase \in {"main"} \cup Serving =>
    /\ \A h \in Handles : IF once[h] THEN coll[h] = "open" ELSE coll[h] = "nil"
    /\ \A j \in 1..(pc - 1) :
         MayOpen(Script[prog][j]) => coll[Script[prog][j].on[1]] = "open"
    /\ \A h \in Handles : coll[h] = "open" =>
         \E j \in 1..(pc - 1) :
           MayOpen(Script[prog][j]) /\ Script[prog][j].on[1] = h

DeferredSoFar ==
  phase \in {"main"} \cup Serving =>
    \A j \in 1..(pc - 1) :
      Script[prog][j].op = "defer" => defers = Script[prog][j].on

AtServing ==
  phase \in Serving => pc \in DOMAIN Script[prog] /\ step.op = "serve"

\* Only a server between Notify and Shutdown has a listener.
ListenerInServing ==
  listener \in {"starting", "listening", "failed"} =>
    phase \in {"notified", "waiting", "stopping", "exited"}

\* No request before serving, none left after it unless Shutdown gave up.
RequestsInServing ==
  /\ forced => phase \in {"unwind", "exited"}
  /\ phase = "main" \/ (phase = "unwind" /\ ~forced) =>
       \A c \in Conns : req[c] = Free

RequestsOnRoutes ==
  \A c \in Conns : req[c] # Free =>
    \A use \in Range(req[c]) : use.on[1] \in Served(prog)

Unwound == {"return", "panic", "nil"}

StillDeferred ==
  phase \in {"unwind", "exited"} /\ how \in Unwound =>
    \A h \in Closing(prog, how) : coll[h] = "open" => h \in Range(defers)

DefersNotNil ==
  prog # "store_access" =>
    /\ how # "nil"
    /\ \A h \in Range(defers) : coll[h] # "nil"

LazyDefers == prog = "store_access" => Range(defers) \subseteq {"store"}

Unwinding == /\ phase = "unwind" => how \in Unwound
             /\ phase = "exited" /\ how \in Unwound => defers = << >>

IInv == /\ TypeOK /\ OpenedSoFar /\ DeferredSoFar /\ AtServing
        /\ ListenerInServing /\ RequestsInServing /\ RequestsOnRoutes
        /\ StillDeferred /\ DefersNotNil /\ LazyDefers /\ Unwinding

-----------------------------------------------------------------------------
\* What the script of the program says of the step main is at.
LEMMA StepFacts ==
  ASSUME TypeOK, NEW op, AtStep(op)
  PROVE  /\ phase = "main" /\ pc \in 1..Len(Script[prog]) /\ step.op = op
         /\ step \in StepSet
         /\ MayOpen(step) => step.on[1] \in Handles
         /\ pc + 1 \in 1..(Len(Script[prog]) + 1)
<1>1. WellTyped(Script[prog])
  BY ScriptSound DEF TypeOK, Sound
<1>2. /\ phase = "main" /\ pc \in 1..Len(Script[prog]) /\ step.op = op
      /\ step \in StepSet
  BY <1>1 DEF AtStep, WellTyped, step
<1>3. MayOpen(step) => step.on \in Seq(Handles) /\ Len(step.on) = 1
  BY <1>1, <1>2 DEF WellTyped, step, StepSet
<1> QED  BY <1>2, <1>3

LEMMA ClosingHandles == \A p, end : Closing(p, end) \subseteq Handles
BY DEF Closing, Handles

\* What a return or a panic leaves to the deferred calls.
LEMMA StillDeferredOnFail ==
  ASSUME IInv, NEW op, AtStep(op), op # "defer",
         step.fails \in {"return", "panic"}, NEW h \in Closing(prog, step.fails),
         coll[h] = "open" \/ (op = "use" /\ step.on[1] = h)
  PROVE  h \in Range(defers)
<1>1. DefersItsOwn(Script[prog], prog)
  BY ScriptSound DEF IInv, TypeOK, Sound
<1>2. /\ phase = "main" /\ pc \in 1..Len(Script[prog]) /\ step.op = op
      /\ step = Script[prog][pc]
  BY StepFacts DEF IInv, step
<1>3. \E j \in 1..pc : /\ MayOpen(Script[prog][j]) /\ Script[prog][j].on[1] = h
                       /\ j = pc => Script[prog][j].op = "use"
  BY <1>2, ClosingHandles DEF IInv, OpenedSoFar, MayOpen
<1>4. DeferredBefore(Script[prog], pc, h)
  BY <1>1, <1>2, <1>3 DEF DefersItsOwn
<1> QED  BY <1>2, <1>4 DEF IInv, DeferredSoFar, DeferredBefore

LEMMA StillDeferredAtEnd ==
  ASSUME IInv, MainReturn, NEW h \in Closing(prog, "return"), coll[h] = "open"
  PROVE  h \in Range(defers)
<1>1. DefersItsOwn(Script[prog], prog) /\ Script[prog] \in Seq(StepSet)
  BY ScriptSound DEF IInv, TypeOK, Sound, WellTyped
<1>2. \E j \in 1..Len(Script[prog]) :
        MayOpen(Script[prog][j]) /\ Script[prog][j].on[1] = h
  BY <1>1, ClosingHandles DEF IInv, OpenedSoFar, MainReturn
<1>3. DeferredBefore(Script[prog], Len(Script[prog]) + 1, h)
  BY <1>1, <1>2 DEF DefersItsOwn
<1> QED  BY <1>1, <1>3 DEF IInv, DeferredSoFar, DeferredBefore, MainReturn

\* The same for the return at the end of serving.
LEMMA StillDeferredAfterServing ==
  ASSUME IInv, phase \in Serving, NEW h \in Closing(prog, "return"),
         coll[h] = "open"
  PROVE  h \in Range(defers)
<1>1. DefersItsOwn(Script[prog], prog) /\ ServesOpened(Script[prog], Served(prog))
      /\ Script[prog] \in Seq(StepSet)
  BY ScriptSound DEF IInv, TypeOK, Sound, WellTyped
<1>2. /\ pc \in 1..Len(Script[prog]) /\ Script[prog][pc].op = "serve"
      /\ Script[prog][pc].fails = "return"
  BY <1>1 DEF IInv, AtServing, step, ServesOpened
<1>3. \E j \in 1..(pc - 1) : MayOpen(Script[prog][j]) /\ Script[prog][j].on[1] = h
  BY ClosingHandles DEF IInv, OpenedSoFar
<1>4. DeferredBefore(Script[prog], pc, h)
  BY <1>1, <1>2, <1>3 DEF DefersItsOwn
<1> QED  BY <1>4 DEF IInv, DeferredSoFar, DeferredBefore

\* While a server serves, what its routes use is open.
LEMMA ServedIsOpen ==
  ASSUME IInv, phase \in Serving, NEW h \in Served(prog)
  PROVE  coll[h] = "open"
<1>1. ServesOpened(Script[prog], Served(prog)) /\ Script[prog] \in Seq(StepSet)
  BY ScriptSound DEF IInv, TypeOK, Sound, WellTyped
<1>2. OpenedBefore(Script[prog], pc, h)
  BY <1>1 DEF IInv, AtServing, step, ServesOpened
<1> QED  BY <1>2 DEF IInv, OpenedSoFar, OpenedBefore, MayOpen

-----------------------------------------------------------------------------
LEMMA InitIInv == Init => IInv
<1> SUFFICES ASSUME Init  PROVE IInv
  OBVIOUS
<1>1. Script[prog] \in Seq(StepSet)
  BY ScriptSound DEF Init, Sound, WellTyped
<1>2. /\ prog \in DOMAIN Script /\ pc \in 1..(Len(Script[prog]) + 1)
      /\ how = "running" <=> phase \notin {"unwind", "exited"}
      /\ defers \in Seq(Handles)
  BY <1>1 DEF Init
<1>3. /\ coll \in [Handles -> {"nil", "open", "closed", "unsaved"}]
      /\ once \in [Handles -> BOOLEAN]
      /\ \A h \in Handles : coll[h] # "nil" => once[h]
      /\ req \in [Conns -> {Free} \cup Seq(Steps)]
  BY DEF Init
<1>4. TypeOK
  BY <1>2, <1>3 DEF Init, TypeOK
<1> QED
  BY <1>4 DEF Init, IInv, OpenedSoFar, DeferredSoFar, AtServing, Serving,
    ListenerInServing, RequestsInServing, RequestsOnRoutes, StillDeferred,
    DefersNotNil, LazyDefers, Unwinding, Range

\* Steps of main that leave the collections and the requests alone.
LEMMA CheckKeepsIInv ==
  ASSUME IInv, NEW ok \in BOOLEAN, MainCheck(ok)
  PROVE  IInv'
<1>1. /\ phase = "main" /\ pc \in 1..Len(Script[prog]) /\ step.op = "check"
      /\ step \in StepSet /\ pc + 1 \in 1..(Len(Script[prog]) + 1)
  BY StepFacts DEF IInv, MainCheck
<1>2. TypeOK'
  BY <1>1 DEF IInv, TypeOK, MainCheck, Continue, Fail, StepSet
<1>3. OpenedSoFar'
  BY <1>1 DEF IInv, OpenedSoFar, MainCheck, Continue, Fail, Serving, MayOpen, step
<1>4. DeferredSoFar'
  BY <1>1 DEF IInv, DeferredSoFar, MainCheck, Continue, Fail, Serving, step
<1>5. /\ AtServing' /\ ListenerInServing' /\ RequestsInServing'
      /\ RequestsOnRoutes'
  BY <1>1 DEF IInv, AtServing, ListenerInServing, RequestsInServing,
    RequestsOnRoutes, MainCheck, Continue, Fail, Serving
<1>6. StillDeferred'
  <2> SUFFICES ASSUME phase' \in {"unwind", "exited"}, how' \in Unwound,
                      NEW g \in Closing(prog, how'), coll[g] = "open"
               PROVE  g \in Range(defers)
    BY DEF StillDeferred, MainCheck, Closing
  <2>1. how' = step.fails /\ step.fails \in {"return", "panic"}
    BY <1>1 DEF MainCheck, Continue, Fail, StepSet, Unwound
  <2>2. g \in Closing(prog, step.fails)
    BY <2>1
  <2> QED  BY <2>1, <2>2, StillDeferredOnFail DEF MainCheck
<1>7. DefersNotNil' /\ LazyDefers' /\ Unwinding'
  BY <1>1 DEF IInv, DefersNotNil, LazyDefers, Unwinding, Unwound,
    MainCheck, Continue, Fail, StepSet
<1> QED  BY <1>2, <1>3, <1>4, <1>5, <1>6, <1>7 DEF IInv

LEMMA OpenKeepsIInv ==
  ASSUME IInv, NEW ok \in BOOLEAN, MainOpen(ok)
  PROVE  IInv'
<1> DEFINE h == step.on[1]
<1>1. /\ phase = "main" /\ pc \in 1..Len(Script[prog]) /\ step.op = "open"
      /\ step \in StepSet /\ pc + 1 \in 1..(Len(Script[prog]) + 1)
      /\ h \in Handles
  BY StepFacts DEF IInv, MainOpen, MayOpen
<1>2. /\ coll' = [coll EXCEPT ![h] = AfterOpen(h, ok)]
      /\ once' = [once EXCEPT ![h] = TRUE]
      /\ IF Opens(h, ok) THEN Continue ELSE Fail(step.fails)
      /\ UNCHANGED <<prog, defers, listener, forced, req>>
  BY DEF MainOpen
<1>3. TypeOK'
  BY <1>1, <1>2 DEF IInv, TypeOK, Continue, Fail, StepSet, AfterOpen
<1>4. Opens(h, ok) => coll'[h] = "open"
  BY <1>1, <1>2 DEF IInv, TypeOK, OpenedSoFar, Opens, AfterOpen
<1>5. ~Opens(h, ok) => coll'[h] = coll[h]
  BY <1>1, <1>2 DEF IInv, TypeOK, Opens, AfterOpen
<1>6. \A g \in Handles : coll[g] # "nil" => coll'[g] = coll[g]
  BY <1>1, <1>2 DEF IInv, TypeOK, OpenedSoFar, AfterOpen
<1>7. OpenedSoFar'
  BY <1>1, <1>2, <1>4
    DEF IInv, TypeOK, OpenedSoFar, Continue, Fail, Serving, MayOpen, step
<1>8. DeferredSoFar'
  BY <1>1, <1>2 DEF IInv, DeferredSoFar, Continue, Fail, Serving, step
<1>9. /\ AtServing' /\ ListenerInServing' /\ RequestsInServing'
      /\ RequestsOnRoutes'
  BY <1>1, <1>2 DEF IInv, AtServing, ListenerInServing, RequestsInServing,
    RequestsOnRoutes, Continue, Fail, Serving
<1>10. StillDeferred'
  <2> SUFFICES ASSUME phase' \in {"unwind", "exited"}, how' \in Unwound,
                      NEW g \in Closing(prog, how'), coll'[g] = "open"
               PROVE  g \in Range(defers)
    BY <1>2 DEF StillDeferred, Closing
  <2>1. /\ ~Opens(h, ok) /\ how' = step.fails
        /\ step.fails \in {"return", "panic"} /\ g \in Handles
    BY <1>1, <1>2 DEF Continue, Fail, StepSet, Unwound, Closing, Handles
  <2>2. coll[g] = "open" /\ g \in Closing(prog, step.fails)
    BY <1>1, <1>2, <1>5, <2>1 DEF IInv, TypeOK
  <2> QED  BY <2>1, <2>2, StillDeferredOnFail DEF MainOpen
<1>11. DefersNotNil'
  <2>1. Range(defers) \subseteq Handles
    BY RangeOfSeq DEF IInv, TypeOK
  <2> QED  BY <1>1, <1>2, <1>6, <2>1 DEF IInv, DefersNotNil, Continue, Fail, StepSet
<1>12. LazyDefers' /\ Unwinding'
  BY <1>1, <1>2 DEF IInv, LazyDefers, Unwinding, Unwound, Continue, Fail, StepSet
<1> QED  BY <1>3, <1>7, <1>8, <1>9, <1>10, <1>11, <1>12 DEF IInv

LEMMA UseKeepsIInv ==
  ASSUME IInv, NEW ok \in BOOLEAN, NEW answers \in BOOLEAN, MainUse(ok, answers)
  PROVE  IInv'
<1> DEFINE h == step.on[1]
<1>1. /\ phase = "main" /\ pc \in 1..Len(Script[prog]) /\ step.op = "use"
      /\ step \in StepSet /\ pc + 1 \in 1..(Len(Script[prog]) + 1)
      /\ h \in Handles
  BY StepFacts DEF IInv, MainUse, MayOpen
<1>2. /\ coll' = [coll EXCEPT ![h] = AfterOpen(h, ok)]
      /\ once' = [once EXCEPT ![h] = TRUE]
      /\ UNCHANGED <<prog, defers, listener, forced, req>>
  BY DEF MainUse
<1>3. Opens(h, ok) => coll'[h] = "open"
  BY <1>1, <1>2 DEF IInv, TypeOK, OpenedSoFar, Opens, AfterOpen
\* A method of a missing collection is not called here.
<1>4. (Opens(h, ok) /\ Continue) \/ Fail(step.fails)
  BY <1>3 DEF MainUse
<1>5. TypeOK'
  BY <1>1, <1>2, <1>4 DEF IInv, TypeOK, Continue, Fail, StepSet, AfterOpen
<1>6. \A g \in Handles : coll[g] # "nil" => coll'[g] = coll[g]
  BY <1>1, <1>2 DEF IInv, TypeOK, OpenedSoFar, AfterOpen
<1>7. OpenedSoFar'
  BY <1>1, <1>2, <1>3, <1>4
    DEF IInv, TypeOK, OpenedSoFar, Continue, Fail, Serving, MayOpen, step
<1>8. DeferredSoFar'
  BY <1>1, <1>2, <1>4 DEF IInv, DeferredSoFar, Continue, Fail, Serving, step
<1>9. /\ AtServing' /\ ListenerInServing' /\ RequestsInServing'
      /\ RequestsOnRoutes'
  BY <1>1, <1>2, <1>4 DEF IInv, AtServing, ListenerInServing, RequestsInServing,
    RequestsOnRoutes, Continue, Fail, Serving
<1>10. StillDeferred'
  <2> SUFFICES ASSUME phase' \in {"unwind", "exited"}, how' \in Unwound,
                      NEW g \in Closing(prog, how'), coll'[g] = "open"
               PROVE  g \in Range(defers)
    BY <1>2 DEF StillDeferred, Closing
  <2>1. /\ how' = step.fails /\ step.fails \in {"return", "panic"}
        /\ g \in Handles
    BY <1>1, <1>4 DEF Continue, Fail, StepSet, Unwound, Closing, Handles
  <2>2. (coll[g] = "open" \/ g = h) /\ g \in Closing(prog, step.fails)
    BY <1>1, <1>2, <2>1 DEF IInv, TypeOK
  <2> QED  BY <2>1, <2>2, StillDeferredOnFail DEF MainUse
<1>11. DefersNotNil'
  <2>1. Range(defers) \subseteq Handles
    BY RangeOfSeq DEF IInv, TypeOK
  <2> QED  BY <1>1, <1>2, <1>4, <1>6, <2>1 DEF IInv, DefersNotNil, Continue, Fail,
             StepSet
<1>12. LazyDefers' /\ Unwinding'
  BY <1>1, <1>2, <1>4 DEF IInv, LazyDefers, Unwinding, Unwound, Continue, Fail,
    StepSet
<1> QED  BY <1>5, <1>7, <1>8, <1>9, <1>10, <1>11, <1>12 DEF IInv

LEMMA DeferKeepsIInv ==
  ASSUME IInv, MainDefer
  PROVE  IInv'
<1>1. /\ phase = "main" /\ pc \in 1..Len(Script[prog]) /\ step.op = "defer"
      /\ step \in StepSet /\ pc + 1 \in 1..(Len(Script[prog]) + 1)
      /\ step = Script[prog][pc]
  BY StepFacts DEF IInv, MainDefer, step
<1>2. /\ defers' = step.on /\ pc' = pc + 1
      /\ UNCHANGED <<prog, phase, how, coll, once, listener, forced, req>>
  BY DEF MainDefer, Continue
<1>3. /\ OneDefer(Script[prog])
      /\ prog # "store_access" => DefersOpened(Script[prog])
  BY ScriptSound DEF IInv, TypeOK, Sound
<1>4. TypeOK'
  BY <1>1, <1>2 DEF IInv, TypeOK, StepSet
<1>5. OpenedSoFar'
  BY <1>1, <1>2 DEF IInv, OpenedSoFar, Serving, MayOpen
<1>6. DeferredSoFar'
  BY <1>1, <1>2, <1>3 DEF DeferredSoFar, OneDefer
<1>7. /\ AtServing' /\ ListenerInServing' /\ RequestsInServing'
      /\ RequestsOnRoutes' /\ StillDeferred' /\ Unwinding'
  BY <1>1, <1>2 DEF IInv, AtServing, ListenerInServing, RequestsInServing,
    RequestsOnRoutes, StillDeferred, Unwinding, Serving
<1>8. DefersNotNil' /\ LazyDefers'
  <2>1. ASSUME prog # "store_access", NEW h \in Range(step.on)
        PROVE  coll[h] # "nil"
    <3>1. OpenedBefore(Script[prog], pc, h)
      BY <1>1, <1>3, <2>1 DEF DefersOpened
    <3> QED  BY <1>1, <3>1 DEF IInv, OpenedSoFar, OpenedBefore, MayOpen
  <2>2. prog = "store_access" => Range(step.on) \subseteq {"store"}
    BY <1>1, LazyDefer DEF Script
  <2> QED  BY <1>2, <2>1, <2>2 DEF IInv, DefersNotNil, LazyDefers
<1> QED  BY <1>4, <1>5, <1>6, <1>7, <1>8 DEF IInv

LEMMA ReturnKeepsIInv ==
  ASSUME IInv, MainReturn
  PROVE  IInv'
<1>1. /\ phase = "main" /\ phase' = "unwind" /\ how' = "return"
      /\ UNCHANGED <<prog, pc, coll, once, defers, listener, forced, req>>
  BY DEF MainReturn
<1>2. TypeOK'
  BY <1>1 DEF IInv, TypeOK
<1>3. StillDeferred'
  BY <1>1, StillDeferredAtEnd DEF StillDeferred, Unwound
<1>4. /\ OpenedSoFar' /\ DeferredSoFar' /\ AtServing' /\ ListenerInServing'
      /\ RequestsInServing' /\ RequestsOnRoutes' /\ DefersNotNil'
      /\ LazyDefers' /\ Unwinding'
  BY <1>1 DEF IInv, OpenedSoFar, DeferredSoFar, AtServing, ListenerInServing,
    RequestsInServing, RequestsOnRoutes, DefersNotNil, LazyDefers,
    Unwinding, Unwound, Serving
<1> QED  BY <1>2, <1>3, <1>4 DEF IInv

-----------------------------------------------------------------------------
\* Steps of the server between Notify and the end of Shutdown.
LEMMA ServingKeepsIInv ==
  ASSUME IInv,
         MainServe \/ Wait \/ Signal \/ SendTerm \/ Shutdown \/ Listening
  PROVE  IInv'
<1>1. UNCHANGED <<prog, pc, how, coll, once, defers, forced, req>>
  BY DEF MainServe, Wait, Signal, SendTerm, Shutdown, Listening, Listen, ListenFails
<1>2. \/ phase = "main" /\ phase' \in Serving /\ AtStep("serve")
      \/ phase \in Serving /\ phase' \in Serving
      \/ phase' = phase
  BY DEF MainServe, Wait, Signal, SendTerm, Shutdown, Listening, Listen,
    ListenFails, Serving, AtStep
<1>3. /\ listener' \in {"none", "starting", "listening", "failed", "over"}
      /\ phase' \in {"main"} \cup Serving \cup {"unwind", "exited"}
      /\ ListenerInServing'
  BY DEF IInv, TypeOK, ListenerInServing, MainServe, Wait, Signal, SendTerm,
    Shutdown, Listening, Listen, ListenFails, Serving
<1>4. TypeOK'
  BY <1>1, <1>2, <1>3 DEF IInv, TypeOK, Serving
<1>5. OpenedSoFar' /\ DeferredSoFar'
  BY <1>1, <1>2 DEF IInv, OpenedSoFar, DeferredSoFar, Serving
<1>6. AtServing'
  BY <1>1, <1>2 DEF IInv, AtServing, AtStep, step, Serving
<1>7. /\ RequestsInServing' /\ RequestsOnRoutes' /\ StillDeferred'
      /\ DefersNotNil' /\ LazyDefers' /\ Unwinding'
  BY <1>1, <1>2 DEF IInv, RequestsInServing, RequestsOnRoutes, StillDeferred,
    DefersNotNil, LazyDefers, Unwinding, Serving
<1> QED  BY <1>3, <1>4, <1>5, <1>6, <1>7 DEF IInv

LEMMA DrainKeepsIInv ==
  ASSUME IInv, Drained \/ GiveUp
  PROVE  IInv'
<1>1. /\ phase = "draining" /\ phase' = "unwind" /\ how' = "return"
      /\ UNCHANGED <<prog, pc, coll, once, defers, listener, req>>
      /\ forced' \in BOOLEAN
      /\ ~forced' => \A c \in Conns : req[c] = Free
  BY DEF Drained, GiveUp, IInv, TypeOK
<1>2. TypeOK'
  BY <1>1 DEF IInv, TypeOK
<1>3. StillDeferred'
  BY <1>1, StillDeferredAfterServing DEF StillDeferred, Serving
<1>4. /\ OpenedSoFar' /\ DeferredSoFar' /\ AtServing' /\ ListenerInServing'
      /\ RequestsInServing' /\ RequestsOnRoutes' /\ DefersNotNil'
      /\ LazyDefers' /\ Unwinding'
  BY <1>1 DEF IInv, OpenedSoFar, DeferredSoFar, AtServing, ListenerInServing,
    RequestsInServing, RequestsOnRoutes, DefersNotNil, LazyDefers,
    Unwinding, Unwound, Serving
<1> QED  BY <1>2, <1>3, <1>4 DEF IInv

\* A Close closes the first of the deferred handles, or dereferences nil.
LEMMA CloseKeepsIInv ==
  ASSUME IInv, NEW ok \in BOOLEAN, CloseNext(ok)
  PROVE  IInv'
<1> DEFINE h == Head(defers)
           c == AfterOpen(h, ok)
<1>1. /\ phase = "unwind" /\ phase' = "unwind"
      /\ UNCHANGED <<prog, pc, phase, listener, forced, req>>
      /\ once' = [once EXCEPT ![h] = TRUE]
      /\ coll' = [coll EXCEPT ![h] = IF c = "nil" THEN c ELSE AfterClose(h, ok)]
      /\ IF c = "nil" /\ once[h]
         THEN defers' = << >> /\ how' = "nil"
         ELSE defers' = Tail(defers) /\ UNCHANGED how
  BY DEF CloseNext
<1>2. /\ h \in Handles /\ Tail(defers) \in Seq(Handles)
      /\ Range(defers) \subseteq Handles
      /\ Range(defers) = {h} \cup Range(Tail(defers))
  BY HeadAndTail, RangeOfSeq DEF CloseNext, IInv, TypeOK
<1>3. c \in {"nil", "open", "closed", "unsaved"} /\ AfterClose(h, ok) \in {"unsaved", "closed"}
  BY <1>2 DEF IInv, TypeOK, AfterOpen, AfterClose
<1>4. TypeOK'
  <2>1. /\ coll' \in [Handles -> {"nil", "open", "closed", "unsaved"}]
        /\ once' \in [Handles -> BOOLEAN]
        /\ \A g \in Handles : coll'[g] # "nil" => once'[g]
    BY <1>1, <1>2, <1>3 DEF IInv, TypeOK
  <2>2. /\ defers' \in Seq(Handles)
        /\ how' \in {"running", "return", "panic", "exit", "nil", "killed"}
        /\ how' # "running"
    <3>1. << >> \in Seq(Handles)
      OBVIOUS
    <3> QED  BY <1>1, <1>2, <3>1 DEF IInv, TypeOK
  <2> QED  BY <1>1, <2>1, <2>2 DEF IInv, TypeOK
<1>5. /\ OpenedSoFar' /\ DeferredSoFar' /\ AtServing' /\ ListenerInServing'
      /\ RequestsOnRoutes' /\ Unwinding'
  BY <1>1 DEF IInv, OpenedSoFar, DeferredSoFar, AtServing, ListenerInServing,
    RequestsOnRoutes, Unwinding, Unwound, Serving
<1>6. RequestsInServing'
  BY <1>1 DEF IInv, RequestsInServing
<1>7. StillDeferred'
  <2> SUFFICES ASSUME how' \in Unwound, NEW g \in Closing(prog, how'),
                      coll'[g] = "open"
               PROVE  g \in Range(defers')
    BY <1>1 DEF StillDeferred
  <2>1. g \in Handles
    BY DEF Closing, Handles
  <2>2. g # h /\ coll[g] = "open"
    BY <1>1, <1>2, <2>1 DEF AfterClose, IInv, TypeOK
  <2>3. CASE c = "nil" /\ once[h]
    <3>1. prog = "store_access"
      BY <1>2, <2>3 DEF IInv, DefersNotNil, AfterOpen
    <3>2. h = "store" /\ how \in Unwound /\ g \in Closing(prog, how)
      BY <1>1, <1>2, <2>1, <3>1 DEF IInv, Unwinding, LazyDefers, Closing
    <3>3. g \in Range(defers)
      BY <1>1, <2>2, <3>2 DEF IInv, StillDeferred
    <3> QED  BY <2>2, <3>1, <3>2, <3>3 DEF IInv, LazyDefers
  <2>4. CASE ~(c = "nil" /\ once[h])
    <3>1. defers' = Tail(defers) /\ how' = how
      BY <1>1, <2>4
    <3>2. g \in Range(defers)
      BY <1>1, <2>2, <3>1 DEF IInv, StillDeferred
    <3> QED  BY <1>2, <2>2, <3>1, <3>2
  <2> QED  BY <2>3, <2>4
<1>8. DefersNotNil'
  <2> SUFFICES ASSUME prog # "store_access"
               PROVE  how' # "nil" /\ \A g \in Range(defers') : coll'[g] # "nil"
    BY <1>1 DEF DefersNotNil
  <2>1. c # "nil"
    BY <1>2, <1>3 DEF IInv, DefersNotNil, AfterOpen
  <2> QED  BY <1>1, <1>2, <1>3, <2>1 DEF IInv, TypeOK, DefersNotNil
<1>9. LazyDefers'
  <2>1. Range(<< >>) = {}
    BY DEF Range
  <2> QED  BY <1>1, <1>2, <2>1 DEF IInv, LazyDefers
<1> QED  BY <1>4, <1>5, <1>6, <1>7, <1>8, <1>9 DEF IInv

LEMMA ExitKeepsIInv ==
  ASSUME IInv, Exit \/ Killed
  PROVE  IInv'
<1>1. /\ phase' = "exited" /\ phase # "exited"
      /\ \/ how' = "killed"
         \/ how' = how /\ phase = "unwind" /\ defers = << >>
      /\ UNCHANGED <<prog, pc, coll, once, defers, listener, forced, req>>
  BY DEF Exit, Killed
<1>2. TypeOK'
  BY <1>1 DEF IInv, TypeOK
<1>3. /\ OpenedSoFar' /\ DeferredSoFar' /\ AtServing' /\ ListenerInServing'
      /\ RequestsInServing' /\ RequestsOnRoutes' /\ StillDeferred'
      /\ DefersNotNil' /\ LazyDefers' /\ Unwinding'
  BY <1>1 DEF IInv, OpenedSoFar, DeferredSoFar, AtServing, ListenerInServing,
    RequestsInServing, RequestsOnRoutes, StillDeferred, DefersNotNil, LazyDefers,
    Unwinding, Unwound, Serving
<1> QED  BY <1>2, <1>3 DEF IInv

LEMMA RequestKeepsIInv ==
  ASSUME IInv, NEW c \in Conns, Request(c)
  PROVE  IInv'
<1>1. /\ UNCHANGED <<prog, pc, phase, how, coll, once, defers, listener, forced>>
      /\ phase # "exited"
      /\ \/ listener = "listening" /\ req[c] = Free
         \/ req[c] # Free
         \/ req' = [req EXCEPT ![c] = Free]
  BY DEF Request, Arrive, Handle, Answer
<1> DEFINE Becomes(r) ==
             /\ req' = [req EXCEPT ![c] = r]
             /\ r # Free => \A use \in Range(r) : use.on[1] \in Served(prog)
<1>2. \E r \in {Free} \cup Seq(Steps) : Becomes(r)
  <2>1. ASSUME NEW route \in Routes[prog], Arrive(c, route)
        PROVE  \E r \in {Free} \cup Seq(Steps) : Becomes(r)
    BY <2>1, RoutesTyped DEF Arrive, IInv, TypeOK
  <2>2. ASSUME NEW answers \in BOOLEAN, Handle(c, answers)
        PROVE  \E r \in {Free} \cup Seq(Steps) : Becomes(r)
    <3>1. req[c] \in Seq(Steps) /\ req[c] # << >>
      BY <2>2 DEF Handle, IInv, TypeOK
    <3>2. Tail(req[c]) \in Seq(Steps) /\ Range(Tail(req[c])) \subseteq Range(req[c])
      BY <3>1 DEF Range
    <3>3. << >> \in Seq(Steps) /\ Range(<< >>) = {}
      BY DEF Range
    <3>4. req' = [req EXCEPT ![c] = Tail(req[c])] \/ req' = [req EXCEPT ![c] = << >>]
      BY <2>2 DEF Handle
    <3>5. \A use \in Range(req[c]) : use.on[1] \in Served(prog)
      BY <2>2 DEF Handle, IInv, RequestsOnRoutes
    <3> QED  BY <3>2, <3>3, <3>4, <3>5
  <2>3. ASSUME Answer(c)
        PROVE  \E r \in {Free} \cup Seq(Steps) : Becomes(r)
    BY <2>3 DEF Answer
  <2> QED  BY <2>1, <2>2, <2>3 DEF Request
<1>3. TypeOK'
  BY <1>1, <1>2 DEF IInv, TypeOK
<1>4. RequestsOnRoutes'
  BY <1>1, <1>2 DEF IInv, TypeOK, RequestsOnRoutes
<1>5. RequestsInServing'
  BY <1>1 DEF IInv, TypeOK, RequestsInServing, ListenerInServing
<1>6. /\ OpenedSoFar' /\ DeferredSoFar' /\ AtServing' /\ ListenerInServing'
      /\ StillDeferred' /\ DefersNotNil' /\ LazyDefers' /\ Unwinding'
  BY <1>1 DEF IInv, OpenedSoFar, DeferredSoFar, AtServing, step,
    ListenerInServing, StillDeferred, DefersNotNil, LazyDefers, Unwinding
<1> QED  BY <1>3, <1>4, <1>5, <1>6 DEF IInv

-----------------------------------------------------------------------------
LEMMA NextKeepsIInv == IInv /\ [Next]_vars => IInv'
<1> SUFFICES ASSUME IInv, [Next]_vars  PROVE IInv'
  OBVIOUS
<1>1. ASSUME NEW ok \in BOOLEAN, MainCheck(ok)  PROVE IInv'
  BY <1>1, CheckKeepsIInv
<1>2. ASSUME NEW ok \in BOOLEAN, MainOpen(ok)  PROVE IInv'
  BY <1>2, OpenKeepsIInv
<1>3. ASSUME NEW ok \in BOOLEAN, NEW answers \in BOOLEAN, MainUse(ok, answers)
      PROVE  IInv'
  BY <1>3, UseKeepsIInv
<1>4. ASSUME NEW ok \in BOOLEAN, CloseNext(ok)  PROVE IInv'
  BY <1>4, CloseKeepsIInv
<1>5. CASE MainDefer
  BY <1>5, DeferKeepsIInv
<1>6. CASE MainReturn
  BY <1>6, ReturnKeepsIInv
<1>7. CASE MainServe \/ Wait \/ Signal \/ SendTerm \/ Shutdown \/ Listening
  BY <1>7, ServingKeepsIInv
<1>8. CASE Drained \/ GiveUp
  BY <1>8, DrainKeepsIInv
<1>9. CASE Exit \/ Killed
  BY <1>9, ExitKeepsIInv
<1>10. ASSUME NEW c \in Conns, Request(c)  PROVE IInv'
  BY <1>10, RequestKeepsIInv
<1>11. CASE UNCHANGED vars
  BY <1>11 DEF vars, IInv, TypeOK, OpenedSoFar, DeferredSoFar, AtServing, step,
    ListenerInServing, RequestsInServing, RequestsOnRoutes, StillDeferred,
    DefersNotNil, LazyDefers, Unwinding
<1> QED
  BY <1>1, <1>2, <1>3, <1>4, <1>5, <1>6, <1>7, <1>8, <1>9, <1>10, <1>11
    DEF Next, Main

LEMMA SpecIInv == Spec => []IInv
BY InitIInv, NextKeepsIInv, PTL DEF Spec

\* A collection that is there was opened through its sync.Once, and a request is
\* always the rest of a route, with any number of connections.
THEOREM ProgramsTypeCorrect == Spec => []TypeOK
BY SpecIInv, PTL DEF IInv

\* Until Shutdown gives up no handler meets a collection that is missing or
\* closed: main opens before it listens and closes after the last request.
THEOREM RequestsMeetOpenCollections == Spec => []ServedByOpen
<1>1. IInv => ServedByOpen
  <2> SUFFICES ASSUME IInv, NEW c \in Conns, req[c] # Free, phase # "exited",
                      ~forced, NEW use \in Range(req[c])
               PROVE  coll[use.on[1]] = "open"
    BY DEF ServedByOpen
  <2>1. phase \in Serving
    BY DEF IInv, TypeOK, RequestsInServing, Serving
  <2>2. use.on[1] \in Served(prog)
    BY DEF IInv, RequestsOnRoutes
  <2> QED  BY <2>1, <2>2, ServedIsOpen
<1> QED  BY <1>1, SpecIInv, PTL

\* A return from main or a panic, wherever in the script, closes what was opened
\* up to there, also when one of the Closes fails; what stays open in btcgw is
\* named.
THEOREM EndCloses == Spec => []ClosedAtEnd
<1>1. IInv => ClosedAtEnd
  <2> SUFFICES ASSUME IInv, phase = "exited", how \in Unwound, NEW h \in Handles,
                      coll[h] = "open"
               PROVE  prog = "btcgw" /\ (h = "wallet" \/ (h = "store" /\ how = "panic"))
    BY DEF ClosedAtEnd, Unwound
  <2>1. h \notin Range(defers)
    BY DEF IInv, Unwinding, Range
  <2>2. h \notin Closing(prog, how)
    BY <2>1 DEF IInv, StillDeferred
  <2> QED  BY <2>2 DEF Closing, Handles
<1> QED  BY <1>1, SpecIInv, PTL

\* A program that opens its store before it defers Close never calls a method
\* of a collection that is not there.
THEOREM NilNeedsLazyOpen == Spec => []NilOnlyWhenLazy
<1>1. IInv => NilOnlyWhenLazy
  BY DEF IInv, DefersNotNil, NilOnlyWhenLazy
<1> QED  BY <1>1, SpecIInv, PTL

=============================================================================

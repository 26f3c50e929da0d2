--------------------------- MODULE AnchorAPIProofs ---------------------------
(***************************************************************************)
(* Theorems about the handlers, for any number of goroutines, requests and *)
(* faults.  That the handlers are one client of the gateway among all      *)
(* (HandlersUseGateway) carries over what GatewayProofs says of any; on    *)
(* top of it stands where a handler and the method it called can be.       *)
(***************************************************************************)
EXTENDS AnchorAPI, GatewayProofs, FiniteSetTheorems

Ops == {"get", "patch", "post"}

\* A handler before its transaction, after it, and with its answer.
Early == [at : {"get", "patch", "check", "register", "registering"},
          op : Ops, r : Requests]
Late == [at : {"store", "storing", "read", "reading"},
         op : Ops, r : Requests, tx : 1..MaxTx]
Replying == [at : {"reply"}, op : Ops, r : Requests, code : {200, 204, 404, 500},
             ar : Record \cup {None}]

Job == {Free} \cup Early \cup Late \cup Replying

\* Where a handler waits for a method, the call is in this method.
Fits(j, c) ==
  /\ j.at \in {"free", "register", "store", "read", "reply"} => c = Idle
  /\ j.at \in {"get", "check", "reading"} =>
       /\ c.pc \in {"ok", "err"}
       /\ c.pc = "ok" => /\ c.ar \in Record
                         /\ Exact(j.r) => c.ar.anchor = NewAnchor(j.r)
  /\ j.at = "patch" => c.pc \in {"refresh", "conf", "name", "note", "ok", "err"}
  /\ j.at = "registering" => /\ c.pc \in {"register", "put", "next", "add", "ok", "err"}
                             /\ c.pc = "ok" => c.tx \in 1..MaxTx
  /\ j.at = "storing" => c.pc \in {"store", "storePut", "ok", "err"}

\* A record in an answer is the one that was asked for.
AnswerOK(j) ==
  j.at = "reply" /\ j.code = 200 =>
    j.ar \in Record /\ (Exact(j.r) => j.ar.anchor = NewAnchor(j.r))

Jobs == /\ job \in [Tasks -> Job]
        /\ granted \in [Requests -> Nat]
        /\ \A t \in Tasks : Fits(job[t], call[t]) /\ AnswerOK(job[t])

Moves(t, j, c) == /\ job' = [job EXCEPT ![t] = j]
                  /\ call' = [call EXCEPT ![t] = c]

Sound == IInv /\ Evidence /\ Jobs

-----------------------------------------------------------------------------
LEMMA JobsMove ==
  ASSUME Jobs, TypeOK, NEW t \in Tasks, NEW j \in Job, NEW c, Moves(t, j, c),
         Fits(j, c), AnswerOK(j), granted' \in [Requests -> Nat]
  PROVE  Jobs'
<1>1. job' \in [Tasks -> Job]
  BY DEF Jobs, Moves
<1>2. \A s \in Tasks : job'[s] = (IF s = t THEN j ELSE job[s])
                       /\ call'[s] = (IF s = t THEN c ELSE call[s])
  BY DEF Jobs, Moves, TypeOK
<1>3. \A s \in Tasks : Fits(job'[s], call'[s]) /\ AnswerOK(job'[s])
  BY <1>2 DEF Jobs
<1> QED  BY <1>1, <1>3 DEF Jobs

LEMMA InitJobs == APIInit => Init /\ Jobs
<1> SUFFICES ASSUME APIInit PROVE Init /\ Jobs
  OBVIOUS
<1>1. \A t \in Tasks : job[t] = Free /\ call[t] = Idle
  BY DEF APIInit, Init
<1>2. Free \in Job /\ Fits(Free, Idle) /\ AnswerOK(Free)
  BY DEF Job, Free, Fits, AnswerOK
<1>3. job \in [Tasks -> Job] /\ granted \in [Requests -> Nat]
  BY <1>2 DEF APIInit
<1> QED  BY <1>1, <1>2, <1>3 DEF APIInit, Jobs

\* The fields of a handler at each place.
LEMMA JobFields ==
  ASSUME Jobs, NEW t \in Tasks
  PROVE  /\ job[t].at \in {"get", "patch", "check", "register", "registering"} =>
              job[t] \in Early
         /\ job[t].at \in {"store", "storing", "read", "reading"} => job[t] \in Late
         /\ job[t].at \in {"free", "get", "patch", "check", "register", "registering",
                           "store", "storing", "read", "reading", "reply"}
         /\ job[t].at # "free" => job[t].r \in Requests /\ job[t].op \in Ops
<1>1. job[t] \in Job
  BY DEF Jobs
<1> QED  BY <1>1 DEF Job, Free, Early, Late, Replying

\* Whatever the first read of GetRecord finds is about what was asked.
LEMMA ReadIsAsked ==
  ASSUME Sound, NEW r \in Requests, recs[CID(r)] # None
  PROVE  /\ recs[CID(r)] \in Record
         /\ Exact(r) => recs[CID(r)].anchor = NewAnchor(r)
<1>1. CID(r) \in Keys
  BY IdsKnown
<1>2. recs[CID(r)] \in Record
  BY <1>1 DEF Sound, IInv, TypeOK
<1>3. RecordOK(CID(r), recs[CID(r)])
  BY <1>1 DEF Sound, Evidence
<1> QED  BY <1>2, <1>3, ExactKey DEF RecordOK, IsAnchorOf

\* GetRecord is called: what comes back fits the place that waits for it.
LEMMA GetRecordFits ==
  ASSUME Sound, NEW t \in Tasks, NEW r \in Requests, NEW read, GetRecord(t, r, read),
         NEW j \in Job, j.at \in {"get", "check", "reading"}, j.r = r,
         job' = [job EXCEPT ![t] = j], UNCHANGED granted
  PROVE  Jobs'
<1>1. \/ recs[CID(r)] # None /\ Moves(t, j, [pc |-> "ok", ar |-> recs[CID(r)]])
      \/ Moves(t, j, [pc |-> "err"])
  BY DEF GetRecord, Goto, Return, Moves
<1>2. AnswerOK(j)
  BY DEF AnswerOK
<1>3. CASE recs[CID(r)] # None /\ Moves(t, j, [pc |-> "ok", ar |-> recs[CID(r)]])
  <2>1. Fits(j, [pc |-> "ok", ar |-> recs[CID(r)]])
    BY <1>3, ReadIsAsked DEF Fits
  <2> QED  BY <1>2, <1>3, <2>1, JobsMove DEF Sound, IInv, Jobs
<1>4. CASE Moves(t, j, [pc |-> "err"])
  <2>1. Fits(j, [pc |-> "err"])
    BY DEF Fits
  <2> QED  BY <1>2, <1>4, <2>1, JobsMove DEF Sound, IInv, Jobs
<1> QED  BY <1>1, <1>3, <1>4

-----------------------------------------------------------------------------
\* One lemma per group of actions: it is a step of the gateway's, and handler and
\* call fit afterwards.

LEMMA ArriveMoves ==
  ASSUME Sound, NEW t \in Tasks, Arrive(t)
  PROVE  Next /\ Jobs'
<1>1. PICK r \in Requests, read \in Reads :
        \/ GetAnchors(t, r, read)
        \/ PostAnchors(t, r, read)
        \/ \E note \in Notes : PatchAnchors(t, r, note, read)
  BY DEF Arrive
<1>2. read \in BOOLEAN
  BY ReadsAssumption
<1>3. CASE GetAnchors(t, r, read)
  <2> DEFINE j == [at |-> "get", op |-> "get", r |-> r]
  <2>1. j \in Job
    BY DEF Job, Early, Ops
  <2>2. GetRecord(t, r, read) /\ job' = [job EXCEPT ![t] = j] /\ UNCHANGED granted
    BY <1>3 DEF GetAnchors, Enter
  <2>3. Jobs'
    BY <2>1, <2>2, GetRecordFits
  <2> QED  BY <1>2, <2>2, <2>3 DEF Next, Request
<1>4. CASE PostAnchors(t, r, read)
  <2> DEFINE j == [at |-> "check", op |-> "post", r |-> r]
  <2>1. j \in Job
    BY DEF Job, Early, Ops
  <2>2. GetRecord(t, r, read) /\ job' = [job EXCEPT ![t] = j] /\ UNCHANGED granted
    BY <1>4 DEF PostAnchors, Enter
  <2>3. Jobs'
    BY <2>1, <2>2, GetRecordFits
  <2> QED  BY <1>2, <2>2, <2>3 DEF Next, Request
<1>5. CASE \E note \in Notes : PatchAnchors(t, r, note, read)
  <2> DEFINE j == [at |-> "patch", op |-> "patch", r |-> r]
  <2>1. PICK note \in Notes : PatchAnchors(t, r, note, read)
    BY <1>5
  <2>2. j \in Job
    BY DEF Job, Early, Ops
  <2>3. /\ RefreshRecord(t, r, None, note, read)
        /\ job' = [job EXCEPT ![t] = j] /\ UNCHANGED granted
    BY <2>1 DEF PatchAnchors, Enter
  <2>4. PICK c : c.pc \in {"refresh", "err"} /\ Goto(t, c)
    BY <2>3 DEF RefreshRecord, Return
  <2>5. Moves(t, j, c) /\ Fits(j, c) /\ AnswerOK(j)
    BY <2>3, <2>4 DEF Moves, Goto, Fits, AnswerOK
  <2>6. Jobs'
    BY <2>2, <2>3, <2>5, JobsMove DEF Sound, IInv, Jobs
  <2> QED  BY <1>2, <2>3, <2>6 DEF Next, Request
<1> QED  BY <1>1, <1>3, <1>4, <1>5

\* A handler answers: with the record only where it has waited for one.
LEMMA ReplyFits ==
  ASSUME Sound, NEW t \in Tasks, NEW code \in {200, 204, 404, 500}, Reply(t, code),
         job[t].at # "free", Goto(t, Idle),
         code = 200 => job[t].at \in {"get", "check", "reading"} /\ OK(t),
         granted' \in [Requests -> Nat]
  PROVE  Jobs'
<1> DEFINE j == [at |-> "reply", op |-> job[t].op, r |-> job[t].r, code |-> code,
                 ar |-> IF code = 200 THEN call[t].ar ELSE None]
<1>1. job[t].r \in Requests /\ job[t].op \in Ops
  BY JobFields DEF Sound
<1>2. code = 200 => /\ call[t].ar \in Record
                    /\ Exact(job[t].r) => call[t].ar.anchor = NewAnchor(job[t].r)
  BY DEF Sound, Jobs, Fits, OK
<1>3. j \in Job
  BY <1>1, <1>2 DEF Job, Replying
<1>4. Moves(t, j, Idle)
  BY DEF Moves, Reply, Goto
<1>5. Fits(j, Idle) /\ AnswerOK(j)
  BY <1>2 DEF Fits, AnswerOK
<1> QED  BY <1>3, <1>4, <1>5, JobsMove DEF Sound, IInv

LEMMA ReplyMoves ==
  ASSUME Sound, NEW t \in Tasks,
         GetAnchorsReply(t) \/ PatchAnchorsReply(t) \/ PostReply(t)
  PROVE  Next /\ Jobs'
<1>1. Done(t) /\ Goto(t, Idle)
  BY DEF GetAnchorsReply, PatchAnchorsReply, PostReply, Returned, Done
<1>2. granted \in [Requests -> Nat]
  BY DEF Sound, Jobs
<1>3. CASE GetAnchorsReply(t)
  <2>1. /\ job[t].at = "get" /\ UNCHANGED granted
        /\ (Reply(t, 200) /\ OK(t)) \/ Reply(t, 404)
    BY <1>3 DEF GetAnchorsReply, Returned
  <2> QED  BY <1>1, <1>2, <2>1, ReplyFits DEF Next, Serve
<1>4. CASE PatchAnchorsReply(t)
  <2>1. /\ job[t].at = "patch" /\ UNCHANGED granted
        /\ Reply(t, 204) \/ Reply(t, 404)
    BY <1>4 DEF PatchAnchorsReply, Returned
  <2> QED  BY <1>1, <1>2, <2>1, ReplyFits DEF Next, Serve
<1>5. CASE PostReply(t)
  <2>1. /\ job[t].at = "reading"
        /\ (Reply(t, 200) /\ OK(t)) \/ Reply(t, 500)
    BY <1>5 DEF PostReply, Returned
  <2>2. job[t].r \in Requests
    BY <2>1, JobFields DEF Sound
  <2>3. granted' \in [Requests -> Nat]
    <3>1. \/ granted' = granted
          \/ granted' = [granted EXCEPT ![job[t].r] = granted[job[t].r] + 1]
      BY <1>5 DEF PostReply
    <3>2. granted[job[t].r] + 1 \in Nat
      BY <1>2, <2>2
    <3> QED  BY <1>2, <3>1, <3>2
  <2> QED  BY <1>1, <2>1, <2>3, ReplyFits DEF Next, Serve
<1> QED  BY <1>3, <1>4, <1>5

\* The method a POST waited for has returned; the handler goes on or answers.
LEMMA PostReturns ==
  ASSUME Sound, NEW t \in Tasks, PostChecked(t) \/ PostRegistered(t) \/ PostStored(t)
  PROVE  Next /\ Jobs'
<1>1. Done(t) /\ Goto(t, Idle) /\ UNCHANGED granted
  BY DEF PostChecked, PostRegistered, PostStored, Returned, Done
<1>2. granted' \in [Requests -> Nat]
  BY <1>1 DEF Sound, Jobs
<1>3. job[t].at \in {"check", "registering", "storing"}
  BY DEF PostChecked, PostRegistered, PostStored, Returned
<1>4. CASE Reply(t, 500)
  <2>1. Jobs'
    BY <1>1, <1>2, <1>3, <1>4, ReplyFits
  <2> QED  BY <1>1, <2>1 DEF Next, Serve
<1>5. CASE ~Reply(t, 500)
  <2>1. \E j \in Job : job' = [job EXCEPT ![t] = j] /\ j.at \in {"register", "store", "read"}
    <3>1. CASE PostChecked(t)
      <4>1. job[t] \in Early /\ job' = [job EXCEPT ![t].at = "register"]
        BY <1>5, <3>1, JobFields DEF PostChecked, Step, Returned, Sound
      <4>2. [job[t] EXCEPT !.at = "register"] \in Job
        BY <4>1 DEF Early, Job
      <4>3. [job[t] EXCEPT !.at = "register"].at = "register"
        BY <4>1 DEF Early
      <4>4. job' = [job EXCEPT ![t] = [job[t] EXCEPT !.at = "register"]]
        BY <4>1
      <4> QED  BY <4>2, <4>3, <4>4
    <3>2. CASE PostRegistered(t)
      <4> DEFINE j == [at |-> "store", op |-> "post", r |-> job[t].r, tx |-> call[t].tx]
      <4>1. job[t].at = "registering" /\ call[t].pc = "ok" /\ job' = [job EXCEPT ![t] = j]
        BY <1>5, <3>2 DEF PostRegistered, Returned, OK
      <4>2. job[t].r \in Requests /\ call[t].tx \in 1..MaxTx
        BY <4>1, JobFields DEF Sound, Jobs, Fits
      <4>3. j \in Job
        BY <4>2 DEF Job, Late, Ops
      <4> QED  BY <4>1, <4>3
    <3>3. CASE PostStored(t)
      <4>1. job[t] \in Late /\ job' = [job EXCEPT ![t].at = "read"]
        BY <1>5, <3>3, JobFields DEF PostStored, Step, Returned, Sound
      <4>2. [job[t] EXCEPT !.at = "read"] \in Job
        BY <4>1 DEF Late, Job
      <4>3. [job[t] EXCEPT !.at = "read"].at = "read"
        BY <4>1 DEF Late
      <4>4. job' = [job EXCEPT ![t] = [job[t] EXCEPT !.at = "read"]]
        BY <4>1
      <4> QED  BY <4>2, <4>3, <4>4
    <3> QED  BY <3>1, <3>2, <3>3
  <2>2. PICK j \in Job : /\ job' = [job EXCEPT ![t] = j]
                         /\ j.at \in {"register", "store", "read"}
    BY <2>1
  <2>3. Moves(t, j, Idle) /\ Fits(j, Idle) /\ AnswerOK(j)
    BY <1>1, <2>2 DEF Moves, Goto, Fits, AnswerOK
  <2>4. Jobs'
    BY <1>2, <2>3, JobsMove DEF Sound, IInv
  <2> QED  BY <1>1, <2>4 DEF Next, Serve
<1> QED  BY <1>4, <1>5

\* A POST calls the next method.
LEMMA PostCalls ==
  ASSUME Sound, NEW t \in Tasks,
         PostRegister(t) \/ PostStore(t) \/ \E read \in Reads : PostRead(t, read)
  PROVE  Next /\ Jobs'
<1>1. UNCHANGED granted /\ granted \in [Requests -> Nat]
  BY DEF Sound, Jobs, PostRegister, PostStore, PostRead
<1>2. CASE PostRegister(t)
  <2> DEFINE j == [job[t] EXCEPT !.at = "registering"]
             c == [pc |-> "register", anchor |-> NewAnchor(job[t].r)]
  <2>1. job[t] \in Early /\ job[t].r \in Requests
    BY <1>2, JobFields DEF PostRegister, Sound
  <2>2. j \in Job /\ j.at = "registering"
    BY <2>1 DEF Early, Job
  <2>3. RegisterTransaction(t, job[t].r) /\ job' = [job EXCEPT ![t] = j]
    BY <1>2 DEF PostRegister, Step
  <2>4. Moves(t, j, c)
    BY <2>3 DEF Moves, RegisterTransaction, Goto
  <2>5. Fits(j, c) /\ AnswerOK(j)
    BY <2>2 DEF Fits, AnswerOK
  <2>6. Jobs'
    BY <1>1, <2>2, <2>4, <2>5, JobsMove DEF Sound, IInv
  <2> QED  BY <2>1, <2>3, <2>6 DEF Next, Request
<1>3. CASE PostStore(t)
  <2> DEFINE j == [job[t] EXCEPT !.at = "storing"]
             c == [pc |-> "store", tx |-> job[t].tx]
  <2>1. job[t] \in Late /\ job[t].tx \in 1..MaxTx
    <3>1. job[t] \in Late
      BY <1>3, JobFields DEF PostStore, Sound
    <3> QED  BY <3>1 DEF Late
  <2>2. j \in Job /\ j.at = "storing"
    BY <2>1 DEF Late, Job
  <2>3. StoreRecord(t, job[t].tx) /\ job' = [job EXCEPT ![t] = j]
    BY <1>3 DEF PostStore, Step
  <2>4. Moves(t, j, c)
    BY <2>3 DEF Moves, StoreRecord, Goto
  <2>5. Fits(j, c) /\ AnswerOK(j)
    BY <2>2 DEF Fits, AnswerOK
  <2>6. Jobs'
    BY <1>1, <2>2, <2>4, <2>5, JobsMove DEF Sound, IInv
  <2>7. job[t].tx \in 0..MaxTx
    BY <2>1
  <2> QED  BY <2>3, <2>6, <2>7 DEF Next, Request
<1>4. CASE \E read \in Reads : PostRead(t, read)
  <2> DEFINE j == [job[t] EXCEPT !.at = "reading"]
  <2>1. PICK read \in Reads : PostRead(t, read)
    BY <1>4
  <2>2. job[t] \in Late /\ job[t].r \in Requests
    BY <2>1, JobFields DEF PostRead, Sound
  <2>3. j \in Job /\ j.at = "reading" /\ j.r = job[t].r
    BY <2>2 DEF Late, Job
  <2>4. GetRecord(t, job[t].r, read) /\ job' = [job EXCEPT ![t] = j]
    BY <2>1 DEF PostRead, Step
  <2>5. Jobs'
    <3> HIDE DEF j
    <3> QED  BY <1>1, <2>2, <2>3, <2>4, GetRecordFits
  <2>6. read \in BOOLEAN
    BY ReadsAssumption
  <2> QED  BY <2>2, <2>4, <2>5, <2>6 DEF Next, Request
<1> QED  BY <1>2, <1>3, <1>4

\* A call goes on under its handler.
LEMMA CallGoesOn ==
  ASSUME Sound, NEW t \in Tasks, NEW c, Goto(t, c), UNCHANGED <<job, granted>>,
         call[t].pc \notin {"idle", "ok", "err"},
         call[t].pc \in {"register", "put", "next", "add"} =>
           /\ c.pc \in {"register", "put", "next", "add", "ok", "err"}
           /\ c.pc = "ok" => c.tx \in 1..MaxTx,
         call[t].pc \in {"store", "storePut"} => c.pc \in {"storePut", "ok", "err"},
         call[t].pc \in {"refresh", "conf", "name", "note"} =>
           c.pc \in {"conf", "name", "note", "ok", "err"}
  PROVE  Jobs'
<1>1. job[t] \in Job /\ Fits(job[t], call[t]) /\ AnswerOK(job[t])
      /\ granted' \in [Requests -> Nat]
  BY DEF Sound, Jobs
<1>2. call[t] # Idle
  BY DEF Idle
<1>3. job[t].at \in {"patch", "registering", "storing"}
  BY <1>1, <1>2, JobFields DEF Fits, Sound
<1>4. Fits(job[t], c)
  BY <1>1, <1>3 DEF Fits
<1>5. Moves(t, job[t], c)
  BY DEF Goto, Moves, Sound, Jobs
<1> QED  BY <1>1, <1>4, <1>5, JobsMove DEF Sound, IInv

LEMMA WaitingMoves ==
  ASSUME Sound, NEW t \in Tasks, Waiting(t)
  PROVE  Next /\ Jobs'
<1>1. Acquire(t) /\ UNCHANGED <<job, granted>>
  BY DEF Waiting
<1>2. CASE SetUTXO(t)
  <2>1. call[t].pc = "register" /\ call[t].anchor \in Anchors
        /\ call[t] \in [pc : {"register", "put"}, anchor : Anchors]
    BY <1>2, CallFields DEF SetUTXO, At, Sound, IInv
  <2>2. \/ Goto(t, [call[t] EXCEPT !.pc = "put"])
        \/ Goto(t, [pc |-> "err"])
    BY <1>2 DEF SetUTXO, Return
  <2>3. [call[t] EXCEPT !.pc = "put"].pc = "put"
    BY <2>1
  <2> QED  BY <1>1, <2>1, <2>2, <2>3, CallGoesOn DEF Next
<1>3. CASE \E ask \in BOOLEAN : StoreGetAnchor(t, ask)
  <2>1. /\ call[t].pc = "store"
        /\ \/ Goto(t, [pc |-> "err"])
           \/ \E ar : Goto(t, [pc |-> "storePut", ar |-> ar])
    BY <1>3 DEF StoreGetAnchor, GetAnchorPanics, At, Return
  <2> QED  BY <1>1, <2>1, CallGoesOn DEF Next
<1>4. CASE \E ask \in BOOLEAN : RefreshGetAnchor(t, ask)
  <2>1. /\ call[t].pc = "refresh"
        /\ \/ Goto(t, [pc |-> "err"])
           \/ \E ar : Goto(t, [pc |-> "conf", key |-> call[t].key, tx |-> call[t].tx,
                               conf |-> ar.conf,
                               name |-> call[t].name, note |-> call[t].note])
    BY <1>4 DEF RefreshGetAnchor, GetAnchorPanics, At, Return
  <2> QED  BY <1>1, <2>1, CallGoesOn DEF Next
<1> QED  BY <1>1, <1>2, <1>3, <1>4 DEF Acquire

LEMMA InsideMoves ==
  ASSUME Sound, NEW t \in Tasks, Inside(t)
  PROVE  Next /\ Jobs'
<1>1. Serve(t) /\ UNCHANGED <<job, granted>> /\ call[t].pc \notin {"ok", "err"}
  BY DEF Inside
<1>2. CASE PutAnchorFails(t)
  <2>1. call[t].pc = "put" /\ Goto(t, [pc |-> "err"])
    BY <1>2 DEF PutAnchorFails, At, Return
  <2> QED  BY <1>1, <2>1, CallGoesOn DEF Next
<1>3. CASE PutAnchorSends(t)
  <2>1. /\ call[t].pc = "put"
        /\ Goto(t, [pc |-> "next", tx |-> xUTXO']) \/ Goto(t, [pc |-> "err"])
    BY <1>3 DEF PutAnchorSends, At, Return
  <2>2. \E c : Goto(t, c) /\ c.pc \in {"next", "err"}
    BY <2>1
  <2> QED  BY <1>1, <2>1, <2>2, CallGoesOn DEF Next
<1>4. CASE \E w \in Outcomes : DropUTXO(t, w) \/ KeepChange(t, w)
  <2>1. call[t].pc \in {"next", "add"} /\ call[t].tx \in 1..MaxTx
        /\ call[t] \in [pc : {"next", "add", "ok"}, tx : 1..MaxTx]
    BY <1>4, CallFields DEF DropUTXO, KeepChange, At, Sound, IInv
  <2>2. \/ \E pc \in {"add", "ok"} : Goto(t, [call[t] EXCEPT !.pc = pc])
        \/ Goto(t, [pc |-> "err"])
    BY <1>4 DEF DropUTXO, KeepChange, Return
  <2>3. \A pc \in {"add", "ok"} : /\ [call[t] EXCEPT !.pc = pc].pc = pc
                                   /\ [call[t] EXCEPT !.pc = pc].tx \in 1..MaxTx
    BY <2>1
  <2> QED  BY <1>1, <2>1, <2>2, <2>3, CallGoesOn DEF Next
<1>5. CASE \E w \in Outcomes : StorePut(t, w)
  <2>1. call[t].pc = "storePut" /\ \E c : Goto(t, c) /\ c.pc \in {"ok", "err"}
    BY <1>5 DEF StorePut, At, Return
  <2> QED  BY <1>1, <2>1, CallGoesOn DEF Next
<1>6. CASE \E w \in Outcomes : \/ RefreshConfirmations(t, w) \/ RefreshName(t, w)
                               \/ RefreshNote(t, w)
  <2>1. /\ call[t].pc \in {"conf", "name", "note"}
        /\ \E c : Goto(t, c) /\ c.pc \in {"name", "note", "ok", "err"}
    BY <1>6 DEF RefreshConfirmations, RefreshName, RefreshNote, At, Return, Updated,
                AfterConf, AfterName
  <2> QED  BY <1>1, <2>1, CallGoesOn DEF Next
<1>7. CASE Done(t)
  BY <1>1, <1>7 DEF Done
<1> QED  BY <1>1, <1>2, <1>3, <1>4, <1>5, <1>6, <1>7 DEF Serve

LEMMA SentMoves ==
  ASSUME Sound, NEW t \in Tasks, Sent(t)
  PROVE  UNCHANGED vars /\ Jobs'
<1>1. /\ job[t].at = "reply" /\ job' = [job EXCEPT ![t] = Free]
      /\ UNCHANGED vars /\ UNCHANGED granted
  BY DEF Sent
<1>2. call[t] = Idle /\ call \in [Tasks -> Call]
  BY <1>1 DEF Sound, Jobs, Fits, IInv, TypeOK
<1>3. Moves(t, Free, Idle)
  BY <1>1, <1>2 DEF Moves, vars
<1>4. Free \in Job /\ Fits(Free, Idle) /\ AnswerOK(Free)
  BY DEF Job, Free, Fits, AnswerOK
<1> QED  BY <1>1, <1>3, <1>4, JobsMove DEF Sound, IInv, Jobs

LEMMA OutsideMoves ==
  ASSUME Sound, StopServer \/ Outside
  PROVE  Next /\ Jobs'
<1>1. CASE StopServer
  <2>1. Stop /\ job' = [t \in Tasks |-> Free] /\ call' = [t \in Tasks |-> Idle]
        /\ UNCHANGED granted
    BY <1>1 DEF StopServer, Stop
  <2>2. Free \in Job /\ Fits(Free, Idle) /\ AnswerOK(Free)
    BY DEF Job, Free, Fits, AnswerOK
  <2> QED  BY <2>1, <2>2 DEF Next, Jobs, Sound
<1>2. CASE Outside
  <2>1. UNCHANGED <<call, job, granted>>
    BY <1>2 DEF Outside, Start, OperatorAdd, Blocks, gwVars
  <2>2. Next
    BY <1>2 DEF Outside, Next
  <2> QED  BY <2>1, <2>2 DEF Jobs, Sound
<1> QED  BY <1>1, <1>2

LEMMA SoundStep == Sound /\ [APINext]_apiVars => [Next]_vars /\ Sound'
<1> SUFFICES ASSUME Sound, [APINext]_apiVars PROVE [Next]_vars /\ Sound'
  OBVIOUS
<1>1. [Next]_vars /\ Jobs'
  <2>1. CASE \E t \in Tasks : Arrive(t)
    BY <2>1, ArriveMoves
  <2>2. CASE \E t \in Tasks : Handle(t)
    BY <2>2, InsideMoves, ReplyMoves, PostReturns, PostCalls, SentMoves DEF Handle
  <2>3. CASE \E t \in Tasks : Waiting(t)
    BY <2>3, WaitingMoves
  <2>4. CASE StopServer \/ Outside
    BY <2>4, OutsideMoves
  <2>5. CASE UNCHANGED apiVars
    BY <2>5 DEF apiVars, vars, Sound, Jobs
  <2> QED  BY <2>1, <2>2, <2>3, <2>4, <2>5 DEF APINext
<1>2. (IInv /\ Evidence)'
  BY <1>1, TypeStep, HoldStep, EvidenceStep DEF IInv, Sound
<1> QED  BY <1>1, <1>2 DEF Sound

LEMMA SoundHolds == APISpec => []Sound
<1>1. APIInit => Sound
  BY InitJobs, InitIInv, InitEvidence DEF Sound
<1> QED  BY <1>1, SoundStep, PTL DEF APISpec

-----------------------------------------------------------------------------
\* The handlers use the gateway as any client may, so whatever GatewayProofs says
\* of its clients is true under them.
THEOREM HandlersUseGateway == APISpec => Spec
<1>1. APIInit => Init
  BY InitJobs
<1> QED  BY <1>1, SoundHolds, SoundStep, PTL DEF APISpec, Spec

\* Under the handlers, whatever requests are served at one time, the gateway keeps
\* the book of anchors.
THEOREM BookKeptUnderAPI == APISpec => KeepsBook
BY HandlersUseGateway, BookKept, PTL

\* With identifiers of the anchor's length every 200 carries the record of what
\* was asked, also when two requests for one digest are served at once.
THEOREM AnswersSound ==
  ASSUME \A r \in Requests : Exact(r)
  PROVE  APISpec => []AnswersAsked
<1>1. Sound => AnswersAsked
  <2> SUFFICES ASSUME Sound, NEW t \in Tasks, job[t].at = "reply", job[t].code = 200
               PROVE  job[t].ar.anchor = NewAnchor(job[t].r)
    BY DEF AnswersAsked
  <2>1. job[t].r \in Requests /\ AnswerOK(job[t])
    BY JobFields DEF Sound, Jobs
  <2> QED  BY <2>1 DEF AnswerOK
<1> QED  BY <1>1, SoundHolds, PTL

-----------------------------------------------------------------------------
\* Where a POST is once its first read found nothing.
Posting == {"register", "registering", "store", "storing", "read", "reading"}

Alone(t) == \A s \in Tasks \ {t} : job'[s] = job[s] /\ call'[s] = call[s]

\* What a step means for the POSTs and what they were granted.
Goes(t) ==
  \/ UNCHANGED granted /\ job'[t].at \in {"free", "get", "patch", "reply"}
  \/ \E r \in Requests, read \in Reads : PostAnchors(t, r, read)
  \/ /\ UNCHANGED granted /\ job[t].at = "check" /\ call[t].pc = "err"
     /\ job'[t].at = "register" /\ job'[t].r = job[t].r
  \/ /\ UNCHANGED granted /\ job[t].at \in Posting
     /\ job'[t].at \in Posting \ {"reading"} /\ job'[t].r = job[t].r
  \/ \E read \in Reads : PostRead(t, read) /\ job'[t].r = job[t].r
  \/ PostReply(t) /\ job'[t].at = "reply"

LEMMA Transition ==
  ASSUME Sound, NEW t \in Tasks, Arrive(t) \/ Handle(t) \/ Waiting(t)
  PROVE  Alone(t) /\ Goes(t)
<1>1. job \in [Tasks -> Job] /\ call \in [Tasks -> Call]
  BY DEF Sound, Jobs, IInv, TypeOK
<1>2. /\ \A s \in Tasks \ {t} : job'[s] = job[s]
      /\ \A s \in Tasks \ {t} : call'[s] = call[s]
  <2>1. CASE Arrive(t)
    BY <1>1, <2>1 DEF Arrive, GetAnchors, PostAnchors, PatchAnchors, Enter, GetRecord,
                      RefreshRecord, Goto, Return
  <2>2. CASE Inside(t)
    BY <1>1, <2>2 DEF Inside, Serve, PutAnchorFails, PutAnchorSends, DropUTXO,
                      KeepChange, StorePut, RefreshConfirmations, RefreshName,
                      RefreshNote, Updated, Done, Goto, Return
  <2>3. CASE Waiting(t)
    BY <1>1, <2>3 DEF Waiting, Acquire, SetUTXO, StoreGetAnchor, RefreshGetAnchor,
                      GetAnchorPanics, Goto, Return
  <2>4. CASE GetAnchorsReply(t) \/ PatchAnchorsReply(t) \/ PostReply(t)
    BY <1>1, <2>4 DEF GetAnchorsReply, PatchAnchorsReply, PostReply, Returned, Reply,
                      Done, Goto
  <2>5. CASE PostChecked(t) \/ PostRegistered(t) \/ PostStored(t)
    BY <1>1, <2>5 DEF PostChecked, PostRegistered, PostStored, Returned, Reply, Step,
                      Done, Goto
  <2>6. CASE PostRegister(t) \/ PostStore(t) \/ \E read \in Reads : PostRead(t, read)
    BY <1>1, <2>6 DEF PostRegister, PostStore, PostRead, Step, RegisterTransaction,
                      StoreRecord, GetRecord, Goto, Return
  <2>7. CASE Sent(t)
    BY <1>1, <2>7 DEF Sent, vars
  <2> QED  BY <2>1, <2>2, <2>3, <2>4, <2>5, <2>6, <2>7 DEF Handle
<1>3. Goes(t)
  <2>1. CASE Arrive(t)
    <3>1. CASE \E r \in Requests, read \in Reads : PostAnchors(t, r, read)
      BY <3>1 DEF Goes
    <3>2. CASE ~\E r \in Requests, read \in Reads : PostAnchors(t, r, read)
      <4>1. UNCHANGED granted /\ job'[t].at \in {"get", "patch"}
        BY <1>1, <2>1, <3>2 DEF Arrive, GetAnchors, PatchAnchors, Enter
      <4> QED  BY <4>1 DEF Goes
    <3> QED  BY <3>1, <3>2
  <2>2. CASE Inside(t) \/ Waiting(t)
    <3>1. UNCHANGED <<job, granted>>
      BY <2>2 DEF Inside, Waiting
    <3>2. call[t].pc \notin {"idle", "ok", "err"}
      BY <2>2 DEF Inside, Waiting, Serve, Acquire, PutAnchorFails, PutAnchorSends,
                  DropUTXO, KeepChange, StorePut, RefreshConfirmations, RefreshName,
                  RefreshNote, Done, SetUTXO, StoreGetAnchor, RefreshGetAnchor, At
    <3>3. call[t] # Idle /\ Fits(job[t], call[t])
      BY <3>2 DEF Idle, Sound, Jobs
    <3>4. job[t].at \in {"patch", "registering", "storing"}
      BY <3>2, <3>3, JobFields DEF Fits, Sound
    <3> QED  BY <3>1, <3>4 DEF Goes, Posting
  <2>3. CASE GetAnchorsReply(t) \/ PatchAnchorsReply(t) \/ PostReply(t)
    <3>1. job'[t].at = "reply"
      BY <1>1, <2>3 DEF GetAnchorsReply, PatchAnchorsReply, PostReply, Reply
    <3>2. PostReply(t) \/ UNCHANGED granted
      BY <2>3 DEF GetAnchorsReply, PatchAnchorsReply
    <3> QED  BY <3>1, <3>2 DEF Goes
  <2>4. CASE PostChecked(t)
    <3>1. /\ UNCHANGED granted /\ job[t].at = "check" /\ job[t] \in Early
          /\ \/ Reply(t, 500)
             \/ call[t].pc = "err" /\ Step(t, "register")
      BY <2>4, JobFields DEF PostChecked, Returned, OK, Done, Sound
    <3>2. CASE Reply(t, 500)
      BY <1>1, <3>1, <3>2 DEF Goes, Reply
    <3>3. CASE call[t].pc = "err" /\ Step(t, "register")
      <4>1. job'[t] = [job[t] EXCEPT !.at = "register"]
        BY <1>1, <3>3 DEF Step
      <4>2. job'[t].at = "register" /\ job'[t].r = job[t].r
        BY <3>1, <4>1 DEF Early
      <4> QED  BY <3>1, <3>3, <4>2 DEF Goes
    <3> QED  BY <3>1, <3>2, <3>3
  <2>5. CASE PostRegistered(t)
    BY <1>1, <2>5 DEF PostRegistered, Returned, Reply, Goes, Posting
  <2>6. CASE PostStored(t)
    <3>1. /\ UNCHANGED granted /\ job[t].at = "storing" /\ job[t] \in Late
          /\ Reply(t, 500) \/ Step(t, "read")
      BY <2>6, JobFields DEF PostStored, Returned, Sound
    <3>2. CASE Reply(t, 500)
      BY <1>1, <3>1, <3>2 DEF Goes, Reply
    <3>3. CASE Step(t, "read")
      <4>1. job'[t] = [job[t] EXCEPT !.at = "read"]
        BY <1>1, <3>3 DEF Step
      <4>2. job'[t].at = "read" /\ job'[t].r = job[t].r
        BY <3>1, <4>1 DEF Late
      <4> QED  BY <3>1, <4>2 DEF Goes, Posting
    <3> QED  BY <3>1, <3>2, <3>3
  <2>7. CASE PostRegister(t) \/ PostStore(t) \/ \E read \in Reads : PostRead(t, read)
    <3>1. /\ UNCHANGED granted
          /\ \/ job[t].at = "register" /\ Step(t, "registering")
             \/ job[t].at = "store" /\ Step(t, "storing")
             \/ job[t].at = "read" /\ \E read \in Reads : PostRead(t, read)
      BY <2>7 DEF PostRegister, PostStore, PostRead, Step
    <3>2. CASE job[t].at = "register" /\ Step(t, "registering")
      <4>1. job'[t] = [job[t] EXCEPT !.at = "registering"] /\ job[t] \in Early
        BY <1>1, <3>2, JobFields DEF Step, Sound
      <4>2. job'[t].at = "registering" /\ job'[t].r = job[t].r
        BY <4>1 DEF Early
      <4> QED  BY <3>1, <3>2, <4>2 DEF Goes, Posting
    <3>3. CASE job[t].at = "store" /\ Step(t, "storing")
      <4>1. job'[t] = [job[t] EXCEPT !.at = "storing"] /\ job[t] \in Late
        BY <1>1, <3>3, JobFields DEF Step, Sound
      <4>2. job'[t].at = "storing" /\ job'[t].r = job[t].r
        BY <4>1 DEF Late
      <4> QED  BY <3>1, <3>3, <4>2 DEF Goes, Posting
    <3>4. CASE job[t].at = "read" /\ \E read \in Reads : PostRead(t, read)
      <4>1. job'[t] = [job[t] EXCEPT !.at = "reading"] /\ job[t] \in Late
        BY <1>1, <3>4, JobFields DEF Step, Sound, PostRead
      <4>2. job'[t].r = job[t].r
        BY <4>1 DEF Late
      <4> QED  BY <3>4, <4>2 DEF Goes
    <3> QED  BY <3>1, <3>2, <3>3, <3>4
  <2>8. CASE Sent(t)
    <3>1. UNCHANGED granted /\ job'[t] = Free
      BY <1>1, <2>8 DEF Sent
    <3> QED  BY <3>1 DEF Goes, Free
  <2> QED  BY <2>1, <2>2, <2>3, <2>4, <2>5, <2>6, <2>7, <2>8 DEF Handle
<1> QED  BY <1>2, <1>3 DEF Alone

\* No step of the gateway removes a record.
LEMMA RecordsStay ==
  ASSUME IInv, [Next]_vars, NEW k \in Keys, recs[k] # None
  PROVE  recs'[k] # None
<1>1. CASE UNCHANGED recs
  BY <1>1
<1>2. CASE \E t \in Tasks, w \in Outcomes : StorePut(t, w)
  <2>1. PICK t \in Tasks, w \in Outcomes : StorePut(t, w)
    BY <1>2
  <2>2. call[t].ar \in Record
    BY <2>1, CallFields DEF StorePut, At, IInv
  <2>3. call[t].ar # None
    BY <2>2, RecordAssumption
  <2> QED  BY <2>1, <2>3 DEF StorePut, Put, After, IInv, TypeOK
<1>3. CASE \E t \in Tasks, w \in Outcomes : \/ RefreshConfirmations(t, w)
                                            \/ RefreshName(t, w) \/ RefreshNote(t, w)
  <2>1. PICK t \in Tasks, w \in Outcomes : \/ RefreshConfirmations(t, w)
                                           \/ RefreshName(t, w) \/ RefreshNote(t, w)
    BY <1>3
  <2>2. PICK j, r : recs[j] # None /\ recs' = [recs EXCEPT ![j] = After(recs[j], r, w)]
                    /\ (j \in Keys => r \in Record)
    <3>1. CASE RefreshConfirmations(t, w)
      <4> DEFINE r == [recs[call[t].key] EXCEPT !.conf = call[t].conf]
      <4>1. call[t].key \in Keys /\ call[t].conf \in Told
        BY <3>1, CallFields DEF RefreshConfirmations, At, IInv
      <4>2. /\ recs[call[t].key] # None
            /\ recs' = [recs EXCEPT ![call[t].key] = After(recs[call[t].key], r, w)]
        BY <3>1 DEF RefreshConfirmations, UpdateConfirmations, UpdateEntity
      <4>3. r \in Record
        BY <4>1, <4>2, FieldsType DEF IInv
      <4> QED  BY <4>2, <4>3
    <3>2. CASE RefreshName(t, w)
      <4> DEFINE r == [recs[call[t].key] EXCEPT !.name = call[t].name]
      <4>1. call[t].key \in Keys /\ call[t].name \in Names
        BY <3>2, CallFields DEF RefreshName, At, IInv
      <4>2. /\ recs[call[t].key] # None
            /\ recs' = [recs EXCEPT ![call[t].key] = After(recs[call[t].key], r, w)]
        BY <3>2 DEF RefreshName, UpdateBBc1DomainName, UpdateEntity
      <4>3. r \in Record
        BY <4>1, <4>2, FieldsType DEF IInv
      <4> QED  BY <4>2, <4>3
    <3>3. CASE RefreshNote(t, w)
      <4> DEFINE r == [recs[call[t].key] EXCEPT !.note = call[t].note]
      <4>1. call[t].key \in Keys /\ call[t].note \in Notes
        BY <3>3, CallFields DEF RefreshNote, At, IInv
      <4>2. /\ recs[call[t].key] # None
            /\ recs' = [recs EXCEPT ![call[t].key] = After(recs[call[t].key], r, w)]
        BY <3>3 DEF RefreshNote, UpdateNote, UpdateEntity
      <4>3. r \in Record
        BY <4>1, <4>2, FieldsType DEF IInv
      <4> QED  BY <4>2, <4>3
    <3> QED  BY <2>1, <3>1, <3>2, <3>3
  <2>3. k \in DOMAIN recs
    BY DEF IInv, TypeOK
  <2>4. CASE j = k
    <3>1. r # None
      BY <2>2, <2>4, RecordAssumption
    <3> QED  BY <2>2, <2>3, <2>4, <3>1 DEF After
  <2>5. CASE j # k
    BY <2>2, <2>3, <2>5
  <2> QED  BY <2>4, <2>5
<1>4. \/ UNCHANGED recs
      \/ \E t \in Tasks, w \in Outcomes : StorePut(t, w)
      \/ \E t \in Tasks, w \in Outcomes : \/ RefreshConfirmations(t, w)
                                           \/ RefreshName(t, w) \/ RefreshNote(t, w)
  <2>1. \A t \in Tasks : Request(t) => UNCHANGED recs
    BY DEF Request, RegisterTransaction, GetRecord, RefreshRecord, StoreRecord
  <2>2. \A t \in Tasks : Acquire(t) => UNCHANGED recs
    BY DEF Acquire, SetUTXO, StoreGetAnchor, RefreshGetAnchor
  <2>3. \A t \in Tasks : PutAnchorFails(t) \/ PutAnchorSends(t) \/ Done(t)
                         => UNCHANGED recs
    BY DEF PutAnchorFails, PutAnchorSends, Done
  <2>4. \A t \in Tasks, w \in Outcomes : DropUTXO(t, w) \/ KeepChange(t, w)
                                         => UNCHANGED recs
    BY DEF DropUTXO, KeepChange
  <2>5. Stop \/ Blocks \/ (\E read \in BOOLEAN : Start(read))
             \/ (\E u \in DOMAIN chain, read \in BOOLEAN, w, wClose \in Outcomes :
                   OperatorAdd(u, read, w, wClose))
             \/ UNCHANGED vars
        => UNCHANGED recs
    BY DEF Stop, Start, OperatorAdd, Blocks, vars
  <2> QED  BY <2>1, <2>2, <2>3, <2>4, <2>5 DEF Next, Serve
<1> QED  BY <1>1, <1>2, <1>3, <1>4

\* What was granted is on record, and so is what the last read of a POST found.
Found == /\ \A r \in Requests : granted[r] > 0 => recs[CID(r)] # None
         /\ \A t \in Tasks : job[t].at = "reading" /\ call[t].pc = "ok" =>
                              recs[CID(job[t].r)] # None

LEMMA FoundStep == Sound /\ Found /\ [APINext]_apiVars => Found'
<1> SUFFICES ASSUME Sound, Found, [APINext]_apiVars PROVE Found'
  OBVIOUS
<1>1. \A r \in Requests : recs[CID(r)] # None => recs'[CID(r)] # None
  BY SoundStep, RecordsStay, IdsKnown DEF Sound
<1>2. granted \in [Requests -> Nat] /\ job \in [Tasks -> Job] /\ call \in [Tasks -> Call]
  BY DEF Sound, Jobs, IInv, TypeOK
<1>3. ASSUME NEW s \in Tasks, job'[s] = job[s], call'[s] = call[s],
             job'[s].at = "reading", call'[s].pc = "ok"
      PROVE  recs'[CID(job'[s].r)] # None
  BY <1>1, <1>3, JobFields DEF Found, Sound
<1>4. ASSUME NEW t \in Tasks, Arrive(t) \/ Handle(t) \/ Waiting(t)
      PROVE  Found'
  <2>1. Alone(t) /\ Goes(t)
    BY <1>4, Transition
  <2>2. ASSUME NEW r \in Requests, granted'[r] > 0
        PROVE  recs'[CID(r)] # None
    <3>1. CASE granted' = granted
      BY <1>1, <2>2, <3>1 DEF Found
    <3>2. CASE PostReply(t)
      <4>1. /\ job[t].at = "reading" /\ call[t].pc = "ok" /\ job[t].r = r
            \/ granted'[r] = granted[r]
        BY <1>2, <3>2 DEF PostReply, Returned, OK
      <4> QED  BY <1>1, <2>2, <4>1 DEF Found
    <3> QED  BY <2>1, <3>1, <3>2 DEF Goes, PostAnchors, PostRead
  <2>3. ASSUME NEW s \in Tasks, job'[s].at = "reading", call'[s].pc = "ok"
        PROVE  recs'[CID(job'[s].r)] # None
    <3>1. CASE s # t
      BY <1>3, <2>1, <2>3, <3>1 DEF Alone
    <3>2. CASE s = t
      <4>1. PICK read \in Reads : PostRead(t, read) /\ job'[t].r = job[t].r
        <5>1. ~\E r \in Requests, read \in Reads : PostAnchors(t, r, read)
          BY <1>2, <2>3, <3>2 DEF PostAnchors, Enter
        <5> QED  BY <2>1, <2>3, <3>2, <5>1 DEF Goes
      <4>2. GetRecord(t, job[t].r, read)
        BY <4>1 DEF PostRead
      <4>3. recs' = recs /\ (call'[t].pc = "ok" => recs[CID(job[t].r)] # None)
        BY <1>2, <4>2 DEF GetRecord, Goto, Return
      <4> QED  BY <2>3, <3>2, <4>1, <4>3
    <3> QED  BY <3>1, <3>2
  <2> QED  BY <2>2, <2>3 DEF Found
<1>5. CASE StopServer
  <2>1. granted' = granted /\ \A s \in Tasks : job'[s].at = "free"
    BY <1>5 DEF StopServer, Free
  <2> QED  BY <1>1, <2>1 DEF Found
<1>6. CASE Outside \/ UNCHANGED apiVars
  <2>1. UNCHANGED <<call, job, granted>>
    BY <1>6 DEF Outside, Start, OperatorAdd, Blocks, gwVars, apiVars, vars
  <2> QED  BY <1>1, <1>3, <2>1 DEF Found
<1> QED  BY <1>4, <1>5, <1>6 DEF APINext

LEMMA FoundHolds == APISpec => [](Sound /\ Found)
<1>1. APIInit => Sound
  BY InitJobs, InitIInv, InitEvidence DEF Sound
<1>2. APIInit => Found
  BY DEF APIInit, Free, Found
<1> QED  BY <1>1, <1>2, SoundStep, FoundStep, PTL DEF APISpec

\* With identifiers of the anchor's length, what was answered with 200 stays on
\* record with a transaction that anchors it, whatever fails and stops later.
THEOREM GrantedStays ==
  ASSUME \A r \in Requests : Exact(r)
  PROVE  APISpec => []AnsweredIsFound
<1>1. Evidence => RecordsOnChain
  <2> SUFFICES ASSUME Evidence, NEW r \in Requests, recs[CID(r)] # None
               PROVE  /\ recs[CID(r)].anchor = NewAnchor(r)
                      /\ recs[CID(r)].btctx \in Txs
                      /\ chain[recs[CID(r)].btctx].anchor = NewAnchor(r)
    BY DEF RecordsOnChain
  <2>1. RecordOK(CID(r), recs[CID(r)])
    BY IdsKnown DEF Evidence
  <2> QED  BY <2>1, ExactKey DEF RecordOK, IsAnchorOf
<1>2. Sound /\ Found => AnsweredIsFound
  BY <1>1 DEF Sound, Found, RecordsOnChain, AnsweredIsFound
<1> QED  BY <1>2, FoundHolds, PTL

-----------------------------------------------------------------------------
\* A POST is only past its check while nothing of its request was granted.
Once == /\ \A r \in Requests : granted[r] <= 1
        /\ \A t \in Tasks :
             \/ job[t].at \in Posting
             \/ job[t].at = "check" /\ call[t].pc = "err"
             => granted[job[t].r] = 0

LEMMA OnceStep ==
  ASSUME \A s, t \in Tasks : s = t, Reads \subseteq {TRUE}
  PROVE  Sound /\ Found /\ Once /\ [APINext]_apiVars => Once'
<1> SUFFICES ASSUME Sound, Found, Once, [APINext]_apiVars PROVE Once'
  OBVIOUS
<1>1. granted \in [Requests -> Nat] /\ job \in [Tasks -> Job] /\ call \in [Tasks -> Call]
  BY DEF Sound, Jobs, IInv, TypeOK
<1>2. ASSUME NEW t \in Tasks, Arrive(t) \/ Handle(t) \/ Waiting(t)
      PROVE  Once'
  <2>1. Goes(t) /\ \A s \in Tasks : s = t
    BY <1>2, Transition
  <2>2. CASE UNCHANGED granted /\ job'[t].at \in {"free", "get", "patch", "reply"}
    BY <2>1, <2>2 DEF Once, Posting
  <2>3. CASE \E r \in Requests, read \in Reads : PostAnchors(t, r, read)
    <3>1. PICK r \in Requests : PostAnchors(t, r, TRUE)
      BY <2>3
    <3>2. /\ job'[t] = [at |-> "check", op |-> "post", r |-> r]
          /\ UNCHANGED granted /\ GetRecord(t, r, TRUE)
      BY <1>1, <3>1 DEF PostAnchors, Enter
    <3>3. call'[t].pc = "err" => recs[CID(r)] = None
      BY <1>1, <3>2 DEF GetRecord, Goto, Return
    <3>4. recs[CID(r)] = None => granted[r] = 0
      BY <1>1 DEF Found
    <3> QED  BY <2>1, <3>2, <3>3, <3>4 DEF Once, Posting
  <2>4. CASE /\ UNCHANGED granted /\ job[t].at = "check" /\ call[t].pc = "err"
             /\ job'[t].at = "register" /\ job'[t].r = job[t].r
    BY <2>1, <2>4 DEF Once
  <2>5. CASE /\ UNCHANGED granted /\ job[t].at \in Posting
             /\ job'[t].at \in Posting \ {"reading"} /\ job'[t].r = job[t].r
    BY <2>1, <2>5 DEF Once
  <2>6. CASE \E read \in Reads : PostRead(t, read) /\ job'[t].r = job[t].r
    <3>1. UNCHANGED granted /\ job[t].at = "read" /\ job'[t].r = job[t].r
      BY <2>6 DEF PostRead
    <3> QED  BY <2>1, <3>1 DEF Once, Posting
  <2>7. CASE PostReply(t) /\ job'[t].at = "reply"
    <3>1. job[t].at = "reading" /\ job[t].r \in Requests
      BY <2>7, JobFields DEF PostReply, Returned, Sound
    <3>2. granted[job[t].r] = 0
      BY <3>1 DEF Once, Posting
    <3>3. \A r \in Requests : granted'[r] <= 1
      BY <1>1, <2>7, <3>1, <3>2 DEF Once, PostReply
    <3> QED  BY <2>1, <2>7, <3>3 DEF Once, Posting
  <2> QED  BY <2>1, <2>2, <2>3, <2>4, <2>5, <2>6, <2>7 DEF Goes
<1>3. CASE StopServer
  <2>1. granted' = granted /\ \A s \in Tasks : job'[s].at = "free"
    BY <1>3 DEF StopServer, Free
  <2> QED  BY <2>1 DEF Once, Posting
<1>4. CASE Outside \/ UNCHANGED apiVars
  <2>1. UNCHANGED <<call, job, granted>>
    BY <1>4 DEF Outside, Start, OperatorAdd, Blocks, gwVars, apiVars, vars
  <2> QED  BY <2>1 DEF Once
<1> QED  BY <1>2, <1>3, <1>4 DEF APINext

\* One request at a time and a store that can be read: a digest is registered for
\* one POST only, however many calls fail, answers get lost and stops come between.
THEOREM SerialPostsOnce ==
  ASSUME \A s, t \in Tasks : s = t, Reads \subseteq {TRUE}
  PROVE  APISpec => []OnePostSucceeds
<1>1. APIInit => Once
  BY DEF APIInit, Free, Once, Posting
<1>2. Once => OnePostSucceeds
  BY DEF Once, OnePostSucceeds
<1>3. Sound /\ Found /\ Once /\ [APINext]_apiVars => Once'
  BY OnceStep
<1> QED  BY <1>1, <1>2, <1>3, FoundHolds, PTL DEF APISpec

-----------------------------------------------------------------------------
\* The POSTs of a request that found no record and have not been answered.
Past(r) == {t \in Tasks : /\ \/ job[t].at \in Posting
                             \/ job[t].at = "check" /\ call[t].pc = "err"
                          /\ job[t].r = r}

\* Once a POST was granted there is a record, and nobody new comes past the check.
Bounded == \A r \in Requests :
             granted[r] > 0 => granted[r] + Cardinality(Past(r)) <= Cardinality(Tasks)

LEMMA FewerPast ==
  ASSUME IsFiniteSet(Tasks), NEW r, Past(r)' \subseteq Past(r)
  PROVE  /\ Cardinality(Past(r)') \in Nat /\ Cardinality(Past(r)) \in Nat
         /\ Cardinality(Past(r)') <= Cardinality(Past(r))
         /\ Cardinality(Past(r)) <= Cardinality(Tasks) /\ Cardinality(Tasks) \in Nat
         /\ \A t \in Past(r) \ Past(r)' : Cardinality(Past(r)') + 1 <= Cardinality(Past(r))
<1>1. Past(r) \subseteq Tasks
  BY DEF Past
<1>2. IsFiniteSet(Past(r)) /\ IsFiniteSet(Past(r)')
  BY <1>1, FS_Subset
<1>3. /\ Cardinality(Past(r)') \in Nat /\ Cardinality(Past(r)) \in Nat
      /\ Cardinality(Tasks) \in Nat
  BY <1>2, FS_CardinalityType
<1>4. /\ Cardinality(Past(r)') <= Cardinality(Past(r))
      /\ Cardinality(Past(r)) <= Cardinality(Tasks)
  BY <1>1, <1>2, FS_Subset
<1>5. ASSUME NEW t \in Past(r) \ Past(r)'
      PROVE  Cardinality(Past(r)') + 1 <= Cardinality(Past(r))
  <2>1. Past(r)' \subseteq Past(r) \ {t}
    BY <1>5
  <2>2. /\ IsFiniteSet(Past(r) \ {t})
        /\ Cardinality(Past(r) \ {t}) = Cardinality(Past(r)) - 1
    BY <1>2, <1>5, FS_RemoveElement
  <2>3. Cardinality(Past(r)') <= Cardinality(Past(r) \ {t})
    BY <2>1, <2>2, FS_Subset
  <2> QED  BY <1>3, <2>2, <2>3
<1> QED  BY <1>3, <1>4, <1>5

\* Nothing was granted in the step, and nobody comes past the check of a request
\* that was granted before.
LEMMA BoundedStays ==
  ASSUME IsFiniteSet(Tasks), Sound, Bounded, UNCHANGED granted,
         \A r \in Requests : granted[r] > 0 => Past(r)' \subseteq Past(r)
  PROVE  Bounded'
<1> SUFFICES ASSUME NEW r \in Requests, granted[r] > 0
             PROVE  granted[r] + Cardinality(Past(r)') <= Cardinality(Tasks)
  BY DEF Bounded
<1>1. granted[r] \in Nat
  BY DEF Sound, Jobs
<1>2. granted[r] + Cardinality(Past(r)) <= Cardinality(Tasks)
  BY DEF Bounded
<1> QED  BY <1>1, <1>2, FewerPast

LEMMA BoundedStep ==
  ASSUME IsFiniteSet(Tasks), Reads \subseteq {TRUE}
  PROVE  Sound /\ Found /\ Bounded /\ [APINext]_apiVars => Bounded'
<1> SUFFICES ASSUME Sound, Found, Bounded, [APINext]_apiVars PROVE Bounded'
  OBVIOUS
<1>1. granted \in [Requests -> Nat] /\ job \in [Tasks -> Job] /\ call \in [Tasks -> Call]
  BY DEF Sound, Jobs, IInv, TypeOK
<1>2. ASSUME NEW t \in Tasks, Arrive(t) \/ Handle(t) \/ Waiting(t)
      PROVE  Bounded'
  <2>1. Goes(t) /\ \A s \in Tasks \ {t} : job'[s] = job[s] /\ call'[s] = call[s]
    BY <1>2, Transition DEF Alone
  <2>2. \A r : Past(r)' \subseteq Past(r) \cup {t}
    BY <2>1 DEF Past
  <2>3. CASE UNCHANGED granted /\ job'[t].at \in {"free", "get", "patch", "reply"}
    <3>1. \A r : t \notin Past(r)'
      BY <2>3 DEF Past, Posting
    <3> QED  BY <2>2, <2>3, <3>1, BoundedStays
  <2>4. CASE \E r \in Requests, read \in Reads : PostAnchors(t, r, read)
    <3>1. PICK r \in Requests : PostAnchors(t, r, TRUE)
      BY <2>4
    <3>2. /\ job'[t] = [at |-> "check", op |-> "post", r |-> r]
          /\ UNCHANGED granted /\ GetRecord(t, r, TRUE)
      BY <1>1, <3>1 DEF PostAnchors, Enter
    <3>3. call'[t].pc = "err" => recs[CID(r)] = None
      BY <1>1, <3>2 DEF GetRecord, Goto, Return
    <3>4. recs[CID(r)] = None => ~(granted[r] > 0)
      BY DEF Found
    <3>5. \A s : t \in Past(s)' => s = r /\ ~(granted[r] > 0)
      BY <3>2, <3>3, <3>4 DEF Past, Posting
    <3> QED  BY <2>2, <3>2, <3>5, BoundedStays
  <2>s. ASSUME UNCHANGED granted,
               job[t].at \in Posting \/ (job[t].at = "check" /\ call[t].pc = "err"),
               job'[t].at # "check", job'[t].r = job[t].r
        PROVE  Bounded'
    <3>1. \A r : t \in Past(r)' => t \in Past(r)
      BY <2>s DEF Past
    <3> QED  BY <2>2, <2>s, <3>1, BoundedStays
  <2>5. CASE /\ UNCHANGED granted /\ job[t].at = "check" /\ call[t].pc = "err"
             /\ job'[t].at = "register" /\ job'[t].r = job[t].r
    <3>1. job'[t].at # "check"
      BY <2>5
    <3> QED  BY <2>5, <2>s, <3>1
  <2>6. CASE /\ UNCHANGED granted /\ job[t].at \in Posting
             /\ job'[t].at \in Posting \ {"reading"} /\ job'[t].r = job[t].r
    <3>1. job'[t].at # "check"
      BY <2>6 DEF Posting
    <3> QED  BY <2>6, <2>s, <3>1
  <2>7. CASE PostReply(t) /\ job'[t].at = "reply"
    <3> DEFINE mine == job[t].r
    <3>1. job[t].at = "reading" /\ mine \in Requests
      BY <2>7, JobFields DEF PostReply, Returned, Sound
    <3>2. /\ t \in Past(mine)
          /\ \A r : t \notin Past(r)'
      BY <2>7, <3>1 DEF Past, Posting
    <3>3. \A r : Past(r)' \subseteq Past(r)
      BY <2>2, <3>2
    <3>4. CASE UNCHANGED granted
      BY <3>3, <3>4, BoundedStays
    <3>5. CASE granted' = [granted EXCEPT ![mine] = granted[mine] + 1]
      <4> SUFFICES ASSUME NEW r \in Requests, granted'[r] > 0
                   PROVE  granted'[r] + Cardinality(Past(r)') <= Cardinality(Tasks)
        BY DEF Bounded
      <4> HIDE DEF mine
      <4>1. granted[r] \in Nat
        BY <1>1
      <4>2. CASE r = mine
        <5>1. granted'[r] = granted[r] + 1
          BY <1>1, <3>1, <3>5, <4>2
        <5>2. granted[r] > 0 => granted[r] + Cardinality(Past(r)) <= Cardinality(Tasks)
          BY DEF Bounded
        <5>3. /\ Cardinality(Past(r)') + 1 <= Cardinality(Past(r))
              /\ Cardinality(Past(r)') \in Nat /\ Cardinality(Past(r)) \in Nat
              /\ Cardinality(Past(r)) <= Cardinality(Tasks) /\ Cardinality(Tasks) \in Nat
          BY <3>2, <3>3, <4>2, FewerPast
        <5> QED  BY <4>1, <5>1, <5>2, <5>3
      <4>3. CASE r # mine
        <5>1. granted'[r] = granted[r]
          BY <1>1, <3>5, <4>3
        <5>2. granted[r] + Cardinality(Past(r)) <= Cardinality(Tasks)
          BY <5>1 DEF Bounded
        <5>3. /\ Cardinality(Past(r)') <= Cardinality(Past(r))
              /\ Cardinality(Past(r)') \in Nat /\ Cardinality(Past(r)) \in Nat
              /\ Cardinality(Tasks) \in Nat
          BY <3>3, FewerPast
        <5> QED  BY <4>1, <5>1, <5>2, <5>3
      <4> QED  BY <4>2, <4>3
    <3> QED  BY <2>7, <3>4, <3>5 DEF PostReply
  <2>8. CASE \E read \in Reads : PostRead(t, read) /\ job'[t].r = job[t].r
    <3>1. /\ UNCHANGED granted /\ job[t].at = "read" /\ job'[t].at = "reading"
          /\ job'[t].r = job[t].r
      BY <1>1, <2>8 DEF PostRead, Step
    <3>2. job[t].at \in Posting /\ job'[t].at # "check"
      BY <3>1 DEF Posting
    <3> QED  BY <2>s, <3>1, <3>2
  <2> QED
    BY <2>1, <2>3, <2>4, <2>5, <2>7, <2>8, <2>6 DEF Goes
<1>3. CASE StopServer
  <2>1. UNCHANGED granted /\ \A s \in Tasks : job'[s].at = "free"
    BY <1>3 DEF StopServer, Free
  <2>2. \A r : Past(r)' = {}
    BY <2>1 DEF Past, Posting
  <2> QED  BY <2>1, <2>2, BoundedStays
<1>4. CASE Outside \/ UNCHANGED apiVars
  <2>1. UNCHANGED <<call, job, granted>>
    BY <1>4 DEF Outside, Start, OperatorAdd, Blocks, gwVars, apiVars, vars
  <2>2. \A r : Past(r)' = Past(r)
    BY <2>1 DEF Past
  <2> QED  BY <2>1, <2>2, BoundedStays
<1> QED  BY <1>2, <1>3, <1>4 DEF APINext

\* While the store can be read, a digest is registered for at most as many POSTs as
\* are served at one time, through every failed call, lost answer and restart: what
\* the race costs that OnePostSucceeds fails by (var.go:35).
THEOREM RacingPosts ==
  ASSUME IsFiniteSet(Tasks), Reads \subseteq {TRUE}
  PROVE  APISpec => [](\A r \in Requests : granted[r] <= Cardinality(Tasks))
<1>1. APIInit => Bounded
  BY DEF APIInit, Bounded
<1>2. Sound /\ Bounded => \A r \in Requests : granted[r] <= Cardinality(Tasks)
  <2> SUFFICES ASSUME Sound, Bounded, NEW r \in Requests
               PROVE  granted[r] <= Cardinality(Tasks)
    OBVIOUS
  <2>1. granted[r] \in Nat
    BY DEF Sound, Jobs
  <2>2. IsFiniteSet(Past(r)) /\ Cardinality(Past(r)) \in Nat /\ Cardinality(Tasks) \in Nat
    <3>1. Past(r) \subseteq Tasks
      BY DEF Past
    <3>2. IsFiniteSet(Past(r))
      BY <3>1, FS_Subset
    <3> QED  BY <3>2, FS_CardinalityType
  <2> QED  BY <2>1, <2>2 DEF Bounded
<1>3. Sound /\ Found /\ Bounded /\ [APINext]_apiVars => Bounded'
  BY BoundedStep
<1> QED  BY <1>1, <1>2, <1>3, FoundHolds, PTL DEF APISpec

-----------------------------------------------------------------------------
\* While a POST has not stored its record, there is none; and the transaction it
\* goes on with carries what it was asked for.

Carries(u, r) == u \in Txs /\ chain[u].anchor = NewAnchor(r)

Unstored(j, c) == \/ j.at \in {"register", "registering", "store"}
                  \/ j.at = "check" /\ c.pc = "err"
                  \/ j.at = "storing" /\ c.pc \in {"store", "storePut"}

Asks(j, c) ==
  /\ j.at = "registering" =>
       /\ c.pc \in {"register", "put"} => c.anchor = NewAnchor(j.r)
       /\ c.pc \in {"next", "add", "ok"} => Carries(c.tx, j.r)
  /\ j.at = "store" => Carries(j.tx, j.r)
  /\ j.at = "storing" => /\ c.pc = "store" => Carries(c.tx, j.r)
                         /\ c.pc = "storePut" => c.ar.anchor = NewAnchor(j.r)

Fresh == \A t \in Tasks :
           /\ Unstored(job[t], call[t]) => recs[CID(job[t].r)] = None
           /\ Asks(job[t], call[t])

\* Places where the request and the call matter no longer.
LEMMA FreshEnds ==
  ASSUME NEW t \in Tasks, \A s \in Tasks : s = t,
         job'[t].at \in {"free", "get", "patch", "read", "reading", "reply"}
  PROVE  Fresh'
BY DEF Fresh, Unstored, Asks

LEMMA FreshOne ==
  ASSUME NEW t \in Tasks, \A s \in Tasks : s = t,
         recs'[CID(job'[t].r)] = None, Asks(job[t], call[t])'
  PROVE  Fresh'
BY DEF Fresh

LEMMA FreshStays ==
  ASSUME Fresh, Grows, UNCHANGED <<job, call, recs>>
  PROVE  Fresh'
BY DEF Fresh, Unstored, Asks, Carries, Grows

LEMMA FreshHandler ==
  ASSUME Sound, Fresh, NEW t \in Tasks, \A s \in Tasks : s = t, Reads \subseteq {TRUE},
         \/ Arrive(t) \/ Sent(t) \/ GetAnchorsReply(t) \/ PatchAnchorsReply(t)
         \/ PostReply(t) \/ PostStored(t) \/ \E read \in Reads : PostRead(t, read)
         \/ PostChecked(t) \/ PostRegister(t) \/ PostRegistered(t) \/ PostStore(t)
  PROVE  Fresh'
<1>1. job \in [Tasks -> Job] /\ call \in [Tasks -> Call]
  BY DEF Sound, Jobs, IInv, TypeOK
<1>2. ASSUME NEW code, Reply(t, code)
      PROVE  Fresh'
  <2>1. job'[t].at = "reply"
    BY <1>1, <1>2 DEF Reply
  <2> QED  BY <2>1, FreshEnds
<1>3. CASE Arrive(t)
  <2>1. CASE \E r \in Requests, read \in Reads : PostAnchors(t, r, read)
    <3>1. PICK r \in Requests : PostAnchors(t, r, TRUE)
      BY <2>1
    <3>2. /\ job'[t] = [at |-> "check", op |-> "post", r |-> r]
          /\ GetRecord(t, r, TRUE) /\ recs' = recs
      BY <1>1, <3>1 DEF PostAnchors, Enter, GetRecord
    <3>3. call'[t].pc = "err" => recs[CID(r)] = None
      BY <1>1, <3>2 DEF GetRecord, Goto, Return
    <3> QED  BY <3>2, <3>3 DEF Fresh, Unstored, Asks
  <2>2. CASE ~\E r \in Requests, read \in Reads : PostAnchors(t, r, read)
    <3>1. job'[t].at \in {"get", "patch"}
      BY <1>1, <1>3, <2>2 DEF Arrive, GetAnchors, PatchAnchors, Enter
    <3> QED  BY <3>1, FreshEnds
  <2> QED  BY <2>1, <2>2
<1>4. CASE Sent(t)
  <2>1. job'[t].at = "free"
    BY <1>1, <1>4 DEF Sent, Free
  <2> QED  BY <2>1, FreshEnds
<1>5. CASE GetAnchorsReply(t) \/ PatchAnchorsReply(t) \/ PostReply(t)
  BY <1>2, <1>5 DEF GetAnchorsReply, PatchAnchorsReply, PostReply
<1>6. CASE PostStored(t) \/ \E read \in Reads : PostRead(t, read)
  <2>1. (\E code : Reply(t, code)) \/ Step(t, "read") \/ Step(t, "reading")
    BY <1>6 DEF PostStored, PostRead
  <2>2. ASSUME NEW at \in {"read", "reading"}, Step(t, at)
        PROVE  Fresh'
    <3>1. job[t].at \in {"storing", "read"}
      BY <1>6 DEF PostStored, PostRead, Returned
    <3>2. job[t] \in Late /\ job'[t] = [job[t] EXCEPT !.at = at]
      BY <1>1, <2>2, <3>1, JobFields DEF Step, Sound
    <3>3. job'[t].at = at
      BY <3>2 DEF Late
    <3> QED  BY <3>3, FreshEnds
  <2> QED  BY <1>2, <2>1, <2>2
<1>7. CASE PostChecked(t)
  <2>1. /\ job[t].at = "check" /\ job[t] \in Early /\ recs' = recs
        /\ \/ Reply(t, 500)
           \/ call[t].pc = "err" /\ Step(t, "register")
    BY <1>7, JobFields DEF PostChecked, Returned, OK, Done, Sound
  <2>2. CASE call[t].pc = "err" /\ Step(t, "register")
    <3>1. job'[t] = [job[t] EXCEPT !.at = "register"]
      BY <1>1, <2>2 DEF Step
    <3>2. job'[t].at = "register" /\ job'[t].r = job[t].r
      BY <2>1, <3>1 DEF Early
    <3>3. recs[CID(job[t].r)] = None
      BY <2>1, <2>2 DEF Fresh, Unstored
    <3> QED  BY <2>1, <3>2, <3>3 DEF Fresh, Asks
  <2> QED  BY <1>2, <2>1, <2>2
<1>8. CASE PostRegister(t)
  <2>1. /\ job[t].at = "register" /\ job[t] \in Early /\ recs' = recs
        /\ job'[t] = [job[t] EXCEPT !.at = "registering"]
        /\ call'[t] = [pc |-> "register", anchor |-> NewAnchor(job[t].r)]
    BY <1>1, <1>8, JobFields DEF PostRegister, RegisterTransaction, Goto, Step, Sound
  <2>2. job'[t].at = "registering" /\ job'[t].r = job[t].r
    BY <2>1 DEF Early
  <2>3. recs[CID(job[t].r)] = None
    BY <2>1 DEF Fresh, Unstored
  <2>4. Asks(job[t], call[t])'
    BY <2>1, <2>2 DEF Asks
  <2>5. recs'[CID(job'[t].r)] = None
    BY <2>1, <2>2, <2>3
  <2> QED  BY <2>4, <2>5, FreshOne
<1>9. CASE PostRegistered(t)
  <2>1. job[t].at = "registering" /\ UNCHANGED <<recs, chain>>
    BY <1>9 DEF PostRegistered, Returned, Done, cliVars
  <2>2. CASE OK(t)
    <3>1. job'[t] = [at |-> "store", op |-> "post", r |-> job[t].r, tx |-> call[t].tx]
      BY <1>1, <1>9, <2>2 DEF PostRegistered
    <3>2. recs[CID(job[t].r)] = None
      BY <2>1 DEF Fresh, Unstored
    <3>3. chain'[call[t].tx].anchor = NewAnchor(job[t].r) /\ call[t].tx \in Txs'
      BY <2>1, <2>2 DEF Fresh, Asks, OK, Carries, Txs
    <3>4. Asks(job[t], call[t])'
      BY <3>1, <3>3 DEF Asks, Carries
    <3>5. recs'[CID(job'[t].r)] = None
      BY <2>1, <3>1, <3>2
    <3> QED  BY <3>4, <3>5, FreshOne
  <2> QED  BY <1>2, <1>9, <2>2 DEF PostRegistered
<1>10. CASE PostStore(t)
  <2>1. /\ job[t].at = "store" /\ job[t] \in Late /\ UNCHANGED <<recs, chain>>
        /\ job'[t] = [job[t] EXCEPT !.at = "storing"]
        /\ call'[t] = [pc |-> "store", tx |-> job[t].tx]
    BY <1>1, <1>10, JobFields DEF PostStore, StoreRecord, Goto, Step, Sound, cliVars
  <2>2. job'[t].at = "storing" /\ job'[t].r = job[t].r
    BY <2>1 DEF Late
  <2>3. Carries(job[t].tx, job[t].r) /\ recs[CID(job[t].r)] = None
    BY <2>1 DEF Fresh, Unstored, Asks
  <2>4. call'[t].tx \in Txs' /\ chain'[call'[t].tx].anchor = NewAnchor(job'[t].r)
    BY <2>1, <2>2, <2>3 DEF Carries, Txs
  <2>5. Asks(job[t], call[t])'
    BY <2>1, <2>2, <2>4 DEF Asks, Carries
  <2>6. recs'[CID(job'[t].r)] = None
    BY <2>1, <2>2, <2>3
  <2> QED  BY <2>5, <2>6, FreshOne
<1> QED  BY <1>3, <1>4, <1>5, <1>6, <1>7, <1>8, <1>9, <1>10

\* A call goes on under its handler.
LEMMA FreshCall ==
  ASSUME Sound, Fresh, NEW t \in Tasks, \A s \in Tasks : s = t, Inside(t) \/ Waiting(t)
  PROVE  Fresh'
<1>1. /\ job \in [Tasks -> Job] /\ call \in [Tasks -> Call] /\ UNCHANGED job
      /\ TypeOK /\ Fits(job[t], call[t])
  BY DEF Sound, Jobs, IInv, TypeOK, Inside, Waiting
<1>2. call[t].pc \notin {"idle", "ok", "err"}
  BY DEF Inside, Waiting, Serve, Acquire, PutAnchorFails, PutAnchorSends,
         DropUTXO, KeepChange, StorePut, RefreshConfirmations, RefreshName,
         RefreshNote, Done, SetUTXO, StoreGetAnchor, RefreshGetAnchor, At
<1>3. job[t].at \in {"patch", "registering", "storing"}
  <2>1. call[t] # Idle
    BY <1>2 DEF Idle
  <2> QED  BY <1>1, <1>2, <2>1, JobFields DEF Fits, Sound
<1>4. CASE job[t].at = "patch"
  BY <1>1, <1>4, FreshEnds
<1>5. CASE job[t].at = "storing"
  <2>1. call[t].pc \in {"store", "storePut"}
    BY <1>1, <1>2, <1>5 DEF Fits
  <2>2. CASE \E w \in Outcomes : StorePut(t, w)
    <3>1. call'[t].pc \in {"ok", "err"}
      BY <1>1, <2>2 DEF StorePut, Return, Goto
    <3> QED  BY <1>1, <1>5, <3>1 DEF Fresh, Unstored, Asks
  <2>3. CASE \E ask \in BOOLEAN : StoreGetAnchor(t, ask)
    <3>1. /\ call[t].pc = "store" /\ UNCHANGED <<recs, chain>>
          /\ \/ \E ar \in GetAnchor(call[t].tx) : call'[t] = [pc |-> "storePut", ar |-> ar]
             \/ call'[t] = [pc |-> "err"]
      BY <1>1, <2>3 DEF StoreGetAnchor, GetAnchorPanics, At, Return, Goto, cliVars
    <3>2. chain[call[t].tx].anchor = NewAnchor(job[t].r) /\ recs[CID(job[t].r)] = None
      BY <1>5, <3>1 DEF Fresh, Unstored, Asks, Carries
    <3>3. Asks(job[t], call[t])'
      <4>1. CASE call'[t] = [pc |-> "err"]
        BY <1>1, <1>5, <4>1 DEF Asks
      <4>2. ASSUME NEW ar \in GetAnchor(call[t].tx), call'[t] = [pc |-> "storePut", ar |-> ar]
            PROVE  Asks(job[t], call[t])'
        <5>1. ar.anchor = NewAnchor(job[t].r)
          <6>1. PICK c \in ParseTransactionConfirmations(Confirmations(chain[call[t].tx])) :
                  ar = [anchor |-> chain[call[t].tx].anchor, btctx |-> call[t].tx,
                        conf |-> c, name |-> "", note |-> ""]
            BY <4>2 DEF GetAnchor
          <6> QED  BY <3>2, <6>1
        <5>2. call'[t].pc = "storePut" /\ call'[t].ar.anchor = NewAnchor(job[t].r)
          BY <4>2, <5>1
        <5> QED  BY <1>1, <1>5, <5>2 DEF Asks
      <4> QED  BY <3>1, <4>1, <4>2
    <3> QED  BY <1>1, <3>1, <3>2, <3>3, FreshOne
  <2> QED  BY <2>1, <2>2, <2>3
           DEF Inside, Waiting, Serve, Acquire, PutAnchorFails, PutAnchorSends,
               DropUTXO, KeepChange, RefreshConfirmations, RefreshName, RefreshNote,
               Done, SetUTXO, RefreshGetAnchor, At
<1>6. CASE job[t].at = "registering"
  <2>1. call[t].pc \in {"register", "put", "next", "add"}
    BY <1>1, <1>2, <1>6 DEF Fits
  <2>2. recs[CID(job[t].r)] = None /\ Asks(job[t], call[t])
    BY <1>6 DEF Fresh, Unstored
  <2>3. SUFFICES recs' = recs /\ Asks(job[t], call[t])'
    BY <1>1, <2>2, FreshOne
  <2>4. CASE SetUTXO(t)
    <3>1. /\ call[t].pc = "register" /\ recs' = recs
          /\ \/ call'[t] = [call[t] EXCEPT !.pc = "put"]
             \/ call'[t] = [pc |-> "err"]
      BY <1>1, <2>4 DEF SetUTXO, At, Return, Goto
    <3>2. call'[t].pc \in {"put", "err"}
          /\ (call'[t].pc = "put" => call'[t].anchor = call[t].anchor)
      BY <1>1, <3>1, CallFields
    <3> QED  BY <1>1, <1>6, <2>2, <3>1, <3>2 DEF Asks
  <2>5. CASE PutAnchorFails(t)
    <3>1. recs' = recs /\ call'[t].pc = "err"
      BY <1>1, <2>5 DEF PutAnchorFails, Return, Goto
    <3> QED  BY <1>1, <1>6, <3>1 DEF Asks
  <2>6. CASE PutAnchorSends(t)
    <3>1. /\ call[t].pc = "put" /\ recs' = recs
          /\ call[t].anchor = NewAnchor(job[t].r) /\ call[t].anchor \in Anchors
      BY <1>1, <1>6, <2>2, <2>6, CallFields DEF PutAnchorSends, At, Asks
    <3>2. CASE Return(t, "err")
      <4>1. call'[t].pc = "err"
        BY <1>1, <3>2 DEF Return, Goto
      <4> QED  BY <1>1, <1>6, <3>1, <4>1 DEF Asks
    <3>3. CASE /\ PutAnchor(GwNet, call[t].anchor, TRUE)
               /\ Goto(t, [pc |-> "next", tx |-> xUTXO'])
      <4>1. call'[t].pc = "next" /\ call'[t].tx = Len(chain')
        BY <1>1, <3>3 DEF Goto, PutAnchor
      <4>2. Len(chain') \in Txs' /\ chain'[Len(chain')].anchor = NewAnchor(job[t].r)
        BY <1>1, <3>1, <3>3, SendType
      <4> QED  BY <1>1, <1>6, <3>1, <4>1, <4>2 DEF Asks, Carries
    <3> QED  BY <2>6, <3>2, <3>3 DEF PutAnchorSends
  <2>7. CASE \E w \in Outcomes : DropUTXO(t, w) \/ KeepChange(t, w)
    <3>1. /\ call[t].pc \in {"next", "add"} /\ UNCHANGED <<recs, chain>>
          /\ \/ \E pc \in {"add", "ok"} : call'[t] = [call[t] EXCEPT !.pc = pc]
             \/ call'[t] = [pc |-> "err"]
      BY <1>1, <2>7 DEF DropUTXO, KeepChange, At, Return, Goto, cliVars
    <3>2. call'[t].pc \in {"add", "ok", "err"}
          /\ (call'[t].pc # "err" => call'[t].tx = call[t].tx)
      BY <1>1, <3>1, CallFields
    <3>3. call[t].tx \in Txs' /\ chain'[call[t].tx].anchor = NewAnchor(job[t].r)
      BY <1>6, <2>2, <3>1 DEF Asks, Carries, Txs
    <3> QED  BY <1>1, <1>6, <3>1, <3>2, <3>3 DEF Asks, Carries
  <2> QED  BY <2>1, <2>4, <2>5, <2>6, <2>7
           DEF Inside, Waiting, Serve, Acquire, StorePut, RefreshConfirmations,
               RefreshName, RefreshNote, Done, StoreGetAnchor, RefreshGetAnchor, At
<1> QED  BY <1>3, <1>4, <1>5, <1>6

LEMMA FreshStep ==
  ASSUME \A s, t \in Tasks : s = t, Reads \subseteq {TRUE}
  PROVE  Sound /\ Fresh /\ [APINext]_apiVars => Fresh'
<1> SUFFICES ASSUME Sound, Fresh, [APINext]_apiVars PROVE Fresh'
  OBVIOUS
<1>1. ASSUME NEW t \in Tasks, Arrive(t) \/ Handle(t) \/ Waiting(t)
      PROVE  Fresh'
  BY <1>1, FreshHandler, FreshCall DEF Handle
<1>2. CASE StopServer
  <2>1. \A t \in Tasks : job'[t].at = "free"
    BY <1>2 DEF StopServer, Free
  <2> QED  BY <2>1 DEF Fresh, Unstored, Asks
<1>3. CASE Outside \/ UNCHANGED apiVars
  <2>1. UNCHANGED <<call, job, recs>>
    BY <1>3 DEF Outside, Start, OperatorAdd, Blocks, gwVars, apiVars, vars
  <2>2. Grows
    BY SoundStep, LedgerGrows DEF Sound
  <2> QED  BY <2>1, <2>2, FreshStays
<1> QED  BY <1>1, <1>2, <1>3 DEF APINext

LEMMA ExactCID ==
  ASSUME NEW r \in Requests, Exact(r)
  PROVE  CID(NewAnchor(r)) = CID(r)
<1>1. r[1] \in Seq(Nat) /\ r[2] \in Seq(Nat)
  BY GatewayAssumption
<1>2. ASSUME NEW s \in Seq(Nat), Len(s) = IDLen
      PROVE  Fixed(s) = s
  <2>1. s = [i \in 1..IDLen |-> s[i]]
    BY <1>2
  <2>2. \A i \in 1..IDLen : i <= Len(s)
    BY <1>2, IDLenAssumption
  <2> QED  BY <2>1, <2>2 DEF Fixed
<1>3. Fixed(r[1]) = r[1] /\ Fixed(r[2]) = r[2]
  BY <1>1, <1>2 DEF Exact
<1>4. NewAnchor(r)[1] = Fixed(r[1]) /\ NewAnchor(r)[2] = Fixed(r[2])
  BY DEF NewAnchor
<1> QED  BY <1>3, <1>4 DEF CID

\* The empty string behind a name: the SMT backend cannot take it as a literal.
Says(note) == note # ""

\* What a PATCH set and what a POST may write.
LEMMA NotesStep ==
  ASSUME \A s, t \in Tasks : s = t, \A r \in Requests : Exact(r), \A n \in Notes : Says(n),
         Sound, Fresh, APINext, NEW k \in Keys, recs[k] # None, Says(recs[k].note)
  PROVE  recs'[k] # None /\ Says(recs'[k].note)
<1>1. recs \in [Keys -> Record \cup {None}] /\ TypeOK
  BY DEF Sound, IInv, TypeOK
<1>2. CASE recs' = recs
  BY <1>2
<1>3. recs'[k] # None
  BY SoundStep, RecordsStay DEF Sound
<1>4. ASSUME NEW t \in Tasks, NEW w \in Outcomes, StorePut(t, w)
      PROVE  recs' = [recs EXCEPT ![CID(job[t].r)] = After(None, call[t].ar, w)]
             /\ k # CID(job[t].r)
  <2>1. call[t].pc = "storePut"
    BY <1>4 DEF StorePut, At
  <2>2. job[t].at = "storing"
    <3>1. Fits(job[t], call[t]) /\ call[t] # Idle
      <4>1. Fits(job[t], call[t])
        BY DEF Sound, Jobs
      <4>2. call[t] # Idle
        BY <2>1 DEF Idle
      <4> QED  BY <4>1, <4>2
    <3>2. job[t].at \in {"free", "get", "patch", "check", "register", "registering",
                          "store", "storing", "read", "reading", "reply"}
      BY JobFields DEF Sound
    <3>3. job[t].at \notin {"free", "register", "store", "read", "reply", "get",
                             "check", "reading", "patch", "registering"}
      BY <2>1, <3>1 DEF Fits
    <3> QED  BY <3>2, <3>3
  <2>3. job[t].r \in Requests
    BY <2>2, JobFields DEF Sound
  <2>4. call[t].ar.anchor = NewAnchor(job[t].r) /\ recs[CID(job[t].r)] = None
    BY <2>1, <2>2 DEF Fresh, Unstored, Asks
  <2>5. CID(call[t].ar.anchor) = CID(job[t].r)
    BY <2>3, <2>4, ExactCID
  <2> QED  BY <1>4, <2>4, <2>5 DEF StorePut, Put
\* An update keeps the note or sets one.
<1>5. ASSUME NEW t \in Tasks, NEW w \in Outcomes,
             RefreshConfirmations(t, w) \/ RefreshName(t, w) \/ RefreshNote(t, w)
      PROVE  Says(recs'[k].note)
  <2>1. PICK j, r : /\ recs[j] # None
                    /\ recs' = [recs EXCEPT ![j] = After(recs[j], r, w)]
                    /\ j \in Keys => Says(r.note) \/ r.note = recs[j].note
    <3>1. CASE RefreshConfirmations(t, w)
      <4> DEFINE key == call[t].key
                 r == [recs[key] EXCEPT !.conf = call[t].conf]
      <4>1. /\ recs[key] # None
            /\ recs' = [recs EXCEPT ![key] = After(recs[key], r, w)]
        BY <3>1 DEF RefreshConfirmations, UpdateConfirmations, UpdateEntity
      <4>2. key \in Keys => r.note = recs[key].note
        BY <1>1, <4>1 DEF Record
      <4> QED  BY <4>1, <4>2
    <3>2. CASE RefreshName(t, w)
      <4> DEFINE key == call[t].key
                 r == [recs[key] EXCEPT !.name = call[t].name]
      <4>1. /\ recs[key] # None
            /\ recs' = [recs EXCEPT ![key] = After(recs[key], r, w)]
        BY <3>2 DEF RefreshName, UpdateBBc1DomainName, UpdateEntity
      <4>2. key \in Keys => r.note = recs[key].note
        BY <1>1, <4>1 DEF Record
      <4> QED  BY <4>1, <4>2
    <3>3. CASE RefreshNote(t, w)
      <4> DEFINE key == call[t].key
                 r == [recs[key] EXCEPT !.note = call[t].note]
      <4>1. /\ recs[key] # None
            /\ recs' = [recs EXCEPT ![key] = After(recs[key], r, w)]
        BY <3>3 DEF RefreshNote, UpdateNote, UpdateEntity
      <4>2. Says(call[t].note)
        BY <1>1, <3>3, CallFields DEF RefreshNote, At
      <4>3. key \in Keys => r.note = call[t].note
        BY <1>1, <4>1 DEF Record
      <4> QED  BY <4>1, <4>2, <4>3
    <3> QED  BY <1>5, <3>1, <3>2, <3>3
  <2>2. CASE j = k
    <3>1. recs'[k] \in {recs[k], r}
      BY <1>1, <2>1, <2>2 DEF After
    <3> QED  BY <2>1, <2>2, <3>1
  <2>3. CASE j # k
    <3>1. recs'[k] = recs[k]
      BY <1>1, <2>1, <2>3
    <3> QED  BY <3>1
  <2> QED  BY <2>2, <2>3
<1>6. CASE \E t \in Tasks, w \in Outcomes : StorePut(t, w)
  <2>1. recs'[k] = recs[k]
    BY <1>1, <1>4, <1>6
  <2> QED  BY <2>1
<1>7. \/ recs' = recs
      \/ \E t \in Tasks, w \in Outcomes : StorePut(t, w)
      \/ \E t \in Tasks, w \in Outcomes :
           RefreshConfirmations(t, w) \/ RefreshName(t, w) \/ RefreshNote(t, w)
  <2>1. \A t \in Tasks : Arrive(t) => recs' = recs
    <3>1. \A t \in Tasks, r \in Requests, read \in Reads :
            GetAnchors(t, r, read) \/ PostAnchors(t, r, read) => recs' = recs
      BY DEF GetAnchors, PostAnchors, GetRecord
    <3>2. \A t \in Tasks, r \in Requests, read \in Reads, note \in Notes :
            PatchAnchors(t, r, note, read) => recs' = recs
      BY DEF PatchAnchors, RefreshRecord
    <3> QED  BY <3>1, <3>2 DEF Arrive
  <2>2. \A t \in Tasks : Waiting(t) => recs' = recs
    <3>1. \A t \in Tasks : SetUTXO(t) => recs' = recs
      BY DEF SetUTXO
    <3>2. \A t \in Tasks, ask \in BOOLEAN : StoreGetAnchor(t, ask) => recs' = recs
      BY DEF StoreGetAnchor
    <3>3. \A t \in Tasks, ask \in BOOLEAN : RefreshGetAnchor(t, ask) => recs' = recs
      BY DEF RefreshGetAnchor
    <3> QED  BY <3>1, <3>2, <3>3 DEF Waiting, Acquire
  <2>3. ASSUME NEW t \in Tasks, Inside(t), \A w \in Outcomes : ~StorePut(t, w),
               \A w \in Outcomes : ~RefreshConfirmations(t, w) /\ ~RefreshName(t, w)
                                   /\ ~RefreshNote(t, w)
        PROVE  recs' = recs
    BY <2>3 DEF Inside, Serve, PutAnchorFails, PutAnchorSends, DropUTXO, KeepChange, Done
  <2>4. \A t \in Tasks : GetAnchorsReply(t) \/ PatchAnchorsReply(t) \/ PostReply(t)
                         => recs' = recs
    BY DEF GetAnchorsReply, PatchAnchorsReply, PostReply, Returned, Done
  <2>5. \A t \in Tasks : PostChecked(t) \/ PostRegistered(t) \/ PostStored(t)
                         => recs' = recs
    BY DEF PostChecked, PostRegistered, PostStored, Returned, Done
  <2>6. \A t \in Tasks : \/ PostRegister(t) \/ PostStore(t) \/ Sent(t)
                         \/ \E read \in Reads : PostRead(t, read)
                         => recs' = recs
    BY DEF PostRegister, PostStore, PostRead, RegisterTransaction, StoreRecord,
           GetRecord, Sent, vars
  <2>7. \A t \in Tasks : Handle(t) => recs' = recs \/ Inside(t)
    BY <2>4, <2>5, <2>6 DEF Handle
  <2>8. StopServer \/ Outside => recs' = recs
    BY DEF StopServer, Stop, Outside, Start, OperatorAdd, Blocks
  <2>9. CASE \E t \in Tasks : Arrive(t) \/ Handle(t) \/ Waiting(t)
    BY <2>1, <2>2, <2>3, <2>7, <2>9
  <2> QED  BY <2>8, <2>9 DEF APINext
<1> QED  BY <1>2, <1>3, <1>5, <1>6, <1>7

\* One request at a time and a store that can be read: a note that a PATCH set is
\* not erased by a later POST, when no PATCH sets the empty note.
THEOREM SerialKeepsNotes ==
  ASSUME \A s, t \in Tasks : s = t, Reads \subseteq {TRUE},
         \A r \in Requests : Exact(r), "" \notin Notes
  PROVE  APISpec => NotesStay
<1>1. APIInit => Fresh
  <2> SUFFICES ASSUME APIInit PROVE Fresh
    OBVIOUS
  <2>1. \A t \in Tasks : job[t].at = "free"
    BY DEF APIInit, Free
  <2>2. \A t \in Tasks : ~Unstored(job[t], call[t]) /\ Asks(job[t], call[t])
    BY <2>1 DEF Unstored, Asks
  <2> QED  BY <2>2 DEF Fresh
<1>2. Sound /\ Fresh /\ [APINext]_apiVars => Fresh'
  BY FreshStep
<1>3. Sound /\ Fresh /\ [APINext]_apiVars =>
        [\A k \in Keys : recs[k] # None /\ recs[k].note # "" =>
                           recs'[k] # None /\ recs'[k].note # ""]_apiVars
  <2>1. \A n \in Notes : Says(n)
    BY DEF Says
  <2>2. Sound /\ Fresh /\ APINext =>
          \A k \in Keys : recs[k] # None /\ Says(recs[k].note) =>
                             recs'[k] # None /\ Says(recs'[k].note)
    BY <2>1, NotesStep
  <2> QED  BY <2>2 DEF Says
<1> QED  BY <1>1, <1>2, <1>3, SoundHolds, PTL DEF APISpec, NotesStay

=============================================================================

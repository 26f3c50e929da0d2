----------------------------- MODULE AnchorAPI -----------------------------
(***************************************************************************)
(* api/anchor-api.go: the HTTP handlers over the gateway.  A task is the   *)
(* goroutine of one request; job[t] is where its handler is, call[t] (of   *)
(* Gateway) the gateway method the handler is in.  Every method of the     *)
(* gateway is the one of the module Gateway, so what is said there of all  *)
(* clients holds of this one.  A request has passed the middleware (rate,  *)
(* key, hexadecimal parameters).                                           *)
(***************************************************************************)
EXTENDS Gateway

CONSTANT Reads   \* outcomes of a read of the record store: {TRUE} or BOOLEAN

ASSUME ReadsAssumption == Reads \subseteq BOOLEAN

VARIABLES job,    \* task -> its handler, or its answer, or Free
          granted \* request -> how many POSTs of it were answered with 200

apiVars == <<vars, job, granted>>

Free == [at |-> "free"]

APIInit == /\ Init
           /\ job = [t \in Tasks |-> Free]
           /\ granted = [r \in Requests |-> 0]

-----------------------------------------------------------------------------
Enter(t, op, r, at) == /\ job[t] = Free
                       /\ job' = [job EXCEPT ![t] = [at |-> at, op |-> op, r |-> r]]

Step(t, at) == job' = [job EXCEPT ![t].at = at]

\* An answer carries the record only when it is a 200.
Reply(t, code) ==
  job' = [job EXCEPT ![t] = [at |-> "reply", op |-> job[t].op, r |-> job[t].r,
                             code |-> code,
                             ar |-> IF code = 200 THEN call[t].ar ELSE None]]

\* The method the handler called at this place has returned.
Returned(t, at) == job[t].at = at /\ Done(t)

OK(t) == call[t].pc = "ok"

GetAnchors(t, r, read) ==
  /\ Enter(t, "get", r, "get")
  /\ GetRecord(t, r, read)
  /\ UNCHANGED granted

GetAnchorsReply(t) ==
  /\ Returned(t, "get")
  /\ Reply(t, IF OK(t) THEN 200 ELSE 404)
  /\ UNCHANGED granted

\* The note is always given, the domain name never.
PatchAnchors(t, r, note, read) ==
  /\ Enter(t, "patch", r, "patch")
  /\ RefreshRecord(t, r, None, note, read)
  /\ UNCHANGED granted

PatchAnchorsReply(t) ==
  /\ Returned(t, "patch")
  /\ Reply(t, IF OK(t) THEN 204 ELSE 404)
  /\ UNCHANGED granted

PostAnchors(t, r, read) ==
  /\ Enter(t, "post", r, "check")
  /\ GetRecord(t, r, read)
  /\ UNCHANGED granted

\* (mutant) The answer of the first read is not looked at.
PostUnchecked(t) ==
  /\ Returned(t, "check")
  /\ Step(t, "register")
  /\ UNCHANGED granted

\* Every error of the first read counts as "there is no record".
PostChecked(t) ==
  /\ Returned(t, "check")
  /\ IF OK(t) THEN Reply(t, 500) ELSE Step(t, "register")
  /\ UNCHANGED granted

PostRegister(t) ==
  /\ job[t].at = "register"
  /\ RegisterTransaction(t, job[t].r)
  /\ Step(t, "registering")
  /\ UNCHANGED granted

PostRegistered(t) ==
  /\ Returned(t, "registering")
  /\ IF OK(t) THEN job' = [job EXCEPT ![t] = [at |-> "store", op |-> "post",
                                              r |-> job[t].r, tx |-> call[t].tx]]
              ELSE Reply(t, 500)
  /\ UNCHANGED granted

PostStore(t) ==
  /\ job[t].at = "store"
  /\ StoreRecord(t, job[t].tx)
  /\ Step(t, "storing")
  /\ UNCHANGED granted

PostStored(t) ==
  /\ Returned(t, "storing")
  /\ IF OK(t) THEN Step(t, "read") ELSE Reply(t, 500)
  /\ UNCHANGED granted

PostRead(t, read) ==
  /\ job[t].at = "read"
  /\ GetRecord(t, job[t].r, read)
  /\ Step(t, "reading")
  /\ UNCHANGED granted

PostReply(t) ==
  /\ Returned(t, "reading")
  /\ Reply(t, IF OK(t) THEN 200 ELSE 500)
  /\ granted' = IF OK(t) THEN [granted EXCEPT ![job[t].r] = granted[job[t].r] + 1]
                         ELSE granted

\* The client has its answer.
Sent(t) ==
  /\ job[t].at = "reply"
  /\ job' = [job EXCEPT ![t] = Free]
  /\ UNCHANGED <<vars, granted>>

\* The gateway method goes on.
Inside(t) ==
  /\ call[t].pc \notin {"ok", "err"}
  /\ Serve(t)
  /\ UNCHANGED <<job, granted>>

Waiting(t) == Acquire(t) /\ UNCHANGED <<job, granted>>

\* Handlers still running when Shutdown gives up die with the process.
StopServer ==
  /\ Stop
  /\ job' = [t \in Tasks |-> Free]
  /\ UNCHANGED granted

Outside ==
  /\ \/ \E read \in BOOLEAN : Start(read)
     \/ \E u \in DOMAIN chain, read \in BOOLEAN, w, wClose \in Outcomes :
          OperatorAdd(u, read, w, wClose)
     \/ Blocks
  /\ UNCHANGED <<job, granted>>

Arrive(t) ==
  \E r \in Requests, read \in Reads :
    \/ GetAnchors(t, r, read)
    \/ PostAnchors(t, r, read)
    \/ \E note \in Notes : PatchAnchors(t, r, note, read)

Handle(t) ==
  \/ Inside(t)
  \/ GetAnchorsReply(t) \/ PatchAnchorsReply(t)
  \/ PostChecked(t) \/ PostRegister(t) \/ PostRegistered(t)
  \/ PostStore(t) \/ PostStored(t)
  \/ \E read \in Reads : PostRead(t, read)
  \/ PostReply(t) \/ Sent(t)

APINext == \/ \E t \in Tasks : Arrive(t) \/ Handle(t) \/ Waiting(t)
           \/ StopServer
           \/ Outside

APISpec == APIInit /\ [][APINext]_apiVars

-----------------------------------------------------------------------------
\* An answer with a record is about the identifiers the client asked for
\* (GetAnchorsDomainsDomainDigestsDigest and the last read of a POST).  With
\* identifiers of other lengths than 32 bytes it is not: their key can be the
\* key of another pair.
AnswersAsked ==
  \A t \in Tasks : job[t].at = "reply" /\ job[t].code = 200 =>
                     job[t].ar.anchor = NewAnchor(job[t].r)

\* No two POSTs of one digest succeed: the second is told that the digest
\* exists, through failed calls, lost answers and restarts in between.
\* (Holds for requests one after the other while the store can be read; two
\* at the same time both pass the check at the beginning of
\* PostAnchorsDomainsDomainDigestsDigest.)
OnePostSucceeds == \A r \in Requests : granted[r] <= 1

\* A note that a PATCH set is not erased again: a POST stores a record, which
\* has no note, only where there was none.  (Holds as above.)
NotesStay ==
  [][\A k \in Keys : recs[k] # None /\ recs[k].note # "" =>
                       recs'[k] # None /\ recs'[k].note # ""]_apiVars

\* After a POST was answered with 200, another one sends a transaction only
\* if its own read failed or it had looked before the first one's answer.
\* (For this the record has to survive everything that happens in between.)
AnsweredIsFound ==
  \A r \in Requests : granted[r] > 0 =>
    /\ recs[CID(r)] # None
    /\ recs[CID(r)].btctx \in Txs /\ chain[recs[CID(r)].btctx].anchor = NewAnchor(r)

(***************************************************************************)
(* Every request is answered, or the process stops.  The fairness is that  *)
(* of the code's scheduling: a goroutine that can go on does, the outside  *)
(* calls answer or time out, and sync.Mutex hands the lock to the          *)
(* goroutine that waited longest once it waited for a millisecond.         *)
(***************************************************************************)
APIFairSpec ==
  /\ APISpec
  /\ \A t \in Tasks : WF_apiVars(Handle(t)) /\ SF_apiVars(Waiting(t))

RequestsAnswered ==
  \A t \in Tasks : job[t].at # "free" ~> job[t].at \in {"reply", "free"}

=============================================================================

--------------------------- MODULE APIKeysProofs ---------------------------
(***************************************************************************)
(* Theorems about APIKeys, for any keys, requests and written domains.     *)
(***************************************************************************)
EXTENDS APIKeys, TLAPS

USE DEF Outcomes

\* Whether a key created for g is good for a domain.
Covers(g, domid) == g.all \/ g.domid = domid

\* A document says what its creator asked for.
StoreBacked ==
  \A k \in Keys : store[k] # None =>
    granted[k] # None /\ store[k] = NewAPIKey(granted[k].all, granted[k].domid)

\* A key that was told to somebody is stored until somebody asks to delete it.
HandedKept ==
  \A k \in handed : granted[k] # None /\ (k \in unwanted \/ store[k] # None)

\* A key whose deletion was confirmed is not stored.
RevokedGone ==
  revoked \subseteq unwanted /\ \A k \in revoked \cap Keys : store[k] = None

\* What holds of a POST in flight, whatever happened to its key meanwhile.
PostSound(p) ==
  /\ p.late => p.key \in revoked
  /\ p.owns # None => p.key \in handed /\ p.owns = granted[p.key]
  /\ p.pc = "admitted" =>
       /\ ~p.late
       /\ p.key \in Keys /\ granted[p.key] # None
       /\ Covers(granted[p.key], p.domid)
       /\ p.key \in unwanted \/ store[p.key] # None
  /\ p.pc = "refused" /\ p.owns # None =>
       p.key \in unwanted \/ ~Covers(p.owns, p.domid)

PostsSound == \A r \in Requests : post[r].pc # "none" => PostSound(post[r])

IInv == TypeOK /\ StoreBacked /\ HandedKept /\ RevokedGone /\ PostsSound

-----------------------------------------------------------------------------
\* What is known of a POST that is not waiting.
LEMMA PostFields ==
  ASSUME TypeOK, NEW r \in Requests, post[r].pc # "none"
  PROVE  /\ post[r] \in [pc : {"asked", "unread", "admitted", "refused"},
                         key : Keys \cup {NoKey}, domid : Domains,
                         owns : Grant \cup {None}, late : BOOLEAN]
         /\ post[r].key \in Keys \cup {NoKey}
         /\ post[r].domid \in Domains
         /\ post[r].owns \in Grant \cup {None}
         /\ post[r].late \in BOOLEAN
<1>1. post[r] \in Post
  BY DEF TypeOK
<1>2. post[r] # Waiting
  BY DEF Waiting
<1>3. post[r] \in [pc : {"asked", "unread", "admitted", "refused"},
                   key : Keys \cup {NoKey}, domid : Domains,
                   owns : Grant \cup {None}, late : BOOLEAN]
  BY <1>1, <1>2 DEF Post
<1>4. QED
  BY <1>3

\* A new document is typed, is no missing one, and is good for what its
\* creator asked for.
LEMMA NewKey ==
  ASSUME NEW all \in BOOLEAN, NEW domid \in Domains
  PROVE  /\ NewAPIKey(all, domid) \in APIKey
         /\ NewAPIKey(all, domid) # None
         /\ [all |-> all, domid |-> domid] \in Grant
         /\ [all |-> all, domid |-> domid] # None
<1>1. NewAPIKey(all, domid) \in APIKey
  BY DEF NewAPIKey, APIKey
<1>2. [all |-> all, domid |-> domid] \in Grant
  BY DEF Grant
<1>3. QED
  BY <1>1, <1>2, DocumentsAssumption

\* The check of a stored key answers what its grant covers.
LEMMA DoCovers ==
  ASSUME NEW g \in Grant, NEW domid \in Domains
  PROVE  Do(NewAPIKey(g.all, g.domid), domid) <=> Covers(g, domid)
<1>1. g.all \in BOOLEAN /\ g.domid \in Domains
  BY DEF Grant
<1>2. NewAPIKey(g.all, g.domid) # None
  BY <1>1, NewKey
<1>3. QED
  BY <1>1, <1>2 DEF Do, NewAPIKey, Covers

-----------------------------------------------------------------------------
\* A key is created: nobody can have been told of it or asked to delete it.
LEMMA GenerateStep ==
  ASSUME IInv, NEW key \in NextKeyFn, NEW all \in BOOLEAN, NEW domid \in Domains,
         NEW w \in Outcomes, Generate(key, all, domid, w)
  PROVE  IInv'
<1> DEFINE k == NewAPIKey(all, domid)
           g == [all |-> all, domid |-> domid]
<1> USE DEF IInv
<1>1. key \in Keys /\ key \notin unwanted /\ store[key] = None
  BY DEF NextKeyFn, Generate
<1>2. k \in APIKey /\ k # None /\ g \in Grant /\ g # None
  BY NewKey
<1>3. key \notin handed /\ key \notin revoked
  BY <1>1 DEF HandedKept, RevokedGone
<1>4. /\ store' = [store EXCEPT ![key] = IF w = "lost" THEN None ELSE k]
      /\ granted' = [granted EXCEPT ![key] = IF w = "lost" THEN @ ELSE g]
      /\ handed' = IF w = "ok" THEN handed \cup {key} ELSE handed
      /\ unwanted' = unwanted /\ revoked' = revoked /\ post' = post
  <2>1. granted = [granted EXCEPT ![key] = granted[key]]
    BY <1>1 DEF TypeOK
  <2>2. QED
    BY <1>1, <2>1 DEF Generate, After
<1>5. \A j \in Keys : j # key => store'[j] = store[j] /\ granted'[j] = granted[j]
  BY <1>4 DEF TypeOK
<1>6. /\ w = "lost" => store'[key] = None /\ granted'[key] = granted[key]
      /\ w # "lost" => store'[key] = k /\ granted'[key] = g
  BY <1>1, <1>4 DEF TypeOK
<1>7. TypeOK'
  BY <1>1, <1>2, <1>4 DEF TypeOK
<1>8. StoreBacked'
  <2> SUFFICES ASSUME NEW j \in Keys, store'[j] # None
               PROVE  granted'[j] # None
                      /\ store'[j] = NewAPIKey(granted'[j].all, granted'[j].domid)
    BY DEF StoreBacked
  <2>1. CASE j = key
    BY <2>1, <1>2, <1>6
  <2>2. CASE j # key
    BY <2>2, <1>5 DEF StoreBacked
  <2>3. QED
    BY <2>1, <2>2
<1>9. HandedKept'
  <2> SUFFICES ASSUME NEW j \in handed'
               PROVE  granted'[j] # None /\ (j \in unwanted' \/ store'[j] # None)
    BY DEF HandedKept
  <2>1. CASE j = key
    BY <2>1, <1>2, <1>3, <1>4, <1>6
  <2>2. CASE j # key
    BY <2>2, <1>4, <1>5 DEF HandedKept, TypeOK
  <2>3. QED
    BY <2>1, <2>2
<1>10. RevokedGone'
  BY <1>3, <1>4, <1>5 DEF RevokedGone
<1>11. PostsSound'
  <2> SUFFICES ASSUME NEW r \in Requests, post[r].pc # "none"
               PROVE  PostSound(post[r])'
    BY <1>4 DEF PostsSound
  <2>1. PostSound(post[r])
    BY DEF PostsSound
  <2>2. post[r].owns # None => post[r].key # key
    BY <2>1, <1>3 DEF PostSound
  <2>3. post[r].pc = "admitted" => post[r].key # key
    BY <2>1, <1>1 DEF PostSound
  <2>4. post[r].owns # None => granted'[post[r].key] = granted[post[r].key]
    BY <2>1, <2>2, <1>5 DEF PostSound, TypeOK
  <2>5. post[r].pc = "admitted" => /\ granted'[post[r].key] = granted[post[r].key]
                                   /\ store'[post[r].key] = store[post[r].key]
    BY <2>1, <2>3, <1>5 DEF PostSound
  <2>6. QED
    BY <2>1, <2>4, <2>5, <1>4 DEF PostSound, Covers
<1>12. QED
  BY <1>7, <1>8, <1>9, <1>10, <1>11

\* A key is deleted, or tried to: from then on it is unwanted.
LEMMA DeleteStep ==
  ASSUME IInv, NEW key \in Keys \cup {NoKey}, NEW w \in Outcomes, Delete(key, w)
  PROVE  IInv'
<1> USE DEF IInv
<1>1. /\ granted' = granted /\ handed' = handed /\ post' = post
      /\ unwanted' = unwanted \cup {key}
      /\ revoked' = IF w = "ok" \/ key = NoKey THEN revoked \cup {key} ELSE revoked
  BY DEF Delete
<1>2. \A j \in Keys : /\ j # key => store'[j] = store[j]
                      /\ j = key => store'[j] \in {store[j], None}
                      /\ j = key /\ w = "ok" => store'[j] = None
  BY DEF Delete, After
<1>3. TypeOK'
  <2>1. store' \in [Keys -> APIKey \cup {None}]
    BY DEF TypeOK, Delete, After
  <2>2. QED
    BY <2>1, <1>1 DEF TypeOK
<1>4. StoreBacked'
  BY <1>1, <1>2 DEF StoreBacked
<1>5. HandedKept'
  BY <1>1, <1>2 DEF HandedKept, TypeOK
<1>6. RevokedGone'
  BY <1>1, <1>2, KeysAssumption DEF RevokedGone
<1>7. PostsSound'
  <2> SUFFICES ASSUME NEW r \in Requests, post[r].pc # "none"
               PROVE  PostSound(post[r])'
    BY <1>1 DEF PostsSound
  <2>1. PostSound(post[r])
    BY DEF PostsSound
  <2>2. QED
    BY <2>1, <1>1, <1>2 DEF PostSound, Covers
<1>8. QED
  BY <1>3, <1>4, <1>5, <1>6, <1>7

\* A POST arrives and takes a look at what was promised so far.
LEMMA ArriveStep ==
  ASSUME IInv, NEW r \in Requests, NEW key \in Keys \cup {NoKey},
         NEW domid \in Domains, Arrive(r, key, domid)
  PROVE  IInv'
<1> DEFINE p == [pc |-> "asked", key |-> key, domid |-> domid,
                 owns |-> IF key \in handed THEN granted[key] ELSE None,
                 late |-> key \in revoked]
<1> USE DEF IInv
<1>1. /\ post' = [post EXCEPT ![r] = p]
      /\ store' = store /\ granted' = granted /\ handed' = handed
      /\ unwanted' = unwanted /\ revoked' = revoked
  BY DEF Arrive
<1>2. p.owns \in Grant \cup {None}
  BY DEF TypeOK
<1>3. p \in Post
  <2>1. (key \in revoked) \in BOOLEAN
    OBVIOUS
  <2> DEFINE owns == IF key \in handed THEN granted[key] ELSE None
             late == key \in revoked
  <2>2. owns \in Grant \cup {None} /\ late \in BOOLEAN
    BY <1>2, <2>1
  <2> HIDE DEF owns, late
  <2>3. [pc |-> "asked", key |-> key, domid |-> domid,
         owns |-> owns, late |-> late] \in Post
    BY <2>2 DEF Post
  <2>4. QED
    BY <2>3 DEF owns, late
<1>4. TypeOK'
  BY <1>1, <1>3 DEF TypeOK
<1>5. StoreBacked' /\ HandedKept' /\ RevokedGone'
  BY <1>1 DEF StoreBacked, HandedKept, RevokedGone
<1>6. PostSound(p)
  BY DEF PostSound
<1>7. PostsSound'
  <2> SUFFICES ASSUME NEW s \in Requests, post'[s].pc # "none"
               PROVE  PostSound(post[s])'
    BY DEF PostsSound
  <2>1. CASE s = r
    <3>1. post'[s] = p
      BY <2>1, <1>1 DEF TypeOK
    <3>2. QED
      BY <3>1, <1>1, <1>6 DEF PostSound, Covers
  <2>2. CASE s # r
    <3>1. post'[s] = post[s]
      BY <2>2, <1>1 DEF TypeOK
    <3>2. PostSound(post[s])
      BY <3>1 DEF PostsSound
    <3>3. QED
      BY <3>1, <3>2, <1>1 DEF PostSound, Covers
  <2>3. QED
    BY <2>1, <2>2
<1>8. QED
  BY <1>4, <1>5, <1>7

\* The check: a document that is found says what the key was created for.
LEMMA AuthFuncStep ==
  ASSUME IInv, NEW r \in Requests, NEW read \in BOOLEAN, AuthFunc(r, read)
  PROVE  IInv'
<1> DEFINE p == post[r]
           k == IF p.key = NoKey THEN None ELSE store[p.key]
           pc == CASE ~read -> "unread"
                   [] read /\ Do(k, p.domid) -> "admitted"
                   [] OTHER -> "refused"
           q == [p EXCEPT !.pc = pc]
<1> USE DEF IInv
<1>1. /\ p.pc = "asked"
      /\ post' = [post EXCEPT ![r] = q]
      /\ store' = store /\ granted' = granted /\ handed' = handed
      /\ unwanted' = unwanted /\ revoked' = revoked
  BY DEF AuthFunc
<1>2. /\ p \in [pc : {"asked", "unread", "admitted", "refused"},
                key : Keys \cup {NoKey}, domid : Domains,
                owns : Grant \cup {None}, late : BOOLEAN]
      /\ PostSound(p)
  BY <1>1, PostFields DEF PostsSound
<1>3. pc \in {"unread", "admitted", "refused"}
  OBVIOUS
<1>4. /\ q.pc = pc /\ q.key = p.key /\ q.domid = p.domid
      /\ q.owns = p.owns /\ q.late = p.late
  BY <1>2
<1>5. q \in Post
  BY <1>2, <1>3 DEF Post
<1>6. TypeOK'
  BY <1>1, <1>5 DEF TypeOK
<1>7. StoreBacked' /\ HandedKept' /\ RevokedGone'
  BY <1>1 DEF StoreBacked, HandedKept, RevokedGone
<1>8. ASSUME store[p.key] # None, p.key \in Keys
      PROVE  /\ granted[p.key] \in Grant /\ granted[p.key] # None
             /\ Do(store[p.key], p.domid) <=> Covers(granted[p.key], p.domid)
  <2> DEFINE g == granted[p.key]
  <2>1. g \in Grant /\ g # None
    BY <1>8 DEF StoreBacked, TypeOK
  <2>2. store[p.key] = NewAPIKey(g.all, g.domid)
    BY <1>8 DEF StoreBacked
  <2>3. p.domid \in Domains
    BY <1>2
  <2> HIDE DEF g
  <2>4. Do(NewAPIKey(g.all, g.domid), p.domid) <=> Covers(g, p.domid)
    BY <2>1, <2>3, DoCovers
  <2>5. QED
    BY <2>1, <2>2, <2>4 DEF g
<1>9. ASSUME pc = "admitted"
      PROVE  /\ p.key \in Keys /\ store[p.key] # None /\ granted[p.key] # None
             /\ Covers(granted[p.key], p.domid)
             /\ ~p.late
  <2>1. Do(k, p.domid)
    BY <1>9
  <2>2. p.key \in Keys /\ store[p.key] # None /\ k = store[p.key]
    BY <2>1, <1>2 DEF Do
  <2>3. ~p.late
    BY <2>2, <1>2 DEF PostSound, RevokedGone
  <2>4. QED
    BY <2>1, <2>2, <2>3, <1>8
<1>10. ASSUME pc = "refused", p.owns # None
       PROVE  p.key \in unwanted \/ ~Covers(p.owns, p.domid)
  <2>1. ~Do(k, p.domid)
    BY <1>10
  <2>2. p.key \in handed /\ p.owns = granted[p.key] /\ p.key \in Keys
    BY <1>2, <1>10 DEF PostSound, TypeOK
  <2>3. k = store[p.key]
    BY <2>2, KeysAssumption
  <2>4. CASE p.key \notin unwanted
    BY <2>1, <2>2, <2>3, <2>4, <1>8 DEF HandedKept
  <2>5. QED
    BY <2>4
<1>11. PostSound(q)
  BY <1>2, <1>4, <1>9, <1>10 DEF PostSound
<1>12. PostsSound'
  <2> SUFFICES ASSUME NEW s \in Requests, post'[s].pc # "none"
               PROVE  PostSound(post[s])'
    BY DEF PostsSound
  <2>1. CASE s = r
    <3>1. post'[s] = q
      BY <2>1, <1>1 DEF TypeOK
    <3>2. QED
      BY <3>1, <1>1, <1>11 DEF PostSound, Covers
  <2>2. CASE s # r
    <3>1. post'[s] = post[s]
      BY <2>2, <1>1 DEF TypeOK
    <3>2. PostSound(post[s])
      BY <3>1 DEF PostsSound
    <3>3. QED
      BY <3>1, <3>2, <1>1 DEF PostSound, Covers
  <2>3. QED
    BY <2>1, <2>2
<1>13. QED
  BY <1>6, <1>7, <1>12

LEMMA AnsweredStep ==
  ASSUME IInv, NEW r \in Requests, Answered(r)
  PROVE  IInv'
<1> USE DEF IInv
<1>1. /\ post' = [post EXCEPT ![r] = Waiting]
      /\ store' = store /\ granted' = granted /\ handed' = handed
      /\ unwanted' = unwanted /\ revoked' = revoked
  BY DEF Answered
<1>2. TypeOK'
  BY <1>1 DEF TypeOK, Post
<1>3. StoreBacked' /\ HandedKept' /\ RevokedGone'
  BY <1>1 DEF StoreBacked, HandedKept, RevokedGone
<1>4. PostsSound'
  <2> SUFFICES ASSUME NEW s \in Requests, post'[s].pc # "none"
               PROVE  PostSound(post[s])'
    BY DEF PostsSound
  <2>1. s # r /\ post'[s] = post[s]
    BY <1>1 DEF TypeOK, Waiting
  <2>2. PostSound(post[s])
    BY <2>1 DEF PostsSound
  <2>3. QED
    BY <2>1, <2>2, <1>1 DEF PostSound
<1>5. QED
  BY <1>2, <1>3, <1>4

LEMMA InitInv == Init => IInv
<1> SUFFICES ASSUME Init PROVE IInv
  OBVIOUS
<1>1. TypeOK
  BY DEF Init, TypeOK, Post
<1>2. StoreBacked /\ HandedKept /\ RevokedGone
  BY DEF Init, StoreBacked, HandedKept, RevokedGone
<1>3. PostsSound
  BY DEF Init, PostsSound, Waiting
<1>4. QED
  BY <1>1, <1>2, <1>3 DEF IInv

LEMMA StepInv == IInv /\ [Next]_vars => IInv'
<1> SUFFICES ASSUME IInv, [Next]_vars PROVE IInv'
  OBVIOUS
<1>1. ASSUME NEW w \in Outcomes, NEW key \in NextKeyFn, NEW domid \in Domains,
             PostApikeysCreate(key, domid, w)
      PROVE  IInv'
  BY <1>1, GenerateStep DEF PostApikeysCreate
<1>2. ASSUME NEW w \in Outcomes, NEW key \in NextKeyFn, NEW domid \in Domains,
             NEW all \in BOOLEAN, CmdCreate(key, all, domid, w)
      PROVE  IInv'
  BY <1>2, GenerateStep DEF CmdCreate
<1>3. ASSUME NEW w \in Outcomes, NEW key \in Keys \cup {NoKey},
             PostApikeysDelete(key, w) \/ CmdDelete(key, w)
      PROVE  IInv'
  BY <1>3, DeleteStep DEF PostApikeysDelete, CmdDelete
<1>4. ASSUME NEW r \in Requests, NEW key \in Keys \cup {NoKey},
             NEW domid \in Domains, Arrive(r, key, domid)
      PROVE  IInv'
  BY <1>4, ArriveStep
<1>5. ASSUME NEW r \in Requests, NEW read \in BOOLEAN, AuthFunc(r, read)
      PROVE  IInv'
  BY <1>5, AuthFuncStep
<1>6. ASSUME NEW r \in Requests, Answered(r)
      PROVE  IInv'
  BY <1>6, AnsweredStep
<1>7. CASE UNCHANGED vars
  BY <1>7 DEF vars, IInv, TypeOK, StoreBacked, HandedKept, RevokedGone,
              PostsSound, PostSound
<1>8. QED
  BY <1>1, <1>2, <1>3, <1>4, <1>5, <1>6, <1>7 DEF Next

LEMMA Invariance == Spec => []IInv
BY InitInv, StepInv, PTL DEF Spec

-----------------------------------------------------------------------------
\* Every state is well-typed; each stored key has exactly one scope.
THEOREM KeysTypeCorrect == Spec => []TypeOK
<1>1. IInv => TypeOK
  BY DEF IInv
<1>2. QED
  BY <1>1, Invariance, PTL

\* What the validator admits was granted to the key it was shown (auth.go:104).
THEOREM ScopeSound == Spec => []AdmittedInScope
<1>1. ASSUME IInv PROVE AdmittedInScope
  <2> SUFFICES ASSUME NEW r \in Requests, post[r].pc = "admitted"
               PROVE  /\ post[r].key \in Keys /\ granted[post[r].key] # None
                      /\ \/ granted[post[r].key].all
                         \/ SameDomain(granted[post[r].key].domid, post[r].domid)
    BY DEF AdmittedInScope
  <2>1. PostSound(post[r])
    BY <1>1 DEF IInv, PostsSound
  <2>2. QED
    BY <2>1 DEF PostSound, Covers, SameDomain
<1>2. QED
  BY <1>1, Invariance, PTL

\* A deletion that was confirmed holds for every later POST (auth.go:146).
THEOREM RevocationSound == Spec => []RevokedIsRefused
<1>1. ASSUME IInv PROVE RevokedIsRefused
  <2> SUFFICES ASSUME NEW r \in Requests, post[r].pc = "admitted"
               PROVE  ~post[r].late
    BY DEF RevokedIsRefused
  <2>1. PostSound(post[r])
    BY <1>1 DEF IInv, PostsSound
  <2>2. QED
    BY <2>1 DEF PostSound
<1>2. QED
  BY <1>1, Invariance, PTL

\* A key that its creator was told works until somebody asks to delete it
\* (auth.go:126).
THEOREM GrantSound == Spec => []GrantedIsAdmitted
<1>1. ASSUME IInv PROVE GrantedIsAdmitted
  <2> SUFFICES ASSUME NEW r \in Requests,
                      post[r].pc = "refused", post[r].owns # None
               PROVE  \/ post[r].key \in unwanted
                      \/ (~post[r].owns.all /\ post[r].owns.domid # post[r].domid)
    BY DEF GrantedIsAdmitted
  <2>1. PostSound(post[r])
    BY <1>1 DEF IInv, PostsSound
  <2>2. QED
    BY <2>1 DEF PostSound, Covers
<1>2. QED
  BY <1>1, Invariance, PTL

=============================================================================

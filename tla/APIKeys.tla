------------------------------ MODULE APIKeys ------------------------------
(***************************************************************************)
(* The API keys: auth/auth.go under its three programs.  cmd/apikey        *)
(* (api/apikey-api.go) and cmd/apikey-cli create and delete keys, cmd/btcgw*)
(* asks for each POST of an anchor whether its key is good                 *)
(* (api/anchor-api.go).  They share one collection of documents, one per   *)
(* key, and nothing else.                                                  *)
(***************************************************************************)
EXTENDS Datastore

CONSTANTS None,
          Requests,  \* POSTs of anchors that are under way
          Keys,      \* what NextKeyFn can return
          Domains,   \* domains as they are written: any strings
          Decode     \* hex.DecodeString: a domain, or None for a string that is no hex

NoKey == ""          \* an empty key; also a request without X-Api-Key

ASSUME KeysAssumption == None \notin Keys /\ NoKey \notin Keys
ASSUME DomainsAssumption == "" \in Domains /\ Decode[""] # None

\* APIKey without its note.
APIKey == {k \in [all : BOOLEAN, domain : BOOLEAN, domid : Domains] :
             k.all = ~k.domain}

\* What the creator of a key asked for.
Grant == [all : BOOLEAN, domid : Domains]

ASSUME DocumentsAssumption == None \notin APIKey \cup Grant

VARIABLES store,    \* the collection: key -> APIKey, or None
          granted,  \* what each key was created for, once it was stored
          handed,   \* keys that a creator was told
          unwanted, \* keys somebody asked to delete
          revoked,  \* keys somebody was told are deleted
          post      \* where each POST is

vars == <<store, granted, handed, unwanted, revoked, post>>

-----------------------------------------------------------------------------
\* (mutant) Every key has the scope of its domain, a global one too.
NewAPIKeyBoth(all, domid) == [all |-> all, domain |-> TRUE, domid |-> domid]

NewAPIKey(all, domid) == [all |-> all, domain |-> ~all, domid |-> domid]

\* collection.Create refuses a key that is taken.  A generator that fails
\* returns an empty key, and nothing happens.
Generate(key, all, domid, w) ==
  /\ store[key] = None
  /\ store' = [store EXCEPT ![key] = After(@, NewAPIKey(all, domid), w)]
  /\ granted' = IF w = "lost" THEN granted
                ELSE [granted EXCEPT ![key] = [all |-> all, domid |-> domid]]
  /\ handed' = IF w = "ok" THEN handed \cup {key} ELSE handed
  /\ UNCHANGED <<unwanted, revoked, post>>

\* The 128 random bits never repeat a key that was given up.
NextKeyFn == Keys \ unwanted

\* (mutant) Every error is swallowed, not only the one for an empty key.
DeleteSilently(key, w) ==
  /\ store' = [k \in Keys |-> IF k = key THEN After(store[k], None, w)
                                         ELSE store[k]]
  /\ unwanted' = unwanted \cup {key}
  /\ revoked' = revoked \cup {key}
  /\ UNCHANGED <<granted, handed, post>>

\* Deleting a key that is not there is a success, and so is an empty one, which
\* the database refuses.
Delete(key, w) ==
  /\ store' = [k \in Keys |-> IF k = key THEN After(store[k], None, w)
                                         ELSE store[k]]
  /\ unwanted' = unwanted \cup {key}
  /\ revoked' = IF w = "ok" \/ key = NoKey THEN revoked \cup {key} ELSE revoked
  /\ UNCHANGED <<granted, handed, post>>

\* (mutant) A key that is bound to some domain is good for all.
DoAnyDomain(k, domid) == k # None /\ (k.all \/ k.domain)

\* (mutant) A global key is compared too.
DoOwnDomain(k, domid) == k # None /\ k.domid = domid

\* The document that was found, and the domain as it is written in the path.
Do(k, domid) == k # None /\ (k.all \/ (k.domain /\ k.domid = domid))

-----------------------------------------------------------------------------
PostApikeysCreate(key, domid, w) == /\ Decode[domid] # None
                                    /\ Generate(key, FALSE, domid, w)

PostApikeysDelete(key, w) == Delete(key, w)

\* apikey-cli takes any string for a domain.
CmdCreate(key, all, domid, w) == /\ all \/ domid # ""
                                 /\ Generate(key, all, domid, w)

CmdDelete(key, w) == Delete(key, w)

Waiting == [pc |-> "none"]

\* A POST reaches the validator; what it can expect is settled here.
Arrive(r, key, domid) ==
  /\ post[r] = Waiting
  /\ post' = [post EXCEPT ![r] =
       [pc |-> "asked", key |-> key, domid |-> domid,
        owns |-> IF key \in handed THEN granted[key] ELSE None,
        late |-> key \in revoked]]
  /\ UNCHANGED <<store, granted, handed, unwanted, revoked>>

\* AuthFunc: a key that is not found, an empty key and a read that failed are
\* all refused; "unread" is the last of them.
AuthFunc(r, read) ==
  LET p == post[r]
      k == IF p.key = NoKey THEN None ELSE store[p.key]
  IN /\ p.pc = "asked"
     /\ post' = [post EXCEPT ![r].pc = CASE ~read -> "unread"
                                         [] read /\ Do(k, p.domid) -> "admitted"
                                         [] OTHER -> "refused"]
     /\ UNCHANGED <<store, granted, handed, unwanted, revoked>>

\* The handler, or the validator's 400, has answered.
Answered(r) == /\ post[r].pc \in {"unread", "admitted", "refused"}
               /\ post' = [post EXCEPT ![r] = Waiting]
               /\ UNCHANGED <<store, granted, handed, unwanted, revoked>>

Init == /\ store = [k \in Keys |-> None]
        /\ granted = [k \in Keys |-> None]
        /\ handed = {} /\ unwanted = {} /\ revoked = {}
        /\ post = [r \in Requests |-> Waiting]

Next ==
  \/ \E w \in Outcomes :
       \/ \E key \in NextKeyFn, domid \in Domains :
            \/ PostApikeysCreate(key, domid, w)
            \/ \E all \in BOOLEAN : CmdCreate(key, all, domid, w)
       \/ \E key \in Keys \cup {NoKey} :
            PostApikeysDelete(key, w) \/ CmdDelete(key, w)
  \/ \E r \in Requests :
       \/ \E key \in Keys \cup {NoKey}, domid \in Domains : Arrive(r, key, domid)
       \/ \E read \in BOOLEAN : AuthFunc(r, read)
       \/ Answered(r)

Spec == Init /\ [][Next]_vars

-----------------------------------------------------------------------------
Post == {Waiting} \cup [pc : {"asked", "unread", "admitted", "refused"},
                        key : Keys \cup {NoKey}, domid : Domains,
                        owns : Grant \cup {None}, late : BOOLEAN]

\* A stored key has exactly one of the two scopes.
TypeOK == /\ store \in [Keys -> APIKey \cup {None}]
          /\ granted \in [Keys -> Grant \cup {None}]
          /\ handed \subseteq Keys
          /\ unwanted \subseteq Keys \cup {NoKey}
          /\ revoked \subseteq Keys \cup {NoKey}
          /\ post \in [Requests -> Post]

\* Written domains are the same when they are the same bytes; strings that are
\* no hexadecimal are only the same as themselves.
SameDomain(d, e) == d = e \/ (Decode[d] # None /\ Decode[d] = Decode[e])

\* A POST that is admitted carries a key that was created for its domain or as
\* a global one, by whichever program, and also when the creator got no answer.
AdmittedInScope ==
  \A r \in Requests :
    LET p == post[r] IN
    p.pc = "admitted" => /\ p.key \in Keys /\ granted[p.key] # None
                         /\ \/ granted[p.key].all
                            \/ SameDomain(granted[p.key].domid, p.domid)

\* No POST that arrives after somebody was told that its key is deleted is
\* admitted.  One that was admitted before goes on.
RevokedIsRefused ==
  \A r \in Requests : post[r].pc = "admitted" => ~post[r].late

\* A key works from the moment its creator is told: a POST for its domain, with
\* the domain written as it was to the creator, is refused only when the
\* collection could not be read or somebody asked to delete the key.
GrantedIsAdmitted ==
  \A r \in Requests :
    LET p == post[r] IN
    p.pc = "refused" /\ p.owns # None =>
      \/ p.key \in unwanted
      \/ (~p.owns.all /\ p.owns.domid # p.domid)

=============================================================================

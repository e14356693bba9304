----------------------------- MODULE Registration -----------------------------
(* AuthService.register: a public registration is a saga over one intent row    *)
(* (claimed with a token and a lease), the identity provider and one local      *)
(* transaction, with a compensation that deletes the identity.  All requests    *)
(* here are for one e-mail address; a step is one query, one call of the        *)
(* provider or one transaction.  Calls are answered late, lost, or never.  The  *)
(* code of a partner, which a registration may carry, is left out: it is looked *)
(* up and noted in the claimed row, by an update that the claim's token fences, *)
(* before the first call of the provider.                                       *)
EXTENDS Naturals, FiniteSets

CONSTANTS Requests, Payload,   \* the requests, and the data each one carries
          Foreign, Nobody      \* an identity of another origin, and none

VARIABLES intent,      \* the registration_intents row
          accounts,    \* companies created: by which request, for which identity
          identity,    \* who has the address at the provider: its creator
          calls,       \* calls the provider has yet to handle
          answer,      \* [Requests -> what the provider answered]
          step,        \* [Requests -> where register stands]
          held,        \* [Requests -> claim token the request works with]
          auth,        \* [Requests -> identity the request works with]
          fresh        \* requests whose read of the row is still what it holds

rvars == <<intent, accounts, identity, calls, answer, step, held, auth, fresh>>

States == {"CLAIMED", "AUTH_CREATED", "COMPLETED", "COMPENSATION_REQUIRED",
           "FAILED_RETRYABLE", "FAILED_FINAL"}
Reclaimable == States \ {"COMPLETED", "FAILED_FINAL"}
Identities == Requests \cup {Foreign, Nobody}
(* lastErrorCode: "safe" are the failures known to have created nothing.         *)
Codes == {"none", "safe", "unsafe"}

NoIntent == [state |-> "absent", payload |-> Nobody, token |-> Nobody,
             lease |-> FALSE, auth |-> Nobody, code |-> "none"]

Ended == {"start", "done", "login", "refused", "failed", "crashed"}

TypeOK ==
  /\ intent \in [state : States \cup {"absent"}, payload : {Payload[r] : r \in Requests} \cup {Nobody},
                 token : Requests \cup {Nobody}, lease : BOOLEAN,
                 auth : Requests \cup {Nobody}, code : Codes]
  /\ accounts \subseteq [by : Requests, auth : Requests]
  /\ identity \in Identities
  /\ calls \subseteq {"create", "delete"} \X Requests \X Identities
  /\ answer \in [Requests -> {"none", "ok", "exists", "rejected", "error"}]
  /\ step \in [Requests -> {"start", "profile", "findAuth", "create", "creating", "exists",
                           "claimAuth", "adopt", "tx", "compensate", "deleting", "verify",
                           "recover", "reclaim", "reread"} \cup Ended]
  /\ held \in [Requests -> Requests \cup {Nobody}] /\ auth \in [Requests -> Requests \cup {Nobody}]
  /\ fresh \subseteq Requests

Init ==
  /\ intent = NoIntent /\ accounts = {}
  /\ identity \in {Nobody, Foreign}
  /\ calls = {} /\ answer = [r \in Requests |-> "none"]
  /\ step = [r \in Requests |-> "start"]
  /\ held = [r \in Requests |-> Nobody] /\ auth = [r \in Requests |-> Nobody]
  /\ fresh = {}

----------------------------------------------------------------------------

At(r, here) == step[r] = here
To(r, there) == step' = [step EXCEPT ![r] = there]
(* Every update of the row makes what the others have read of it old.            *)
Write(row) == intent' = row /\ fresh' = {}
Keep == UNCHANGED <<intent, fresh>>
Remote == <<identity, calls, answer>>

Claimed(r, row) == [row EXCEPT !.state = "CLAIMED", !.token = r, !.lease = TRUE, !.code = "none"]

(* claimRegistrationIntent: the row is created, or read and judged.              *)
Claim(r) ==
  /\ At(r, "start")
  /\ IF intent.state = "absent"
     THEN /\ Write(Claimed(r, [NoIntent EXCEPT !.payload = Payload[r]]))
          /\ held' = [held EXCEPT ![r] = r] /\ To(r, "profile")
     ELSE /\ intent' = intent /\ fresh' = fresh \cup {r} /\ held' = held
          /\ To(r, CASE intent.payload # Payload[r] ->
                        IF intent.state = "FAILED_RETRYABLE" /\ intent.code = "safe"
                           /\ intent.token = Nobody /\ ~intent.lease
                        THEN "verify" ELSE "refused"
                     [] intent.state = "COMPLETED" -> "login"
                     [] intent.state = "FAILED_FINAL" \/ intent.lease -> "refused"
                     [] OTHER -> "reclaim")
  /\ UNCHANGED <<accounts, Remote, auth>>

(* The same data again: whoever finds the lease expired takes the row over.      *)
Reclaim(r) ==
  /\ At(r, "reclaim")
  /\ IF intent.state \in Reclaimable /\ ~intent.lease
     THEN Write(Claimed(r, intent)) /\ To(r, "reread")
     ELSE Keep /\ To(r, "refused")
  /\ UNCHANGED <<accounts, Remote, held, auth>>
(* findUniqueOrThrow: the token the request goes on with is the row's.           *)
Reread(r) ==
  /\ At(r, "reread") /\ held' = [held EXCEPT ![r] = intent.token]
  /\ To(r, IF intent.state = "COMPLETED" THEN "login" ELSE "profile")
  /\ Keep /\ UNCHANGED <<accounts, Remote, auth>>

(* Other data: only when neither a profile nor an identity exists, and the row   *)
(* is still the one that was read (updatedAt).                                   *)
Verify(r) ==
  /\ At(r, "verify")
  /\ \/ accounts = {} /\ identity = Nobody /\ To(r, "recover")
     \/ To(r, "refused")
  /\ Keep /\ UNCHANGED <<accounts, Remote, held, auth>>
Recover(r) ==
  /\ At(r, "recover")
  /\ IF r \in fresh
     THEN /\ Write([Claimed(r, intent) EXCEPT !.payload = Payload[r], !.auth = Nobody])
          /\ To(r, "reread")
     ELSE Keep /\ To(r, "refused")
  /\ UNCHANGED <<accounts, Remote, held, auth>>

(* A profile with the address ends the request; the row stays as claimed.        *)
LookupProfile(r) ==
  /\ At(r, "profile") /\ To(r, IF accounts = {} THEN "findAuth" ELSE "refused")
  /\ Keep /\ UNCHANGED <<accounts, Remote, held, auth>>

----------------------------------------------------------------------------
(* The marks: updates of the row where it still carries the request's token.     *)

MayMark(r) == (held[r] = Nobody \/ intent.token = held[r]) /\ intent.state # "COMPLETED"
Mark(r, state, code) ==
  IF MayMark(r)
  THEN Write([intent EXCEPT !.state = state, !.code = code, !.token = Nobody, !.lease = FALSE])
  ELSE Keep

(* findByEmail, before anything was created.                                     *)
FindAuth(r) ==
  /\ At(r, "findAuth")
  /\ \/ /\ identity \in Requests /\ auth' = [auth EXCEPT ![r] = identity]
        /\ To(r, "claimAuth") /\ Keep
     \/ identity = Nobody /\ auth' = auth /\ To(r, "create") /\ Keep
     \/ identity = Foreign /\ auth' = auth /\ To(r, "exists") /\ Keep
     \/ Mark(r, "FAILED_RETRYABLE", "safe") /\ auth' = auth /\ To(r, "failed")
  /\ UNCHANGED <<accounts, Remote, held>>

Create(r) ==
  /\ At(r, "create") /\ To(r, "creating")
  /\ calls' = calls \cup {<<"create", r, Nobody>>}
  /\ Keep /\ UNCHANGED <<accounts, identity, answer, held, auth>>

(* The provider handles a call, whoever still waits for it.                      *)
Provider ==
  \E c \in calls : LET r == c[2] IN
    /\ calls' = calls \ {c}
    /\ \/ /\ c[1] = "create" /\ identity = Nobody
          /\ identity' = r /\ answer' = [answer EXCEPT ![r] = "ok"]
       \/ /\ c[1] = "create" /\ identity # Nobody
          /\ identity' = identity /\ answer' = [answer EXCEPT ![r] = "exists"]
       \/ /\ c[1] = "create" /\ identity' = identity
          /\ answer' = [answer EXCEPT ![r] = "rejected"]
       \/ /\ c[1] = "delete" /\ identity = c[3]
          /\ identity' = Nobody /\ answer' = [answer EXCEPT ![r] = "ok"]
       \/ /\ c[1] = "delete" /\ identity' = identity
          /\ answer' = [answer EXCEPT ![r] = "error"]
    /\ Keep /\ UNCHANGED <<accounts, step, held, auth>>

(* createUser returns: the identity is there, or it existed, or it was refused   *)
(* (password policy, rate limit), or nobody knows (no answer came).              *)
Created(r) ==
  /\ At(r, "creating")
  /\ \/ /\ answer[r] = "ok" /\ auth' = [auth EXCEPT ![r] = r]
        /\ To(r, "claimAuth") /\ Keep
     \/ answer[r] = "exists" /\ auth' = auth /\ To(r, "exists") /\ Keep
     \/ answer[r] = "rejected" /\ auth' = auth
        /\ Mark(r, "FAILED_RETRYABLE", "safe") /\ To(r, "failed")
     \/ auth' = auth /\ Mark(r, "FAILED_RETRYABLE", "unsafe") /\ To(r, "failed")
  /\ answer' = [answer EXCEPT ![r] = "none"]
  /\ UNCHANGED <<accounts, identity, calls, held>>

(* The address is taken: by this registration, or by somebody else.              *)
Exists(r) ==
  /\ At(r, "exists")
  /\ IF identity \in Requests
     THEN auth' = [auth EXCEPT ![r] = identity] /\ To(r, "adopt") /\ Keep
     ELSE auth' = auth /\ Mark(r, "FAILED_FINAL", "unsafe") /\ To(r, "refused")
  /\ UNCHANGED <<accounts, Remote, held>>

Owns(r, state) == intent.token = held[r] /\ held[r] # Nobody /\ intent.state = state

(* A claim that fails inside the try is one more failure to mark.                *)
ClaimAuth(r) ==
  /\ step[r] \in {"claimAuth", "adopt"}
  /\ IF Owns(r, "CLAIMED")
     THEN /\ Write([intent EXCEPT !.state = "AUTH_CREATED", !.auth = auth[r],
                                  !.lease = TRUE, !.code = "none"])
          /\ To(r, "tx")
     ELSE /\ IF At(r, "claimAuth")
             THEN Mark(r, "FAILED_RETRYABLE", IF auth[r] = r THEN "unsafe" ELSE "safe")
             ELSE Keep
          /\ To(r, "failed")
  /\ UNCHANGED <<accounts, Remote, held, auth>>

----------------------------------------------------------------------------

(* The profile is upserted: what the index on its e-mail refuses is another       *)
(* identity, not a second company of the same one.                               *)
EmailFree(r) == \A a \in accounts : a.auth = auth[r]
(* Fault: neither fence of the transaction counts the rows it updated            *)
TransactUnfenced(r) ==
  /\ At(r, "tx") /\ EmailFree(r) /\ To(r, "done")
  /\ accounts' = accounts \cup {[by |-> r, auth |-> auth[r]]}
  /\ IF Owns(r, "AUTH_CREATED")
     THEN Write([intent EXCEPT !.state = "COMPLETED", !.token = Nobody, !.lease = FALSE]) ELSE Keep
  /\ UNCHANGED <<Remote, held, auth>>
(* The transaction: fence, company, branch, profile, membership, completion.     *)
(* It may fail, and its commit may succeed without the request learning of it.   *)
Transact(r) ==
  /\ At(r, "tx")
  /\ \/ /\ Owns(r, "AUTH_CREATED") /\ EmailFree(r)
        /\ accounts' = accounts \cup {[by |-> r, auth |-> auth[r]]}
        /\ Write([intent EXCEPT !.state = "COMPLETED", !.auth = auth[r],
                                !.token = Nobody, !.lease = FALSE, !.code = "none"])
        /\ \E there \in {"done", "compensate"} : To(r, there)
     \/ accounts' = accounts /\ Keep /\ To(r, "compensate")
  /\ UNCHANGED <<Remote, held, auth>>

Compensate(r) ==
  /\ At(r, "compensate")
  /\ IF Owns(r, "AUTH_CREATED")
     THEN /\ Write([intent EXCEPT !.state = "COMPENSATION_REQUIRED", !.code = "unsafe", !.lease = TRUE])
          /\ calls' = calls \cup {<<"delete", r, auth[r]>>} /\ To(r, "deleting")
     ELSE Keep /\ calls' = calls /\ To(r, "failed")
  /\ UNCHANGED <<accounts, identity, answer, held, auth>>
Deleted(r) ==
  /\ At(r, "deleting") /\ To(r, "failed")
  /\ \/ answer[r] = "ok" /\ Mark(r, "FAILED_RETRYABLE", "safe")
     \/ answer[r] # "ok" /\ Mark(r, "COMPENSATION_REQUIRED", "unsafe")
  /\ answer' = [answer EXCEPT ![r] = "none"]
  /\ UNCHANGED <<accounts, identity, calls, held, auth>>

(* Sixty seconds pass; a replica goes away with its request.                     *)
LeaseExpires ==
  /\ intent.lease /\ intent' = [intent EXCEPT !.lease = FALSE] /\ fresh' = fresh
  /\ UNCHANGED <<accounts, Remote, step, held, auth>>
Crash(r) ==
  /\ step[r] \notin Ended /\ To(r, "crashed")
  /\ Keep /\ UNCHANGED <<accounts, Remote, held, auth>>

Next ==
  \/ \E r \in Requests :
       \/ Claim(r) \/ Reclaim(r) \/ Reread(r) \/ Verify(r) \/ Recover(r)
       \/ LookupProfile(r) \/ FindAuth(r) \/ Create(r) \/ Created(r) \/ Exists(r)
       \/ ClaimAuth(r) \/ Transact(r) \/ Compensate(r) \/ Deleted(r) \/ Crash(r)
  \/ Provider \/ LeaseExpires

Spec == Init /\ [][Next]_rvars

----------------------------------------------------------------------------

(* Whatever is retried, taken over, answered late or rolled back, one address    *)
(* gets one company at most (the fence and the completion of the transaction).   *)
OneCompany == Cardinality(accounts) <= 1

(* A completed registration is never opened again, and gets no other company.    *)
CompletedForGood ==
  [][intent.state = "COMPLETED" => intent'.state = "COMPLETED" /\ accounts' = accounts]_rvars

(* An identity of another origin is neither adopted nor deleted.                 *)
ForeignUntouched ==
  [][identity = Foreign => identity' = Foreign]_rvars
=============================================================================

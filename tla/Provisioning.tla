----------------------------- MODULE Provisioning -----------------------------
(* UsersService.create and reconcile: a manager creates the user of an e-mail   *)
(* address in three places: a user_provisionings row, an identity at the        *)
(* provider and, in one local transaction, a profile with its membership.       *)
(* The row's later updates (transition) are unconditional: only the claim of a  *)
(* row tests what it holds.  One address; a step is one query, one call of the  *)
(* provider or one transaction.  A lease does not wait for its holder.           *)
(* overtaken and strayed are history: no guard of an action reads them.          *)
EXTENDS Naturals

CONSTANTS Managers, Workers,   \* running create, and running reconcile
          Foreign, Nobody      \* an identity of another origin, and none

VARIABLES row,        \* the user_provisionings row
          profile,    \* the identity that has a profile with the address
          account,    \* who has the address at the provider
          calls,      \* calls the provider has yet to handle
          answer,     \* [Actors -> what the provider answered]
          at,         \* [Actors -> where the handler stands]
          candidate,  \* [Workers -> the row as reconcile has read it]
          overtaken,  \* who worked on the row when another claimed it
          strayed     \* who has written a row it no longer held, or never read

history == <<overtaken, strayed>>
pvars == <<row, profile, account, calls, answer, at, candidate, history>>

Actors == Managers \cup Workers
States == {"absent", "CLAIMED", "AUTH_CREATED", "COMPLETED", "COMPENSATION_REQUIRED",
           "FAILED_RETRYABLE", "FAILED_FINAL", "UNKNOWN"}
Rows == [state : States, auth : Managers \cup {Nobody}, lease : BOOLEAN]
NoRow == [state |-> "absent", auth |-> Nobody, lease |-> FALSE]
Recoverable == {"AUTH_CREATED", "COMPENSATION_REQUIRED", "UNKNOWN"}

TypeOK ==
  /\ row \in Rows /\ profile \in Managers \cup {Nobody}
  /\ account \in Managers \cup {Foreign, Nobody}
  /\ calls \subseteq {"create", "delete"} \X Actors \X (Managers \cup {Nobody})
  /\ answer \in [Actors -> {"none", "ok", "refused"}]
  /\ at \in [Actors -> {"start", "retry", "create", "creating", "tx", "compensate", "deleting",
                        "claim", "judge", "silent", "absent", "changed", "found", "end"}]
  /\ candidate \in [Workers -> Rows]
  /\ overtaken \subseteq Actors /\ strayed \subseteq Actors

Init ==
  /\ row = NoRow /\ profile = Nobody /\ account \in {Nobody, Foreign}
  /\ calls = {} /\ answer = [a \in Actors |-> "none"]
  /\ at = [a \in Actors |-> "start"] /\ candidate = [w \in Workers |-> NoRow]
  /\ overtaken = {} /\ strayed = {}

At(a, here) == at[a] = here
Go(a, there) == at' = [at EXCEPT ![a] = there]
Remote == <<account, calls, answer>>
Claimed(it) == [it EXCEPT !.lease = TRUE]
Transition(state) == row' = [row EXCEPT !.state = state]

(* Who works on the row when another claims it is overtaken, until it claims the *)
(* row again; and has strayed if it writes the row before.                       *)
Working(a) == at[a] \notin {"start", "retry", "claim", "end"}
Overtakes(a) == overtaken' = (overtaken \cup {b \in Actors : Working(b)}) \ {a}
Writes(a) == overtaken' = overtaken /\ strayed' = strayed \cup ({a} \cap overtaken)

----------------------------------------------------------------------------
(* create                                                                       *)

Claim(m) ==
  /\ At(m, "start")
  /\ \/ /\ row.state = "absent" /\ Go(m, "create") /\ Overtakes(m) /\ strayed' = strayed
        /\ row' = [state |-> "CLAIMED", auth |-> Nobody, lease |-> TRUE]
     \/ /\ row.state # "absent" /\ UNCHANGED <<row, history>>
        /\ Go(m, IF row.state = "FAILED_RETRYABLE" /\ row.auth = Nobody THEN "retry" ELSE "end")
  /\ UNCHANGED <<profile, Remote, candidate>>

Retry(m) ==
  /\ At(m, "retry")
  /\ IF row.state = "FAILED_RETRYABLE" /\ row.auth = Nobody
     THEN /\ row' = Claimed([row EXCEPT !.state = "CLAIMED"]) /\ Go(m, "create")
          /\ Overtakes(m) /\ strayed' = strayed
     ELSE Go(m, "end") /\ UNCHANGED <<row, history>>
  /\ UNCHANGED <<profile, Remote, candidate>>

CreateIdentity(m) ==
  /\ At(m, "create") /\ Go(m, "creating") /\ calls' = calls \cup {<<"create", m, Nobody>>}
  /\ UNCHANGED <<row, profile, account, answer, candidate, history>>

(* The provider handles a call, or fails, whoever still waits for the answer.    *)
Awaited(c) == at[c[2]] = (IF c[1] = "create" THEN "creating" ELSE "deleting")
              /\ (c[2] \in Workers => candidate[c[2]].auth = c[3])
Answer(c, what) == answer' = IF Awaited(c) THEN [answer EXCEPT ![c[2]] = what] ELSE answer
Provider ==
  \E c \in calls :
    /\ calls' = calls \ {c}
    /\ \/ c[1] = "create" /\ account = Nobody /\ account' = c[2] /\ Answer(c, "ok")
       \/ c[1] = "create" /\ account # Nobody /\ account' = account /\ Answer(c, "refused")
       \/ c[1] = "delete" /\ account' = (IF account = c[3] THEN Nobody ELSE account)
          /\ Answer(c, "ok")
       \/ account' = account /\ answer' = answer
    /\ UNCHANGED <<row, profile, at, candidate, history>>

(* What an ambiguous creation leaves is not claimed again by create.             *)
(* Fault: an ambiguous creation is recorded like a refused one                   *)
UnansweredRetryable == "FAILED_RETRYABLE"
Unanswered == "UNKNOWN"
Created(m) ==
  /\ At(m, "creating")
  /\ \/ /\ answer[m] = "ok" /\ row' = [row EXCEPT !.state = "AUTH_CREATED", !.auth = m]
        /\ Go(m, "tx")
     \/ answer[m] = "refused" /\ Transition("FAILED_FINAL") /\ Go(m, "end")
     \/ Transition(Unanswered) /\ Go(m, "end")
  /\ answer' = [answer EXCEPT ![m] = "none"] /\ Writes(m)
  /\ UNCHANGED <<profile, account, calls, candidate>>

(* The transaction; e-mail and id of a profile are unique.  Its commit may not   *)
(* be heard of.                                                                  *)
Completed(it) == [it EXCEPT !.state = "COMPLETED", !.lease = FALSE]
Transact(m) ==
  /\ At(m, "tx")
  /\ \/ /\ profile = Nobody /\ profile' = m /\ row' = Completed(row) /\ Writes(m)
        /\ \E there \in {"end", "compensate"} : Go(m, there)
     \/ UNCHANGED <<profile, row, history>> /\ Go(m, "compensate")
  /\ UNCHANGED <<Remote, candidate>>

Compensate(m) ==
  /\ At(m, "compensate") /\ Transition("COMPENSATION_REQUIRED") /\ Go(m, "deleting")
  /\ calls' = calls \cup {<<"delete", m, m>>} /\ Writes(m)
  /\ UNCHANGED <<profile, account, answer, candidate>>

Forgotten(it) == [it EXCEPT !.state = "FAILED_RETRYABLE", !.auth = Nobody]
Deleted(m) ==
  /\ At(m, "deleting") /\ Go(m, "end")
  /\ \/ answer[m] = "ok" /\ row' = Forgotten(row)
     \/ answer[m] # "ok" /\ Transition("COMPENSATION_REQUIRED")
  /\ answer' = [answer EXCEPT ![m] = "none"] /\ Writes(m)
  /\ UNCHANGED <<profile, account, calls, candidate>>

----------------------------------------------------------------------------
(* reconcile, for this row                                                      *)

Find(w) ==
  /\ At(w, "start") /\ row.state \in Recoverable /\ ~row.lease
  /\ candidate' = [candidate EXCEPT ![w] = row] /\ Go(w, "claim")
  /\ UNCHANGED <<row, profile, Remote, history>>
ClaimRow(w) ==
  /\ At(w, "claim")
  /\ IF row.state = candidate[w].state /\ ~row.lease
     THEN /\ row' = Claimed(row) /\ Go(w, "judge") /\ Overtakes(w)
          /\ strayed' = strayed \cup (IF row.auth = candidate[w].auth THEN {} ELSE {w})
     ELSE Go(w, "start") /\ UNCHANGED <<row, history>>
  /\ UNCHANGED <<profile, Remote, candidate>>

(* Whose the identity is, as the provider says, or does not say.                  *)
Lookup(w) ==
  /\ At(w, "judge") /\ candidate[w].auth # Nobody
  /\ \/ Go(w, "silent")
     \/ account # candidate[w].auth /\ Go(w, "absent")
     \/ account = candidate[w].auth /\ \E as \in {"changed", "found"} : Go(w, as)   \* its e-mail
  /\ UNCHANGED <<row, profile, Remote, candidate, history>>

(* The outcomes that end the row's turn give its lease back, whoever has it.      *)
Settle(w, it) == row' = [it EXCEPT !.lease = FALSE] /\ Go(w, "start") /\ Writes(w)
As(w, state) == [row EXCEPT !.state = state]
Judge(w) ==
  /\ \/ At(w, "judge") /\ candidate[w].auth = Nobody /\ Settle(w, As(w, "FAILED_FINAL"))
     \/ At(w, "silent") /\ Settle(w, As(w, candidate[w].state))
     \/ At(w, "absent") /\ Settle(w, Forgotten(row))
     \/ At(w, "changed") /\ Settle(w, As(w, "FAILED_FINAL"))
  /\ UNCHANGED <<profile, Remote, candidate>>
DeleteAgain(w) ==
  /\ At(w, "found") /\ candidate[w].state = "COMPENSATION_REQUIRED" /\ Go(w, "deleting")
  /\ calls' = calls \cup {<<"delete", w, candidate[w].auth>>}
  /\ UNCHANGED <<row, profile, account, answer, candidate, history>>
DeletedAgain(w) ==
  /\ At(w, "deleting")
  /\ \/ answer[w] = "ok" /\ Settle(w, Forgotten(row))
     \/ answer[w] # "ok" /\ Settle(w, [As(w, "COMPENSATION_REQUIRED") EXCEPT !.auth = candidate[w].auth])
  /\ answer' = [answer EXCEPT ![w] = "none"]
  /\ UNCHANGED <<profile, account, calls, candidate>>
CompleteRecovered(w) ==
  /\ At(w, "found") /\ candidate[w].state # "COMPENSATION_REQUIRED" /\ Go(w, "start")
  /\ \/ /\ row.auth # Nobody /\ profile = Nobody
        /\ profile' = row.auth /\ row' = Completed(row) /\ Writes(w)
     \/ UNCHANGED <<profile, row, history>>
  /\ UNCHANGED <<Remote, candidate>>

----------------------------------------------------------------------------

(* A lease is 60 seconds, whatever its holder waits for.                          *)
LeaseExpires ==
  /\ row.lease /\ row' = [row EXCEPT !.lease = FALSE]
  /\ UNCHANGED <<profile, Remote, at, candidate, history>>
Crash(a) ==
  /\ at[a] \notin {"start", "end"} /\ Go(a, IF a \in Workers THEN "start" ELSE "end")
  /\ answer' = [answer EXCEPT ![a] = "none"]
  /\ UNCHANGED <<row, profile, account, calls, candidate, history>>

Next ==
  \/ \E m \in Managers :
       \/ Claim(m) \/ Retry(m) \/ CreateIdentity(m) \/ Created(m) \/ Transact(m)
       \/ Compensate(m) \/ Deleted(m)
  \/ \E w \in Workers :
       \/ Find(w) \/ ClaimRow(w) \/ Lookup(w) \/ Judge(w) \/ DeleteAgain(w) \/ DeletedAgain(w)
       \/ CompleteRecovered(w)
  \/ \E a \in Actors : Crash(a)
  \/ Provider \/ LeaseExpires

Spec == Init /\ [][Next]_pvars

----------------------------------------------------------------------------

(* Until the user is complete: a row that create may claim again has left no     *)
(* identity behind, and none can still appear.  The answers that leave this open *)
(* end in a state that create refuses (UserAuthAdapter, transition, reconcile).  *)
RetryIsClean ==
  row.state = "FAILED_RETRYABLE" /\ row.auth = Nobody /\ profile = Nobody =>
    account \notin Managers /\ \A c \in calls : c[1] # "create"

(* A row that says COMPLETED has a profile and an identity, and they are one:     *)
(* no deletion still under way for an earlier attempt, or after a commit nobody   *)
(* heard of, takes the identity from under it (create, completeRecovered).        *)
CompletedHasBoth ==
  row.state = "COMPLETED" => profile # Nobody /\ profile = account

(* Both: what the row says of the other two systems is true, however late those   *)
(* who were overtaken hear of their calls, or the calls arrive, as long as none of *)
(* them writes the row and no worker claims another row than the one it read.  The *)
(* code prevents neither: a transition tests no claimToken, and the claim of a     *)
(* worker tests the state of the row and not its authUserId.                       *)
RowIsTrue == strayed = {} => RetryIsClean /\ CompletedHasBoth
=============================================================================

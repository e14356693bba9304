------------------------------- MODULE Sessions -------------------------------
(* The password of one profile and what depends on it: LocalAuthProvider.login, *)
(* SessionsService, the refresh of a session and PasswordLifecycleService.       *)
(* Every accepted change of the password raises credentialVersion; a session, a  *)
(* token of the access and a recovery token carry the version they were made     *)
(* for.  A step is one query or one transaction; requests interleave.            *)
EXTENDS Naturals, FiniteSets

CONSTANTS Browsers, Recoveries, Changes,  \* logins, recovery e-mails, change forms
          Resets,                         \* requests of reset-password
          MaxVersion                      \* bound of credentialVersion

VARIABLES version,    \* localCredential.credentialVersion
          jwt,        \* [Browsers -> credentialVersion of its access token, or 0]
          session,    \* [Browsers -> the user_sessions row of its cookie]
          login,      \* [Browsers -> where its login or refresh stands]
          carried,    \* [Browsers -> the version read for the session to create]
          token,      \* [Recoveries -> the password_reset_tokens row]
          mail,       \* [Recoveries -> where request stands, and what it saw]
          reset,      \* [Resets -> the recovery it resets by, as it was read]
          change      \* [Changes -> the version whose hash it has compared, or 0]

svars == <<version, jwt, session, login, carried, token, mail, reset, change>>

Versions == 1..MaxVersion
NoSession == [state |-> "none", version |-> 0, expired |-> FALSE]
NoToken == [state |-> "none", version |-> 0, expired |-> FALSE]
Idle == [step |-> "idle", of |-> {}, version |-> 0]

TypeOK ==
  /\ version \in Versions /\ jwt \in [Browsers -> 0..MaxVersion]
  /\ session \in [Browsers -> [state : {"none", "active", "revoked"}, version : 0..MaxVersion,
                               expired : BOOLEAN]]
  /\ login \in [Browsers -> {"out", "verified", "insert", "in", "renewed", "remote", "again"}]
  /\ carried \in [Browsers -> 0..MaxVersion]
  /\ token \in [Recoveries -> [state : {"none", "live", "used", "revoked"},
                               version : 0..MaxVersion, expired : BOOLEAN]]
  /\ mail \in [Recoveries -> [step : {"idle", "sent", "storing", "end"},
                              of : SUBSET Recoveries, version : 0..MaxVersion]]
  /\ reset \in [Resets -> [step : {"idle", "consume", "end"}, of : SUBSET Recoveries,
                           version : 0..MaxVersion]]
  /\ change \in [Changes -> 0..MaxVersion]

Init ==
  /\ version = 1 /\ jwt = [b \in Browsers |-> 0]
  /\ session = [b \in Browsers |-> NoSession] /\ login = [b \in Browsers |-> "out"]
  /\ carried = [b \in Browsers |-> 0]
  /\ token = [t \in Recoveries |-> NoToken] /\ mail = [t \in Recoveries |-> Idle]
  /\ reset = [r \in Resets |-> Idle] /\ change = [c \in Changes |-> 0]

Password == <<version, token, mail, reset, change>>
Access == <<jwt, session, login, carried>>
Then(b, there) == login' = [login EXCEPT ![b] = there]
Active(b) == session[b].state = "active" /\ ~session[b].expired

----------------------------------------------------------------------------
(* Logins and refreshes                                                          *)

(* The password compares: the access token carries the version of that read.     *)
VerifyPassword(b) ==
  /\ login[b] = "out" /\ jwt' = [jwt EXCEPT ![b] = version] /\ Then(b, "verified")
  /\ UNCHANGED <<session, carried, Password>>
(* sessions.create reads the version again, then inserts.                        *)
ReadVersion(b) ==
  /\ login[b] \in {"verified", "again"} /\ carried' = [carried EXCEPT ![b] = version]
  /\ Then(b, "insert") /\ UNCHANGED <<jwt, session, Password>>
InsertSession(b) ==
  /\ login[b] = "insert" /\ Then(b, "in")
  /\ session' = [session EXCEPT ![b] = [state |-> "active", version |-> carried[b],
                                        expired |-> FALSE]]
  /\ UNCHANGED <<jwt, carried, Password>>

(* Fault: the renewal does not test revokedAt                                    *)
RenewRevoked(b, there) ==
  /\ session' = [session EXCEPT ![b].state = "active", ![b].expired = FALSE] /\ Then(b, there)
(* renewActive: a conditional update, or the browser has to log in again.        *)
RenewActive(b, there) ==
  IF Active(b) THEN session' = [session EXCEPT ![b].expired = FALSE] /\ Then(b, there)
               ELSE session' = session /\ Then(b, "out")
(* A local refresh renews the row while it is active, then keeps the access      *)
(* token or signs one for the version of that moment.                            *)
Renew(b) ==
  /\ login[b] = "in" /\ RenewActive(b, "renewed")
  /\ UNCHANGED <<jwt, carried, Password>>
IssueAccess(b) ==
  /\ login[b] = "renewed" /\ Then(b, "in")
  /\ jwt' \in {jwt, [jwt EXCEPT ![b] = version]}
  /\ UNCHANGED <<session, carried, Password>>
(* A remote refresh reads the row, asks the provider, and renews the row or, if  *)
(* the row it read had expired, creates another one.                             *)
FindSession(b) ==
  /\ login[b] = "in" /\ session[b].state = "active"
  /\ Then(b, IF session[b].expired THEN "again" ELSE "remote")
  /\ UNCHANGED <<jwt, session, carried, Password>>
RenewRemote(b) ==
  /\ login[b] = "remote" /\ RenewActive(b, "in")
  /\ UNCHANGED <<jwt, carried, Password>>

SessionExpires(b) ==
  /\ Active(b) /\ session' = [session EXCEPT ![b].expired = TRUE]
  /\ UNCHANGED <<jwt, login, carried, Password>>

Revoked(kept) ==
  [b \in Browsers |-> IF session[b].state = "active" /\ b \notin kept
                      THEN [session[b] EXCEPT !.state = "revoked"] ELSE session[b]]
(* revokeCurrent; revokeAllForProfile (log out everywhere, a new role).          *)
Logout(b) ==
  /\ login[b] = "in" /\ session' = Revoked(Browsers \ {b}) /\ Then(b, "out")
  /\ UNCHANGED <<jwt, carried, Password>>
RevokeAll ==
  /\ session' = Revoked({}) /\ session' # session
  /\ UNCHANGED <<jwt, login, carried, Password>>

----------------------------------------------------------------------------
(* Recovery and change of the password                                           *)

(* request: the version is read before the e-mail is sent ...                    *)
SendMail(t) ==
  /\ mail[t].step = "idle"
  /\ mail' = [mail EXCEPT ![t] = [step |-> "sent", of |-> {}, version |-> version]]
  /\ UNCHANGED <<version, token, reset, change, Access>>
(* ... and in a transaction after it the tokens it sees are revoked, and the     *)
(* token is stored; one that another transaction stores meanwhile is not seen.   *)
Unused == {t \in Recoveries : token[t].state = "live"}
SeeUnused(t) ==
  /\ mail[t].step = "sent"
  /\ mail' = [mail EXCEPT ![t].step = "storing", ![t].of = Unused]
  /\ UNCHANGED <<version, token, reset, change, Access>>
WithRevoked(these) ==
  [t \in Recoveries |-> IF t \in these \cap Unused
                        THEN [token[t] EXCEPT !.state = "revoked"] ELSE token[t]]
StoreToken(t) ==
  /\ mail[t].step = "storing" /\ mail' = [mail EXCEPT ![t].step = "end"]
  /\ token' = [WithRevoked(mail[t].of) EXCEPT
                 ![t] = [state |-> "live", version |-> mail[t].version, expired |-> FALSE]]
  /\ UNCHANGED <<version, reset, change, Access>>
TokenExpires(t) ==
  /\ token[t].state = "live" /\ ~token[t].expired
  /\ token' = [token EXCEPT ![t].expired = TRUE]
  /\ UNCHANGED <<version, mail, reset, change, Access>>

(* reset: a candidate is read and judged ...                                     *)
Usable(t) == token[t].state = "live" /\ ~token[t].expired
(* Fault: the candidate's credentialVersion is not compared                      *)
OfThisVersionUnchecked(t) == TRUE
OfThisVersion(t) == token[t].version = version
ReadToken(r, t) ==
  /\ reset[r].step = "idle" /\ Usable(t) /\ OfThisVersion(t)
  /\ reset' = [reset EXCEPT ![r] = [step |-> "consume", of |-> {t}, version |-> version]]
  /\ UNCHANGED <<version, token, mail, change, Access>>
(* ... and consumed, if the token and the version are still those: the password  *)
(* is replaced, every session and every other token revoked, or nothing is.      *)
StillCurrent(r) == version = reset[r].version
Consume(r) ==
  /\ reset[r].step = "consume" /\ reset' = [reset EXCEPT ![r].step = "end"]
  /\ \E t \in reset[r].of :
       IF Usable(t) /\ StillCurrent(r)
       THEN /\ version < MaxVersion /\ version' = version + 1
            /\ token' = [WithRevoked(Recoveries \ {t}) EXCEPT ![t].state = "used"]
            /\ session' = Revoked({})
       ELSE UNCHANGED <<version, token, session>>
  /\ UNCHANGED <<mail, change, jwt, login, carried>>

(* change: the current password is compared, then replaced where it is still     *)
(* there.  A hash is salted, so no two changes leave the same one.               *)
ComparePassword(c) ==
  /\ change[c] = 0 /\ change' = [change EXCEPT ![c] = version]
  /\ UNCHANGED <<version, token, mail, reset, Access>>
ChangePassword(c) ==
  /\ change[c] # 0 /\ change' = [change EXCEPT ![c] = 0]
  /\ IF change[c] = version
     THEN /\ version < MaxVersion /\ version' = version + 1
          /\ token' = WithRevoked(Recoveries) /\ session' = Revoked({})
     ELSE UNCHANGED <<version, token, session>>
  /\ UNCHANGED <<mail, reset, jwt, login, carried>>

----------------------------------------------------------------------------

Next ==
  \/ \E b \in Browsers :
       \/ VerifyPassword(b) \/ ReadVersion(b) \/ InsertSession(b) \/ Renew(b)
       \/ IssueAccess(b) \/ FindSession(b) \/ RenewRemote(b) \/ SessionExpires(b) \/ Logout(b)
  \/ RevokeAll
  \/ \E t \in Recoveries : SendMail(t) \/ SeeUnused(t) \/ StoreToken(t) \/ TokenExpires(t)
  \/ \E r \in Resets : (\E t \in Recoveries : ReadToken(r, t)) \/ Consume(r)
  \/ \E c \in Changes : ComparePassword(c) \/ ChangePassword(c)

Spec == Init /\ [][Next]_svars

----------------------------------------------------------------------------

(* Two recovery e-mails asked for at once may leave two live tokens (request).   *)
(* Still, one of them at most ever sets the password it was sent for: reset and  *)
(* change both move the version on, whatever each had read before.               *)
ResetOncePerVersion ==
  \A t, u \in Recoveries :
    token[t].state = "used" /\ token[u].state = "used" /\ t # u =>
      token[t].version # token[u].version

(* What JwtStrategy and assertActive let pass.                                   *)
Passes(b) == Active(b) /\ session[b].version = version /\ jwt[b] = version
(* No request passes on a session that a change of the password, or a log out    *)
(* everywhere, has found: only a login or a refresh opens one again.             *)
RevocationHolds ==
  [][\A b \in Browsers : ~Passes(b) /\ Passes(b)' =>
       login[b] \in {"insert", "renewed"}]_svars
=============================================================================

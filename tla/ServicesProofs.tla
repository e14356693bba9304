--------------------------- MODULE ServicesProofs ---------------------------
(* Proofs about the components that MCServices runs together, each for every  *)
(* number of its requests, rows and keys. A theorem names the component's own *)
(* specification and the property that MCServices checks.                     *)
EXTENDS MCServices, FiniteSetTheorems, SequenceTheorems, NaturalsInduction, WellFoundedInduction, TLAPS

-----------------------------------------------------------------------------
(* Registration: an address gets one company, a completed registration stays  *)
(* completed, and an identity of another origin is left alone. The heart is   *)
(* that the row is COMPLETED exactly when the company exists, and that every  *)
(* way of writing the row tests a state that is not that one; the recovery    *)
(* with other data tests the row's updatedAt instead, which stands for the    *)
(* state that was read.                                                       *)

(* The company exists only if the row is completed, and is the only one. *)
Settled == accounts # {} => registration.state = "COMPLETED" /\ \E a : accounts = {a}

(* Whoever is to recover the row, and whose read of it still holds, found it *)
(* failed.                                                                   *)
RecoversFailed ==
  \A r \in fresh : registrationStep[r] \in {"verify", "recover"} => registration.state = "FAILED_RETRYABLE"

(* Whoever is to finish the registration has the identity to do it with. *)
HasIdentity == \A r \in Applicants : registrationStep[r] \in {"claimAuth", "adopt", "tx"} => auth[r] \in Applicants

(* The inductive invariant *)
RegistrationInv == R!TypeOK /\ HasIdentity /\ Settled /\ RecoversFailed

RegistrationRows == [state : R!States \cup {"absent"}, payload : {Payload[r] : r \in Applicants} \cup {Nobody},
         token : Applicants \cup {Nobody}, lease : BOOLEAN,
         auth : Applicants \cup {Nobody}, code : R!Codes]

-----------------------------------------------------------------------------
(* A mark leaves a row of the right type, or the row as it is.               *)
LEMMA MarkType ==
  ASSUME R!TypeOK, NEW r \in Applicants, NEW state \in R!States, NEW code \in R!Codes,
         R!Mark(r, state, code)
  PROVE  registration' \in RegistrationRows /\ fresh' \subseteq Applicants
<1>1. registration \in RegistrationRows  BY DEF R!TypeOK, RegistrationRows
<1>2. [registration EXCEPT !.state = state, !.code = code, !.token = Nobody, !.lease = FALSE] \in RegistrationRows
  BY <1>1 DEF RegistrationRows
<1> QED  BY <1>1, <1>2 DEF R!TypeOK, R!Mark, R!Write, R!Keep

(* A claim leaves a row of the right type. *)
LEMMA ClaimedType ==
  ASSUME NEW r \in Applicants, NEW w \in RegistrationRows
  PROVE  /\ R!Claimed(r, w) \in RegistrationRows
         /\ [R!Claimed(r, w) EXCEPT !.payload = Payload[r], !.auth = Nobody] \in RegistrationRows
         /\ [R!NoIntent EXCEPT !.payload = Payload[r]] \in RegistrationRows
<1>1. Payload[r] \in {Payload[q] : q \in Applicants} \cup {Nobody}  OBVIOUS
<1>2. R!Claimed(r, w) \in RegistrationRows  BY DEF R!Claimed, RegistrationRows, R!States,
                                                     R!Codes
<1>3. [R!Claimed(r, w) EXCEPT !.payload = Payload[r], !.auth = Nobody] \in RegistrationRows
  BY <1>1, <1>2 DEF RegistrationRows
<1>4. R!NoIntent \in RegistrationRows  BY DEF R!NoIntent, RegistrationRows, R!Codes
<1>5. [R!NoIntent EXCEPT !.payload = Payload[r]] \in RegistrationRows
  BY <1>1, <1>4 DEF RegistrationRows
<1> QED  BY <1>2, <1>3, <1>5

(* The initial states satisfy the inductive invariant. *)
LEMMA RegistrationInit == R!Init => RegistrationInv
BY DEF R!Init, RegistrationInv, R!TypeOK, HasIdentity, Settled, RecoversFailed, R!NoIntent,
       R!Codes, R!Identities, R!Ended

(* Every step preserves the types. *)
LEMMA RegistrationTypes == R!TypeOK /\ HasIdentity /\ [R!Next]_(R!rvars) => R!TypeOK'
<1> SUFFICES ASSUME R!TypeOK, HasIdentity, [R!Next]_(R!rvars) PROVE R!TypeOK'  OBVIOUS
<1> USE DEF R!TypeOK
<1>1. ASSUME NEW r \in Applicants, R!Claim(r) PROVE R!TypeOK'
  <2>1. registration' \in RegistrationRows
    <3>1. registration \in RegistrationRows  BY DEF RegistrationRows
    <3>2. CASE registration.state = "absent"
      <4>1. registration' = R!Claimed(r, [R!NoIntent EXCEPT !.payload = Payload[r]])
        BY <1>1, <3>2 DEF R!Claim, R!Write
      <4>2. [R!NoIntent EXCEPT !.payload = Payload[r]] \in RegistrationRows  BY <3>1, ClaimedType
      <4> QED  BY <4>1, <4>2, ClaimedType
    <3>3. CASE registration.state # "absent"  BY <1>1, <3>1, <3>3 DEF R!Claim
    <3> QED  BY <3>2, <3>3
  <2> QED  BY <1>1, <2>1 DEF R!Claim, R!Write, R!Remote, R!To, RegistrationRows, R!Ended
<1>2. ASSUME NEW r \in Applicants, R!Reclaim(r) PROVE R!TypeOK'
  <2>1. registration' \in RegistrationRows
    <3>1. registration \in RegistrationRows  BY DEF RegistrationRows
    <3>2. R!Claimed(r, registration) \in RegistrationRows  BY <3>1, ClaimedType
    <3> QED  BY <1>2, <3>1, <3>2 DEF R!Reclaim, R!Write, R!Keep
  <2> QED  BY <1>2, <2>1 DEF R!Reclaim, R!Write, R!Keep, R!Remote, R!To, RegistrationRows, R!Ended
<1>3. ASSUME NEW r \in Applicants, R!Reread(r) PROVE R!TypeOK'
  BY <1>3 DEF R!Reread, R!Keep, R!Remote, R!To, R!Ended
<1>4. ASSUME NEW r \in Applicants, R!Verify(r) PROVE R!TypeOK'
  BY <1>4 DEF R!Verify, R!Keep, R!Remote, R!To, R!Ended
<1>5. ASSUME NEW r \in Applicants, R!Recover(r) PROVE R!TypeOK'
  <2>1. registration' \in RegistrationRows
    BY <1>5, ClaimedType, ZenonT(40) DEF R!Recover, R!Write, R!Keep, RegistrationRows
  <2> QED  BY <1>5, <2>1 DEF R!Recover, R!Write, R!Keep, R!Remote, R!To, RegistrationRows, R!Ended
<1>6. ASSUME NEW r \in Applicants, R!LookupProfile(r) PROVE R!TypeOK'
  BY <1>6 DEF R!LookupProfile, R!Keep, R!Remote, R!To, R!Ended
<1>7. ASSUME NEW r \in Applicants, R!FindAuth(r) PROVE R!TypeOK'
  <2>1. registration' \in RegistrationRows /\ fresh' \subseteq Applicants
    BY <1>7, MarkType DEF R!FindAuth, R!Keep, RegistrationRows, R!States, R!Codes
  <2> QED  BY <1>7, <2>1 DEF R!FindAuth, R!Remote, R!To, RegistrationRows, R!Ended
<1>8. ASSUME NEW r \in Applicants, R!Create(r) PROVE R!TypeOK'
  BY <1>8 DEF R!Create, R!Keep, R!To, R!Identities, R!Ended
<1>9. ASSUME NEW r \in Applicants, R!Created(r) PROVE R!TypeOK'
  <2>1. registration' \in RegistrationRows /\ fresh' \subseteq Applicants
    BY <1>9, MarkType DEF R!Created, R!Keep, RegistrationRows, R!States, R!Codes
  <2> QED  BY <1>9, <2>1 DEF R!Created, R!To, RegistrationRows, R!Ended
<1>10. ASSUME NEW r \in Applicants, R!Exists(r) PROVE R!TypeOK'
  <2>1. registration' \in RegistrationRows /\ fresh' \subseteq Applicants
    BY <1>10, MarkType DEF R!Exists, R!Keep, RegistrationRows, R!States, R!Codes
  <2> QED  BY <1>10, <2>1 DEF R!Exists, R!Remote, R!To, RegistrationRows, R!Ended
<1>11. ASSUME NEW r \in Applicants, R!ClaimAuth(r) PROVE R!TypeOK'
  <2>1. registration' \in RegistrationRows /\ fresh' \subseteq Applicants
    <3>1. CASE R!Owns(r, "CLAIMED")
      BY <1>11, <3>1, ZenonT(40) DEF R!ClaimAuth, R!Write, RegistrationRows, R!States, R!Codes
    <3>2. CASE ~R!Owns(r, "CLAIMED") /\ R!At(r, "claimAuth")
      <4>1. PICK code \in R!Codes : R!Mark(r, "FAILED_RETRYABLE", code)
        BY <1>11, <3>2 DEF R!ClaimAuth, R!Codes
      <4> QED  BY <4>1, MarkType DEF R!States
    <3>3. CASE ~R!Owns(r, "CLAIMED") /\ ~R!At(r, "claimAuth")
      BY <1>11, <3>3 DEF R!ClaimAuth, R!Keep, RegistrationRows
    <3> QED  BY <3>1, <3>2, <3>3
  <2> QED  BY <1>11, <2>1 DEF R!ClaimAuth, R!Remote, R!To, RegistrationRows, R!Ended
<1>12. ASSUME NEW r \in Applicants, R!Transact(r) PROVE R!TypeOK'
  <2>1. registration' \in RegistrationRows /\ fresh' \subseteq Applicants
    BY <1>12, ZenonT(40) DEF R!Transact, R!Write, R!Keep, RegistrationRows, R!States, R!Codes
  <2>2. accounts' \subseteq [by : Applicants, auth : Applicants]
    <3>1. CASE accounts' = accounts  BY <3>1
    <3>2. CASE accounts' # accounts
      <4>1. R!Owns(r, "AUTH_CREATED") /\ accounts' = accounts \cup {[by |-> r, auth |-> auth[r]]}
        BY <1>12, <3>2 DEF R!Transact
      <4>2. auth[r] \in Applicants  BY <1>12 DEF R!Transact, R!At, HasIdentity
      <4> QED  BY <4>1, <4>2
    <3> QED  BY <3>1, <3>2
  <2> QED  BY <1>12, <2>1, <2>2 DEF R!Transact, R!Remote, R!To, RegistrationRows, R!Ended
<1>13. ASSUME NEW r \in Applicants, R!Compensate(r) PROVE R!TypeOK'
  <2>1. registration' \in RegistrationRows /\ fresh' \subseteq Applicants
    <3>1. [registration EXCEPT !.state = "COMPENSATION_REQUIRED", !.code = "unsafe", !.lease = TRUE] \in RegistrationRows
      BY DEF RegistrationRows, R!States, R!Codes
    <3> QED  BY <1>13, <3>1 DEF R!Compensate, R!Write, R!Keep, RegistrationRows
  <2>2. registrationCalls' \subseteq {"create", "delete"} \X Applicants \X R!Identities
    BY <1>13 DEF R!Compensate, R!Identities
  <2> QED  BY <1>13, <2>1, <2>2 DEF R!Compensate, R!To, RegistrationRows, R!Ended
<1>14. ASSUME NEW r \in Applicants, R!Deleted(r) PROVE R!TypeOK'
  <2>1. registration' \in RegistrationRows /\ fresh' \subseteq Applicants
    BY <1>14, MarkType DEF R!Deleted, R!States, R!Codes
  <2> QED  BY <1>14, <2>1 DEF R!Deleted, R!To, RegistrationRows, R!Ended
<1>15. ASSUME NEW r \in Applicants, R!Crash(r) PROVE R!TypeOK'
  BY <1>15 DEF R!Crash, R!Keep, R!Remote, R!To, R!Ended
<1>16. CASE R!Provider
  <2>1. PICK c \in registrationCalls :
              /\ registrationCalls' = registrationCalls \ {c}
              /\ identity' \in {identity, c[2], Nobody}
              /\ \E a \in {"ok", "exists", "rejected", "error"} :
                   \/ registrationAnswer' = [registrationAnswer EXCEPT ![c[2]] = a]
                   \/ registrationAnswer' = registrationAnswer
              /\ R!Keep /\ UNCHANGED <<accounts, registrationStep, held, auth>>
    BY <1>16 DEF R!Provider
  <2> QED  BY <2>1 DEF R!Keep, R!Identities
<1>17. CASE R!LeaseExpires
  BY <1>17 DEF R!LeaseExpires, R!Remote
<1>18. CASE UNCHANGED R!rvars  BY <1>18 DEF R!rvars, R!Remote
<1> QED  BY <1>1, <1>2, <1>3, <1>4, <1>5, <1>6, <1>7, <1>8, <1>9, <1>10, <1>11, <1>12,
            <1>13, <1>14, <1>15, <1>16, <1>17, <1>18 DEF R!Next

-----------------------------------------------------------------------------
(* The identity a request works with is set before it is needed.             *)
LEMMA IdentityPreserved == R!TypeOK /\ HasIdentity /\ [R!Next]_(R!rvars) => HasIdentity'
<1> SUFFICES ASSUME R!TypeOK, HasIdentity, [R!Next]_(R!rvars) PROVE HasIdentity'  OBVIOUS
<1> USE DEF R!TypeOK, HasIdentity
<1>1. ASSUME NEW r \in Applicants, R!Claim(r) \/ R!Reclaim(r) \/ R!Reread(r) \/ R!Verify(r) \/ R!Recover(r)
      PROVE  HasIdentity'
  BY <1>1 DEF R!Claim, R!Reclaim, R!Reread, R!Verify, R!Recover, R!To
<1>2. ASSUME NEW r \in Applicants,
             R!LookupProfile(r) \/ R!FindAuth(r) \/ R!Create(r) \/ R!Created(r) \/ R!Exists(r)
      PROVE  HasIdentity'
  BY <1>2 DEF R!LookupProfile, R!FindAuth, R!Create, R!Created, R!Exists, R!To
<1>3. ASSUME NEW r \in Applicants,
             R!ClaimAuth(r) \/ R!Transact(r) \/ R!Compensate(r) \/ R!Deleted(r) \/ R!Crash(r)
      PROVE  HasIdentity'
  BY <1>3 DEF R!ClaimAuth, R!Transact, R!Compensate, R!Deleted, R!Crash, R!To
<1>4. CASE R!Provider \/ R!LeaseExpires \/ UNCHANGED R!rvars
  BY <1>4 DEF R!Provider, R!LeaseExpires, R!rvars
<1> QED  BY <1>1, <1>2, <1>3, <1>4 DEF R!Next

-----------------------------------------------------------------------------
(* A completed row is written by nobody; and nobody else completes it, nor    *)
(* makes a company, than a transaction that finds the identity claimed.       *)
LEMMA OnlyTransactions ==
  ASSUME R!TypeOK, RecoversFailed, [R!Next]_(R!rvars)

  PROVE  /\ registration.state = "COMPLETED" => registration'.state = "COMPLETED" /\ accounts' = accounts
         /\ \/ accounts' = accounts
            \/ /\ registration.state = "AUTH_CREATED" /\ registration'.state = "COMPLETED"
               /\ \E a : accounts' = accounts \cup {a}
<1> USE DEF R!TypeOK
<1>0. "COMPLETED" \notin R!Reclaimable
  BY DEF R!Reclaimable
<1>1. ASSUME NEW r \in Applicants, R!Transact(r)
      PROVE  \/ accounts' = accounts /\ registration' = registration
             \/ /\ registration.state = "AUTH_CREATED" /\ registration'.state = "COMPLETED"
                /\ \E a : accounts' = accounts \cup {a}
  BY <1>1 DEF R!Transact, R!Owns, R!Write, R!Keep
<1>2. ASSUME NEW r \in Applicants, R!Recover(r)

      PROVE  accounts' = accounts /\ (registration.state = "COMPLETED" => registration' = registration)
  BY <1>2 DEF R!Recover, RecoversFailed, R!At, R!Keep
<1>3. ASSUME NEW r \in Applicants, R!Claim(r) \/ R!Reclaim(r)

      PROVE  accounts' = accounts /\ (registration.state = "COMPLETED" => registration' = registration)
  BY <1>3 DEF R!Claim, R!Reclaim, R!Reclaimable, R!Keep
<1>4. ASSUME NEW r \in Applicants,
             R!FindAuth(r) \/ R!Created(r) \/ R!Exists(r) \/ R!ClaimAuth(r) \/ R!Compensate(r) \/ R!Deleted(r)

      PROVE  accounts' = accounts /\ (registration.state = "COMPLETED" => registration' = registration)
  BY <1>4 DEF R!FindAuth, R!Created, R!Exists, R!ClaimAuth, R!Compensate, R!Deleted, R!Mark,
              R!MayMark, R!Owns, R!Keep
<1>5. ASSUME NEW r \in Applicants,
             R!Reread(r) \/ R!Verify(r) \/ R!LookupProfile(r) \/ R!Create(r) \/ R!Crash(r)
      PROVE  accounts' = accounts /\ registration' = registration
  BY <1>5 DEF R!Reread, R!Verify, R!LookupProfile, R!Create, R!Crash, R!Keep
<1>6. CASE R!Provider \/ R!LeaseExpires \/ UNCHANGED R!rvars
  BY <1>6 DEF R!Provider, R!LeaseExpires, R!rvars, R!Keep
<1> QED  BY <1>1, <1>2, <1>3, <1>4, <1>5, <1>6 DEF R!Next

(* So the company stays the only one. *)
LEMMA SettledPreserved == R!TypeOK /\ Settled /\ RecoversFailed /\ [R!Next]_(R!rvars) => Settled'
<1> SUFFICES ASSUME R!TypeOK, Settled, RecoversFailed, [R!Next]_(R!rvars) PROVE Settled'  OBVIOUS
<1>1. CASE accounts' = accounts  BY <1>1, OnlyTransactions DEF Settled
<1>2. CASE accounts' # accounts
  <2>1. registration.state = "AUTH_CREATED" /\ registration'.state = "COMPLETED"  BY <1>2,
                                                                                     OnlyTransactions
  <2>2. PICK a : accounts' = accounts \cup {a}  BY <1>2, OnlyTransactions
  <2>3. accounts = {}  BY <2>1 DEF Settled
  <2> QED  BY <2>1, <2>2, <2>3 DEF Settled
<1> QED  BY <1>1, <1>2

(* Every write of the row makes what was read of it old: the state that a    *)
(* recovery found is the row's as long as its read holds.                    *)
LEMMA RecoversPreserved == R!TypeOK /\ RecoversFailed /\ [R!Next]_(R!rvars) => RecoversFailed'
<1> SUFFICES ASSUME R!TypeOK, RecoversFailed, [R!Next]_(R!rvars) PROVE RecoversFailed'  OBVIOUS
<1> USE DEF R!TypeOK, RecoversFailed
<1>1. ASSUME NEW r \in Applicants, R!Claim(r) PROVE RecoversFailed'
  BY <1>1 DEF R!Claim, R!Write, R!To
<1>2. ASSUME NEW r \in Applicants, R!Verify(r) PROVE RecoversFailed'
  BY <1>2 DEF R!Verify, R!At, R!To, R!Keep
<1>3. ASSUME NEW r \in Applicants,
             R!Reclaim(r) \/ R!Reread(r) \/ R!Recover(r) \/ R!LookupProfile(r) \/ R!FindAuth(r) \/ R!Create(r)
      PROVE  RecoversFailed'
  BY <1>3 DEF R!Reclaim, R!Reread, R!Recover, R!LookupProfile, R!FindAuth, R!Create, R!To,
              R!Keep, R!Write, R!Mark
<1>4. ASSUME NEW r \in Applicants,
             \/ R!Created(r) \/ R!Exists(r) \/ R!ClaimAuth(r) \/ R!Transact(r) \/ R!Compensate(r)
             \/ R!Deleted(r) \/ R!Crash(r)
      PROVE  RecoversFailed'
  BY <1>4 DEF R!Created, R!Exists, R!ClaimAuth, R!Transact, R!Compensate, R!Deleted, R!Crash,
              R!To, R!Keep, R!Write, R!Mark
<1>5. CASE R!Provider \/ R!LeaseExpires \/ UNCHANGED R!rvars
  BY <1>5 DEF R!Provider, R!LeaseExpires, R!rvars, R!Keep
<1> QED  BY <1>1, <1>2, <1>3, <1>4, <1>5 DEF R!Next

(* The steps together. *)
LEMMA RegistrationNext == RegistrationInv /\ [R!Next]_(R!rvars) => RegistrationInv'
BY RegistrationTypes, IdentityPreserved, SettledPreserved, RecoversPreserved DEF RegistrationInv

(* Type correctness, with what the other theorems rest on. *)
THEOREM RegistrationInvariant == R!Spec => []RegistrationInv
<1> QED  BY RegistrationInit, RegistrationNext, PTL DEF R!Spec

(* One address gets one company at most, whatever requests are retried,      *)
(* taken over, compensated or answered late (register's transaction).        *)
THEOREM OneCompanyHolds == R!Spec => []OneCompany
<1>1. RegistrationInv => OneCompany
  <2> SUFFICES ASSUME RegistrationInv PROVE Cardinality(accounts) <= 1
    BY Zenon DEF OneCompany, R!OneCompany, R!Cardinality, Cardinality
  <2>1. CASE accounts = {}  BY <2>1, FS_EmptySet
  <2>2. CASE accounts # {}
    <3>1. PICK a : accounts = {a}  BY <2>2 DEF RegistrationInv, Settled
    <3>2. Cardinality({a}) = 1  BY FS_Singleton
    <3> QED  BY <3>1, <3>2
  <2> QED  BY <2>1, <2>2
<1> QED  BY <1>1, RegistrationInvariant, PTL

(* A completed registration stays completed, and its company the only one    *)
(* (the states that claimRegistrationIntent and the marks test).             *)
THEOREM CompletedStays == R!Spec => R!CompletedForGood
<1>1. RegistrationInv /\ [R!Next]_(R!rvars)
      => [registration.state = "COMPLETED" => registration'.state = "COMPLETED" /\ accounts' = accounts]_(R!rvars)
  BY OnlyTransactions DEF RegistrationInv
<1> QED  BY <1>1, RegistrationInvariant, PTL DEF R!Spec, R!CompletedForGood

-----------------------------------------------------------------------------
(* What the provider is asked to delete is an identity that a registration    *)
(* of this address made.                                                      *)
DeletesOwn == \A c \in registrationCalls : c[1] = "delete" => c[3] \in Applicants \cup {Nobody}

(* Who asks for a deletion is the request whose identity is on its way out    *)
(* (deleteUser in the compensation).                                          *)
LEMMA DeletesPreserved == RegistrationInv /\ DeletesOwn /\ [R!Next]_(R!rvars) => DeletesOwn'
<1> SUFFICES ASSUME R!TypeOK, DeletesOwn, [R!Next]_(R!rvars)
             PROVE  DeletesOwn'  BY DEF RegistrationInv
<1> USE DEF DeletesOwn
<1>1. ASSUME NEW r \in Applicants, R!Compensate(r) PROVE DeletesOwn'
  BY <1>1 DEF R!Compensate, R!TypeOK
<1>2. ASSUME NEW r \in Applicants, R!Create(r) PROVE DeletesOwn'
  BY <1>2 DEF R!Create
<1>3. CASE R!Provider  BY <1>3 DEF R!Provider
<1>4. ASSUME registrationCalls' = registrationCalls PROVE DeletesOwn'  BY <1>4
<1>5. ASSUME NEW r \in Applicants,
             \/ R!Claim(r) \/ R!Reclaim(r) \/ R!Reread(r) \/ R!Verify(r) \/ R!Recover(r)
             \/ R!LookupProfile(r) \/ R!FindAuth(r) \/ R!Created(r) \/ R!Exists(r)
             \/ R!ClaimAuth(r) \/ R!Transact(r) \/ R!Deleted(r) \/ R!Crash(r)
      PROVE  registrationCalls' = registrationCalls
  BY <1>5 DEF R!Claim, R!Reclaim, R!Reread, R!Verify, R!Recover, R!LookupProfile, R!FindAuth,
              R!Created,
              R!Exists, R!ClaimAuth, R!Transact, R!Deleted, R!Crash, R!Remote
<1>6. CASE R!LeaseExpires \/ UNCHANGED R!rvars  BY <1>6 DEF R!LeaseExpires, R!rvars, R!Remote
<1> QED  BY <1>1, <1>2, <1>3, <1>4, <1>5, <1>6 DEF R!Next

(* An identity of another origin is neither adopted nor deleted, if it is     *)
(* none of the registration's (rollback deletes the identity it created).     *)
THEOREM ForeignStays ==
  ASSUME Foreign \notin Applicants, Foreign # Nobody
  PROVE  R!Spec => R!ForeignUntouched
<1>1. R!Init => DeletesOwn  BY DEF R!Init, DeletesOwn
<1>2. DeletesOwn /\ [R!Next]_(R!rvars) => [identity = Foreign => identity' = Foreign]_(R!rvars)
  <2> SUFFICES ASSUME DeletesOwn, R!Next, identity = Foreign PROVE identity' = Foreign
    OBVIOUS
  <2>1. CASE R!Provider  BY <2>1 DEF R!Provider, DeletesOwn
  <2>2. CASE ~R!Provider
    BY <2>2 DEF R!Next, R!LeaseExpires, R!Claim, R!Reclaim, R!Reread, R!Verify, R!Recover,
                R!LookupProfile,
                R!FindAuth, R!Create, R!Created, R!Exists, R!ClaimAuth, R!Transact,
                R!Compensate, R!Deleted,
                R!Crash, R!Remote
  <2> QED  BY <2>1, <2>2
<1> QED  BY <1>1, <1>2, RegistrationInvariant, DeletesPreserved, PTL DEF R!Spec,
                                                                         R!ForeignUntouched

-----------------------------------------------------------------------------
(* Sessions: recovery tokens and revoked sessions.                            *)

(* The recovery of a password.  A token is written by its own request, once.     *)
TokenRows == [state : {"none", "live", "used", "revoked"}, version : Nat, expired : BOOLEAN]
TokensTypeOK ==
  /\ version \in Nat
  /\ token \in [Recoveries -> TokenRows]
  /\ mail \in [Recoveries -> [step : {"idle", "sent", "storing", "end"},
                              of : SUBSET Recoveries, version : Nat]]
  /\ reset \in [Resets -> [step : {"idle", "consume", "end"}, of : SUBSET Recoveries,
                           version : Nat]]
WrittenOnce == \A t \in Recoveries : token[t].state # "none" => mail[t].step = "end"

(* Who is to consume a token has read the version that the token is of.          *)
ReadOfVersion ==
  \A r \in Resets : reset[r].step = "consume" =>
    \A t \in reset[r].of : token[t].version = reset[r].version /\ mail[t].step = "end"

(* A used token has moved the version on; of each version one was used.          *)
UsedBefore ==
  /\ \A t \in Recoveries : token[t].state = "used" => token[t].version < version
  /\ ResetOncePerVersion

RecoveryInv == TokensTypeOK /\ WrittenOnce /\ ReadOfVersion /\ UsedBefore

(* No token is written.                                                       *)
LEMMA RecoveryInit == S!Init => RecoveryInv
<1> SUFFICES ASSUME S!Init PROVE RecoveryInv  OBVIOUS
<1>1. TokensTypeOK  BY DEF S!Init, S!NoToken, S!Idle, TokensTypeOK, TokenRows
<1>2. \A t \in Recoveries : token[t].state = "none"  BY DEF S!Init, S!NoToken
<1>3. \A r \in Resets : reset[r].step = "idle"  BY DEF S!Init, S!Idle
<1> QED  BY <1>1, <1>2, <1>3 DEF RecoveryInv, WrittenOnce, ReadOfVersion, UsedBefore,
                                 ResetOncePerVersion, S!ResetOncePerVersion

(* Revoking tokens changes nothing but the state of those that are live.         *)
LEMMA RevokedTokens ==
  ASSUME token \in [Recoveries -> TokenRows], NEW these
  PROVE  /\ S!WithRevoked(these) \in [Recoveries -> TokenRows]
         /\ \A t \in Recoveries :
              /\ S!WithRevoked(these)[t].version = token[t].version
              /\ S!WithRevoked(these)[t].state = "used" <=> token[t].state = "used"
              /\ S!WithRevoked(these)[t].state = "none" <=> token[t].state = "none"
<1> SUFFICES ASSUME NEW t \in Recoveries
             PROVE  /\ S!WithRevoked(these)[t] \in TokenRows
                    /\ S!WithRevoked(these)[t].version = token[t].version
                    /\ S!WithRevoked(these)[t].state = "used" <=> token[t].state = "used"
                    /\ S!WithRevoked(these)[t].state = "none" <=> token[t].state = "none"
    BY DEF S!WithRevoked
<1>1. token[t] \in TokenRows  OBVIOUS
<1>2. CASE t \in these \cap S!Unused
  <2>1. S!WithRevoked(these)[t] = [token[t] EXCEPT !.state = "revoked"]
    BY <1>2 DEF S!WithRevoked
  <2>2. token[t].state = "live"  BY <1>2 DEF S!Unused
  <2> QED  BY <1>1, <2>1, <2>2 DEF TokenRows
<1>3. CASE t \notin these \cap S!Unused
  <2>1. S!WithRevoked(these)[t] = token[t]  BY <1>3 DEF S!WithRevoked
  <2> QED  BY <1>1, <2>1
<1> QED  BY <1>2, <1>3

(* Mails and resets: a token is used in the transaction that moves the        *)
(* password's version on, under the version that it was read with             *)
(* (resetPassword).                                                           *)
LEMMA RecoveryStep == RecoveryInv /\ [S!Next]_(S!svars) => RecoveryInv'
<1> SUFFICES ASSUME RecoveryInv, [S!Next]_(S!svars) PROVE RecoveryInv'  OBVIOUS
<1>0. TokensTypeOK /\ WrittenOnce /\ ReadOfVersion /\ UsedBefore  BY DEF RecoveryInv
<1> USE DEF ResetOncePerVersion, S!ResetOncePerVersion
<1>1. ASSUME UNCHANGED <<version, token, mail, reset>> PROVE RecoveryInv'
  BY <1>0, <1>1 DEF RecoveryInv, TokensTypeOK, WrittenOnce, ReadOfVersion, UsedBefore
<1>2. ASSUME NEW b \in Browsers,
             \/ S!VerifyPassword(b) \/ S!ReadVersion(b) \/ S!InsertSession(b) \/ S!Renew(b)
             \/ S!IssueAccess(b) \/ S!FindSession(b) \/ S!RenewRemote(b) \/ S!SessionExpires(b)
             \/ S!Logout(b)
      PROVE  UNCHANGED <<version, token, mail, reset>>
  BY <1>2 DEF S!VerifyPassword, S!ReadVersion, S!InsertSession, S!Renew, S!IssueAccess,
              S!FindSession, S!RenewRemote, S!SessionExpires, S!Logout, S!Password
<1>3. ASSUME S!RevokeAll \/ (\E c \in Forms : S!ComparePassword(c)) \/ UNCHANGED S!svars
      PROVE  UNCHANGED <<version, token, mail, reset>>
  BY <1>3 DEF S!RevokeAll, S!ComparePassword, S!svars, S!Password
<1>4. ASSUME NEW t \in Recoveries, S!SendMail(t) \/ S!SeeUnused(t) PROVE RecoveryInv'
  <2>1. UNCHANGED <<version, token, reset>>  BY <1>4 DEF S!SendMail, S!SeeUnused
  <2>2. /\ mail[t].step # "end" /\ \A u \in Recoveries \ {t} : mail'[u] = mail[u]
        /\ mail' \in [Recoveries -> [step : {"idle", "sent", "storing", "end"},
                                     of : SUBSET Recoveries, version : Nat]]
    <3> DEFINE Mails == [step : {"idle", "sent", "storing", "end"}, of : SUBSET Recoveries,
                         version : Nat]
    <3>1. PICK m \in Mails : mail' = [mail EXCEPT ![t] = m]
      <4>1. CASE S!SendMail(t)
        <5>1. [step |-> "sent", of |-> {}, version |-> version] \in Mails
          BY <1>0 DEF TokensTypeOK
        <5> QED  BY <4>1, <5>1 DEF S!SendMail
      <4>2. CASE S!SeeUnused(t)
        <5>1. S!Unused \in SUBSET Recoveries  BY DEF S!Unused
        <5>2. [mail[t] EXCEPT !.step = "storing", !.of = S!Unused] \in Mails
          <6>1. mail[t] \in Mails  BY <1>0 DEF TokensTypeOK
          <6>2. \A these \in SUBSET Recoveries :
                  [mail[t] EXCEPT !.step = "storing", !.of = these] \in Mails
            BY <6>1
          <6> QED  BY <5>1, <6>2
        <5>3. mail' = [mail EXCEPT ![t] = [mail[t] EXCEPT !.step = "storing", !.of = S!Unused]]
          BY <1>0, <4>2 DEF S!SeeUnused, TokensTypeOK
        <5> QED  BY <5>2, <5>3
      <4> QED  BY <1>4, <4>1, <4>2
    <3>2. mail[t].step # "end"  BY <1>4 DEF S!SendMail, S!SeeUnused
    <3>3. mail \in [Recoveries -> Mails]  BY <1>0 DEF TokensTypeOK
    <3> QED  BY <3>1, <3>2, <3>3
  <2> QED  BY <1>0, <2>1, <2>2
           DEF RecoveryInv, TokensTypeOK, WrittenOnce, ReadOfVersion, UsedBefore
<1>5. ASSUME NEW t \in Recoveries, S!StoreToken(t) PROVE RecoveryInv'
  <2>1. UNCHANGED <<version, reset>>  BY <1>5 DEF S!StoreToken
  <2>2. mail[t].step = "storing"  BY <1>5 DEF S!StoreToken
  <2>3. /\ mail'[t].step = "end" /\ \A u \in Recoveries \ {t} : mail'[u] = mail[u]
        /\ mail' \in [Recoveries -> [step : {"idle", "sent", "storing", "end"},
                                     of : SUBSET Recoveries, version : Nat]]
    BY <1>0, <1>5 DEF S!StoreToken, TokensTypeOK
  <2> DEFINE others == S!WithRevoked(mail[t].of)
             new == [state |-> "live", version |-> mail[t].version, expired |-> FALSE]
  <2>4. /\ others \in [Recoveries -> TokenRows]
        /\ \A u \in Recoveries : /\ others[u].version = token[u].version
                                 /\ others[u].state = "used" <=> token[u].state = "used"
                                 /\ others[u].state = "none" <=> token[u].state = "none"
    BY <1>0, RevokedTokens DEF TokensTypeOK
  <2>5. new \in TokenRows /\ new.state = "live"
    BY <1>0 DEF TokensTypeOK, TokenRows
  <2>6. token' = [others EXCEPT ![t] = new]  BY <1>5 DEF S!StoreToken
  <2> HIDE DEF others, new
  <2>7. /\ token' \in [Recoveries -> TokenRows] /\ token'[t].state = "live"
        /\ \A u \in Recoveries \ {t} : /\ token'[u].version = token[u].version
                                       /\ token'[u].state = "used" <=> token[u].state = "used"
                                       /\ token'[u].state = "none" <=> token[u].state = "none"
    BY <2>4, <2>5, <2>6
  <2>8. TokensTypeOK'  BY <1>0, <2>1, <2>3, <2>7 DEF TokensTypeOK
  <2>9. WrittenOnce'  BY <1>0, <2>3, <2>7 DEF WrittenOnce
  <2>10. ReadOfVersion'
    BY <1>0, <2>1, <2>2, <2>3, <2>7 DEF ReadOfVersion, TokensTypeOK
  <2>11. UsedBefore'  BY <1>0, <2>1, <2>7 DEF UsedBefore
  <2> QED  BY <2>8, <2>9, <2>10, <2>11 DEF RecoveryInv
<1>6. ASSUME NEW t \in Recoveries, S!TokenExpires(t) PROVE RecoveryInv'
  <2>1. UNCHANGED <<version, mail, reset>>  BY <1>6 DEF S!TokenExpires
  <2>2. /\ token' \in [Recoveries -> TokenRows]
        /\ \A u \in Recoveries : /\ token'[u].version = token[u].version
                                 /\ token'[u].state = token[u].state
    BY <1>0, <1>6, ZenonT(40) DEF S!TokenExpires, TokensTypeOK, TokenRows
  <2>3. TokensTypeOK' /\ WrittenOnce'  BY <1>0, <2>1, <2>2 DEF TokensTypeOK, WrittenOnce
  <2>4. ReadOfVersion'  BY <1>0, <2>1, <2>2 DEF ReadOfVersion, TokensTypeOK
  <2>5. UsedBefore'  BY <1>0, <2>1, <2>2 DEF UsedBefore
  <2> QED  BY <2>3, <2>4, <2>5 DEF RecoveryInv
<1>7. ASSUME NEW r \in Resets, NEW t \in Recoveries, S!ReadToken(r, t) PROVE RecoveryInv'
  <2>1. UNCHANGED <<version, token, mail>>  BY <1>7 DEF S!ReadToken
  <2>2. reset' = [reset EXCEPT ![r] = [step |-> "consume", of |-> {t}, version |-> version]]
    BY <1>7 DEF S!ReadToken
  <2>3. token[t].version = version /\ mail[t].step = "end"
    BY <1>0, <1>7 DEF S!ReadToken, S!OfThisVersion, S!Usable, WrittenOnce
  <2>4. TokensTypeOK'  BY <1>0, <2>1, <2>2 DEF TokensTypeOK
  <2>5. ReadOfVersion'  BY <1>0, <2>1, <2>2, <2>3 DEF ReadOfVersion, TokensTypeOK
  <2> QED  BY <1>0, <2>1, <2>4, <2>5 DEF RecoveryInv, WrittenOnce, UsedBefore
<1>8. ASSUME NEW r \in Resets, S!Consume(r) PROVE RecoveryInv'
  <2>1. /\ reset' \in [Resets -> [step : {"idle", "consume", "end"}, of : SUBSET Recoveries,
                                  version : Nat]]
        /\ reset'[r].step = "end" /\ \A q \in Resets \ {r} : reset'[q] = reset[q]
    BY <1>0, <1>8 DEF S!Consume, TokensTypeOK
  <2>2. mail' = mail /\ reset[r].step = "consume"  BY <1>8 DEF S!Consume
  <2>3. CASE UNCHANGED <<version, token>>
    BY <1>0, <2>1, <2>2, <2>3, SMTT(30)
       DEF RecoveryInv, TokensTypeOK, WrittenOnce, ReadOfVersion, UsedBefore
  <2>4. ASSUME NEW t \in reset[r].of, S!Usable(t), S!StillCurrent(r), version' = version + 1,
               token' = [S!WithRevoked(Recoveries \ {t}) EXCEPT ![t].state = "used"]
        PROVE  RecoveryInv'
    <3>0. t \in Recoveries  BY <1>0 DEF TokensTypeOK
    <3> DEFINE others == S!WithRevoked(Recoveries \ {t})
    <3>1. /\ others \in [Recoveries -> TokenRows]
          /\ \A u \in Recoveries : /\ others[u].version = token[u].version
                                   /\ others[u].state = "used" <=> token[u].state = "used"
                                   /\ others[u].state = "none" <=> token[u].state = "none"
      BY <1>0, RevokedTokens DEF TokensTypeOK
    <3>2. token' = [others EXCEPT ![t].state = "used"]  BY <2>4
    <3> HIDE DEF others
    <3>3. /\ token' \in [Recoveries -> TokenRows] /\ token'[t].state = "used"
          /\ token'[t].version = token[t].version
          /\ \A u \in Recoveries \ {t} : /\ token'[u].version = token[u].version
                                         /\ token'[u].state = "used" <=> token[u].state = "used"
                                         /\ token'[u].state = "none" <=> token[u].state = "none"
      BY <3>0, <3>1, <3>2 DEF TokenRows
    <3>4. token[t].version = version /\ mail[t].step = "end"
      BY <1>0, <2>2, <2>4 DEF ReadOfVersion, S!StillCurrent
    <3>5. \A u \in Recoveries : token'[u].version = token[u].version /\ token[u].version \in Nat
      BY <1>0, <3>3 DEF TokensTypeOK, TokenRows
    <3>11. version \in Nat /\ version' = version + 1  BY <1>0, <2>4 DEF TokensTypeOK
    <3>6. TokensTypeOK'  BY <1>0, <2>1, <2>2, <3>3, <3>11 DEF TokensTypeOK
    <3>7. WrittenOnce'  BY <1>0, <2>2, <3>3, <3>4 DEF WrittenOnce
    <3>8. ReadOfVersion'  BY <1>0, <2>1, <2>2, <3>5 DEF ReadOfVersion, TokensTypeOK
    <3>9. UsedBefore'
      <4>1. version \in Nat  BY <1>0 DEF TokensTypeOK
      <4>2. \A u \in Recoveries \ {t} :
              token'[u].state = "used" => token'[u].version < version
        BY <1>0, <3>3, <3>5 DEF UsedBefore
      <4>3. \A u \in Recoveries : token'[u].state = "used" => token'[u].version < version + 1
        BY <3>4, <3>5, <4>1, <4>2
      <4>4. \A u, v \in Recoveries \ {t} :
              token'[u].state = "used" /\ token'[v].state = "used" /\ u # v =>
                token'[u].version # token'[v].version
        BY <1>0, <3>3 DEF UsedBefore
      <4>5. \A u \in Recoveries \ {t} :
              token'[u].state = "used" => token'[u].version # token'[t].version
        BY <3>0, <3>4, <3>5, <4>1, <4>2
      <4> QED  BY <3>11, <4>3, <4>4, <4>5 DEF UsedBefore
    <3> QED  BY <3>6, <3>7, <3>8, <3>9 DEF RecoveryInv
  <2> QED  BY <1>8, <2>3, <2>4 DEF S!Consume
<1>9. ASSUME NEW c \in Forms, S!ChangePassword(c) PROVE RecoveryInv'
  <2>1. mail' = mail /\ reset' = reset  BY <1>9 DEF S!ChangePassword
  <2>2. CASE UNCHANGED <<version, token>>  BY <1>1, <2>1, <2>2
  <2>3. CASE version' = version + 1 /\ token' = S!WithRevoked(Recoveries)
    <3>1. /\ token' \in [Recoveries -> TokenRows]
          /\ \A u \in Recoveries : /\ token'[u].version = token[u].version
                                   /\ token'[u].state = "used" <=> token[u].state = "used"
                                   /\ token'[u].state = "none" <=> token[u].state = "none"
      BY <1>0, <2>3, RevokedTokens DEF TokensTypeOK
    <3>2. \A u \in Recoveries : token[u].version \in Nat  BY <1>0 DEF TokensTypeOK, TokenRows
    <3>3. TokensTypeOK'  BY <1>0, <2>1, <2>3, <3>1 DEF TokensTypeOK
    <3>4. WrittenOnce' /\ ReadOfVersion'
      BY <1>0, <2>1, <3>1 DEF WrittenOnce, ReadOfVersion, TokensTypeOK
    <3>5. UsedBefore'  BY <1>0, <2>3, <3>1, <3>2 DEF UsedBefore, TokensTypeOK
    <3> QED  BY <3>3, <3>4, <3>5 DEF RecoveryInv
  <2> QED  BY <1>9, <2>2, <2>3 DEF S!ChangePassword
<1> QED  BY <1>1, <1>2, <1>3, <1>4, <1>5, <1>6, <1>7, <1>8, <1>9 DEF S!Next

(* ResetOncePerVersion: of the recovery tokens of one version of the password *)
(* one is used at most, whatever requests read them together.                 *)
THEOREM ResetOncePerVersionHolds == S!Spec => []ResetOncePerVersion
<1>1. RecoveryInv => ResetOncePerVersion  BY DEF RecoveryInv, UsedBefore
<1> QED  BY <1>1, RecoveryInit, RecoveryStep, PTL DEF S!Spec

-----------------------------------------------------------------------------
(* The session of a browser that is logged out is not active.                    *)
SessionRows == [state : {"none", "active", "revoked"}, version : Nat, expired : BOOLEAN]
AccessTypeOK ==
  /\ userSession \in [Browsers -> SessionRows] /\ version \in Nat
  /\ jwt \in [Browsers -> Nat] /\ carried \in [Browsers -> Nat]
  /\ login \in [Browsers -> {"out", "verified", "insert", "in", "renewed", "remote", "again"}]
LoggedOut == \A b \in Browsers : login[b] = "out" => ~S!Active(b)
AccessInv == AccessTypeOK /\ LoggedOut

(* Nobody is logged in.                                                       *)
LEMMA AccessInit == S!Init => AccessInv
BY DEF S!Init, S!NoSession, AccessInv, AccessTypeOK, SessionRows, LoggedOut, S!Active

(* Revoking sessions changes nothing but the state of the active ones.           *)
LEMMA RevokedSessions ==
  ASSUME userSession \in [Browsers -> SessionRows], NEW kept
  PROVE  /\ S!Revoked(kept) \in [Browsers -> SessionRows]
         /\ \A b \in Browsers :
              /\ b \notin kept => S!Revoked(kept)[b].state # "active"
              /\ S!Revoked(kept)[b] = userSession[b] \/ S!Revoked(kept)[b].state = "revoked"
<1> SUFFICES ASSUME NEW b \in Browsers
             PROVE  /\ S!Revoked(kept)[b] \in SessionRows
                    /\ b \notin kept => S!Revoked(kept)[b].state # "active"
                    /\ S!Revoked(kept)[b] = userSession[b] \/ S!Revoked(kept)[b].state = "revoked"
    BY DEF S!Revoked
<1>1. userSession[b] \in SessionRows  OBVIOUS
<1>2. [userSession[b] EXCEPT !.state = "revoked"] \in SessionRows
      /\ [userSession[b] EXCEPT !.state = "revoked"].state = "revoked"
  BY <1>1 DEF SessionRows
<1> QED  BY <1>1, <1>2 DEF S!Revoked

(* What a step makes of the session, the token and the login of one browser:     *)
(* nothing opens a session but the insertion of a new one, and the access token  *)
(* is signed anew at a login, when no session is active, or on a refresh.        *)
Opens(b) == S!Passes(b)' => S!Passes(b) \/ login[b] \in {"insert", "renewed"}

(* A login, a renewal, a logout and a revocation: what a browser or the       *)
(* database holds of a session afterwards, and that it starts to pass the     *)
(* checks only by a new session or a renewal.                                 *)
LEMMA AccessStep ==
  AccessInv /\ [S!Next]_(S!svars) => AccessInv' /\ \A b \in Browsers : Opens(b)
<1> SUFFICES ASSUME AccessInv, [S!Next]_(S!svars)
             PROVE  AccessInv' /\ \A b \in Browsers : Opens(b)
    OBVIOUS
<1>0. AccessTypeOK /\ LoggedOut  BY DEF AccessInv
<1> USE DEF AccessInv, S!Active
<1>1. ASSUME UNCHANGED <<version, S!Access>> PROVE AccessInv' /\ \A b \in Browsers : Opens(b)
  BY <1>0, <1>1 DEF S!Access, AccessTypeOK, LoggedOut, Opens, S!Passes
<1>2. ASSUME NEW b \in Browsers, S!VerifyPassword(b) \/ S!ReadVersion(b) \/ S!FindSession(b)
      PROVE  AccessInv' /\ \A c \in Browsers : Opens(c)
  <2>1. UNCHANGED <<userSession, version>> /\ login[b] # "renewed"
    BY <1>2 DEF S!VerifyPassword, S!ReadVersion, S!FindSession, S!Password
  <2>2. /\ login' \in [Browsers -> {"out", "verified", "insert", "in", "renewed", "remote", "again"}]
        /\ login'[b] # "out" /\ \A c \in Browsers \ {b} : login'[c] = login[c]
    BY <1>0, <1>2 DEF S!VerifyPassword, S!ReadVersion, S!FindSession, S!Then, AccessTypeOK
  <2>3. /\ jwt' \in [Browsers -> Nat] /\ \A c \in Browsers \ {b} : jwt'[c] = jwt[c]
        /\ login[b] # "out" => jwt' = jwt
    BY <1>0, <1>2 DEF S!VerifyPassword, S!ReadVersion, S!FindSession, AccessTypeOK
  <2>4. carried' \in [Browsers -> Nat]
    BY <1>0, <1>2 DEF S!VerifyPassword, S!ReadVersion, S!FindSession, AccessTypeOK
  <2>5. AccessInv'  BY <1>0, <2>1, <2>2, <2>3, <2>4 DEF AccessTypeOK, LoggedOut
  <2>6. \A c \in Browsers : Opens(c)
    BY <1>0, <2>1, <2>3 DEF Opens, S!Passes, LoggedOut
  <2> QED  BY <2>5, <2>6
<1>3. ASSUME NEW b \in Browsers, S!InsertSession(b)
      PROVE  AccessInv' /\ \A c \in Browsers : Opens(c)
  <2>1. UNCHANGED <<jwt, carried, version>> /\ login[b] = "insert"
    BY <1>3 DEF S!InsertSession, S!Password
  <2>2. /\ login' \in [Browsers -> {"out", "verified", "insert", "in", "renewed", "remote", "again"}]
        /\ login'[b] # "out" /\ \A c \in Browsers \ {b} : login'[c] = login[c]
    BY <1>0, <1>3 DEF S!InsertSession, S!Then, AccessTypeOK
  <2>3. /\ userSession' \in [Browsers -> SessionRows]
        /\ \A c \in Browsers \ {b} : userSession'[c] = userSession[c]
    <3>1. [state |-> "active", version |-> carried[b], expired |-> FALSE] \in SessionRows
      BY <1>0 DEF AccessTypeOK, SessionRows
    <3> QED  BY <1>0, <1>3, <3>1 DEF S!InsertSession, AccessTypeOK
  <2>4. AccessInv'  BY <1>0, <2>1, <2>2, <2>3 DEF AccessTypeOK, LoggedOut
  <2> QED  BY <2>1, <2>3, <2>4 DEF Opens, S!Passes
<1>4. ASSUME NEW b \in Browsers, NEW there \in {"renewed", "in"}, S!RenewActive(b, there),
             UNCHANGED <<jwt, carried, version>>
      PROVE  AccessInv' /\ \A c \in Browsers : Opens(c)
  <2>1. CASE S!Active(b)
    <3>1. userSession' = [userSession EXCEPT ![b].expired = FALSE] /\ S!Then(b, there)
      BY <1>4, <2>1 DEF S!RenewActive
    <3>2. /\ userSession' \in [Browsers -> SessionRows]
          /\ \A c \in Browsers : /\ userSession'[c].state = userSession[c].state
                                  /\ userSession'[c].version = userSession[c].version
          /\ \A c \in Browsers \ {b} : userSession'[c] = userSession[c]
      BY <1>0, <3>1 DEF AccessTypeOK, SessionRows
    <3>3. /\ login' \in [Browsers -> {"out", "verified", "insert", "in", "renewed", "remote", "again"}]
          /\ login'[b] # "out" /\ \A c \in Browsers \ {b} : login'[c] = login[c]
      BY <1>0, <3>1 DEF S!Then, AccessTypeOK
    <3>4. AccessInv'  BY <1>0, <1>4, <3>2, <3>3 DEF AccessTypeOK, LoggedOut
    <3> QED  BY <1>4, <2>1, <3>2, <3>4 DEF Opens, S!Passes
  <2>2. CASE ~S!Active(b)
    <3>1. userSession' = userSession /\ S!Then(b, "out")  BY <1>4, <2>2 DEF S!RenewActive
    <3>2. /\ login' \in [Browsers -> {"out", "verified", "insert", "in", "renewed", "remote", "again"}]
          /\ \A c \in Browsers \ {b} : login'[c] = login[c]
      BY <1>0, <3>1 DEF S!Then, AccessTypeOK
    <3>3. AccessInv'  BY <1>0, <1>4, <2>2, <3>1, <3>2 DEF AccessTypeOK, LoggedOut
    <3> QED  BY <1>4, <3>1, <3>3 DEF Opens, S!Passes
  <2> QED  BY <2>1, <2>2
<1>5. ASSUME NEW b \in Browsers, S!Renew(b) \/ S!RenewRemote(b)
      PROVE  AccessInv' /\ \A c \in Browsers : Opens(c)
  BY <1>4, <1>5 DEF S!Renew, S!RenewRemote, S!Password
<1>6. ASSUME NEW b \in Browsers, S!IssueAccess(b)
      PROVE  AccessInv' /\ \A c \in Browsers : Opens(c)
  <2>1. UNCHANGED <<userSession, carried, version>> /\ login[b] = "renewed"
    BY <1>6 DEF S!IssueAccess, S!Password
  <2>2. /\ login' \in [Browsers -> {"out", "verified", "insert", "in", "renewed", "remote", "again"}]
        /\ login'[b] # "out" /\ \A c \in Browsers \ {b} : login'[c] = login[c]
    BY <1>0, <1>6 DEF S!IssueAccess, S!Then, AccessTypeOK
  <2>3. jwt' \in [Browsers -> Nat] /\ \A c \in Browsers \ {b} : jwt'[c] = jwt[c]
    BY <1>0, <1>6 DEF S!IssueAccess, AccessTypeOK
  <2>4. AccessInv'  BY <1>0, <2>1, <2>2, <2>3 DEF AccessTypeOK, LoggedOut
  <2> QED  BY <2>1, <2>3, <2>4 DEF Opens, S!Passes
<1>7. ASSUME NEW b \in Browsers, S!SessionExpires(b)
      PROVE  AccessInv' /\ \A c \in Browsers : Opens(c)
  <2>1. UNCHANGED <<jwt, login, carried, version>>  BY <1>7 DEF S!SessionExpires, S!Password
  <2>2. /\ userSession' \in [Browsers -> SessionRows] /\ ~S!Active(b)'
        /\ \A c \in Browsers \ {b} : userSession'[c] = userSession[c]
    BY <1>0, <1>7 DEF S!SessionExpires, AccessTypeOK, SessionRows
  <2>3. AccessInv'  BY <1>0, <2>1, <2>2 DEF AccessTypeOK, LoggedOut
  <2> QED  BY <2>1, <2>2, <2>3 DEF Opens, S!Passes
<1>8. ASSUME NEW b \in Browsers, S!Logout(b)
      PROVE  AccessInv' /\ \A c \in Browsers : Opens(c)
  <2>1. UNCHANGED <<jwt, carried, version>> /\ userSession' = S!Revoked(Browsers \ {b})
    BY <1>8 DEF S!Logout, S!Password
  <2>2. /\ userSession' \in [Browsers -> SessionRows] /\ ~S!Active(b)'
        /\ \A c \in Browsers :
             userSession'[c] = userSession[c] \/ userSession'[c].state = "revoked"
    BY <1>0, <2>1, RevokedSessions DEF AccessTypeOK
  <2>3. /\ login' \in [Browsers -> {"out", "verified", "insert", "in", "renewed", "remote", "again"}]
        /\ \A c \in Browsers \ {b} : login'[c] = login[c]
    BY <1>0, <1>8 DEF S!Logout, S!Then, AccessTypeOK
  <2>4. AccessInv'  BY <1>0, <2>1, <2>2, <2>3 DEF AccessTypeOK, LoggedOut
  <2> QED  BY <2>1, <2>2, <2>4 DEF Opens, S!Passes
<1>9. ASSUME userSession' = S!Revoked({}), version' \in Nat, UNCHANGED <<jwt, login, carried>>
      PROVE  AccessInv' /\ \A c \in Browsers : Opens(c)
  <2>1. userSession' \in [Browsers -> SessionRows] /\ \A c \in Browsers : ~S!Active(c)'
    BY <1>0, <1>9, RevokedSessions DEF AccessTypeOK
  <2> QED  BY <1>0, <1>9, <2>1 DEF AccessTypeOK, LoggedOut, Opens, S!Passes
<1>10. CASE S!RevokeAll
  BY <1>0, <1>9, <1>10 DEF S!RevokeAll, S!Password, AccessTypeOK
<1>11. ASSUME NEW r \in Resets, S!Consume(r) PROVE AccessInv' /\ \A c \in Browsers : Opens(c)
  <2>1. UNCHANGED <<jwt, login, carried>>  BY <1>11 DEF S!Consume
  <2>2. CASE UNCHANGED <<version, userSession>>  BY <1>1, <2>1, <2>2 DEF S!Access
  <2>3. CASE version' = version + 1 /\ userSession' = S!Revoked({})
    BY <1>0, <1>9, <2>1, <2>3 DEF AccessTypeOK
  <2> QED  BY <1>11, <2>2, <2>3 DEF S!Consume
<1>12. ASSUME NEW c \in Forms, S!ChangePassword(c)
       PROVE  AccessInv' /\ \A b \in Browsers : Opens(b)
  <2>1. UNCHANGED <<jwt, login, carried>>  BY <1>12 DEF S!ChangePassword
  <2>2. CASE UNCHANGED <<version, userSession>>  BY <1>1, <2>1, <2>2 DEF S!Access
  <2>3. CASE version' = version + 1 /\ userSession' = S!Revoked({})
    BY <1>0, <1>9, <2>1, <2>3 DEF AccessTypeOK
  <2> QED  BY <1>12, <2>2, <2>3 DEF S!ChangePassword
<1>13. ASSUME \/ \E t \in Recoveries :
                    S!SendMail(t) \/ S!SeeUnused(t) \/ S!StoreToken(t) \/ S!TokenExpires(t)
              \/ \E r \in Resets, t \in Recoveries : S!ReadToken(r, t)
              \/ \E c \in Forms : S!ComparePassword(c)
              \/ UNCHANGED S!svars
       PROVE  AccessInv' /\ \A b \in Browsers : Opens(b)
  <2>1. UNCHANGED <<version, S!Access>>
    BY <1>13 DEF S!SendMail, S!SeeUnused, S!StoreToken, S!TokenExpires, S!ReadToken,
                 S!ComparePassword, S!svars, S!Access
  <2> QED  BY <1>1, <2>1
<1> QED
  BY <1>2, <1>3, <1>5, <1>6, <1>7, <1>8, <1>10, <1>11, <1>12, <1>13 DEF S!Next

(* RevocationHolds: a session that was refused passes again only when its     *)
(* browser has logged in or renewed it, however the two stores of the         *)
(* revocation are written.                                                    *)
THEOREM RevocationHoldsAlways == S!Spec => RevocationHolds
<1>1. AccessInv /\ [S!Next]_(S!svars) =>
        [\A b \in Browsers : ~S!Passes(b) /\ S!Passes(b)' => login[b] \in {"insert", "renewed"}]_(S!svars)
  BY AccessStep DEF Opens
<1> QED  BY <1>1, AccessInit, AccessStep, PTL DEF S!Spec, RevocationHolds, S!RevocationHolds

-----------------------------------------------------------------------------
(* Fiscal: one request at most is in doubt at the SEFAZ. The heart is that an *)
(* attempt in doubt still is the document's, in a state that no claim         *)
(* accepts, whatever a status query writes over the status of the document.   *)

(* An attempt in doubt holds the document, dispatching or unknown. *)
DoubtHolds ==
  \A a \in Attempts :
    /\ send[a] \in {"sent", "lost"} => F!Owns(a, "dispatching")
    /\ send[a] = "unknown" => F!Owns(a, "unknown")

(* A draft was never claimed. *)
DraftUntouched ==
  document.status = "draft" =>
    document.state = "none" /\ \A a \in Attempts : send[a] \in {"start", "end"}

(* The inductive invariant *)
FiscalInv == F!TypeOK /\ DoubtHolds /\ DraftUntouched

Documents == [status : F!Statuses, attempt : Attempts \cup {Nobody}, state : F!AttemptStates,
              lease : BOOLEAN, number : Nat, key : BOOLEAN, real : BOOLEAN]

-----------------------------------------------------------------------------
(* The initial states satisfy the inductive invariant. *)
LEMMA FiscalInit == F!Init => FiscalInv
<1> SUFFICES ASSUME F!Init PROVE FiscalInv  OBVIOUS
<1>1. document \in Documents /\ document.state = "none"
  BY DEF F!Init, Documents, F!Statuses, F!AttemptStates
<1>2. \A a \in Attempts : send[a] = "start"  BY DEF F!Init
<1>3. F!TypeOK
  <2>1. nextNumber \in Nat \ {0}  BY DEF F!Init
  <2>3. asked \in BOOLEAN  BY Zenon DEF F!Init
  <2>2. send \in [Attempts -> {"start", "claimed", "allocate", "reuse", "sent", "unknown",
                               "lost", "end"}]  BY DEF F!Init
  <2> QED  BY <1>1, <2>1, <2>2, <2>3 DEF F!TypeOK, Documents
<1>4. DoubtHolds  BY <1>2 DEF DoubtHolds
<1> QED  BY <1>1, <1>2, <1>3, <1>4 DEF FiscalInv, DraftUntouched

(* Every step preserves the types. *)
LEMMA FiscalTypes == F!TypeOK /\ [F!Next]_(F!fiscalVars) => F!TypeOK'
<1> SUFFICES ASSUME F!TypeOK, [F!Next]_(F!fiscalVars) PROVE F!TypeOK'  OBVIOUS
<1> USE DEF F!TypeOK, F!Statuses, F!AttemptStates
<1>1. ASSUME NEW a \in Attempts, F!Claim(a) PROVE F!TypeOK'  BY <1>1 DEF F!Claim, F!Go
<1>2. ASSUME NEW a \in Attempts, F!ReadOwn(a) PROVE F!TypeOK'  BY <1>2 DEF F!ReadOwn, F!Go
<1>3. ASSUME NEW a \in Attempts, F!Dispatch(a) PROVE F!TypeOK'
  <2>1. document' \in Documents
    <3>1. PICK n \in Nat : document' = [document EXCEPT !.state = "dispatching", !.lease = FALSE,
                                                        !.number = n]
                           \/ document' = document
      BY <1>3 DEF F!Dispatch
    <3>2. [document EXCEPT !.state = "dispatching", !.lease = FALSE, !.number = n] \in Documents
      BY DEF Documents
    <3>3. document \in Documents  BY DEF Documents
    <3> QED  BY <3>1, <3>2, <3>3
  <2>2. nextNumber' \in Nat \ {0}  BY <1>3 DEF F!Dispatch
  <2> QED  BY <1>3, <2>1, <2>2 DEF F!Dispatch, F!Go, Documents
<1>4. ASSUME NEW a \in Attempts, F!Answer(a) PROVE F!TypeOK'
  <2>1. PICK status \in F!Statuses, state \in F!AttemptStates : F!Apply(a, status, state)
    BY <1>4 DEF F!Answer
  <2>2. document' \in Documents
    <3>1. PICK k \in BOOLEAN : document' = [document EXCEPT !.status = status, !.state = state,
                                                            !.key = k]
                               \/ document' = document
      BY <2>1 DEF F!Apply
    <3>2. [document EXCEPT !.status = status, !.state = state, !.key = k] \in Documents
      BY <2>1 DEF Documents
    <3>3. document \in Documents  BY DEF Documents
    <3> QED  BY <3>1, <3>2, <3>3
  <2> QED  BY <1>4, <2>2 DEF F!Answer, F!Go, Documents
<1>5. ASSUME NEW a \in Attempts, F!Fail(a) PROVE F!TypeOK'  BY <1>5 DEF F!Fail, F!Go
<1>6. CASE F!LeaseExpires  BY <1>6 DEF F!LeaseExpires
<1>7. CASE F!AskStatus  BY <1>7 DEF F!AskStatus
<1>8. CASE F!StatusAnswered
  <2>1. PICK status \in F!Statuses : document' = [document EXCEPT !.status = status]
    BY <1>8 DEF F!StatusAnswered
  <2> QED  BY <1>8, <2>1 DEF F!StatusAnswered
<1>9. CASE UNCHANGED F!fiscalVars  BY <1>9 DEF F!fiscalVars
<1> QED  BY <1>1, <1>2, <1>3, <1>4, <1>5, <1>6, <1>7, <1>8, <1>9 DEF F!Next

-----------------------------------------------------------------------------
(* Every step leaves what is in doubt where it is, or settles it.            *)
LEMMA DoubtPreserved == FiscalInv /\ [F!Next]_(F!fiscalVars) => DoubtHolds'
<1> SUFFICES ASSUME F!TypeOK, DoubtHolds, DraftUntouched, [F!Next]_(F!fiscalVars)
             PROVE  DoubtHolds'
  BY DEF FiscalInv
<1> USE DEF F!TypeOK, DoubtHolds, F!Owns
<1>1. ASSUME NEW a \in Attempts, F!Claim(a) PROVE DoubtHolds'
  <2>1. CASE document' = document  BY <1>1, <2>1 DEF F!Claim, F!Go
  <2>2. CASE F!Claimable
    <3>1. document.state \notin {"dispatching", "unknown"}
      BY <2>2 DEF F!Claimable, DraftUntouched
    <3>2. \A b \in Attempts : send[b] \notin {"sent", "lost", "unknown"}  BY <3>1
    <3> QED  BY <1>1, <3>2 DEF F!Claim, F!Go
  <2> QED  BY <1>1, <2>1, <2>2 DEF F!Claim
<1>2. ASSUME NEW a \in Attempts, F!ReadOwn(a) PROVE DoubtHolds'
  BY <1>2 DEF F!ReadOwn, F!Go
<1>3. ASSUME NEW a \in Attempts, F!Dispatch(a) PROVE DoubtHolds'
  <2>1. send[a] \in {"allocate", "reuse"}  BY <1>3 DEF F!Dispatch, F!Go
  <2>2. CASE F!StillOwned(a)
    <3>1. \A b \in Attempts : send[b] \notin {"sent", "lost", "unknown"}
      BY <2>1, <2>2 DEF F!StillOwned
    <3>2. document'.attempt = a /\ document'.state = "dispatching"
      BY <1>3, <2>2 DEF F!Dispatch, F!StillOwned
    <3> QED  BY <1>3, <2>2, <3>1, <3>2 DEF F!Dispatch, F!Go
  <2>3. CASE ~F!StillOwned(a)  BY <1>3, <2>3 DEF F!Dispatch, F!Go
  <2> QED  BY <2>2, <2>3
<1>4. ASSUME NEW a \in Attempts, F!Answer(a) PROVE DoubtHolds'
  <2>1. send[a] = "sent" /\ F!Owns(a, "dispatching")  BY <1>4 DEF F!Answer, F!Go
  <2>2. \A b \in Attempts \ {a} : send[b] \notin {"sent", "lost", "unknown"}  BY <2>1
  <2>3. \A b \in Attempts \ {a} : send'[b] = send[b]  BY <1>4 DEF F!Answer, F!Go
  <2>4. CASE send'[a] = "end"  BY <2>2, <2>3, <2>4
  <2>5. CASE send'[a] # "end"
    <3>1. send'[a] = "unknown" /\ F!Apply(a, "processing", "unknown")
      BY <1>4, <2>5 DEF F!Answer, F!Go
    <3>2. document'.attempt = a /\ document'.state = "unknown"
      BY <2>1, <3>1 DEF F!Apply
    <3> QED  BY <2>2, <2>3, <3>1, <3>2
  <2> QED  BY <2>4, <2>5
<1>5. ASSUME NEW a \in Attempts, F!Fail(a) PROVE DoubtHolds'  BY <1>5 DEF F!Fail, F!Go
<1>6. CASE F!LeaseExpires  BY <1>6 DEF F!LeaseExpires
<1>7. CASE F!AskStatus \/ UNCHANGED F!fiscalVars  BY <1>7 DEF F!AskStatus, F!fiscalVars
<1>8. CASE F!StatusAnswered
  <2>1. document'.attempt = document.attempt /\ document'.state = document.state
    BY <1>8 DEF F!StatusAnswered
  <2> QED  BY <1>8, <2>1 DEF F!StatusAnswered
<1> QED  BY <1>1, <1>2, <1>3, <1>4, <1>5, <1>6, <1>7, <1>8 DEF F!Next

(* No step makes a document a draft again. *)
LEMMA DraftPreserved == F!TypeOK /\ DraftUntouched /\ [F!Next]_(F!fiscalVars) => DraftUntouched'
<1> SUFFICES ASSUME F!TypeOK, DraftUntouched, [F!Next]_(F!fiscalVars)
             PROVE  DraftUntouched'  OBVIOUS
<1> USE DEF F!TypeOK, DraftUntouched
<1>1. ASSUME NEW a \in Attempts, F!Claim(a) PROVE DraftUntouched'
  BY <1>1 DEF F!Claim, F!Go
<1>2. ASSUME NEW a \in Attempts, F!ReadOwn(a) \/ F!Fail(a) PROVE DraftUntouched'
  BY <1>2 DEF F!ReadOwn, F!Fail, F!Go
<1>3. ASSUME NEW a \in Attempts, F!Dispatch(a) \/ F!Answer(a) PROVE DraftUntouched'
  <2>1. document.status # "draft"  BY <1>3 DEF F!Dispatch, F!Answer, F!Go
  <2>2. document'.status # "draft"
    BY <1>3, <2>1 DEF F!Dispatch, F!Answer, F!Apply, F!Statuses
  <2> QED  BY <2>2
<1>4. CASE F!LeaseExpires \/ F!AskStatus \/ UNCHANGED F!fiscalVars
  BY <1>4 DEF F!LeaseExpires, F!AskStatus, F!fiscalVars
<1>5. CASE F!StatusAnswered
  <2>1. document'.status # "draft"  BY <1>5 DEF F!StatusAnswered
  <2> QED  BY <2>1
<1> QED  BY <1>1, <1>2, <1>3, <1>4, <1>5 DEF F!Next

-----------------------------------------------------------------------------
(* Type correctness, and who holds a document in doubt. *)
THEOREM FiscalInvariant == F!Spec => []FiscalInv
<1>1. FiscalInv /\ [F!Next]_(F!fiscalVars) => FiscalInv'
  BY FiscalTypes, DoubtPreserved, DraftPreserved DEF FiscalInv
<1> QED  BY <1>1, FiscalInit, PTL DEF F!Spec

(* One attempt at most is of unknown outcome (the claim of sendDocument and  *)
(* 'reconcilie antes de nova tentativa').                                    *)
THEOREM OneInDoubtHolds == F!Spec => []OneInDoubt
<1>1. FiscalInv => OneInDoubt
  <2> SUFFICES ASSUME FiscalInv PROVE Cardinality(F!InDoubt) <= 1
    BY Zenon DEF OneInDoubt, F!OneInDoubt, F!Cardinality, Cardinality
  <2>1. F!InDoubt \subseteq {document.attempt}
    BY DEF FiscalInv, DoubtHolds, F!InDoubt, F!Owns
  <2>2. IsFiniteSet({document.attempt}) /\ Cardinality({document.attempt}) = 1
    BY FS_Singleton
  <2>3. Cardinality(F!InDoubt) <= Cardinality({document.attempt})
    BY <2>1, <2>2, FS_Subset
  <2> QED  BY <2>2, <2>3
<1> QED  BY <1>1, FiscalInvariant, PTL

-----------------------------------------------------------------------------
(* PaymentConnections: the credentials a connection names can be read.        *)

(* The inductive invariant of a connection is the property itself.              *)
ConnectionInv == PC!TypeOK /\ CredentialsReadable

(* A new connection: nothing is validated and nothing revoked.                *)
LEMMA ConnectionInit == PC!Init => ConnectionInv
  BY DEF PC!Init, ConnectionInv, PC!TypeOK, CredentialsReadable, PC!CredentialsReadable

(* A validation and a revocation write the row only as they read it, so that  *)
(* the credentials it names stay readable (updateMany with the version).      *)
LEMMA ConnectionStep == ConnectionInv /\ [PC!Next]_(PC!connectionVars) => ConnectionInv'
<1> SUFFICES ASSUME ConnectionInv, [PC!Next]_(PC!connectionVars) PROVE ConnectionInv'
    OBVIOUS
<1> USE DEF ConnectionInv, PC!TypeOK, CredentialsReadable, PC!CredentialsReadable
<1>1. ASSUME NEW v \in Validations, PC!ValidateRead(v) PROVE ConnectionInv'
    BY <1>1 DEF PC!ValidateRead, PC!Readable
<1>2. ASSUME NEW v \in Validations, PC!ValidateApply(v) PROVE ConnectionInv'
    BY <1>2 DEF PC!ValidateApply, PC!Current
<1>3. ASSUME NEW r \in Revocations, PC!RevokeRead(r) PROVE ConnectionInv'
  <2>1. withProvider' \in BOOLEAN  BY <1>3, Zenon DEF PC!RevokeRead
  <2>2. revoking' \in [Revocations -> {"start", "asked", "end"}]  BY <1>3 DEF PC!RevokeRead
  <2> QED  BY <1>3, <2>1, <2>2 DEF PC!RevokeRead
<1>4. ASSUME NEW r \in Revocations, PC!RevokeApply(r) PROVE ConnectionInv'
    BY <1>4 DEF PC!RevokeApply, PC!Forgotten
<1>5. CASE PC!Crash  BY <1>5 DEF PC!Crash
<1>6. CASE UNCHANGED PC!connectionVars  BY <1>6 DEF PC!connectionVars
<1> QED  BY <1>1, <1>2, <1>3, <1>4, <1>5, <1>6 DEF PC!Next

(* Stated by PaymentConnections: whichever validations and revocations of a      *)
(* connection overlap, its credentials can be read, or are gone.                 *)
THEOREM CredentialsReadableHolds == PC!Spec => []CredentialsReadable
  BY ConnectionInit, ConnectionStep, PTL DEF PC!Spec, ConnectionInv

-----------------------------------------------------------------------------
(* Provisioning: the row says what is at the provider. Each state of the row  *)
(* bounds what identity there is and which calls may still arrive. Of those   *)
(* that work one holds the row, the last that claimed it, whether or not its  *)
(* lease is over; the proof holds until somebody else writes the row.         *)

(* Where a worker judges the row it has claimed, and where anybody is between    *)
(* its claim and its last write of the row.  Who is there and was not overtaken   *)
(* holds the row, whether its lease is over or not.                               *)
Judging == {"judge", "silent", "absent", "changed", "found"}
Holding == {"create", "creating", "tx", "compensate", "deleting"} \cup Judging
Holders == {a \in P!Actors : at[a] \in Holding /\ a \notin overtaken}
(* Where a manager has not created an identity; what is on its way to the        *)
(* provider; and the identities that a worker is going to delete.                *)
Before == {"start", "retry", "create", "creating"}
NoCreates == \A c \in calls : c[1] # "create"
NoDeletes(x) == \A c \in calls : c[1] = "delete" => c[3] # x
Spared(x) ==
  \A w \in Workers : at[w] # "start" /\ candidate[w].state = "COMPENSATION_REQUIRED" =>
                       candidate[w].auth # x

(* Where the actors can be: a worker knows of a recoverable row, and an identity  *)
(* in the row, or in what a worker read, is that of a manager that went on.       *)
Places ==
  /\ \A m \in Managers : at[m] \notin {"claim"} \cup Judging
  /\ \A w \in Workers : /\ at[w] \in {"start", "claim", "deleting"} \cup Judging
                        /\ at[w] # "start" =>
                             /\ candidate[w].state \in P!Recoverable
                             /\ candidate[w].auth # Nobody => at[candidate[w].auth] \notin Before
                        /\ at[w] \in {"silent", "absent", "changed", "found", "deleting"} =>
                             candidate[w].auth # Nobody
  /\ \A a \in P!Actors : at[a] \notin {"creating", "deleting"} => answer[a] = "none"
  /\ row.auth # Nobody => at[row.auth] \notin Before
(* A call comes from where it is awaited, or from further back; a manager        *)
(* deletes no identity but its own.                                              *)
Calls ==
  \A c \in calls :
    /\ c[1] = "create" => c[2] \in Managers /\ c[3] = Nobody /\ at[c[2]] \notin {"start", "retry", "create"}
    /\ c[1] = "delete" => /\ c[3] \in Managers /\ at[c[3]] \notin Before
                          /\ c[2] \in Managers => c[3] = c[2]
(* What a row that is not complete says of the provider: before CLAIMED, and     *)
(* after a deletion, there is nothing there, nor on its way; AUTH_CREATED is the *)
(* identity that there is, and nobody deletes it, or is going to.                *)
Stage ==
  /\ row.state # "COMPLETED"
  /\ row.state \in {"absent", "FAILED_RETRYABLE"} =>
       row.auth = Nobody /\ Holders = {} /\ account \notin Managers /\ NoCreates
  /\ row.state \in {"CLAIMED", "UNKNOWN"} => row.auth = Nobody
  /\ row.state = "AUTH_CREATED" => /\ row.auth # Nobody /\ account = row.auth
                                   /\ NoCreates /\ NoDeletes(row.auth) /\ Spared(row.auth)
  /\ row.state = "COMPENSATION_REQUIRED" => row.auth # Nobody /\ (account \in Managers => account = row.auth) /\ NoCreates
(* One actor at most holds the row.                                              *)
OneHolder == \A a, b \in Holders : a = b
(* The row of a manager that holds it is as it wrote it, and its answer is true; *)
(* nobody overtakes it before it has an identity.                                 *)
ManagerHolds ==
  \A m \in Managers :
    /\ at[m] \in {"create", "creating"} => row.state = "CLAIMED" /\ m \notin overtaken
    /\ at[m] = "create" => account \notin Managers /\ NoCreates
    /\ at[m] = "creating" => /\ \A c \in calls : c[1] = "create" => c[2] = m
                             /\ answer[m] = "none" => account \notin Managers
                             /\ answer[m] = "ok" => account = m /\ NoCreates
    /\ m \notin overtaken /\ at[m] \in {"tx", "compensate"} => row.state = "AUTH_CREATED" /\ row.auth = m
    /\ m \notin overtaken /\ at[m] = "deleting" =>
         /\ row.state = "COMPENSATION_REQUIRED" /\ row.auth = m
         /\ answer[m] = "ok" => account \notin Managers
(* ... and that of a worker is as it read it; an identity that it did not find,  *)
(* or that was deleted for it, is not there.                                      *)
WorkerHolds ==
  \A w \in Workers : w \notin overtaken =>
    /\ at[w] \in Judging \cup {"deleting"} =>
         row.state = candidate[w].state /\ row.auth = candidate[w].auth
    /\ at[w] = "absent" => row.state = "COMPENSATION_REQUIRED" /\ account \notin Managers
    /\ at[w] = "deleting" => row.state = "COMPENSATION_REQUIRED" /\ (answer[w] = "ok" => account \notin Managers)
(* A row that is complete has its user, the same at the provider, and nobody     *)
(* deletes it; who still holds it only has not heard of its own commit.           *)
Whole ==
  row.state = "COMPLETED" =>
    /\ profile # Nobody /\ profile = account /\ NoDeletes(profile) /\ Spared(profile)
    /\ \A a \in Holders : at[a] = "compensate"
(* The inductive invariant: as long as nobody has written a row it did not hold. *)
ProvInv ==
  /\ P!TypeOK /\ Calls /\ Places
  /\ strayed = {} => Whole
  /\ strayed = {} /\ profile = Nobody => Stage /\ OneHolder /\ ManagerHolds /\ WorkerHolds

(* What an action writes, field by field.                                       *)
Goes(a, there) == at'[a] = there /\ \A b \in P!Actors \ {a} : at'[b] = at[b]
Written(it, s, u, l) == it \in P!Rows /\ it.state = s /\ it.auth = u /\ it.lease = l
RowIs(s, u, l) == Written(row', s, u, l)
(* What it makes of who was overtaken: a claim overtakes whoever works, and a     *)
(* write strays unless its writer holds the row.                                  *)
Takes(a) == a \notin overtaken' /\ \A b \in P!Actors \ {a} : at[b] \in Holding => b \in overtaken'
Kept(a) == overtaken' = overtaken /\ (strayed' = {} => strayed = {} /\ a \notin overtaken)
Same == overtaken' = overtaken /\ strayed' = strayed
Hears(a) == answer'[a] = "none" /\ \A b \in P!Actors \ {a} : answer'[b] = answer[b]

(* The fields of a row that is written.                                         *)
LEMMA StateWritten ==
  ASSUME NEW it \in P!Rows, NEW s \in P!States
  PROVE  Written([it EXCEPT !.state = s], s, it.auth, it.lease)
BY DEF P!Rows, Written
(* The identity of a row.                                                     *)
LEMMA AuthWritten ==
  ASSUME NEW it \in P!Rows, NEW u \in Managers \cup {Nobody}
  PROVE  Written([it EXCEPT !.auth = u], it.state, u, it.lease)
BY DEF P!Rows, Written
(* The lease of a row.                                                        *)
LEMMA LeaseWritten ==
  ASSUME NEW it \in P!Rows, NEW l \in BOOLEAN
  PROVE  Written([it EXCEPT !.lease = l], it.state, it.auth, l)
BY DEF P!Rows, Written
(* A claimed row (claim, reconcile: its token and a lease of a minute).       *)
LEMMA ClaimedWritten ==
  ASSUME NEW it \in P!Rows
  PROVE  Written(P!Claimed(it), it.state, it.auth, TRUE)
BY LeaseWritten DEF P!Claimed
(* State and identity in one UPDATE.                                          *)
LEMMA AccountWritten ==
  ASSUME NEW it \in P!Rows, NEW s \in P!States, NEW u \in Managers \cup {Nobody}
  PROVE  Written([it EXCEPT !.state = s, !.auth = u], s, u, it.lease)
<1> DEFINE r == [it EXCEPT !.state = s]
<1>1. [it EXCEPT !.state = s, !.auth = u] = [r EXCEPT !.auth = u]  BY DEF P!Rows
<1>2. Written(r, s, it.auth, it.lease)  BY StateWritten
<1> HIDE DEF r
<1>3. Written([r EXCEPT !.auth = u], s, u, it.lease)  BY <1>2, AuthWritten DEF Written
<1> QED  BY <1>1, <1>3
(* The row that the local transaction completes.                              *)
LEMMA CompletedWritten ==
  ASSUME NEW it \in P!Rows
  PROVE  Written(P!Completed(it), "COMPLETED", it.auth, FALSE)
<1> DEFINE r == [it EXCEPT !.state = "COMPLETED"]
<1>1. P!Completed(it) = [r EXCEPT !.lease = FALSE]  BY DEF P!Rows, P!Completed
<1>2. Written(r, "COMPLETED", it.auth, it.lease)  BY StateWritten DEF P!States
<1> HIDE DEF r
<1>3. Written([r EXCEPT !.lease = FALSE], "COMPLETED", it.auth, FALSE)
  BY <1>2, LeaseWritten DEF Written
<1> QED  BY <1>1, <1>3
(* The row whose identity was deleted, which may be created again.            *)
LEMMA ForgottenWritten ==
  ASSUME NEW it \in P!Rows
  PROVE  Written(P!Forgotten(it), "FAILED_RETRYABLE", Nobody, it.lease)
BY AccountWritten DEF P!Forgotten, P!States
(* What the worker writes at the end of its turn gives the lease back.        *)
LEMMA SettleWritten ==
  ASSUME NEW w, NEW it \in P!Rows, P!Settle(w, it)
  PROVE  RowIs(it.state, it.auth, FALSE)
BY LeaseWritten DEF P!Settle, RowIs

(* A variable that changes at one actor only.                                   *)
LEMMA GoesTo ==
  ASSUME P!TypeOK, NEW a \in P!Actors, NEW there, P!Go(a, there)
  PROVE  Goes(a, there)
BY DEF P!TypeOK, P!Go, Goes
(* An answer that was taken.                                                  *)
LEMMA HearsNone ==
  ASSUME P!TypeOK, NEW a \in P!Actors, answer' = [answer EXCEPT ![a] = "none"]
  PROVE  Hears(a) /\ answer' \in [P!Actors -> {"none", "ok", "refused"}]
BY DEF P!TypeOK, Hears

(* The history of a claim and of a write.                                        *)
LEMMA Overtaking ==
  ASSUME P!TypeOK, NEW a \in P!Actors, P!Overtakes(a)
  PROVE  Takes(a) /\ overtaken' \subseteq P!Actors
BY DEF P!TypeOK, P!Overtakes, P!Working, Takes, Holding, Judging
(* A write strays unless its writer was not overtaken.                        *)
LEMMA Writing ==
  ASSUME P!TypeOK, NEW a \in P!Actors, P!Writes(a)
  PROVE  Kept(a) /\ overtaken' \subseteq P!Actors /\ strayed' \subseteq P!Actors
<1>1. overtaken' = overtaken /\ strayed' = strayed \cup ({a} \cap overtaken)  BY DEF P!Writes
<1>2. a \in overtaken => strayed' # {}  BY <1>1
<1>3. strayed' = {} => strayed = {}  BY <1>1
<1> QED  BY <1>1, <1>2, <1>3 DEF P!TypeOK, Kept
(* The other steps leave the history alone.                                   *)
LEMMA Unseen ==
  ASSUME P!TypeOK, UNCHANGED P!history
  PROVE  Same /\ overtaken' \subseteq P!Actors /\ strayed' \subseteq P!Actors
BY DEF P!TypeOK, P!history, Same

(* Claim, as its caller sees it: the row is its own, or there was one.        *)
LEMMA ClaimDoes ==
  ASSUME P!TypeOK, NEW m \in Managers, P!Claim(m)
  PROVE  /\ at[m] = "start" /\ UNCHANGED <<profile, account, calls, answer, candidate>>
         /\ \/ row.state = "absent" /\ Goes(m, "create") /\ RowIs("CLAIMED", Nobody, TRUE) /\ Takes(m) /\ strayed' = strayed
            \/ row.state # "absent" /\ row' = row /\ (Goes(m, "retry") \/ Goes(m, "end")) /\ Same
         /\ P!TypeOK'
<1>1. row \in P!Rows /\ \A v \in Workers : candidate[v] \in P!Rows  BY DEF P!TypeOK
<1>2. row' = [state |-> "CLAIMED", auth |-> Nobody, lease |-> TRUE] => RowIs("CLAIMED", Nobody, TRUE)
  BY DEF RowIs, Written, P!Rows, P!States
<1>3. m \in P!Actors  BY DEF P!Actors
<1>4. /\ at[m] = "start" /\ UNCHANGED <<profile, account, calls, answer, candidate>>
      /\ \/ row.state = "absent" /\ Goes(m, "create") /\ RowIs("CLAIMED", Nobody, TRUE) /\ Takes(m) /\ strayed' = strayed
         \/ row.state # "absent" /\ row' = row /\ (Goes(m, "retry") \/ Goes(m, "end")) /\ Same
  BY <1>1, <1>2, <1>3, GoesTo, Overtaking, Writing, Unseen, ProvisioningAssumption DEF P!Claim, P!At, P!Remote, P!Recoverable
<1>h. overtaken' \subseteq P!Actors /\ strayed' \subseteq P!Actors
  BY <1>1, <1>3, Overtaking, Writing, Unseen DEF P!Claim, P!TypeOK
<1>5. row' \in P!Rows  BY <1>1, <1>4 DEF RowIs, Written
<1>6. P!TypeOK'  BY <1>h, <1>3, <1>4, <1>5 DEF P!TypeOK, P!Claim, P!Go, P!At, P!Settle, P!Remote, P!Answer, P!Actors
<1> QED  BY <1>4, <1>6

(* Retry: it takes a row over only if that may be created again.              *)
LEMMA RetryDoes ==
  ASSUME P!TypeOK, NEW m \in Managers, P!Retry(m)
  PROVE  /\ at[m] = "retry" /\ UNCHANGED <<profile, account, calls, answer, candidate>>
         /\ \/ /\ row.state = "FAILED_RETRYABLE" /\ row.auth = Nobody
               /\ Goes(m, "create") /\ RowIs("CLAIMED", Nobody, TRUE) /\ Takes(m) /\ strayed' = strayed
            \/ row' = row /\ Goes(m, "end") /\ Same
         /\ P!TypeOK'
<1>1. row \in P!Rows /\ \A v \in Workers : candidate[v] \in P!Rows  BY DEF P!TypeOK
<1>2. row.auth = Nobody /\ row' = P!Claimed([row EXCEPT !.state = "CLAIMED"]) => RowIs("CLAIMED", Nobody, TRUE)
  <2>1. Written([row EXCEPT !.state = "CLAIMED"], "CLAIMED", row.auth, row.lease)
    BY <1>1, StateWritten DEF P!States
  <2> QED  BY <2>1, ClaimedWritten DEF RowIs, Written
<1>3. m \in P!Actors  BY DEF P!Actors
<1>4. /\ at[m] = "retry" /\ UNCHANGED <<profile, account, calls, answer, candidate>>
      /\ \/ /\ row.state = "FAILED_RETRYABLE" /\ row.auth = Nobody
            /\ Goes(m, "create") /\ RowIs("CLAIMED", Nobody, TRUE) /\ Takes(m) /\ strayed' = strayed
         \/ row' = row /\ Goes(m, "end") /\ Same
  BY <1>1, <1>2, <1>3, GoesTo, Overtaking, Writing, Unseen, ProvisioningAssumption DEF P!Retry, P!At, P!Remote, P!Recoverable
<1>h. overtaken' \subseteq P!Actors /\ strayed' \subseteq P!Actors
  BY <1>1, <1>3, Overtaking, Writing, Unseen DEF P!Retry, P!TypeOK
<1>5. row' \in P!Rows  BY <1>1, <1>4 DEF RowIs, Written
<1>6. P!TypeOK'  BY <1>h, <1>3, <1>4, <1>5 DEF P!TypeOK, P!Retry, P!Go, P!At, P!Settle, P!Remote, P!Answer, P!Actors
<1> QED  BY <1>4, <1>6

(* The call that creates the identity leaves for the provider.                *)
LEMMA CreateIdentityDoes ==
  ASSUME P!TypeOK, NEW m \in Managers, P!CreateIdentity(m)
  PROVE  /\ at[m] = "create" /\ Same /\ UNCHANGED <<row, profile, account, answer, candidate>>
         /\ Goes(m, "creating") /\ calls' = calls \cup {<<"create", m, Nobody>>}
         /\ P!TypeOK'
<1>1. row \in P!Rows /\ \A v \in Workers : candidate[v] \in P!Rows  BY DEF P!TypeOK
<1>3. m \in P!Actors  BY DEF P!Actors
<1>4. /\ at[m] = "create" /\ Same /\ UNCHANGED <<row, profile, account, answer, candidate>>
      /\ Goes(m, "creating") /\ calls' = calls \cup {<<"create", m, Nobody>>}
  BY <1>1, <1>3, GoesTo, Overtaking, Writing, Unseen, ProvisioningAssumption DEF P!CreateIdentity, P!At, P!Remote, P!Recoverable
<1>h. overtaken' \subseteq P!Actors /\ strayed' \subseteq P!Actors
  BY <1>1, <1>3, Overtaking, Writing, Unseen DEF P!CreateIdentity, P!TypeOK
<1>5. row' \in P!Rows  BY <1>1, <1>4 DEF RowIs, Written
<1>6. P!TypeOK'  BY <1>h, <1>3, <1>4, <1>5 DEF P!TypeOK, P!CreateIdentity, P!Go, P!At, P!Settle, P!Remote, P!Answer, P!Actors
<1> QED  BY <1>4, <1>6

(* What the manager writes of the answer, or of its absence.                  *)
LEMMA CreatedDoes ==
  ASSUME P!TypeOK, NEW m \in Managers, P!Created(m)
  PROVE  /\ at[m] = "creating" /\ Kept(m) /\ UNCHANGED <<profile, account, calls, candidate>> /\ Hears(m)
         /\ \/ answer[m] = "ok" /\ Goes(m, "tx") /\ RowIs("AUTH_CREATED", m, row.lease)
            \/ /\ Goes(m, "end")
               /\ RowIs("FAILED_FINAL", row.auth, row.lease) \/ RowIs("UNKNOWN", row.auth, row.lease)
         /\ P!TypeOK'
<1>1. row \in P!Rows /\ \A v \in Workers : candidate[v] \in P!Rows  BY DEF P!TypeOK
<1>2. /\ row' = [row EXCEPT !.state = "AUTH_CREATED", !.auth = m] => RowIs("AUTH_CREATED", m, row.lease)
      /\ P!Transition("FAILED_FINAL") => RowIs("FAILED_FINAL", row.auth, row.lease)
      /\ P!Transition(P!Unanswered) => RowIs("UNKNOWN", row.auth, row.lease)
  BY <1>1, AccountWritten, StateWritten DEF P!Transition, P!Unanswered, P!States, RowIs
<1>3. m \in P!Actors  BY DEF P!Actors
<1>4. /\ at[m] = "creating" /\ Kept(m) /\ UNCHANGED <<profile, account, calls, candidate>> /\ Hears(m)
      /\ \/ answer[m] = "ok" /\ Goes(m, "tx") /\ RowIs("AUTH_CREATED", m, row.lease)
         \/ /\ Goes(m, "end")
            /\ RowIs("FAILED_FINAL", row.auth, row.lease) \/ RowIs("UNKNOWN", row.auth, row.lease)
  BY <1>1, <1>2, <1>3, GoesTo, Overtaking, Writing, Unseen, HearsNone, ProvisioningAssumption DEF P!Created, P!At, P!Remote, P!Recoverable
<1>h. overtaken' \subseteq P!Actors /\ strayed' \subseteq P!Actors
  BY <1>1, <1>3, Overtaking, Writing, Unseen DEF P!Created, P!TypeOK
<1>5. row' \in P!Rows  BY <1>1, <1>4 DEF RowIs, Written
<1>6. P!TypeOK'  BY <1>h, <1>3, <1>4, <1>5, HearsNone DEF P!TypeOK, P!Created, P!Go, P!At, P!Settle, P!Remote, P!Answer, P!Actors
<1> QED  BY <1>4, <1>6

(* The local transaction commits, is not heard of, or fails.                  *)
LEMMA TransactDoes ==
  ASSUME P!TypeOK, NEW m \in Managers, P!Transact(m)
  PROVE  /\ at[m] = "tx" /\ UNCHANGED <<account, calls, answer, candidate>>
         /\ \/ /\ profile = Nobody /\ profile' = m /\ RowIs("COMPLETED", row.auth, FALSE) /\ Kept(m)
               /\ Goes(m, "end") \/ Goes(m, "compensate")
            \/ profile' = profile /\ row' = row /\ Goes(m, "compensate") /\ Same
         /\ P!TypeOK'
<1>1. row \in P!Rows /\ \A v \in Workers : candidate[v] \in P!Rows  BY DEF P!TypeOK
<1>2. row' = P!Completed(row) => RowIs("COMPLETED", row.auth, FALSE)
  BY <1>1, CompletedWritten DEF RowIs
<1>3. m \in P!Actors  BY DEF P!Actors
<1>4. /\ at[m] = "tx" /\ UNCHANGED <<account, calls, answer, candidate>>
      /\ \/ /\ profile = Nobody /\ profile' = m /\ RowIs("COMPLETED", row.auth, FALSE) /\ Kept(m)
            /\ Goes(m, "end") \/ Goes(m, "compensate")
         \/ profile' = profile /\ row' = row /\ Goes(m, "compensate") /\ Same
  BY <1>1, <1>2, <1>3, GoesTo, Overtaking, Writing, Unseen, ProvisioningAssumption DEF P!Transact, P!At, P!Remote, P!Recoverable
<1>h. overtaken' \subseteq P!Actors /\ strayed' \subseteq P!Actors
  BY <1>1, <1>3, Overtaking, Writing, Unseen DEF P!Transact, P!TypeOK
<1>5. row' \in P!Rows  BY <1>1, <1>4 DEF RowIs, Written
<1>6. P!TypeOK'  BY <1>h, <1>3, <1>4, <1>5 DEF P!TypeOK, P!Transact, P!Go, P!At, P!Settle, P!Remote, P!Answer, P!Actors
<1> QED  BY <1>4, <1>6

(* The compensation is written before it is asked for.                        *)
LEMMA CompensateDoes ==
  ASSUME P!TypeOK, NEW m \in Managers, P!Compensate(m)
  PROVE  /\ at[m] = "compensate" /\ Kept(m) /\ UNCHANGED <<profile, account, answer, candidate>>
         /\ Goes(m, "deleting") /\ calls' = calls \cup {<<"delete", m, m>>}
         /\ RowIs("COMPENSATION_REQUIRED", row.auth, row.lease)
         /\ P!TypeOK'
<1>1. row \in P!Rows /\ \A v \in Workers : candidate[v] \in P!Rows  BY DEF P!TypeOK
<1>2. P!Transition("COMPENSATION_REQUIRED") => RowIs("COMPENSATION_REQUIRED", row.auth, row.lease)
  BY <1>1, StateWritten DEF RowIs, P!Transition, P!States
<1>3. m \in P!Actors  BY DEF P!Actors
<1>4. /\ at[m] = "compensate" /\ Kept(m) /\ UNCHANGED <<profile, account, answer, candidate>>
      /\ Goes(m, "deleting") /\ calls' = calls \cup {<<"delete", m, m>>}
      /\ RowIs("COMPENSATION_REQUIRED", row.auth, row.lease)
  BY <1>1, <1>2, <1>3, GoesTo, Overtaking, Writing, Unseen, ProvisioningAssumption DEF P!Compensate, P!At, P!Remote, P!Recoverable
<1>h. overtaken' \subseteq P!Actors /\ strayed' \subseteq P!Actors
  BY <1>1, <1>3, Overtaking, Writing, Unseen DEF P!Compensate, P!TypeOK
<1>5. row' \in P!Rows  BY <1>1, <1>4 DEF RowIs, Written
<1>6. P!TypeOK'  BY <1>h, <1>3, <1>4, <1>5 DEF P!TypeOK, P!Compensate, P!Go, P!At, P!Settle, P!Remote, P!Answer, P!Actors
<1> QED  BY <1>4, <1>6

(* Deleted, refused, or not answered.                                         *)
LEMMA DeletedDoes ==
  ASSUME P!TypeOK, NEW m \in Managers, P!Deleted(m)
  PROVE  /\ at[m] = "deleting" /\ Kept(m) /\ UNCHANGED <<profile, account, calls, candidate>>
         /\ Goes(m, "end") /\ Hears(m)
         /\ \/ answer[m] = "ok" /\ RowIs("FAILED_RETRYABLE", Nobody, row.lease)
            \/ RowIs("COMPENSATION_REQUIRED", row.auth, row.lease)
         /\ P!TypeOK'
<1>1. row \in P!Rows /\ \A v \in Workers : candidate[v] \in P!Rows  BY DEF P!TypeOK
<1>2. /\ row' = P!Forgotten(row) => RowIs("FAILED_RETRYABLE", Nobody, row.lease)
      /\ P!Transition("COMPENSATION_REQUIRED") => RowIs("COMPENSATION_REQUIRED", row.auth, row.lease)
  BY <1>1, StateWritten, ForgottenWritten DEF RowIs, P!Transition, P!States
<1>3. m \in P!Actors  BY DEF P!Actors
<1>4. /\ at[m] = "deleting" /\ Kept(m) /\ UNCHANGED <<profile, account, calls, candidate>>
      /\ Goes(m, "end") /\ Hears(m)
      /\ \/ answer[m] = "ok" /\ RowIs("FAILED_RETRYABLE", Nobody, row.lease)
         \/ RowIs("COMPENSATION_REQUIRED", row.auth, row.lease)
  BY <1>1, <1>2, <1>3, GoesTo, Overtaking, Writing, Unseen, HearsNone, ProvisioningAssumption DEF P!Deleted, P!At, P!Remote, P!Recoverable
<1>h. overtaken' \subseteq P!Actors /\ strayed' \subseteq P!Actors
  BY <1>1, <1>3, Overtaking, Writing, Unseen DEF P!Deleted, P!TypeOK
<1>5. row' \in P!Rows  BY <1>1, <1>4 DEF RowIs, Written
<1>6. P!TypeOK'  BY <1>h, <1>3, <1>4, <1>5, HearsNone DEF P!TypeOK, P!Deleted, P!Go, P!At, P!Settle, P!Remote, P!Answer, P!Actors
<1> QED  BY <1>4, <1>6

(* The worker reads a row that may be recovered and whose lease is over.      *)
LEMMA FindDoes ==
  ASSUME P!TypeOK, NEW w \in Workers, P!Find(w)
  PROVE  /\ at[w] = "start" /\ Same /\ UNCHANGED <<row, profile, account, calls, answer>> /\ Goes(w, "claim")
         /\ row.state \in P!Recoverable /\ ~row.lease
         /\ candidate'[w] = row /\ \A v \in Workers \ {w} : candidate'[v] = candidate[v]
         /\ P!TypeOK'
<1>1. row \in P!Rows /\ \A v \in Workers : candidate[v] \in P!Rows  BY DEF P!TypeOK
<1>3. w \in P!Actors  BY DEF P!Actors
<1>4. /\ at[w] = "start" /\ Same /\ UNCHANGED <<row, profile, account, calls, answer>> /\ Goes(w, "claim")
      /\ row.state \in P!Recoverable /\ ~row.lease
      /\ candidate'[w] = row /\ \A v \in Workers \ {w} : candidate'[v] = candidate[v]
  BY <1>1, <1>3, GoesTo, Overtaking, Writing, Unseen, ProvisioningAssumption DEF P!Find, P!At, P!Remote, P!Recoverable, P!Working, P!TypeOK
<1>h. overtaken' \subseteq P!Actors /\ strayed' \subseteq P!Actors
  BY <1>1, <1>3, Overtaking, Writing, Unseen DEF P!Find, P!TypeOK
<1>5. row' \in P!Rows  BY <1>1, <1>4 DEF RowIs, Written
<1>6. P!TypeOK'  BY <1>h, <1>3, <1>4, <1>5 DEF P!TypeOK, P!Find, P!Go, P!At, P!Settle, P!Remote, P!Answer, P!Actors
<1> QED  BY <1>4, <1>6

(* It claims the row in the state that it read.                               *)
LEMMA ClaimRowDoes ==
  ASSUME P!TypeOK, NEW w \in Workers, P!ClaimRow(w)
  PROVE  /\ at[w] = "claim" /\ UNCHANGED <<profile, account, calls, answer, candidate>>
         /\ \/ /\ row.state = candidate[w].state /\ ~row.lease
               /\ Goes(w, "judge") /\ RowIs(row.state, row.auth, TRUE)
               /\ Takes(w) /\ (strayed' = {} => strayed = {} /\ row.auth = candidate[w].auth)
            \/ row' = row /\ Goes(w, "start") /\ Same
         /\ P!TypeOK'
<1>1. row \in P!Rows /\ \A v \in Workers : candidate[v] \in P!Rows  BY DEF P!TypeOK
<1>2. row' = P!Claimed(row) => RowIs(row.state, row.auth, TRUE)
  BY <1>1, ClaimedWritten DEF RowIs
<1>3. w \in P!Actors  BY DEF P!Actors
<1>4. /\ at[w] = "claim" /\ UNCHANGED <<profile, account, calls, answer, candidate>>
      /\ \/ /\ row.state = candidate[w].state /\ ~row.lease
            /\ Goes(w, "judge") /\ RowIs(row.state, row.auth, TRUE)
            /\ Takes(w) /\ (strayed' = {} => strayed = {} /\ row.auth = candidate[w].auth)
         \/ row' = row /\ Goes(w, "start") /\ Same
  BY <1>1, <1>2, <1>3, GoesTo, Overtaking, Writing, Unseen, ProvisioningAssumption DEF P!ClaimRow, P!At, P!Remote, P!Recoverable
<1>h. overtaken' \subseteq P!Actors /\ strayed' \subseteq P!Actors
  BY <1>1, <1>3, Overtaking, Writing, Unseen DEF P!ClaimRow, P!TypeOK
<1>5. row' \in P!Rows  BY <1>1, <1>4 DEF RowIs, Written
<1>6. P!TypeOK'  BY <1>h, <1>3, <1>4, <1>5 DEF P!TypeOK, P!ClaimRow, P!Go, P!At, P!Settle, P!Remote, P!Answer, P!Actors
<1> QED  BY <1>4, <1>6

(* What the provider shows of the identity, at the moment it is asked.        *)
LEMMA LookupDoes ==
  ASSUME P!TypeOK, NEW w \in Workers, P!Lookup(w)
  PROVE  /\ at[w] = "judge" /\ candidate[w].auth # Nobody /\ Same
         /\ UNCHANGED <<row, profile, account, calls, answer, candidate>>
         /\ \/ Goes(w, "silent") \/ Goes(w, "changed") \/ Goes(w, "found")
            \/ account # candidate[w].auth /\ Goes(w, "absent")
         /\ P!TypeOK'
<1>1. w \in P!Actors  BY DEF P!Actors
<1>2. \A there : P!Go(w, there) => Goes(w, there)  BY <1>1, GoesTo
<1>3. Same /\ overtaken' \subseteq P!Actors /\ strayed' \subseteq P!Actors  BY Unseen DEF P!Lookup
<1>4. /\ at[w] = "judge" /\ candidate[w].auth # Nobody
      /\ UNCHANGED <<row, profile, account, calls, answer, candidate>>
      /\ \/ Goes(w, "silent") \/ Goes(w, "changed") \/ Goes(w, "found")
         \/ account # candidate[w].auth /\ Goes(w, "absent")
  BY <1>2 DEF P!Lookup, P!At, P!Remote
<1>5. at' \in [P!Actors -> {"start", "retry", "create", "creating", "tx", "compensate", "deleting",
                            "claim", "judge", "silent", "absent", "changed", "found", "end"}]
  BY DEF P!TypeOK, P!Lookup, P!Go
<1> QED  BY <1>3, <1>4, <1>5 DEF P!TypeOK

(* What the worker decides by what it read and by what the provider shows.    *)
LEMMA JudgeDoes ==
  ASSUME P!TypeOK, NEW w \in Workers, P!Judge(w)
  PROVE  /\ UNCHANGED <<profile, account, calls, answer, candidate>> /\ Goes(w, "start") /\ Kept(w)
         /\ \/ at[w] \in {"judge", "changed"} /\ RowIs("FAILED_FINAL", row.auth, FALSE)
            \/ at[w] = "silent" /\ RowIs(candidate[w].state, row.auth, FALSE)
            \/ at[w] = "absent" /\ RowIs("FAILED_RETRYABLE", Nobody, FALSE)
         /\ P!TypeOK'
<1>1. row \in P!Rows /\ \A v \in Workers : candidate[v] \in P!Rows  BY DEF P!TypeOK
<1>2. /\ \A s \in P!States : P!Settle(w, P!As(w, s)) => RowIs(s, row.auth, FALSE)
      /\ P!Settle(w, P!Forgotten(row)) => RowIs("FAILED_RETRYABLE", Nobody, FALSE)
      /\ candidate[w].state \in P!States /\ "FAILED_FINAL" \in P!States
  <2>1. ASSUME NEW s \in P!States, P!Settle(w, P!As(w, s))  PROVE RowIs(s, row.auth, FALSE)
    <3>1. Written(P!As(w, s), s, row.auth, row.lease)  BY <1>1, StateWritten DEF P!As
    <3> QED  BY <2>1, <3>1, SettleWritten DEF Written
  <2>2. ASSUME P!Settle(w, P!Forgotten(row))  PROVE RowIs("FAILED_RETRYABLE", Nobody, FALSE)
    <3>1. Written(P!Forgotten(row), "FAILED_RETRYABLE", Nobody, row.lease)  BY <1>1, ForgottenWritten
    <3> QED  BY <2>2, <3>1, SettleWritten DEF Written
  <2>3. candidate[w].state \in P!States /\ "FAILED_FINAL" \in P!States  BY <1>1 DEF P!States, P!Rows
  <2> QED  BY <2>1, <2>2, <2>3
<1>3. w \in P!Actors  BY DEF P!Actors
<1>4. /\ UNCHANGED <<profile, account, calls, answer, candidate>> /\ Goes(w, "start") /\ P!Writes(w)
      /\ \/ at[w] \in {"judge", "changed"} /\ RowIs("FAILED_FINAL", row.auth, FALSE)
         \/ at[w] = "silent" /\ RowIs(candidate[w].state, row.auth, FALSE)
         \/ at[w] = "absent" /\ RowIs("FAILED_RETRYABLE", Nobody, FALSE)
  <2>1. \A it : P!Settle(w, it) => Goes(w, "start") /\ P!Writes(w)  BY <1>3, GoesTo DEF P!Settle
  <2> QED  BY <1>2, <2>1 DEF P!Judge, P!At, P!Remote
<1>5. row' \in P!Rows  BY <1>1, <1>4 DEF RowIs, Written
<1>h. Kept(w) /\ overtaken' \subseteq P!Actors /\ strayed' \subseteq P!Actors  BY <1>3, <1>4, Writing
<1>6. at' \in [P!Actors -> {"start", "retry", "create", "creating", "tx", "compensate", "deleting",
                            "claim", "judge", "silent", "absent", "changed", "found", "end"}]
  BY DEF P!TypeOK, P!Judge, P!Go, P!Settle
<1> QED  BY <1>4, <1>5, <1>6, <1>h DEF P!TypeOK

(* The worker asks for the deletion that it found undone.                     *)
LEMMA DeleteAgainDoes ==
  ASSUME P!TypeOK, NEW w \in Workers, P!DeleteAgain(w)
  PROVE  /\ at[w] = "found" /\ candidate[w].state = "COMPENSATION_REQUIRED" /\ Goes(w, "deleting")
         /\ Same /\ UNCHANGED <<row, profile, account, answer, candidate>>
         /\ calls' = calls \cup {<<"delete", w, candidate[w].auth>>}
         /\ P!TypeOK'
<1>1. w \in P!Actors /\ candidate[w].auth \in Managers \cup {Nobody}
  BY DEF P!Actors, P!TypeOK, P!Rows
<1>2. Same /\ overtaken' \subseteq P!Actors /\ strayed' \subseteq P!Actors  BY Unseen DEF P!DeleteAgain
<1>3. /\ at[w] = "found" /\ candidate[w].state = "COMPENSATION_REQUIRED" /\ Goes(w, "deleting")
      /\ UNCHANGED <<row, profile, account, answer, candidate>>
      /\ calls' = calls \cup {<<"delete", w, candidate[w].auth>>}
  BY <1>1, GoesTo DEF P!DeleteAgain, P!At
<1>4. at' \in [P!Actors -> {"start", "retry", "create", "creating", "tx", "compensate", "deleting",
                            "claim", "judge", "silent", "absent", "changed", "found", "end"}]
  BY DEF P!TypeOK, P!DeleteAgain, P!Go
<1>5. calls' \subseteq {"create", "delete"} \X P!Actors \X (Managers \cup {Nobody})
  <2> DEFINE Sent == {"create", "delete"} \X P!Actors \X (Managers \cup {Nobody})
  <2>1. <<"delete", w, candidate[w].auth>> \in Sent  BY <1>1
  <2>2. calls \subseteq Sent  BY DEF P!TypeOK
  <2> HIDE DEF Sent
  <2>3. calls' \subseteq Sent  BY <1>3, <2>1, <2>2
  <2> QED  BY <2>3 DEF Sent
<1> QED  BY <1>2, <1>3, <1>4, <1>5 DEF P!TypeOK

(* The deletion of the worker was answered, or not.                           *)
LEMMA DeletedAgainDoes ==
  ASSUME P!TypeOK, NEW w \in Workers, P!DeletedAgain(w)
  PROVE  /\ at[w] = "deleting" /\ Kept(w) /\ UNCHANGED <<profile, account, calls, candidate>>
         /\ Goes(w, "start") /\ Hears(w)
         /\ \/ answer[w] = "ok" /\ RowIs("FAILED_RETRYABLE", Nobody, FALSE)
            \/ RowIs("COMPENSATION_REQUIRED", candidate[w].auth, FALSE)
         /\ P!TypeOK'
<1>1. row \in P!Rows /\ \A v \in Workers : candidate[v] \in P!Rows  BY DEF P!TypeOK
<1>2. /\ P!Settle(w, P!Forgotten(row)) => RowIs("FAILED_RETRYABLE", Nobody, FALSE)
      /\ P!Settle(w, [P!As(w, "COMPENSATION_REQUIRED") EXCEPT !.auth = candidate[w].auth])
           => RowIs("COMPENSATION_REQUIRED", candidate[w].auth, FALSE)
  <2>1. ASSUME P!Settle(w, P!Forgotten(row))  PROVE RowIs("FAILED_RETRYABLE", Nobody, FALSE)
    <3>1. Written(P!Forgotten(row), "FAILED_RETRYABLE", Nobody, row.lease)  BY <1>1, ForgottenWritten
    <3> QED  BY <2>1, <3>1, SettleWritten DEF Written
  <2> DEFINE r == P!As(w, "COMPENSATION_REQUIRED")
  <2>2. Written(r, "COMPENSATION_REQUIRED", row.auth, row.lease)  BY <1>1, StateWritten DEF P!As, P!States
  <2>3. candidate[w].auth \in Managers \cup {Nobody}  BY <1>1 DEF P!Rows
  <2> HIDE DEF r
  <2>4. Written([r EXCEPT !.auth = candidate[w].auth], "COMPENSATION_REQUIRED", candidate[w].auth, row.lease)
    BY <2>2, <2>3, AuthWritten DEF Written
  <2>5. P!Settle(w, [r EXCEPT !.auth = candidate[w].auth])
          => RowIs("COMPENSATION_REQUIRED", candidate[w].auth, FALSE)
    BY <2>4, SettleWritten DEF Written
  <2> QED  BY <2>1, <2>5 DEF r
<1>3. w \in P!Actors  BY DEF P!Actors
<1>4. /\ at[w] = "deleting" /\ Kept(w) /\ UNCHANGED <<profile, account, calls, candidate>>
      /\ Goes(w, "start") /\ Hears(w)
      /\ \/ answer[w] = "ok" /\ RowIs("FAILED_RETRYABLE", Nobody, FALSE)
         \/ RowIs("COMPENSATION_REQUIRED", candidate[w].auth, FALSE)
  <2>1. \A it : P!Settle(w, it) => Goes(w, "start") /\ Kept(w)  BY <1>3, GoesTo, Writing DEF P!Settle
  <2>2. Hears(w)  BY <1>3, HearsNone DEF P!DeletedAgain
  <2> QED  BY <1>2, <2>1, <2>2, ZenonT(60) DEF P!DeletedAgain, P!At
<1>h. overtaken' \subseteq P!Actors /\ strayed' \subseteq P!Actors
  BY <1>3, Writing DEF P!DeletedAgain, P!Settle
<1>5. row' \in P!Rows  BY <1>1, <1>4 DEF RowIs, Written
<1>6. P!TypeOK'  BY <1>h, <1>3, <1>4, <1>5, HearsNone DEF P!TypeOK, P!DeletedAgain, P!Go, P!At, P!Settle, P!Remote, P!Answer, P!Actors
<1> QED  BY <1>4, <1>6

(* The worker commits the local transaction of an identity that is there.     *)
LEMMA CompleteRecoveredDoes ==
  ASSUME P!TypeOK, NEW w \in Workers, P!CompleteRecovered(w)
  PROVE  /\ at[w] = "found" /\ candidate[w].state # "COMPENSATION_REQUIRED" /\ UNCHANGED <<account, calls, answer, candidate>>
         /\ Goes(w, "start")
         /\ \/ /\ row.auth # Nobody /\ profile = Nobody /\ profile' = row.auth
               /\ RowIs("COMPLETED", row.auth, FALSE) /\ Kept(w)
            \/ profile' = profile /\ row' = row /\ Same
         /\ P!TypeOK'
<1>1. row \in P!Rows /\ \A v \in Workers : candidate[v] \in P!Rows  BY DEF P!TypeOK
<1>2. row' = P!Completed(row) => RowIs("COMPLETED", row.auth, FALSE)
  BY <1>1, CompletedWritten DEF RowIs
<1>3. w \in P!Actors  BY DEF P!Actors
<1>4. /\ at[w] = "found" /\ candidate[w].state # "COMPENSATION_REQUIRED" /\ UNCHANGED <<account, calls, answer, candidate>>
      /\ Goes(w, "start")
      /\ \/ /\ row.auth # Nobody /\ profile = Nobody /\ profile' = row.auth
            /\ RowIs("COMPLETED", row.auth, FALSE) /\ Kept(w)
         \/ profile' = profile /\ row' = row /\ Same
  BY <1>1, <1>2, <1>3, GoesTo, Writing, Unseen, ProvisioningAssumption DEF P!CompleteRecovered, P!At, P!Remote, P!Recoverable
<1>h. overtaken' \subseteq P!Actors /\ strayed' \subseteq P!Actors
  BY <1>3, Writing, Unseen DEF P!CompleteRecovered
<1>5. row' \in P!Rows  BY <1>1, <1>4 DEF RowIs, Written
<1>6. P!TypeOK'
  <2>1. at' \in [P!Actors -> {"start", "retry", "create", "creating", "tx", "compensate", "deleting",
                             "claim", "judge", "silent", "absent", "changed", "found", "end"}]
    BY DEF P!TypeOK, P!CompleteRecovered, P!Go
  <2>2. row.auth \in Managers \cup {Nobody}  BY <1>1 DEF P!Rows
  <2> QED  BY <1>4, <1>5, <1>h, <2>1, <2>2 DEF P!TypeOK
<1> QED  BY <1>4, <1>6

(* A process dies: nobody hears its answers, the rows stay.                   *)
LEMMA CrashDoes ==
  ASSUME P!TypeOK, NEW a \in P!Actors, P!Crash(a)
  PROVE  /\ at[a] \notin {"start", "end"} /\ Same /\ UNCHANGED <<row, profile, account, calls, candidate>>
         /\ Hears(a) /\ (IF a \in Workers THEN Goes(a, "start") ELSE Goes(a, "end"))
         /\ P!TypeOK'
<1>1. row \in P!Rows /\ \A v \in Workers : candidate[v] \in P!Rows  BY DEF P!TypeOK
<1>3. a \in P!Actors  BY DEF P!Actors
<1>4. /\ at[a] \notin {"start", "end"} /\ Same /\ UNCHANGED <<row, profile, account, calls, candidate>>
      /\ Hears(a) /\ (IF a \in Workers THEN Goes(a, "start") ELSE Goes(a, "end"))
  BY <1>1, <1>3, GoesTo, Overtaking, Writing, Unseen, HearsNone, ProvisioningAssumption DEF P!Crash, P!At, P!Remote, P!Recoverable
<1>h. overtaken' \subseteq P!Actors /\ strayed' \subseteq P!Actors
  BY <1>1, <1>3, Overtaking, Writing, Unseen DEF P!Crash, P!TypeOK
<1>5. row' \in P!Rows  BY <1>1, <1>4 DEF RowIs, Written
<1>6. P!TypeOK'  BY <1>h, <1>3, <1>4, <1>5, HearsNone DEF P!TypeOK, P!Crash, P!Go, P!At, P!Settle, P!Remote, P!Answer, P!Actors
<1> QED  BY <1>4, <1>6

(* The provider carries out a call, once, and perhaps answers.                *)
LEMMA ProviderDoes ==
  ASSUME P!TypeOK, Calls, P!Provider
  PROVE  /\ UNCHANGED <<row, profile, at, candidate>> /\ Same
         /\ \E c \in calls :
              /\ calls' = calls \ {c}
              /\ \A b \in P!Actors \ {c[2]} : answer'[b] = answer[b]
              /\ \/ /\ c[1] = "create" /\ account = Nobody /\ account' = c[2]
                    /\ at[c[2]] = "creating" => answer'[c[2]] = "ok"
                    /\ at[c[2]] # "creating" => answer' = answer
                 \/ /\ c[1] = "create" /\ account # Nobody /\ account' = account
                    /\ answer' = answer \/ (at[c[2]] = "creating" /\ answer'[c[2]] = "refused")
                 \/ /\ c[1] = "delete" /\ account' = (IF account = c[3] THEN Nobody ELSE account)
                    /\ \/ answer' = answer
                       \/ /\ answer'[c[2]] = "ok" /\ at[c[2]] = "deleting"
                          /\ c[2] \in Workers => candidate[c[2]].auth = c[3]
                 \/ account' = account /\ answer' = answer
         /\ P!TypeOK'
<1>1. row \in P!Rows /\ \A v \in Workers : candidate[v] \in P!Rows  BY DEF P!TypeOK
<1>4. /\ UNCHANGED <<row, profile, at, candidate>> /\ Same
      /\ \E c \in calls :
           /\ calls' = calls \ {c}
           /\ \A b \in P!Actors \ {c[2]} : answer'[b] = answer[b]
           /\ \/ /\ c[1] = "create" /\ account = Nobody /\ account' = c[2]
                 /\ at[c[2]] = "creating" => answer'[c[2]] = "ok"
                 /\ at[c[2]] # "creating" => answer' = answer
              \/ /\ c[1] = "create" /\ account # Nobody /\ account' = account
                 /\ answer' = answer \/ (at[c[2]] = "creating" /\ answer'[c[2]] = "refused")
              \/ /\ c[1] = "delete" /\ account' = (IF account = c[3] THEN Nobody ELSE account)
                 /\ \/ answer' = answer
                    \/ /\ answer'[c[2]] = "ok" /\ at[c[2]] = "deleting"
                       /\ c[2] \in Workers => candidate[c[2]].auth = c[3]
              \/ account' = account /\ answer' = answer
  <2>1. PICK c \in calls :
          /\ calls' = calls \ {c}
          /\ \/ c[1] = "create" /\ account = Nobody /\ account' = c[2] /\ P!Answer(c, "ok")
             \/ c[1] = "create" /\ account # Nobody /\ account' = account /\ P!Answer(c, "refused")
             \/ c[1] = "delete" /\ account' = (IF account = c[3] THEN Nobody ELSE account)
                /\ P!Answer(c, "ok")
             \/ account' = account /\ answer' = answer
          /\ UNCHANGED <<row, profile, at, candidate>> /\ Same
    BY DEF P!Provider, P!history, Same
  <2>2. c[1] \in {"create", "delete"} /\ c[2] \in P!Actors  BY DEF P!TypeOK
  <2>3. ASSUME NEW what, P!Answer(c, what)
        PROVE  /\ \A b \in P!Actors \ {c[2]} : answer'[b] = answer[b]
               /\ answer' = answer \/ (answer'[c[2]] = what /\ P!Awaited(c))
               /\ P!Awaited(c) => answer'[c[2]] = what
               /\ ~P!Awaited(c) => answer' = answer
    BY <2>2, <2>3 DEF P!Answer, P!TypeOK
  <2>4. c[1] = "create" => (at[c[2]] = "creating" <=> P!Awaited(c))
    BY <2>2, ProvisioningAssumption DEF Calls, P!Awaited
  <2>5. c[1] = "delete" /\ P!Awaited(c) =>
          at[c[2]] = "deleting" /\ (c[2] \in Workers => candidate[c[2]].auth = c[3])
    BY DEF P!Awaited
  <2> QED  BY <2>1, <2>3, <2>4, <2>5
<1>h. overtaken' \subseteq P!Actors /\ strayed' \subseteq P!Actors
  BY <1>4 DEF P!TypeOK, Same
<1>5. row' \in P!Rows  BY <1>1, <1>4
<1>6. P!TypeOK'
  <2>1. answer' \in [P!Actors -> {"none", "ok", "refused"}]  BY DEF P!TypeOK, P!Provider, P!Answer
  <2>2. account' \in Managers \cup {Foreign, Nobody}  BY <1>4 DEF P!TypeOK, Calls
  <2>3. calls' \subseteq calls  BY <1>4
  <2> QED  BY <1>4, <1>5, <1>h, <2>1, <2>2, <2>3 DEF P!TypeOK
<1> QED  BY <1>4, <1>6

(* A lease runs out, whoever works.                                           *)
LEMMA LeaseExpiresDoes ==
  ASSUME P!TypeOK, P!LeaseExpires
  PROVE  /\ UNCHANGED <<profile, account, calls, answer, at, candidate>> /\ row.lease
         /\ Same /\ RowIs(row.state, row.auth, FALSE)
         /\ P!TypeOK'
<1>1. row \in P!Rows /\ \A v \in Workers : candidate[v] \in P!Rows  BY DEF P!TypeOK
<1>2. row' = [row EXCEPT !.lease = FALSE] => RowIs(row.state, row.auth, FALSE)
  BY <1>1, LeaseWritten DEF RowIs
<1>4. /\ UNCHANGED <<profile, account, calls, answer, at, candidate>> /\ row.lease
      /\ Same /\ RowIs(row.state, row.auth, FALSE)
  BY <1>1, <1>2, Unseen, ProvisioningAssumption DEF P!LeaseExpires, P!At, P!Remote, P!Recoverable, P!Working, P!Actors
<1>h. overtaken' \subseteq P!Actors /\ strayed' \subseteq P!Actors
  BY Unseen DEF P!LeaseExpires
<1>5. row' \in P!Rows  BY <1>1, <1>4 DEF RowIs, Written
<1>6. P!TypeOK'  BY <1>h, <1>4, <1>5 DEF P!TypeOK, P!LeaseExpires, P!Answer, P!Actors, P!Remote
<1> QED  BY <1>4, <1>6

(* A manager that has gone past a point stays past it, so old calls stay placed. *)
Onward ==
  \A m \in Managers : /\ at[m] \notin {"start", "retry", "create"} => at'[m] \notin {"start", "retry", "create"}
                      /\ at[m] \notin Before => at'[m] \notin Before
(* A call that arrives leaves the others placed.                              *)
LEMMA CallsStay ==
  ASSUME Calls, Onward, calls' \subseteq calls
  PROVE  Calls'
BY DEF Calls, Onward
(* A call that leaves is placed.                                              *)
LEMMA CallsGrow ==
  ASSUME Calls, Onward, NEW call, calls' = calls \cup {call},
         \/ /\ call[1] = "create" /\ call[2] \in Managers /\ call[3] = Nobody
            /\ at'[call[2]] \notin {"start", "retry", "create"}
         \/ /\ call[1] = "delete" /\ call[3] \in Managers /\ at'[call[3]] \notin Before
            /\ call[2] \in Managers => call[3] = call[2]
  PROVE  Calls'
BY DEF Calls, Onward

(* What holds of the others, while one goes from here to there.                  *)
LEMMA Aside ==
  ASSUME NEW m \in Managers, NEW there, Goes(m, there)
  PROVE  \A v \in Workers : at'[v] = at[v]
BY ProvisioningAssumption DEF Goes, P!Actors
(* Who stops holding leaves the others where they are.                        *)
LEMMA Leaves ==
  ASSUME overtaken' = overtaken, NEW a \in P!Actors, NEW there, Goes(a, there), there \notin Holding
  PROVE  \A b \in (Holders)' : b \in Holders /\ b # a /\ at'[b] = at[b]
BY DEF Goes, Holders
(* A worker that goes on still means the identity that it read.               *)
LEMMA SparedStays ==
  ASSUME candidate' = candidate, \A v \in Workers : at[v] = "start" => at'[v] = "start"
  PROVE  \A x : Spared(x) => Spared(x)'
BY DEF Spared
(* Where the row says the same of the same provider, it is still right.       *)
LEMMA StageStays ==
  ASSUME Stage, row'.state = row.state, row'.auth = row.auth, account' = account, calls' = calls,
         (Holders)' \subseteq Holders, \A x : Spared(x) => Spared(x)'
  PROVE  Stage'
<1>1. NoCreates' = NoCreates /\ \A x : NoDeletes(x)' = NoDeletes(x)  BY DEF NoCreates, NoDeletes
<1> QED  BY <1>1 DEF Stage
(* The same of a row that is complete.                                        *)
LEMMA WholeStays ==
  ASSUME Whole, row'.state = row.state, profile' = profile, account' = account, calls' = calls,
         \A x : Spared(x) => Spared(x)',
         \A a \in (Holders)' : a \in Holders /\ (at[a] = "compensate" => at'[a] = "compensate")
  PROVE  Whole'
<1>1. \A x : NoDeletes(x)' = NoDeletes(x)  BY DEF NoDeletes
<1> QED  BY <1>1 DEF Whole

(* A claim: nothing was, and nothing is under way.                            *)
LEMMA ClaimStep ==
  ASSUME ProvInv, NEW m \in Managers, P!Claim(m)
  PROVE  ProvInv'
<1>0. /\ at[m] = "start" /\ UNCHANGED <<profile, account, calls, answer, candidate>>
      /\ \/ row.state = "absent" /\ Goes(m, "create") /\ RowIs("CLAIMED", Nobody, TRUE) /\ Takes(m) /\ strayed' = strayed
         \/ row.state # "absent" /\ row' = row /\ (Goes(m, "retry") \/ Goes(m, "end")) /\ Same
      /\ P!TypeOK'
  BY ClaimDoes DEF ProvInv
<1>a. Places'
  BY <1>0, ProvisioningAssumption DEF Places, ProvInv, P!TypeOK, P!Rows, Goes, RowIs, Written, P!Actors, Before, Judging
<1>o. Onward  BY <1>0, ProvisioningAssumption DEF Onward, ProvInv, Places, Goes, Before, P!Actors
<1>b. Calls'  BY <1>0, <1>o, CallsStay DEF ProvInv
<1>s. \A x : Spared(x) => Spared(x)'  BY <1>0, Aside, SparedStays
<1>w. m \in P!Actors  BY DEF P!Actors
<1> DEFINE Taken == row.state = "absent" /\ Goes(m, "create") /\ RowIs("CLAIMED", Nobody, TRUE) /\ Takes(m) /\ strayed' = strayed
           Left == row' = row /\ (Goes(m, "retry") \/ Goes(m, "end")) /\ Same
<1>t. Taken \/ Left  BY <1>0
<1>l. Left => \A b \in (Holders)' : b \in Holders /\ b # m /\ at'[b] = at[b]
  BY <1>w, Leaves DEF Holding, Judging, Same
<1>c. strayed' = {} /\ profile' = Nobody => Stage'
  <2>1. CASE Taken  BY <2>1 DEF Stage, RowIs, Written
  <2>2. CASE Left  BY <1>0, <1>s, <1>l, <2>2, StageStays DEF ProvInv, Same
  <2> QED  BY <1>t, <2>1, <2>2
<1>d. strayed' = {} /\ profile' = Nobody => OneHolder'
  BY <1>0 DEF ProvInv, Goes, RowIs, Written, Holders, Holding, Stage, OneHolder, Takes, Same, Judging
<1>e. strayed' = {} /\ profile' = Nobody => ManagerHolds'
  <2> SUFFICES ASSUME strayed' = {}, profile' = Nobody PROVE ManagerHolds'  OBVIOUS
  <2>1. Stage /\ ManagerHolds  BY <1>0 DEF ProvInv, Same
  <2>2. CASE Taken
    <3>1. Holders = {} /\ account \notin Managers /\ NoCreates  BY <2>1, <2>2 DEF Stage
    <3>2. \A k \in Managers \ {m} : at'[k] = at[k] /\ (at[k] \in Holding => k \in overtaken /\ k \in overtaken')
      BY <2>2, <3>1 DEF Goes, Takes, Holders, P!Actors
    <3>3. \A k \in Managers : at[k] \notin {"create", "creating"}
      BY <1>0, <2>1, <3>2 DEF ManagerHolds, Holding
    <3>4. at'[m] = "create" /\ row'.state = "CLAIMED" /\ m \notin overtaken'
      BY <2>2 DEF Goes, Takes, RowIs, Written
    <3> QED  BY <1>0, <3>1, <3>2, <3>3, <3>4 DEF ManagerHolds, Holding, NoCreates
  <2>3. CASE Left  BY <1>0, <2>1, <2>3 DEF Goes, P!Actors, ManagerHolds, NoCreates, Same
  <2> QED  BY <1>t, <2>2, <2>3
<1>f. strayed' = {} /\ profile' = Nobody => WorkerHolds'
  BY <1>0, ProvisioningAssumption DEF ProvInv, P!Actors, Goes, RowIs, Written, Holders, Holding, Stage, WorkerHolds, Takes, Same, Judging
<1>g. strayed' = {} => Whole'
  <2>1. CASE Taken  BY <2>1 DEF Whole, RowIs, Written
  <2>2. CASE Left  BY <1>0, <1>s, <1>l, <2>2, WholeStays DEF ProvInv, Same
  <2> QED  BY <1>t, <2>1, <2>2
<1> QED  BY <1>0, <1>a, <1>b, <1>c, <1>d, <1>e, <1>f, <1>g DEF ProvInv

(* A retry finds a row without identity and without anybody at work.          *)
LEMMA RetryStep ==
  ASSUME ProvInv, NEW m \in Managers, P!Retry(m)
  PROVE  ProvInv'
<1>0. /\ at[m] = "retry" /\ UNCHANGED <<profile, account, calls, answer, candidate>>
      /\ \/ /\ row.state = "FAILED_RETRYABLE" /\ row.auth = Nobody
            /\ Goes(m, "create") /\ RowIs("CLAIMED", Nobody, TRUE) /\ Takes(m) /\ strayed' = strayed
         \/ row' = row /\ Goes(m, "end") /\ Same
      /\ P!TypeOK'
  BY RetryDoes DEF ProvInv
<1>a. Places'
  BY <1>0 DEF Places, ProvInv, P!TypeOK, P!Rows, Goes, RowIs, Written, P!Actors, Before, Judging
<1>o. Onward  BY <1>0, ProvisioningAssumption DEF Onward, ProvInv, Places, Goes, Before, P!Actors
<1>b. Calls'  BY <1>0, <1>o, CallsStay DEF ProvInv
<1>s. \A x : Spared(x) => Spared(x)'  BY <1>0, Aside, SparedStays
<1>w. m \in P!Actors  BY DEF P!Actors
<1> DEFINE Taken == row.state = "FAILED_RETRYABLE" /\ Goes(m, "create") /\ RowIs("CLAIMED", Nobody, TRUE) /\ Takes(m) /\ strayed' = strayed
           Left == row' = row /\ (Goes(m, "retry") \/ Goes(m, "end")) /\ Same
<1>t. Taken \/ Left  BY <1>0
<1>l. Left => \A b \in (Holders)' : b \in Holders /\ b # m /\ at'[b] = at[b]
  BY <1>w, Leaves DEF Holding, Judging, Same
<1>c. strayed' = {} /\ profile' = Nobody => Stage'
  <2>1. CASE Taken  BY <2>1 DEF Stage, RowIs, Written
  <2>2. CASE Left  BY <1>0, <1>s, <1>l, <2>2, StageStays DEF ProvInv, Same
  <2> QED  BY <1>t, <2>1, <2>2
<1>d. strayed' = {} /\ profile' = Nobody => OneHolder'
  BY <1>0 DEF ProvInv, Goes, RowIs, Written, Holders, Holding, Stage, OneHolder, Takes, Same, Judging
<1>e. strayed' = {} /\ profile' = Nobody => ManagerHolds'
  <2> SUFFICES ASSUME strayed' = {}, profile' = Nobody PROVE ManagerHolds'  OBVIOUS
  <2>1. Stage /\ ManagerHolds  BY <1>0 DEF ProvInv, Same
  <2>2. CASE Taken
    <3>1. Holders = {} /\ account \notin Managers /\ NoCreates  BY <2>1, <2>2 DEF Stage
    <3>2. \A k \in Managers \ {m} : at'[k] = at[k] /\ (at[k] \in Holding => k \in overtaken /\ k \in overtaken')
      BY <2>2, <3>1 DEF Goes, Takes, Holders, P!Actors
    <3>3. \A k \in Managers : at[k] \notin {"create", "creating"}
      BY <1>0, <2>1, <3>2 DEF ManagerHolds, Holding
    <3>4. at'[m] = "create" /\ row'.state = "CLAIMED" /\ m \notin overtaken'
      BY <2>2 DEF Goes, Takes, RowIs, Written
    <3> QED  BY <1>0, <3>1, <3>2, <3>3, <3>4 DEF ManagerHolds, Holding, NoCreates
  <2>3. CASE Left  BY <1>0, <2>1, <2>3 DEF Goes, P!Actors, ManagerHolds, NoCreates, Same
  <2> QED  BY <1>t, <2>2, <2>3
<1>f. strayed' = {} /\ profile' = Nobody => WorkerHolds'
  BY <1>0, ProvisioningAssumption DEF ProvInv, P!Actors, Goes, RowIs, Written, Holders, Holding, Stage, WorkerHolds, Takes, Same, Judging
<1>g. strayed' = {} => Whole'
  <2>1. CASE Taken  BY <2>1 DEF Whole, RowIs, Written
  <2>2. CASE Left  BY <1>0, <1>s, <1>l, <2>2, WholeStays DEF ProvInv, Same
  <2> QED  BY <1>t, <2>1, <2>2
<1> QED  BY <1>0, <1>a, <1>b, <1>c, <1>d, <1>e, <1>f, <1>g DEF ProvInv

(* The one call that creates an identity is that of the holder.               *)
LEMMA CreateIdentityStep ==
  ASSUME ProvInv, NEW m \in Managers, P!CreateIdentity(m)
  PROVE  ProvInv'
<1>0. /\ at[m] = "create" /\ Same /\ UNCHANGED <<row, profile, account, answer, candidate>>
      /\ Goes(m, "creating") /\ calls' = calls \cup {<<"create", m, Nobody>>}
      /\ P!TypeOK'
  BY CreateIdentityDoes DEF ProvInv
<1>a. Places'
  BY <1>0 DEF Places, ProvInv, P!TypeOK, P!Rows, Goes, P!Actors, Before, Judging
<1>o. Onward  BY <1>0 DEF Onward, Goes, Before, P!Actors
<1>b. Calls'  BY <1>0, <1>o, CallsStay, CallsGrow DEF ProvInv, Goes
<1>c. strayed' = {} /\ profile' = Nobody => Stage'
  BY <1>0 DEF ProvInv, Stage, ManagerHolds, Same, Spared
<1>d. strayed' = {} /\ profile' = Nobody => OneHolder'
  BY <1>0 DEF ProvInv, Goes, Holders, Holding, OneHolder, Same, Judging
<1>e. strayed' = {} /\ profile' = Nobody => ManagerHolds'
  BY <1>0 DEF ProvInv, P!Actors, Goes, Holders, Holding, NoCreates, OneHolder, ManagerHolds, Places, Same, Judging
<1>f. strayed' = {} /\ profile' = Nobody => WorkerHolds'
  BY <1>0, ProvisioningAssumption DEF ProvInv, P!Actors, Goes, Holders, WorkerHolds, Same, Judging
<1>g. strayed' = {} => Whole'
  <2>1. \A x : Spared(x) => Spared(x)'  BY <1>0, Aside, SparedStays
  <2>2. \A x : NoDeletes(x) => NoDeletes(x)'  BY <1>0 DEF NoDeletes
  <2>3. \A a \in (Holders)' : a \in Holders /\ (at[a] = "compensate" => at'[a] = "compensate")
    BY <1>0 DEF Goes, Holders, Holding, Same
  <2> QED  BY <1>0, <2>1, <2>2, <2>3 DEF ProvInv, Whole, Same
<1> QED  BY <1>0, <1>a, <1>b, <1>c, <1>d, <1>e, <1>f, <1>g DEF ProvInv

(* The row says AUTH_CREATED only after an answer, and UNKNOWN without one.   *)
LEMMA CreatedStep ==
  ASSUME ProvInv, NEW m \in Managers, P!Created(m)
  PROVE  ProvInv'
<1>0. /\ at[m] = "creating" /\ Kept(m) /\ UNCHANGED <<profile, account, calls, candidate>> /\ Hears(m)
      /\ \/ answer[m] = "ok" /\ Goes(m, "tx") /\ RowIs("AUTH_CREATED", m, row.lease)
         \/ /\ Goes(m, "end")
            /\ RowIs("FAILED_FINAL", row.auth, row.lease) \/ RowIs("UNKNOWN", row.auth, row.lease)
      /\ P!TypeOK'
  BY CreatedDoes DEF ProvInv
<1>a. Places'
  BY <1>0 DEF Places, ProvInv, P!TypeOK, P!Rows, Goes, RowIs, Written, Hears, P!Actors, Before, Judging
<1>o. Onward  BY <1>0 DEF Onward, Goes, Before, P!Actors
<1>b. Calls'  BY <1>0, <1>o, CallsStay DEF ProvInv
<1>c. strayed' = {} /\ profile' = Nobody => Stage'
  <2> SUFFICES ASSUME strayed' = {}, profile' = Nobody PROVE Stage'  OBVIOUS
  <2>1. ManagerHolds /\ Stage /\ row.state = "CLAIMED" /\ row.auth = Nobody
    BY <1>0 DEF ProvInv, Kept, ManagerHolds, Stage
  <2>2. CASE answer[m] = "ok" /\ Goes(m, "tx") /\ RowIs("AUTH_CREATED", m, row.lease)
    <3>1. account = m /\ NoCreates  BY <1>0, <2>1, <2>2 DEF ManagerHolds
    <3>2. NoDeletes(m)  BY <1>0 DEF ProvInv, Calls, Before, NoDeletes
    <3>3. Spared(m)
      BY <1>0, ProvisioningAssumption DEF ProvInv, Places, Before, Spared
    <3>4. Spared(m)'  BY <1>0, <2>2, <3>3, Aside, SparedStays
    <3>5. account' = m /\ NoCreates' /\ NoDeletes(m)'  BY <1>0, <3>1, <3>2 DEF NoCreates, NoDeletes
    <3>6. row'.state = "AUTH_CREATED" /\ row'.auth = m /\ m # Nobody
      BY <2>2, ProvisioningAssumption DEF RowIs, Written
    <3> QED  BY <3>4, <3>5, <3>6 DEF Stage
  <2>3. CASE RowIs("FAILED_FINAL", row.auth, row.lease) \/ RowIs("UNKNOWN", row.auth, row.lease)
    BY <2>1, <2>3 DEF Stage, RowIs, Written
  <2> QED  BY <1>0, <2>2, <2>3
<1>d. strayed' = {} /\ profile' = Nobody => OneHolder'
  BY <1>0 DEF ProvInv, Goes, RowIs, Written, Holders, Holding, OneHolder, Kept, Judging
<1>e. strayed' = {} /\ profile' = Nobody => ManagerHolds'
  BY <1>0 DEF ProvInv, P!Actors, Goes, RowIs, Written, Holders, Holding, OneHolder, ManagerHolds, Kept, Judging
<1>f. strayed' = {} /\ profile' = Nobody => WorkerHolds'
  BY <1>0, ProvisioningAssumption DEF ProvInv, P!Actors, Goes, RowIs, Written, Holders, Holding, OneHolder, WorkerHolds, Kept, Judging
<1>g. strayed' = {} => Whole'  BY <1>0 DEF Whole, RowIs, Written, Kept, Spared
<1> QED  BY <1>0, <1>a, <1>b, <1>c, <1>d, <1>e, <1>f, <1>g DEF ProvInv

(* A commit makes the row COMPLETED with the identity that is there.          *)
LEMMA TransactStep ==
  ASSUME ProvInv, NEW m \in Managers, P!Transact(m)
  PROVE  ProvInv'
<1>0. /\ at[m] = "tx" /\ UNCHANGED <<account, calls, answer, candidate>>
      /\ \/ /\ profile = Nobody /\ profile' = m /\ RowIs("COMPLETED", row.auth, FALSE) /\ Kept(m)
            /\ Goes(m, "end") \/ Goes(m, "compensate")
         \/ profile' = profile /\ row' = row /\ Goes(m, "compensate") /\ Same
      /\ P!TypeOK'
  BY TransactDoes DEF ProvInv
<1>a. Places'
  BY <1>0 DEF Places, ProvInv, P!TypeOK, P!Rows, Goes, RowIs, Written, P!Actors, Before, Judging
<1>o. Onward  BY <1>0, ProvisioningAssumption DEF Onward, ProvInv, Places, Goes, Before, P!Actors
<1>b. Calls'  BY <1>0, <1>o, CallsStay DEF ProvInv
<1>s. \A x : Spared(x) => Spared(x)'  BY <1>0, Aside, SparedStays
<1>q. profile' = Nobody => row' = row /\ Goes(m, "compensate") /\ Same /\ profile = Nobody
  BY <1>0, ProvisioningAssumption
<1>c. strayed' = {} /\ profile' = Nobody => Stage'
  <2> SUFFICES ASSUME strayed' = {}, profile' = Nobody PROVE Stage'  OBVIOUS
  <2>1. (Holders)' \subseteq Holders  BY <1>0, <1>q DEF Goes, Holders, Holding, Same
  <2> QED  BY <1>0, <1>s, <1>q, <2>1, StageStays DEF ProvInv, Same
<1>d. strayed' = {} /\ profile' = Nobody => OneHolder'
  BY <1>0, ProvisioningAssumption DEF ProvInv, Goes, RowIs, Written, Holders, Holding, OneHolder, Kept, Same, Judging
<1>e. strayed' = {} /\ profile' = Nobody => ManagerHolds'
  <2> SUFFICES ASSUME strayed' = {}, profile' = Nobody PROVE ManagerHolds'  OBVIOUS
  <2>1. ManagerHolds  BY <1>q DEF ProvInv, Same
  <2>2. at'[m] = "compensate" /\ \A k \in Managers \ {m} : at'[k] = at[k]
    BY <1>q DEF Goes, P!Actors
  <2>3. NoCreates' = NoCreates  BY <1>0 DEF NoCreates
  <2> QED  BY <1>0, <1>q, <2>1, <2>2, <2>3 DEF ManagerHolds, Same
<1>f. strayed' = {} /\ profile' = Nobody => WorkerHolds'
  BY <1>0, ProvisioningAssumption DEF ProvInv, P!Actors, Goes, RowIs, Written, Holders, WorkerHolds, Kept, Same, Judging
<1>g. strayed' = {} => Whole'
  <2> SUFFICES ASSUME strayed' = {} PROVE Whole'  OBVIOUS
  <2>1. CASE /\ profile = Nobody /\ profile' = m /\ RowIs("COMPLETED", row.auth, FALSE) /\ Kept(m)
             /\ Goes(m, "end") \/ Goes(m, "compensate")
    <3>1. m \in P!Actors /\ m \notin overtaken /\ strayed = {} /\ overtaken' = overtaken
      BY <2>1 DEF P!Actors, Kept
    <3>2. Stage /\ OneHolder /\ ManagerHolds  BY <2>1, <3>1 DEF ProvInv
    <3>3. row.state = "AUTH_CREATED" /\ row.auth = m  BY <1>0, <3>1, <3>2 DEF ManagerHolds
    <3>4. account = m /\ NoDeletes(m) /\ Spared(m)  BY <3>2, <3>3 DEF Stage
    <3>5. m \in Holders  BY <1>0, <3>1 DEF Holders, Holding
    <3>6. \A a \in (Holders)' : at'[a] = "compensate"
      <4> TAKE a \in (Holders)'
      <4>1. a # m => a \in Holders  BY <2>1, <3>1 DEF Goes, Holders
      <4>2. a = m  BY <3>2, <3>5, <4>1 DEF OneHolder
      <4>3. at'[a] \in Holding  BY DEF Holders
      <4> QED  BY <2>1, <4>2, <4>3 DEF Goes, Holding, Judging
    <3>7. profile' # Nobody /\ profile' = account'  BY <1>0, <2>1, <3>4, ProvisioningAssumption
    <3>8. NoDeletes(profile)' /\ Spared(profile)'
      <4>1. NoDeletes(profile)'  BY <1>0, <2>1, <3>4 DEF NoDeletes
      <4>2. \A v \in Workers : at'[v] = at[v]  BY <2>1, Aside
      <4>3. Spared(profile)'  BY <1>0, <2>1, <3>4, <4>2 DEF Spared
      <4> QED  BY <4>1, <4>3
    <3> QED  BY <3>6, <3>7, <3>8 DEF Whole
  <2>2. CASE profile' = profile /\ row' = row /\ Goes(m, "compensate") /\ Same
    <3>1. \A a \in (Holders)' : a \in Holders /\ (at[a] = "compensate" => at'[a] = "compensate")
      BY <1>0, <2>2 DEF Goes, Holders, Holding, Same
    <3> QED  BY <1>0, <1>s, <2>2, <3>1, WholeStays DEF ProvInv, Same
  <2> QED  BY <1>0, <2>1, <2>2
<1> QED  BY <1>0, <1>a, <1>b, <1>c, <1>d, <1>e, <1>f, <1>g DEF ProvInv

(* The deletion is asked for only by who created the identity, and the row    *)
(* says so.                                                                   *)
LEMMA CompensateStep ==
  ASSUME ProvInv, NEW m \in Managers, P!Compensate(m)
  PROVE  ProvInv'
<1>0. /\ at[m] = "compensate" /\ Kept(m) /\ UNCHANGED <<profile, account, answer, candidate>>
      /\ Goes(m, "deleting") /\ calls' = calls \cup {<<"delete", m, m>>}
      /\ RowIs("COMPENSATION_REQUIRED", row.auth, row.lease)
      /\ P!TypeOK'
  BY CompensateDoes DEF ProvInv
<1>a. Places'
  BY <1>0 DEF Places, ProvInv, P!TypeOK, P!Rows, Goes, RowIs, Written, P!Actors, Before, Judging
<1>o. Onward  BY <1>0 DEF Onward, Goes, Before, P!Actors
<1>b. Calls'  BY <1>0, <1>o, CallsStay, CallsGrow DEF ProvInv, Goes, Before
<1>c. strayed' = {} /\ profile' = Nobody => Stage'
  BY <1>0 DEF ProvInv, RowIs, Written, NoCreates, Stage, ManagerHolds, Kept, Spared
<1>d. strayed' = {} /\ profile' = Nobody => OneHolder'
  BY <1>0 DEF ProvInv, Goes, RowIs, Written, Holders, Holding, OneHolder, Kept, Judging
<1>e. strayed' = {} /\ profile' = Nobody => ManagerHolds'
  BY <1>0 DEF ProvInv, P!Actors, Goes, RowIs, Written, ManagerHolds, Places, Kept, Judging
<1>f. strayed' = {} /\ profile' = Nobody => WorkerHolds'
  BY <1>0, ProvisioningAssumption DEF ProvInv, P!Actors, Goes, RowIs, Written, Holders, Holding, OneHolder, WorkerHolds, Kept, Judging
<1>g. strayed' = {} => Whole'  BY <1>0 DEF Whole, RowIs, Written, Kept, Spared
<1> QED  BY <1>0, <1>a, <1>b, <1>c, <1>d, <1>e, <1>f, <1>g DEF ProvInv

(* The row forgets the identity only when it is gone.                         *)
LEMMA DeletedStep ==
  ASSUME ProvInv, NEW m \in Managers, P!Deleted(m)
  PROVE  ProvInv'
<1>0. /\ at[m] = "deleting" /\ Kept(m) /\ UNCHANGED <<profile, account, calls, candidate>>
      /\ Goes(m, "end") /\ Hears(m)
      /\ \/ answer[m] = "ok" /\ RowIs("FAILED_RETRYABLE", Nobody, row.lease)
         \/ RowIs("COMPENSATION_REQUIRED", row.auth, row.lease)
      /\ P!TypeOK'
  BY DeletedDoes DEF ProvInv
<1>a. Places'
  BY <1>0, ProvisioningAssumption DEF Places, ProvInv, P!TypeOK, P!Rows, Goes, RowIs, Written, Hears, P!Actors, Before, Judging
<1>o. Onward  BY <1>0 DEF Onward, Goes, Before, P!Actors
<1>b. Calls'  BY <1>0, <1>o, CallsStay DEF ProvInv
<1>c. strayed' = {} /\ profile' = Nobody => Stage'
  BY <1>0 DEF ProvInv, P!Actors, Goes, RowIs, Written, Holders, Holding, NoCreates, Stage, OneHolder, ManagerHolds, Kept, Judging, Spared
<1>d. strayed' = {} /\ profile' = Nobody => OneHolder'
  BY <1>0 DEF ProvInv, Goes, RowIs, Written, Holders, Holding, OneHolder, Kept, Judging
<1>e. strayed' = {} /\ profile' = Nobody => ManagerHolds'
  BY <1>0 DEF ProvInv, P!Actors, Goes, ManagerHolds, Kept
<1>f. strayed' = {} /\ profile' = Nobody => WorkerHolds'
  BY <1>0 DEF ProvInv, P!Actors, Goes, RowIs, Written, Holders, Holding, OneHolder, WorkerHolds, Kept, Judging
<1>g. strayed' = {} => Whole'  BY <1>0 DEF Whole, RowIs, Written, Kept, Spared
<1> QED  BY <1>0, <1>a, <1>b, <1>c, <1>d, <1>e, <1>f, <1>g DEF ProvInv

(* What the worker read says nothing of the row any more, until it claims it. *)
LEMMA FindStep ==
  ASSUME ProvInv, NEW w \in Workers, P!Find(w)
  PROVE  ProvInv'
<1>0. /\ at[w] = "start" /\ Same /\ UNCHANGED <<row, profile, account, calls, answer>> /\ Goes(w, "claim")
      /\ row.state \in P!Recoverable /\ ~row.lease
      /\ candidate'[w] = row /\ \A v \in Workers \ {w} : candidate'[v] = candidate[v]
      /\ P!TypeOK'
  BY FindDoes DEF ProvInv
<1>a. Places'
  BY <1>0, ProvisioningAssumption DEF Places, ProvInv, P!TypeOK, P!Rows, Goes, P!Actors, Judging
<1>o. Onward  BY <1>0, ProvisioningAssumption DEF Onward, Goes, P!Actors
<1>b. Calls'  BY <1>0, <1>o, CallsStay DEF ProvInv
<1>w. w \in P!Actors  BY DEF P!Actors
<1>l. \A b \in (Holders)' : b \in Holders /\ b # w /\ at'[b] = at[b]
  BY <1>0, <1>w, Leaves DEF Holding, Judging, Same
<1>s. row.state # "COMPENSATION_REQUIRED" => \A x : Spared(x) => Spared(x)'
  BY <1>0 DEF Spared, Goes, P!Actors
<1>n. NoCreates' = NoCreates /\ \A x : NoDeletes(x)' = NoDeletes(x)  BY <1>0 DEF NoCreates, NoDeletes
<1>c. strayed' = {} /\ profile' = Nobody => Stage'
  BY <1>0, <1>s, <1>l, <1>n DEF ProvInv, Stage, Same
<1>d. strayed' = {} /\ profile' = Nobody => OneHolder'
  BY <1>0 DEF ProvInv, Goes, Holders, Holding, OneHolder, Same, Judging
<1>e. strayed' = {} /\ profile' = Nobody => ManagerHolds'
  BY <1>0 DEF ProvInv, P!Actors, Goes, NoCreates, ManagerHolds, Same
<1>f. strayed' = {} /\ profile' = Nobody => WorkerHolds'
  BY <1>0 DEF ProvInv, P!Actors, Goes, WorkerHolds, Same
<1>g. strayed' = {} => Whole'
  BY <1>0 DEF Whole, P!Recoverable
<1> QED  BY <1>0, <1>a, <1>b, <1>c, <1>d, <1>e, <1>f, <1>g DEF ProvInv

(* A claim makes the worker the one that holds the row, if it is the row that *)
(* it read.                                                                   *)
LEMMA ClaimRowStep ==
  ASSUME ProvInv, NEW w \in Workers, P!ClaimRow(w)
  PROVE  ProvInv'
<1>0. /\ at[w] = "claim" /\ UNCHANGED <<profile, account, calls, answer, candidate>>
      /\ \/ /\ row.state = candidate[w].state /\ ~row.lease
            /\ Goes(w, "judge") /\ RowIs(row.state, row.auth, TRUE)
            /\ Takes(w) /\ (strayed' = {} => strayed = {} /\ row.auth = candidate[w].auth)
         \/ row' = row /\ Goes(w, "start") /\ Same
      /\ P!TypeOK'
  BY ClaimRowDoes DEF ProvInv
<1>a. Places'
  BY <1>0 DEF Places, ProvInv, P!TypeOK, P!Rows, Goes, RowIs, Written, P!Actors, Judging
<1>o. Onward  BY <1>0, ProvisioningAssumption DEF Onward, ProvInv, Places, Goes, Before, P!Actors
<1>b. Calls'  BY <1>0, <1>o, CallsStay DEF ProvInv
<1>w. w \in P!Actors /\ w \notin Managers  BY ProvisioningAssumption DEF P!Actors
<1>s. \A x : Spared(x) => Spared(x)'
  <2>1. \A v \in Workers : at[v] = "start" => at'[v] = "start"  BY <1>0 DEF Goes, P!Actors
  <2> QED  BY <1>0, <2>1, SparedStays
<1>r. candidate[w].state \in P!Recoverable  BY <1>0 DEF ProvInv, Places
<1>n. NoCreates' = NoCreates /\ \A x : NoDeletes(x)' = NoDeletes(x)  BY <1>0 DEF NoCreates, NoDeletes
<1> DEFINE Taken == /\ row.state = candidate[w].state
                    /\ Goes(w, "judge") /\ RowIs(row.state, row.auth, TRUE)
                    /\ Takes(w) /\ (strayed' = {} => strayed = {} /\ row.auth = candidate[w].auth)
           Left == row' = row /\ Goes(w, "start") /\ Same
<1>t. Taken \/ Left  BY <1>0
<1>l. Left => \A b \in (Holders)' : b \in Holders /\ b # w /\ at'[b] = at[b]
  BY <1>w, Leaves DEF Holding, Judging, Same
<1>c. strayed' = {} /\ profile' = Nobody => Stage'
  <2>1. CASE Taken  BY <1>0, <1>s, <1>r, <1>n, <2>1 DEF ProvInv, Stage, P!Recoverable, RowIs, Written
  <2>2. CASE Left  BY <1>0, <1>s, <1>l, <2>2, StageStays DEF ProvInv, Same
  <2> QED  BY <1>t, <2>1, <2>2
<1>d. strayed' = {} /\ profile' = Nobody => OneHolder'
  BY <1>0 DEF ProvInv, Goes, RowIs, Written, Holders, Holding, OneHolder, Takes, Same, Judging
<1>e. strayed' = {} /\ profile' = Nobody => ManagerHolds'
  <2> SUFFICES ASSUME strayed' = {}, profile' = Nobody PROVE ManagerHolds'  OBVIOUS
  <2>1. ManagerHolds  BY <1>0 DEF ProvInv, Same
  <2>2. \A k \in Managers : at'[k] = at[k]  BY <1>0, <1>w DEF Goes, P!Actors
  <2>3. CASE Taken
    <3>1. \A k \in Managers : at[k] \in Holding => k \in overtaken'
      BY <1>w, <2>3 DEF Takes, P!Actors
    <3>2. \A k \in Managers : at[k] \notin {"create", "creating"}
      BY <1>r, <2>1, <2>3 DEF ManagerHolds, P!Recoverable
    <3> QED  BY <2>2, <3>1, <3>2 DEF ManagerHolds, Holding
  <2>4. CASE Left  BY <1>0, <1>n, <2>1, <2>2, <2>4 DEF ManagerHolds, Same
  <2> QED  BY <1>t, <2>3, <2>4
<1>f. strayed' = {} /\ profile' = Nobody => WorkerHolds'
  BY <1>0 DEF ProvInv, P!Actors, Goes, RowIs, Written, Holders, Holding, WorkerHolds, Places, Takes, Same, Judging
<1>g. strayed' = {} => Whole'
  <2>1. CASE Taken  BY <1>r, <2>1 DEF Whole, P!Recoverable, RowIs, Written
  <2>2. CASE Left  BY <1>0, <1>s, <1>l, <2>2, WholeStays DEF ProvInv, Same
  <2> QED  BY <1>t, <2>1, <2>2
<1> QED  BY <1>0, <1>a, <1>b, <1>c, <1>d, <1>e, <1>f, <1>g DEF ProvInv

(* The worker learns of an identity of which nobody but it now decides.       *)
LEMMA LookupStep ==
  ASSUME ProvInv, NEW w \in Workers, P!Lookup(w)
  PROVE  ProvInv'
<1>0. /\ at[w] = "judge" /\ candidate[w].auth # Nobody /\ Same
      /\ UNCHANGED <<row, profile, account, calls, answer, candidate>>
      /\ \/ Goes(w, "silent") \/ Goes(w, "changed") \/ Goes(w, "found")
         \/ account # candidate[w].auth /\ Goes(w, "absent")
      /\ P!TypeOK'
  BY LookupDoes DEF ProvInv
<1>1. at'[w] \in {"silent", "changed", "found", "absent"} /\ \A b \in P!Actors \ {w} : at'[b] = at[b]
  BY <1>0 DEF Goes
<1>2. w \in P!Actors /\ w \notin Managers  BY ProvisioningAssumption DEF P!Actors
<1>3. \A m \in Managers : at'[m] = at[m]  BY <1>1, <1>2 DEF P!Actors
<1>4. at'[w] = "absent" => account # candidate[w].auth  BY <1>0, <1>1 DEF Goes
<1>5. (Holders)' = Holders
  BY <1>0, <1>1, <1>2 DEF Holders, Holding, Judging, Same, P!Actors
<1>a. Places'
  BY <1>0, <1>1, <1>2, <1>3 DEF Places, ProvInv, P!TypeOK, P!Rows, P!Actors, Before, Judging
<1>o. Onward  BY <1>3 DEF Onward
<1>b. Calls'  BY <1>0, <1>o, CallsStay DEF ProvInv
<1>6. \A x : Spared(x) => Spared(x)'  BY <1>0, <1>1 DEF Spared, P!Actors
<1>c. strayed' = {} /\ profile' = Nobody => Stage'
  BY <1>0, <1>5, <1>6 DEF ProvInv, NoCreates, NoDeletes, Stage, Same
<1>d. strayed' = {} /\ profile' = Nobody => OneHolder'
  BY <1>0, <1>5 DEF ProvInv, OneHolder, Same
<1>e. strayed' = {} /\ profile' = Nobody => ManagerHolds'
  BY <1>0, <1>3 DEF ProvInv, NoCreates, ManagerHolds, Same
<1>f. strayed' = {} /\ profile' = Nobody => WorkerHolds'
  <2> SUFFICES ASSUME strayed' = {}, profile' = Nobody PROVE WorkerHolds'  OBVIOUS
  <2>1. Stage /\ WorkerHolds  BY <1>0 DEF ProvInv, Same
  <2>2. w \notin overtaken => row.state = candidate[w].state /\ row.auth = candidate[w].auth
    BY <1>0, <2>1 DEF WorkerHolds, Judging
  <2>3. w \notin overtaken /\ at'[w] = "absent" => row.state = "COMPENSATION_REQUIRED" /\ account \notin Managers
    <3>1. candidate[w].state \in P!Recoverable  BY <1>0 DEF ProvInv, Places
    <3> QED  BY <1>0, <1>4, <2>1, <2>2, <3>1 DEF Stage, P!Recoverable
  <2>4. \A v \in Workers \ {w} : at'[v] = at[v]  BY <1>1 DEF P!Actors
  <2> QED  BY <1>0, <1>1, <2>1, <2>2, <2>3, <2>4 DEF WorkerHolds, Judging, Same
<1>g. strayed' = {} => Whole'
  <2>1. \A a \in Holders : at[a] = "compensate" => at'[a] = "compensate"
    BY <1>0, <1>1 DEF Holders
  <2> QED  BY <1>0, <1>5, <1>6, <2>1 DEF ProvInv, Whole, NoDeletes, Same
<1> QED  BY <1>0, <1>a, <1>b, <1>c, <1>d, <1>e, <1>f, <1>g DEF ProvInv

(* A worker that was not overtaken decides by a row that is still as it was   *)
(* read.                                                                      *)
LEMMA JudgeStep ==
  ASSUME ProvInv, NEW w \in Workers, P!Judge(w)
  PROVE  ProvInv'
<1>0. /\ UNCHANGED <<profile, account, calls, answer, candidate>> /\ Goes(w, "start") /\ Kept(w)
      /\ \/ at[w] \in {"judge", "changed"} /\ RowIs("FAILED_FINAL", row.auth, FALSE)
         \/ at[w] = "silent" /\ RowIs(candidate[w].state, row.auth, FALSE)
         \/ at[w] = "absent" /\ RowIs("FAILED_RETRYABLE", Nobody, FALSE)
      /\ P!TypeOK'
  BY JudgeDoes DEF ProvInv
<1>1. w \in P!Actors /\ w \notin Managers  BY ProvisioningAssumption DEF P!Actors
<1>2. \A m \in Managers : at'[m] = at[m]  BY <1>0, <1>1 DEF Goes, P!Actors
<1>3. at[w] \in Judging  BY <1>0 DEF Judging
<1>a. Places'
  BY <1>0, <1>1 DEF Places, ProvInv, P!TypeOK, P!Rows, Goes, RowIs, Written, P!Actors, Judging, Before
<1>o. Onward  BY <1>2 DEF Onward
<1>b. Calls'  BY <1>0, <1>o, CallsStay DEF ProvInv
<1>4. strayed' = {} => strayed = {} /\ w \notin overtaken /\ overtaken' = overtaken  BY <1>0 DEF Kept
<1>5. strayed' = {} => w \in Holders  BY <1>1, <1>3, <1>4 DEF Holders, Holding
<1>6. strayed' = {} /\ profile' = Nobody => (Holders)' = {}
  BY <1>0, <1>1, <1>4, <1>5 DEF ProvInv, OneHolder, Goes, Holders, Holding, Judging, P!Actors
<1>7. \A x : Spared(x) => Spared(x)'  BY <1>0 DEF Spared, Goes, P!Actors
<1>c. strayed' = {} /\ profile' = Nobody => Stage'
  <2> SUFFICES ASSUME strayed' = {}, profile' = Nobody PROVE Stage'  OBVIOUS
  <2>1. Stage /\ WorkerHolds /\ w \notin overtaken  BY <1>0, <1>4 DEF ProvInv
  <2>2. CASE at[w] \in {"judge", "changed"} /\ RowIs("FAILED_FINAL", row.auth, FALSE)
    BY <1>0, <2>2 DEF Stage, RowIs, Written
  <2>3. CASE at[w] = "silent" /\ RowIs(candidate[w].state, row.auth, FALSE)
    <3>1. row'.state = row.state /\ row'.auth = row.auth
      BY <1>3, <2>1, <2>3 DEF WorkerHolds, RowIs, Written
    <3> QED  BY <1>0, <1>6, <1>7, <2>1, <3>1 DEF Stage, NoCreates, NoDeletes
  <2>4. CASE at[w] = "absent" /\ RowIs("FAILED_RETRYABLE", Nobody, FALSE)
    BY <1>0, <1>6, <2>1, <2>4 DEF Stage, WorkerHolds, RowIs, Written, NoCreates
  <2> QED  BY <1>0, <2>2, <2>3, <2>4
<1>d. strayed' = {} /\ profile' = Nobody => OneHolder'  BY <1>6 DEF OneHolder
<1>e. strayed' = {} /\ profile' = Nobody => ManagerHolds'
  <2> SUFFICES ASSUME strayed' = {}, profile' = Nobody PROVE ManagerHolds'  OBVIOUS
  <2>1. \A m \in Managers : m \notin (Holders)'  BY <1>6
  <2>2. \A m \in Managers : at[m] \in {"create", "creating", "tx", "compensate", "deleting"} =>
          m \in overtaken /\ m \in overtaken'
    BY <1>2, <1>4, <2>1 DEF Holders, Holding, P!Actors
  <2>3. ManagerHolds  BY <1>0, <1>4 DEF ProvInv
  <2>4. \A m \in Managers : at[m] \notin {"create", "creating"}  BY <2>2, <2>3 DEF ManagerHolds
  <2> QED  BY <1>2, <2>2, <2>4 DEF ManagerHolds
<1>f. strayed' = {} /\ profile' = Nobody => WorkerHolds'
  <2> SUFFICES ASSUME strayed' = {}, profile' = Nobody PROVE WorkerHolds'  OBVIOUS
  <2>1. \A v \in Workers : v \notin (Holders)'  BY <1>6
  <2>2. \A v \in Workers : v \in overtaken' \/ at'[v] \notin Judging \cup {"deleting"}
    BY <2>1 DEF Holders, Holding, P!Actors
  <2> QED  BY <2>2 DEF WorkerHolds, Judging
<1>g. strayed' = {} => Whole'
  <2> SUFFICES ASSUME strayed' = {} PROVE row'.state # "COMPLETED"  BY DEF Whole
  <2>2. row.state # "COMPLETED"  BY <1>3, <1>4, <1>5 DEF ProvInv, Whole, Judging
  <2>3. candidate[w].state # "COMPLETED"  BY <1>0, <1>3 DEF ProvInv, Places, P!Recoverable, Judging
  <2> QED  BY <1>0, <2>2, <2>3 DEF RowIs, Written
<1> QED  BY <1>0, <1>a, <1>b, <1>c, <1>d, <1>e, <1>f, <1>g DEF ProvInv

(* It deletes the identity that it has read, and the row still names no       *)
(* other.                                                                     *)
LEMMA DeleteAgainStep ==
  ASSUME ProvInv, NEW w \in Workers, P!DeleteAgain(w)
  PROVE  ProvInv'
<1>0. /\ at[w] = "found" /\ candidate[w].state = "COMPENSATION_REQUIRED" /\ Goes(w, "deleting")
      /\ Same /\ UNCHANGED <<row, profile, account, answer, candidate>>
      /\ calls' = calls \cup {<<"delete", w, candidate[w].auth>>}
      /\ P!TypeOK'
  BY DeleteAgainDoes DEF ProvInv
<1>1. w \in P!Actors /\ w \notin Managers  BY ProvisioningAssumption DEF P!Actors
<1>2. at'[w] = "deleting" /\ \A b \in P!Actors \ {w} : at'[b] = at[b]  BY <1>0 DEF Goes
<1>3. \A m \in Managers : at'[m] = at[m]  BY <1>1, <1>2 DEF P!Actors
<1>4. candidate[w].auth \in Managers
  BY <1>0 DEF ProvInv, Places, P!TypeOK, P!Rows
<1>5. (Holders)' = Holders
  BY <1>0, <1>1, <1>2 DEF Holders, Holding, Judging, Same, P!Actors
<1>a. Places'
  BY <1>0, <1>1, <1>2, <1>3 DEF Places, ProvInv, P!TypeOK, P!Rows, P!Actors, Before, Judging
<1>o. Onward  BY <1>3 DEF Onward
<1> DEFINE call == <<"delete", w, candidate[w].auth>>
<1>6. call[1] = "delete" /\ call[2] = w /\ call[3] = candidate[w].auth  OBVIOUS
<1>7. calls' = calls \cup {call}  BY <1>0
<1> HIDE DEF call
<1>b. Calls'
  <2>1. at'[candidate[w].auth] \notin Before
    BY <1>0, <1>4, <1>o, ProvisioningAssumption DEF ProvInv, Places, Onward
  <2> QED  BY <1>1, <1>4, <1>6, <1>7, <1>o, <2>1, CallsGrow DEF ProvInv
<1>8. \A x : Spared(x) => Spared(x)' /\ (NoDeletes(x) => NoDeletes(x)')
  <2> TAKE x
  <2>1. Spared(x) => candidate[w].auth # x  BY <1>0 DEF Spared
  <2>2. Spared(x) => Spared(x)'  BY <1>0, <1>2 DEF Spared, P!Actors
  <2>3. NoDeletes(x) /\ candidate[w].auth # x => NoDeletes(x)'  BY <1>6, <1>7 DEF NoDeletes
  <2> QED  BY <2>1, <2>2, <2>3
<1>9. NoCreates => NoCreates'  BY <1>6, <1>7 DEF NoCreates
<1>c. strayed' = {} /\ profile' = Nobody => Stage'
  BY <1>0, <1>5, <1>8, <1>9 DEF ProvInv, Stage, Same
<1>d. strayed' = {} /\ profile' = Nobody => OneHolder'
  BY <1>0, <1>5 DEF ProvInv, OneHolder, Same
<1>e. strayed' = {} /\ profile' = Nobody => ManagerHolds'
  BY <1>0, <1>3, <1>6, <1>7, <1>9 DEF ProvInv, ManagerHolds, Same
<1>f. strayed' = {} /\ profile' = Nobody => WorkerHolds'
  <2> SUFFICES ASSUME strayed' = {}, profile' = Nobody PROVE WorkerHolds'  OBVIOUS
  <2>1. WorkerHolds /\ overtaken' = overtaken  BY <1>0 DEF ProvInv, Same
  <2>2. answer[w] = "none"  BY <1>0, <1>1 DEF ProvInv, Places
  <2>3. \A v \in Workers \ {w} : at'[v] = at[v]  BY <1>2 DEF P!Actors
  <2> QED  BY <1>0, <1>2, <2>1, <2>2, <2>3 DEF WorkerHolds, Judging
<1>g. strayed' = {} => Whole'
  <2>1. \A a \in Holders : at[a] = "compensate" => at'[a] = "compensate"
    BY <1>0, <1>2 DEF Holders
  <2> QED  BY <1>0, <1>5, <1>8, <2>1 DEF ProvInv, Whole, Same
<1> QED  BY <1>0, <1>a, <1>b, <1>c, <1>d, <1>e, <1>f, <1>g DEF ProvInv

(* A second deletion, as the first.                                           *)
LEMMA DeletedAgainStep ==
  ASSUME ProvInv, NEW w \in Workers, P!DeletedAgain(w)
  PROVE  ProvInv'
<1>0. /\ at[w] = "deleting" /\ Kept(w) /\ UNCHANGED <<profile, account, calls, candidate>>
      /\ Goes(w, "start") /\ Hears(w)
      /\ \/ answer[w] = "ok" /\ RowIs("FAILED_RETRYABLE", Nobody, FALSE)
         \/ RowIs("COMPENSATION_REQUIRED", candidate[w].auth, FALSE)
      /\ P!TypeOK'
  BY DeletedAgainDoes DEF ProvInv
<1>a. Places'
  BY <1>0, ProvisioningAssumption DEF Places, ProvInv, P!TypeOK, P!Rows, Goes, RowIs, Written, Hears, P!Actors, Judging
<1>o. Onward  BY <1>0, ProvisioningAssumption DEF Onward, Goes, P!Actors
<1>b. Calls'  BY <1>0, <1>o, CallsStay DEF ProvInv
<1>c. strayed' = {} /\ profile' = Nobody => Stage'
  BY <1>0 DEF ProvInv, P!Actors, Goes, RowIs, Written, Holders, Holding, NoCreates, Stage, OneHolder, WorkerHolds, Kept, Judging, Spared
<1>d. strayed' = {} /\ profile' = Nobody => OneHolder'
  BY <1>0 DEF ProvInv, P!Actors, Goes, Holders, Holding, OneHolder, Kept, Judging
<1>e. strayed' = {} /\ profile' = Nobody => ManagerHolds'
  BY <1>0 DEF ProvInv, P!Actors, Goes, Holders, Holding, OneHolder, ManagerHolds, Kept, Judging
<1>f. strayed' = {} /\ profile' = Nobody => WorkerHolds'
  BY <1>0 DEF ProvInv, P!Actors, P!Recoverable, Goes, RowIs, Written, Holders, Holding, OneHolder, WorkerHolds, Kept, Judging
<1>g. strayed' = {} => Whole'  BY <1>0 DEF Whole, RowIs, Written, Kept, Spared
<1> QED  BY <1>0, <1>a, <1>b, <1>c, <1>d, <1>e, <1>f, <1>g DEF ProvInv

(* A recovery completes an identity that nobody deletes.                      *)
LEMMA CompleteRecoveredStep ==
  ASSUME ProvInv, NEW w \in Workers, P!CompleteRecovered(w)
  PROVE  ProvInv'
<1>0. /\ at[w] = "found" /\ candidate[w].state # "COMPENSATION_REQUIRED"
      /\ UNCHANGED <<account, calls, answer, candidate>> /\ Goes(w, "start")
      /\ \/ /\ row.auth # Nobody /\ profile = Nobody /\ profile' = row.auth
            /\ RowIs("COMPLETED", row.auth, FALSE) /\ Kept(w)
         \/ profile' = profile /\ row' = row /\ Same
      /\ P!TypeOK'
  BY CompleteRecoveredDoes DEF ProvInv
<1>1. w \in P!Actors /\ w \notin Managers  BY ProvisioningAssumption DEF P!Actors
<1>2. at'[w] = "start" /\ \A b \in P!Actors \ {w} : at'[b] = at[b]  BY <1>0 DEF Goes
<1>3. \A m \in Managers : at'[m] = at[m]  BY <1>1, <1>2 DEF P!Actors
<1>4. \A x : Spared(x) => Spared(x)'  BY <1>0, <1>2 DEF Spared, P!Actors
<1>5. overtaken' = overtaken /\ (strayed' = {} => strayed = {})  BY <1>0 DEF Kept, Same
<1>6. (Holders)' \subseteq Holders /\ \A a \in (Holders)' : a # w /\ at'[a] = at[a]
  BY <1>1, <1>2, <1>5 DEF Holders, Holding, Judging
<1>a. Places'
  BY <1>0, <1>1, <1>2, <1>3 DEF Places, ProvInv, P!TypeOK, P!Rows, RowIs, Written, P!Actors, Judging, Before
<1>o. Onward  BY <1>3 DEF Onward
<1>b. Calls'  BY <1>0, <1>o, CallsStay DEF ProvInv
<1>8. profile' = Nobody => profile = Nobody /\ row' = row  BY <1>0
<1>c. strayed' = {} /\ profile' = Nobody => Stage'
  BY <1>0, <1>4, <1>5, <1>6, <1>8 DEF ProvInv, NoCreates, NoDeletes, Stage
<1>d. strayed' = {} /\ profile' = Nobody => OneHolder'
  BY <1>5, <1>6, <1>8 DEF ProvInv, OneHolder
<1>e. strayed' = {} /\ profile' = Nobody => ManagerHolds'
  BY <1>0, <1>3, <1>5, <1>8 DEF ProvInv, NoCreates, ManagerHolds
<1>f. strayed' = {} /\ profile' = Nobody => WorkerHolds'
  <2>1. \A v \in Workers \ {w} : at'[v] = at[v]  BY <1>2 DEF P!Actors
  <2> QED  BY <1>0, <1>2, <1>5, <1>8, <2>1 DEF ProvInv, WorkerHolds, Judging
<1>g. strayed' = {} => Whole'
  <2> SUFFICES ASSUME strayed' = {} PROVE Whole'  OBVIOUS
  <2>1. CASE /\ row.auth # Nobody /\ profile = Nobody /\ profile' = row.auth
             /\ RowIs("COMPLETED", row.auth, FALSE) /\ Kept(w)
    <3>1. w \notin overtaken /\ strayed = {}  BY <2>1 DEF Kept
    <3>2. Stage /\ OneHolder /\ WorkerHolds  BY <2>1, <3>1 DEF ProvInv
    <3>3. w \in Holders  BY <1>0, <1>1, <3>1 DEF Holders, Holding, Judging
    <3>4. row.state = "AUTH_CREATED"
      <4>1. row.state = candidate[w].state  BY <1>0, <3>1, <3>2 DEF WorkerHolds, Judging
      <4>2. candidate[w].state \in P!Recoverable  BY <1>0 DEF ProvInv, Places
      <4> QED  BY <1>0, <2>1, <3>2, <4>1, <4>2 DEF Stage, P!Recoverable
    <3>5. account = row.auth /\ NoDeletes(row.auth) /\ Spared(row.auth)  BY <3>2, <3>4 DEF Stage
    <3>6. (Holders)' = {}  BY <1>6, <3>2, <3>3 DEF OneHolder
    <3>8. Spared(profile)'  BY <1>0, <1>2, <2>1, <3>5 DEF Spared, P!Actors
    <3>9. NoDeletes(profile)'  BY <1>0, <2>1, <3>5 DEF NoDeletes
    <3> QED  BY <1>0, <2>1, <3>5, <3>6, <3>8, <3>9 DEF Whole
  <2>2. CASE profile' = profile /\ row' = row /\ Same
    BY <1>0, <1>4, <1>5, <1>6, <2>2 DEF ProvInv, Whole, NoDeletes
  <2> QED  BY <1>0, <2>1, <2>2
<1> QED  BY <1>0, <1>a, <1>b, <1>c, <1>d, <1>e, <1>f, <1>g DEF ProvInv

(* Who died holds nothing, and its call may still arrive.                     *)
LEMMA CrashStep ==
  ASSUME ProvInv, NEW a \in P!Actors, P!Crash(a)
  PROVE  ProvInv'
<1>0. /\ at[a] \notin {"start", "end"} /\ Same /\ UNCHANGED <<row, profile, account, calls, candidate>>
      /\ Hears(a) /\ (IF a \in Workers THEN Goes(a, "start") ELSE Goes(a, "end"))
      /\ P!TypeOK'
  BY CrashDoes DEF ProvInv
<1>a. Places'
  BY <1>0, ProvisioningAssumption DEF Places, ProvInv, P!TypeOK, P!Rows, Goes, Hears, P!Actors, Before, Judging
<1>o. Onward  BY <1>0, ProvisioningAssumption DEF Onward, Goes, Before, P!Actors
<1>b. Calls'  BY <1>0, <1>o, CallsStay DEF ProvInv
<1>s. \A x : Spared(x) => Spared(x)'
  <2>1. \A v \in Workers : at[v] = "start" => at'[v] = "start"  BY <1>0 DEF Goes, P!Actors
  <2> QED  BY <1>0, <2>1, SparedStays
<1>l. \A b \in (Holders)' : b \in Holders /\ b # a /\ at'[b] = at[b]
  BY <1>0, Leaves DEF Holding, Judging, Same
<1>c. strayed' = {} /\ profile' = Nobody => Stage'
  BY <1>0, <1>s, <1>l, StageStays DEF ProvInv, Same
<1>d. strayed' = {} /\ profile' = Nobody => OneHolder'
  BY <1>0 DEF ProvInv, Goes, Holders, Holding, OneHolder, Same, Judging
<1>e. strayed' = {} /\ profile' = Nobody => ManagerHolds'
  BY <1>0 DEF ProvInv, P!Actors, Goes, Hears, NoCreates, ManagerHolds, Same
<1>f. strayed' = {} /\ profile' = Nobody => WorkerHolds'
  BY <1>0 DEF ProvInv, P!Actors, Goes, Hears, Holders, Holding, WorkerHolds, Same, Judging
<1>g. strayed' = {} => Whole'
  BY <1>0, <1>s, <1>l, WholeStays DEF ProvInv, Same
<1> QED  BY <1>0, <1>a, <1>b, <1>c, <1>d, <1>e, <1>f, <1>g DEF ProvInv

(* A call that arrives, however late, does what the row of its time allows    *)
(* for.                                                                       *)
LEMMA ProviderStep ==
  ASSUME ProvInv, P!Provider
  PROVE  ProvInv'
<1>0. /\ UNCHANGED <<row, profile, at, candidate>> /\ Same
      /\ \E c \in calls :
           /\ calls' = calls \ {c}
           /\ \A b \in P!Actors \ {c[2]} : answer'[b] = answer[b]
           /\ \/ /\ c[1] = "create" /\ account = Nobody /\ account' = c[2]
                 /\ at[c[2]] = "creating" => answer'[c[2]] = "ok"
                 /\ at[c[2]] # "creating" => answer' = answer
              \/ /\ c[1] = "create" /\ account # Nobody /\ account' = account
                 /\ answer' = answer \/ (at[c[2]] = "creating" /\ answer'[c[2]] = "refused")
              \/ /\ c[1] = "delete" /\ account' = (IF account = c[3] THEN Nobody ELSE account)
                 /\ \/ answer' = answer
                    \/ /\ answer'[c[2]] = "ok" /\ at[c[2]] = "deleting"
                       /\ c[2] \in Workers => candidate[c[2]].auth = c[3]
              \/ account' = account /\ answer' = answer
      /\ P!TypeOK'
  BY ProviderDoes DEF ProvInv
<1>a. Places'
  BY <1>0 DEF Places, ProvInv, Judging
<1>o. Onward  BY <1>0 DEF Onward
<1>b. Calls'  BY <1>0, <1>o, CallsStay DEF ProvInv
<1>c. strayed' = {} /\ profile' = Nobody => Stage'
  BY <1>0, ProvisioningAssumption DEF ProvInv, Holders, NoCreates, NoDeletes, Stage, Same, Judging, Spared
<1>d. strayed' = {} /\ profile' = Nobody => OneHolder'
  BY <1>0 DEF ProvInv, Holders, OneHolder, Same, Judging
<1>e. strayed' = {} /\ profile' = Nobody => ManagerHolds'
  BY <1>0, ProvisioningAssumption DEF ProvInv, P!TypeOK, P!Actors, Before, NoCreates, Stage, ManagerHolds, Calls, Same
<1>f. strayed' = {} /\ profile' = Nobody => WorkerHolds'
  BY <1>0, ProvisioningAssumption DEF ProvInv, P!Actors, Holders, NoCreates, Stage, WorkerHolds, Same, Judging
<1>g. strayed' = {} => Whole'  BY <1>0 DEF ProvInv, Whole, Holders, NoDeletes, Same, Judging, Spared
<1> QED  BY <1>0, <1>a, <1>b, <1>c, <1>d, <1>e, <1>f, <1>g DEF ProvInv

(* A lease that runs out takes nothing from its holder: only the next claim   *)
(* does.                                                                      *)
LEMMA LeaseExpiresStep ==
  ASSUME ProvInv, P!LeaseExpires
  PROVE  ProvInv'
<1>0. /\ UNCHANGED <<profile, account, calls, answer, at, candidate>> /\ row.lease
      /\ Same /\ RowIs(row.state, row.auth, FALSE)
      /\ P!TypeOK'
  BY LeaseExpiresDoes DEF ProvInv
<1>a. Places'
  BY <1>0 DEF Places, ProvInv, RowIs, Written, Judging
<1>o. Onward  BY <1>0 DEF Onward
<1>b. Calls'  BY <1>0, <1>o, CallsStay DEF ProvInv
<1>c. strayed' = {} /\ profile' = Nobody => Stage'
  BY <1>0 DEF ProvInv, RowIs, Written, Holders, NoCreates, NoDeletes, Stage, Same, Judging, Spared
<1>d. strayed' = {} /\ profile' = Nobody => OneHolder'
  BY <1>0 DEF ProvInv, Holders, OneHolder, Same
<1>e. strayed' = {} /\ profile' = Nobody => ManagerHolds'
  BY <1>0 DEF ProvInv, RowIs, Written, NoCreates, ManagerHolds, Same
<1>f. strayed' = {} /\ profile' = Nobody => WorkerHolds'
  BY <1>0 DEF ProvInv, RowIs, Written, WorkerHolds, Same
<1>g. strayed' = {} => Whole'  BY <1>0 DEF ProvInv, Whole, RowIs, Written, Holders, NoDeletes, Same, Judging, Spared
<1> QED  BY <1>0, <1>a, <1>b, <1>c, <1>d, <1>e, <1>f, <1>g DEF ProvInv

(* The row never says what is not so: init, every step, and what it implies.    *)
LEMMA ProvInit ==
  ASSUME P!Init
  PROVE  ProvInv
<1> USE ProvisioningAssumption DEF P!Init, P!NoRow, P!Actors
<1>1. P!TypeOK  BY DEF P!TypeOK, P!Rows, P!States
<1>2. Calls /\ Places /\ Whole  BY DEF Calls, Places, Whole, P!Recoverable, Judging
<1>3. Holders = {}  BY DEF Holders, Holding, Judging
<1>4. Stage  BY <1>3 DEF Stage, NoCreates
<1>5. OneHolder /\ ManagerHolds /\ WorkerHolds  BY <1>3 DEF OneHolder, ManagerHolds, WorkerHolds
<1> QED  BY <1>1, <1>2, <1>4, <1>5 DEF ProvInv

(* Where nothing changes.                                                     *)
LEMMA ProvStutter ==
  ASSUME ProvInv, UNCHANGED P!pvars
  PROVE  ProvInv'
BY DEF P!pvars, P!history, ProvInv, P!TypeOK, Calls, Places, Whole, Stage, OneHolder,
       ManagerHolds, WorkerHolds, Holders, NoCreates, NoDeletes, Spared

(* An identity that the row says is nobody's is nobody's, and a user that it     *)
(* says is complete has both: whatever crashes, leases that end while their      *)
(* holder works, answers and their delays, for any managers and workers, until   *)
(* one of them writes a row that another has claimed or that it never read.       *)
THEOREM RowIsTrueHolds == P!Spec => [](P!TypeOK /\ RowIsTrue)
<1>1. P!Init => ProvInv  BY ProvInit
<1>2. ProvInv /\ [P!Next]_(P!pvars) => ProvInv'
  <2> SUFFICES ASSUME ProvInv, P!Next  PROVE ProvInv'  BY ProvStutter
  <2>1. CASE \E m \in Managers :
               \/ P!Claim(m) \/ P!Retry(m) \/ P!CreateIdentity(m) \/ P!Created(m) \/ P!Transact(m)
               \/ P!Compensate(m) \/ P!Deleted(m)
    BY <2>1, ClaimStep, RetryStep, CreateIdentityStep, CreatedStep, TransactStep, CompensateStep, DeletedStep
  <2>2. CASE \E w \in Workers :
               \/ P!Find(w) \/ P!ClaimRow(w) \/ P!Lookup(w) \/ P!Judge(w) \/ P!DeleteAgain(w)
               \/ P!DeletedAgain(w) \/ P!CompleteRecovered(w)
    BY <2>2, FindStep, ClaimRowStep, LookupStep, JudgeStep, DeleteAgainStep, DeletedAgainStep,
       CompleteRecoveredStep
  <2>3. CASE \E a \in P!Actors : P!Crash(a)  BY <2>3, CrashStep
  <2>4. CASE P!Provider  BY <2>4, ProviderStep
  <2>5. CASE P!LeaseExpires  BY <2>5, LeaseExpiresStep
  <2> QED  BY <2>1, <2>2, <2>3, <2>4, <2>5 DEF P!Next
<1>3. ProvInv => P!TypeOK /\ RowIsTrue
  BY DEF ProvInv, Whole, Stage, RowIsTrue, P!RowIsTrue, P!RetryIsClean, P!CompletedHasBoth, NoCreates
<1> QED  BY <1>1, <1>2, <1>3, PTL DEF P!Spec

-----------------------------------------------------------------------------
(* PerformanceCache: no summary is older than what was announced when it was  *)
(* asked for. The heart is that a flight which an invalidation overtook is no *)
(* longer its key's, so that what it brings is not cached.                    *)

Below == OpToRel(<, Nat)
(* A set of numbers that is not empty has a least one.                           *)
LEMMA LeastNat ==
  ASSUME NEW N, N \subseteq Nat, N # {}
  PROVE  \E x \in N : \A y \in N : x <= y
<1>1. IsWellFoundedOn(Below, Nat)  BY NatLessThanWellFounded DEF Below
<1>2. \A x, y \in Nat : y < x => <<y, x>> \in Below
  <2> SUFFICES ASSUME NEW x \in Nat, NEW y \in Nat, y < x PROVE <<y, x>> \in Below  OBVIOUS
  <2> QED  BY DEF Below, OpToRel
<1>3. PICK x \in N : \A y \in N : ~(<<y, x>> \in Below)  BY <1>1, WFMin
<1>4. \A y \in N : ~(y < x)  BY <1>2, <1>3
<1> QED  BY <1>4

(* The function that a Map's entries are kept by exists. *)
With(g, s, places, i) == IF i \in places THEN Append(g, s[i]) ELSE g
KeptOf(f, n, s, places) ==
  f = [i \in 0..n |-> IF i = 0 THEN <<>> ELSE With(f[i - 1], s, places, i)]
(* The function that Kept chooses exists.                                     *)
LEMMA KeptExists ==
  ASSUME NEW s, NEW places, NEW n \in Nat
  PROVE  \E f : KeptOf(f, n, s, places)
<1> DEFINE Bad == {m \in Nat : ~\E f : KeptOf(f, m, s, places)}
<1> SUFFICES ASSUME Bad # {} PROVE FALSE  OBVIOUS
<1>1. PICK m \in Bad : \A k \in Bad : m <= k
  <2>1. Bad \subseteq Nat  OBVIOUS
  <2> HIDE DEF Bad
  <2> QED  BY <2>1, LeastNat
<1>2. m \in Nat /\ ~\E f : KeptOf(f, m, s, places)  BY <1>1
<1>3. CASE m = 0
  <2> DEFINE f == [i \in 0..0 |-> <<>>]
  <2>1. KeptOf(f, 0, s, places)  BY DEF KeptOf
  <2> QED  BY <1>2, <1>3, <2>1
<1>4. CASE m # 0
  <2>1. m - 1 \in Nat /\ m - 1 \notin Bad  BY <1>1, <1>2, <1>4
  <2>2. PICK f : KeptOf(f, m - 1, s, places)  BY <2>1
  <2> DEFINE g == [i \in 0..m |-> IF i = m THEN With(f[m - 1], s, places, m) ELSE f[i]]
  <2>3. \A i \in 0..m : i # m => i \in 0..(m - 1) /\ g[i] = f[i]  BY <1>2
  <2>4. \A i \in 1..m : g[i - 1] = f[i - 1]  BY <1>2
  <2>5. \A i \in 0..m : g[i] = IF i = 0 THEN <<>> ELSE With(g[i - 1], s, places, i)
    <3> SUFFICES ASSUME NEW i \in 0..m
                 PROVE  g[i] = IF i = 0 THEN <<>> ELSE With(g[i - 1], s, places, i)
      OBVIOUS
    <3>1. CASE i = m
      <4>1. g[i] = With(f[m - 1], s, places, m) /\ i \in 1..m  BY <1>2, <1>4, <3>1
      <4> QED  BY <1>4, <2>4, <3>1, <4>1
    <3>2. CASE i # m /\ i = 0
      <4>1. f[0] = <<>>  BY <2>1, <2>2 DEF KeptOf
      <4> QED  BY <2>3, <3>2, <4>1
    <3>3. CASE i # m /\ i # 0
      <4>1. f[i] = With(f[i - 1], s, places, i)  BY <2>2, <2>3, <3>3 DEF KeptOf
      <4>2. i \in 1..m  BY <1>2, <3>3
      <4> QED  BY <2>3, <2>4, <3>3, <4>1, <4>2
    <3> QED  BY <3>1, <3>2, <3>3
  <2> HIDE DEF g
  <2>6. g = [i \in 0..m |-> g[i]]  BY DEF g
  <2>7. KeptOf(g, m, s, places)  BY <2>5, <2>6, Zenon DEF KeptOf
  <2> QED  BY <1>2, <2>7
<1> QED  BY <1>3, <1>4

(* What is kept are entries of those places. *)
LEMMA KeptIsOf ==
  ASSUME NEW E, NEW s \in Seq(E), NEW places
  PROVE  /\ C!Kept(s, places) \in Seq(E)
         /\ \A j \in 1..Len(C!Kept(s, places)) :
              \E i \in 1..Len(s) : i \in places /\ C!Kept(s, places)[j] = s[i]
<1> DEFINE f == CHOOSE f : KeptOf(f, Len(s), s, places)
<1>1. Len(s) \in Nat /\ \A i \in 1..Len(s) : s[i] \in E  OBVIOUS
<1>2. KeptOf(f, Len(s), s, places)  BY <1>1, KeptExists
<1>3. C!Kept(s, places) = f[Len(s)]  BY Zenon DEF C!Kept, KeptOf, With
<1> HIDE DEF f
<1> DEFINE Good(q) == /\ q \in Seq(E)
                      /\ \A j \in 1..Len(q) : \E i \in 1..Len(s) : i \in places /\ q[j] = s[i]
           Bad == {i \in 0..Len(s) : ~Good(f[i])}
<1>4. Good(f[0])  BY <1>1, <1>2 DEF KeptOf
<1>5. ASSUME NEW i \in 1..Len(s), Good(f[i - 1])  PROVE Good(f[i])
  <2>1. f[i] = IF i \in places THEN Append(f[i - 1], s[i]) ELSE f[i - 1]
    <3>1. i \in 0..Len(s) /\ i # 0  BY <1>1
    <3>2. f[i] = With(f[i - 1], s, places, i)  BY <1>2, <3>1 DEF KeptOf
    <3> QED  BY <3>2 DEF With
  <2>2. CASE i \in places
    <3>1. f[i] = Append(f[i - 1], s[i]) /\ f[i - 1] \in Seq(E) /\ s[i] \in E  BY <1>1, <1>5, <2>1, <2>2
    <3>2. f[i] \in Seq(E) /\ Len(f[i]) = Len(f[i - 1]) + 1  BY <3>1
    <3>3. ASSUME NEW j \in 1..Len(f[i])  PROVE \E k \in 1..Len(s) : k \in places /\ f[i][j] = s[k]
      <4>1. CASE j = Len(f[i - 1]) + 1  BY <2>2, <3>1, <4>1
      <4>2. CASE j # Len(f[i - 1]) + 1
        <5>1. j \in 1..Len(f[i - 1]) /\ f[i][j] = f[i - 1][j]  BY <3>1, <3>2, <4>2
        <5> QED  BY <1>5, <5>1
      <4> QED  BY <4>1, <4>2
    <3> QED  BY <3>2, <3>3
  <2>3. CASE i \notin places  BY <1>5, <2>1, <2>3
  <2> QED  BY <2>2, <2>3
<1>6. ASSUME Bad # {}  PROVE FALSE
  <2>1. PICK m \in Bad : \A k \in Bad : m <= k
    <3>1. Bad \subseteq Nat  OBVIOUS
    <3> HIDE DEF Bad
    <3> QED  BY <1>6, <3>1, LeastNat
  <2> HIDE DEF Good
  <2>2. m \in 0..Len(s) /\ ~Good(f[m])  BY <2>1
  <2>3. m # 0  BY <1>4, <2>2
  <2>4. m \in 1..Len(s) /\ m - 1 \in 0..Len(s) /\ m - 1 \notin Bad  BY <1>1, <2>1, <2>2, <2>3
  <2> QED  BY <1>5, <2>2, <2>4
<1>7. Good(f[Len(s)])
  <2> HIDE DEF Good
  <2> QED  BY <1>1, <1>6
<1> QED  BY <1>3, <1>7

(* Who owns a flight is loading, its generation is not ahead of its key's, and  *)
(* what it has read since the key's last invalidation is no older than that.    *)
Flown ==
  /\ \A f \in flights :
       /\ reader[f.owner].step \in {"loading", "loaded"} /\ f.generation <= generation[f.key]
       /\ f.generation = generation[f.key] /\ C!At(f.owner, "loaded") => value[f.owner] >= announced
  /\ \A f, g \in flights : f.owner = g.owner => f = g

(* Who waits for a flight waits for somebody who is loading. *)
Owned ==
  \A r \in Dashboards :
    /\ reader[r].step \in {"loading", "loaded", "answered"} => reader[r].joined = r
    /\ C!At(r, "joined") => reader[reader[r].joined].step \in {"loading", "loaded"}

(* What is cached was read after the last invalidation. *)
Recent == \A i \in DOMAIN entries : entries[i].value >= announced /\ entries[i].value <= LastWrite

(* What a request has, or will have when the flight it joined lands, is no older *)
(* than what was announced when it came.                                        *)
Promised ==
  \A r \in Dashboards :
    /\ floor[r] <= announced
    /\ reader[r].step \in {"loaded", "answered"} => value[r] >= floor[r]
    /\ C!At(r, "joined") /\ C!At(reader[r].joined, "loaded") => value[reader[r].joined] >= floor[r]

(* The inductive invariant *)
CacheInv == C!TypeOK /\ Flown /\ Owned /\ Recent /\ Promised

CacheEntry == [key : C!DataKeys, value : Nat, expired : BOOLEAN]

(* What the types say. *)
LEMMA CacheTypes ==
  ASSUME C!TypeOK
  PROVE  /\ data \in Nat /\ announced \in Nat /\ announced <= data /\ data <= LastWrite
         /\ entries \in Seq(CacheEntry) /\ generation \in [C!DataKeys -> Nat]
         /\ \A i \in 1..Len(entries) : entries[i] \in CacheEntry /\ entries[i].value \in Nat
         /\ \A f \in flights : f \in C!Flights /\ f.key \in C!DataKeys /\ f.generation \in Nat /\ f.owner \in Dashboards
         /\ value \in [Dashboards -> 0..LastWrite] /\ floor \in [Dashboards -> 0..LastWrite]
         /\ \A r \in Dashboards : /\ value[r] \in Nat /\ floor[r] \in Nat /\ reader[r].joined \in Dashboards
                                  /\ value[r] <= LastWrite
         /\ LastWrite \in Nat /\ Len(entries) \in Nat /\ DOMAIN entries = 1..Len(entries)
<1>1. LastWrite \in Nat  BY CacheAssumption
<1>2. data \in 0..LastWrite /\ announced \in 0..data  BY DEF C!TypeOK
<1>3. /\ entries \in Seq(CacheEntry) /\ generation \in [C!DataKeys -> Nat]
      /\ value \in [Dashboards -> 0..LastWrite] /\ floor \in [Dashboards -> 0..LastWrite]
  BY DEF C!TypeOK, CacheEntry
<1>4. \A i \in 1..Len(entries) : entries[i] \in CacheEntry  BY <1>3
<1>5. \A e \in CacheEntry : e.value \in Nat  BY DEF CacheEntry
<1>6. \A f \in flights : f \in C!Flights /\ f.key \in C!DataKeys /\ f.generation \in Nat /\ f.owner \in Dashboards
  BY DEF C!TypeOK, C!Flights
<1>7. \A r \in Dashboards : reader[r].joined \in Dashboards  BY DEF C!TypeOK
<1>8. \A r \in Dashboards : value[r] \in Nat /\ floor[r] \in Nat /\ value[r] <= LastWrite  BY <1>1, <1>3
<1>9. Len(entries) \in Nat /\ DOMAIN entries = 1..Len(entries)  BY <1>3
<1> QED  BY <1>1, <1>2, <1>3, <1>4, <1>5, <1>6, <1>7, <1>8, <1>9

(* Nothing is cached, asked for or written.                                   *)
LEMMA CacheInit == C!Init => CacheInv
BY CacheAssumption DEF C!Init, CacheInv, C!TypeOK, C!Flights, C!Idle, C!At, Flown, Owned, Recent, Promised

(* A write promises nothing before it is announced.                           *)
LEMMA WriteStep ==
  ASSUME CacheInv, C!Write
  PROVE  CacheInv'
<1>1. C!TypeOK'
  <2>1. data' \in 0..LastWrite /\ announced' \in 0..data'  BY CacheTypes DEF CacheInv, C!Write
  <2> QED  BY <2>1 DEF CacheInv, C!TypeOK, C!Write
<1> QED  BY <1>1 DEF CacheInv, C!Write, Flown, Owned, Recent, Promised, C!At

(* Without keeps entries of other keys, in a sequence of entries. *)
LEMMA WithoutIsOf ==
  ASSUME NEW s \in Seq(CacheEntry), NEW keys
  PROVE  /\ C!Without(s, keys) \in Seq(CacheEntry)
         /\ \A j \in 1..Len(C!Without(s, keys)) :
              \E i \in 1..Len(s) : s[i].key \notin keys /\ C!Without(s, keys)[j] = s[i]
<1> DEFINE places == {i \in DOMAIN s : s[i].key \notin keys}
<1>1. C!Without(s, keys) = C!Kept(s, places)  BY DEF C!Without
<1>2. \A i \in places : s[i].key \notin keys  OBVIOUS
<1> HIDE DEF places
<1> QED  BY <1>1, <1>2, KeptIsOf

(* An invalidation reaches every entry and every flight. *)
LEMMA InvalidateStep ==
  ASSUME CacheInv, C!Invalidate
  PROVE  CacheInv'
<1>t. /\ data \in Nat /\ announced \in Nat /\ announced < data /\ announced' = data /\ data <= LastWrite
      /\ entries \in Seq(CacheEntry) /\ generation \in [C!DataKeys -> Nat]
      /\ UNCHANGED <<data, flights, value, floor, reader>>
      /\ \A f \in flights : f.key \in C!DataKeys /\ f.generation \in Nat /\ f.owner \in Dashboards
      /\ \A r \in Dashboards : floor[r] \in Nat
  BY CacheTypes DEF CacheInv, C!Invalidate
<1>1. entries' = <<>>
  <2>1. \A i \in 1..Len(entries) : entries[i].key \in C!Touched
    BY <1>t DEF C!Touched, C!ToSet
  <2>2. entries' \in Seq(CacheEntry) /\ \A j \in 1..Len(entries') : FALSE
    BY <1>t, <2>1, WithoutIsOf DEF C!Invalidate
  <2>3. Len(entries') \in Nat  BY <2>2
  <2>4. Len(entries') = 0
    <3>1. Len(entries') # 0 => 1 \in 1..Len(entries')  BY <2>3
    <3> QED  BY <2>2, <3>1
  <2> QED  BY <2>2, <2>4, EmptySeq
<1>2. \A f \in flights : f.key \in C!Touched  BY DEF C!Touched
<1>3. /\ generation' \in [C!DataKeys -> Nat]
      /\ \A k \in C!DataKeys : k \in C!Touched => generation'[k] = generation[k] + 1
  BY <1>t DEF C!Invalidate
<1>4. C!TypeOK'  BY <1>t, <1>1, <1>3 DEF CacheInv, C!TypeOK
<1>5. Flown'
  <2>1. \A f \in flights : f.generation < generation'[f.key] /\ reader[f.owner].step \in {"loading", "loaded"}
    <3> SUFFICES ASSUME NEW f \in flights PROVE f.generation < generation'[f.key]  BY DEF CacheInv, Flown
    <3>1. f.generation <= generation[f.key] /\ generation[f.key] \in Nat  BY <1>t DEF CacheInv, Flown
    <3> QED  BY <1>t, <1>2, <1>3, <3>1
  <2>2. \A f \in flights : generation'[f.key] \in Nat /\ f.generation \in Nat  BY <1>t, <1>3
  <2>3. \A f, g \in flights : f.owner = g.owner => f = g  BY DEF CacheInv, Flown
  <2> QED  BY <1>t, <2>1, <2>2, <2>3 DEF Flown
<1>6. Owned'  BY <1>t DEF CacheInv, Owned, C!At
<1>7. Recent'  BY <1>1 DEF Recent
<1>8. Promised'
  <2>1. \A r \in Dashboards : floor[r] <= announced'  BY <1>t DEF CacheInv, Promised
  <2> QED  BY <1>t, <2>1 DEF CacheInv, Promised, C!At
<1> QED  BY <1>4, <1>5, <1>6, <1>7, <1>8 DEF CacheInv

(* An entry that is too old is still no older than what was announced.        *)
LEMMA ExpireStep ==
  ASSUME CacheInv, C!Expire
  PROVE  CacheInv'
<1>1. PICK i \in DOMAIN entries : /\ entries' = [entries EXCEPT ![i].expired = TRUE]
                                  /\ UNCHANGED <<data, announced, generation, flights, value, floor, reader>>
  BY DEF C!Expire
<1>2. entries \in Seq(CacheEntry) /\ entries[i] \in CacheEntry  BY <1>1, CacheTypes DEF CacheInv
<1>3. [entries[i] EXCEPT !.expired = TRUE] \in CacheEntry /\ [entries[i] EXCEPT !.expired = TRUE].value = entries[i].value
  BY <1>2 DEF CacheEntry
<1>4. entries' = [entries EXCEPT ![i] = [entries[i] EXCEPT !.expired = TRUE]]  BY <1>1
<1> DEFINE e == [entries[i] EXCEPT !.expired = TRUE]
<1> HIDE DEF e
<1>5. entries' = [entries EXCEPT ![i] = e] /\ e \in CacheEntry /\ e.value = entries[i].value  BY <1>3, <1>4 DEF e
<1>6. /\ entries' \in Seq(CacheEntry) /\ DOMAIN entries' = DOMAIN entries
      /\ \A j \in DOMAIN entries : entries'[j].value = entries[j].value
  <2>1. entries' \in Seq(CacheEntry)
    <3>1. i \in 1..Len(entries)  BY <1>1, <1>2
    <3> QED  BY <1>2, <1>5, <3>1, ExceptSeq
  <2>2. DOMAIN entries' = DOMAIN entries  BY <1>5
  <2>3. \A j \in DOMAIN entries : entries'[j] = IF j = i THEN e ELSE entries[j]  BY <1>5
  <2> QED  BY <1>5, <2>1, <2>2, <2>3
<1>7. C!TypeOK'  BY <1>1, <1>6 DEF CacheInv, C!TypeOK, CacheEntry
<1>8. Recent'  BY <1>1, <1>6 DEF CacheInv, Recent
<1> QED  BY <1>1, <1>7, <1>8 DEF CacheInv, Flown, Owned, Promised, C!At

(* What was promised to one request. *)
PromisedTo(q) ==
  /\ floor[q] <= announced
  /\ reader[q].step \in {"loaded", "answered"} => value[q] >= floor[q]
  /\ reader[q].step = "joined" /\ reader[reader[q].joined].step = "loaded" =>
       value[reader[q].joined] >= floor[q]
(* What is promised to each.                                                  *)
LEMMA PromisedAll == Promised <=> \A q \in Dashboards : PromisedTo(q)
BY DEF Promised, PromisedTo, C!At

(* Whom nobody has joined breaks no promise to the others. *)
LEMMA OthersPromised ==
  ASSUME Promised, NEW r, announced' = announced,
         \A q \in Dashboards \ {r} : reader'[q] = reader[q] /\ value'[q] = value[q] /\ floor'[q] = floor[q],
         \A q \in Dashboards : reader[q].step = "joined" => reader[q].joined \in Dashboards \ {r}
  PROVE  \A q \in Dashboards \ {r} : PromisedTo(q)'
<1> SUFFICES ASSUME NEW q \in Dashboards \ {r}  PROVE PromisedTo(q)'  OBVIOUS
<1>1. PromisedTo(q)  BY PromisedAll
<1>2. reader'[q] = reader[q] /\ value'[q] = value[q] /\ floor'[q] = floor[q]  OBVIOUS
<1>3. reader[q].step = "joined" => /\ reader'[reader[q].joined] = reader[reader[q].joined]
                                   /\ value'[reader[q].joined] = value[reader[q].joined]
  OBVIOUS
<1> QED  BY <1>1, <1>2, <1>3 DEF PromisedTo

(* A hit is recent, and a flight that is joined has not read yet or is recent. *)
LEMMA GetStep ==
  ASSUME CacheInv, NEW r \in Dashboards, C!Get(r)
  PROVE  CacheInv'
<1> DEFINE k == DashboardKey[r]
<1>t. /\ announced \in Nat /\ announced <= data /\ data <= LastWrite /\ k \in C!DataKeys
      /\ entries \in Seq(CacheEntry) /\ generation \in [C!DataKeys -> Nat]
      /\ \A f \in flights : f.key \in C!DataKeys /\ f.generation \in Nat /\ f.owner \in Dashboards
      /\ UNCHANGED <<data, announced, generation>>
      /\ value \in [Dashboards -> 0..LastWrite] /\ floor \in [Dashboards -> 0..LastWrite]
      /\ LastWrite \in Nat /\ data \in Nat
      /\ \A q \in Dashboards : reader[q].joined \in Dashboards /\ floor[q] \in Nat /\ value[q] \in Nat
  BY CacheTypes DEF CacheInv, C!Get, C!DataKeys
<1>i. /\ reader[r].step = "idle" /\ floor' = [floor EXCEPT ![r] = announced]
      /\ \A f \in flights : f.owner # r
      /\ \A q \in Dashboards : C!At(q, "joined") => reader[q].joined # r
  BY DEF C!Get, C!At, CacheInv, Flown, Owned
<1>o. /\ \A q \in Dashboards \ {r} : floor'[q] = floor[q]
      /\ floor'[r] = announced /\ floor' \in [Dashboards -> 0..LastWrite]
  <2>1. announced \in 0..LastWrite  BY <1>t
  <2> QED  BY <1>t, <1>i, <2>1
<1>p. \A q \in Dashboards : reader[q].step = "joined" =>
        /\ reader[q].joined \in Dashboards \ {r}
        /\ reader[reader[q].joined].step \in {"loading", "loaded"}
  BY <1>t, <1>i DEF CacheInv, Owned, C!At
<1>1. CASE /\ UNCHANGED <<entries, flights>> /\ reader' = C!Step(r, "answered", r)
           /\ \E i \in DOMAIN entries : value' = [value EXCEPT ![r] = entries[i].value]
  <2>1. PICK i \in DOMAIN entries : value' = [value EXCEPT ![r] = entries[i].value]  BY <1>1
  <2>2. entries[i].value >= announced /\ entries[i].value <= LastWrite /\ entries[i].value \in Nat
    BY <1>t, <2>1, CacheTypes DEF CacheInv, Recent
  <2>3. /\ value' \in [Dashboards -> 0..LastWrite] /\ value'[r] >= announced
        /\ \A q \in Dashboards \ {r} : value'[q] = value[q]
    BY <1>t, <2>1, <2>2, CacheAssumption
  <2>4. /\ reader'[r] = [step |-> "answered", joined |-> r]
        /\ \A q \in Dashboards \ {r} : reader'[q] = reader[q]
        /\ reader' \in [Dashboards -> [step : {"idle", "loading", "loaded", "joined", "answered"},
                                       joined : Dashboards]]
    BY <1>1 DEF C!Step, CacheInv, C!TypeOK
  <2>5. C!TypeOK'  BY <1>1, <1>t, <1>o, <2>3, <2>4 DEF CacheInv, C!TypeOK
  <2>6. Flown'
    <3>1. flights' = flights /\ generation' = generation /\ announced' = announced  BY <1>1, <1>t
    <3>2. \A f \in flights : reader'[f.owner] = reader[f.owner] /\ value'[f.owner] = value[f.owner]
      BY <1>t, <1>i, <2>3, <2>4
    <3> QED  BY <3>1, <3>2 DEF CacheInv, Flown, C!At
  <2>7. Owned'  BY <1>p, <2>4 DEF CacheInv, Owned, C!At
  <2>8. Recent'  BY <1>1, <1>t DEF CacheInv, Recent
  <2>9. Promised'
    <3>1. \A q \in Dashboards \ {r} : PromisedTo(q)'
      BY <1>t, <1>p, <1>o, <2>3, <2>4, OthersPromised DEF CacheInv
    <3>2. PromisedTo(r)'  BY <1>t, <1>o, <2>3, <2>4 DEF PromisedTo
    <3> QED  BY <3>1, <3>2 DEF Promised, PromisedTo, C!At
  <2> QED  BY <2>5, <2>6, <2>7, <2>8, <2>9 DEF CacheInv
<1>m. ASSUME entries' = C!Without(entries, {k})
      PROVE  entries' \in Seq(CacheEntry) /\ Recent'
  <2> DEFINE keys == {k}
             kept == C!Without(entries, keys)
  <2>0. entries \in Seq(CacheEntry)  BY <1>t
  <2>3. kept \in Seq(CacheEntry) /\ \A j \in 1..Len(kept) : \E i \in 1..Len(entries) : kept[j] = entries[i]
    <3> HIDE DEF keys
    <3> QED  BY <2>0, WithoutIsOf
  <2> HIDE DEF kept
  <2>1. /\ entries' \in Seq(CacheEntry)
        /\ \A j \in 1..Len(entries') : \E i \in 1..Len(entries) : entries'[j] = entries[i]
    BY <1>m, <2>3 DEF kept
  <2>2. DOMAIN entries = 1..Len(entries) /\ DOMAIN entries' = 1..Len(entries')  BY <1>t, <2>1
  <2> QED  BY <1>t, <2>1, <2>2 DEF CacheInv, Recent
<1>2. CASE /\ entries' = C!Without(entries, {k}) /\ value' = value /\ flights' = flights
           /\ \E f \in flights : /\ f.key = k /\ f.generation = generation[k]
                                 /\ reader' = C!Step(r, "joined", f.owner)
  <2>1. PICK f \in flights : /\ f.key = k /\ f.generation = generation[k]
                             /\ reader' = C!Step(r, "joined", f.owner)
    BY <1>2
  <2>2. /\ reader'[r] = [step |-> "joined", joined |-> f.owner]
        /\ \A q \in Dashboards \ {r} : reader'[q] = reader[q]
        /\ reader' \in [Dashboards -> [step : {"idle", "loading", "loaded", "joined", "answered"},
                                       joined : Dashboards]]
    BY <1>t, <2>1 DEF C!Step, CacheInv, C!TypeOK
  <2>3. f.owner \in Dashboards \ {r} /\ reader[f.owner].step \in {"loading", "loaded"}
    BY <1>t, <1>i DEF CacheInv, Flown
  <2>4. reader[f.owner].step = "loaded" => value[f.owner] >= announced
    BY <2>1 DEF CacheInv, Flown, C!At
  <2>5. C!TypeOK'  BY <1>2, <1>t, <1>o, <1>m, <2>2 DEF CacheInv, C!TypeOK, CacheEntry
  <2>6. Flown'
    <3>1. flights' = flights /\ generation' = generation /\ announced' = announced /\ value' = value
      BY <1>2, <1>t
    <3>2. \A g \in flights : reader'[g.owner] = reader[g.owner]  BY <1>t, <1>i, <2>2
    <3> QED  BY <3>1, <3>2 DEF CacheInv, Flown, C!At
  <2>7. Owned'  BY <1>p, <2>2, <2>3 DEF CacheInv, Owned, C!At
  <2>9. Promised'
    <3>1. \A q \in Dashboards \ {r} : PromisedTo(q)'
      BY <1>2, <1>t, <1>p, <1>o, <2>2, OthersPromised DEF CacheInv
    <3>2. floor'[r] = announced /\ announced' = announced /\ announced <= announced  BY <1>t, <1>o
    <3>3. reader'[r].step = "joined" /\ reader'[r].joined = f.owner  BY <2>2
    <3>4. reader'[f.owner] = reader[f.owner] /\ value'[f.owner] = value[f.owner]  BY <1>2, <2>2, <2>3
    <3>5. reader'[f.owner].step = "loaded" => value'[f.owner] >= floor'[r]  BY <2>4, <3>2, <3>4
    <3>6. PromisedTo(r)'  BY <3>2, <3>3, <3>5 DEF PromisedTo
    <3> QED  BY <3>1, <3>6 DEF Promised, PromisedTo, C!At
  <2> QED  BY <1>2, <1>m, <2>5, <2>6, <2>7, <2>9 DEF CacheInv
<1>3. CASE /\ entries' = C!Without(entries, {k}) /\ value' = value
           /\ reader' = C!Step(r, "loading", r)
           /\ flights' = flights \cup {[key |-> k, generation |-> generation[k], owner |-> r]}
  <2> DEFINE new == [key |-> k, generation |-> generation[k], owner |-> r]
  <2>1. new.key = k /\ new.generation = generation[k] /\ new.owner = r /\ generation[k] \in Nat
    BY <1>t
  <2>2. /\ reader'[r] = [step |-> "loading", joined |-> r]
        /\ \A q \in Dashboards \ {r} : reader'[q] = reader[q]
        /\ reader' \in [Dashboards -> [step : {"idle", "loading", "loaded", "joined", "answered"},
                                       joined : Dashboards]]
    BY <1>3 DEF C!Step, CacheInv, C!TypeOK
  <2>3. new \in C!Flights  BY <1>t, <2>1 DEF C!Flights
  <2> HIDE DEF new
  <2>4. flights' = flights \cup {new}  BY <1>3 DEF new
  <2>5. C!TypeOK'  BY <1>3, <1>t, <1>o, <1>m, <2>2, <2>3, <2>4 DEF CacheInv, C!TypeOK, CacheEntry
  <2>6. Flown'
    <3>1. \A f \in flights' : f \in flights \/ f = new  BY <2>4
    <3>2. \A f \in flights : reader'[f.owner] = reader[f.owner]  BY <1>t, <1>i, <2>2
    <3>3. \A f \in flights' :
            /\ reader'[f.owner].step \in {"loading", "loaded"} /\ f.generation <= generation[f.key]
            /\ f.generation = generation[f.key] /\ C!At(f.owner, "loaded")' => value[f.owner] >= announced
      BY <2>1, <2>2, <3>1, <3>2 DEF CacheInv, Flown, C!At
    <3>4. \A f, h \in flights' : f.owner = h.owner => f = h
      BY <1>i, <2>1, <3>1 DEF CacheInv, Flown
    <3> QED  BY <1>3, <1>t, <3>3, <3>4 DEF Flown, C!At
  <2>7. Owned'  BY <1>p, <2>2 DEF CacheInv, Owned, C!At
  <2>9. Promised'
    <3>1. \A q \in Dashboards \ {r} : PromisedTo(q)'
      BY <1>3, <1>t, <1>p, <1>o, <2>2, OthersPromised DEF CacheInv
    <3>2. PromisedTo(r)'  BY <1>t, <1>o, <2>2 DEF PromisedTo
    <3> QED  BY <3>1, <3>2 DEF Promised, PromisedTo, C!At
  <2> QED  BY <1>3, <1>m, <2>5, <2>6, <2>7, <2>9 DEF CacheInv
<1> DEFINE hits == {e \in C!Cached(k) : Local /\ ~e.expired}
<1>4. hits # {} => \E i \in DOMAIN entries : (CHOOSE e \in hits : TRUE).value = entries[i].value
  <2> SUFFICES ASSUME hits # {}
               PROVE  \E i \in DOMAIN entries : (CHOOSE e \in hits : TRUE).value = entries[i].value
    OBVIOUS
  <2>1. (CHOOSE e \in hits : TRUE) \in hits  OBVIOUS
  <2> QED  BY <2>1 DEF C!Cached
<1> QED  BY <1>1, <1>2, <1>3, <1>4 DEF C!Get

(* What is read now is at least what was announced. *)
LEMMA LoadStep ==
  ASSUME CacheInv, NEW r \in Dashboards, C!Load(r)
  PROVE  CacheInv'
<1>t. /\ announced \in Nat /\ data \in Nat /\ announced <= data /\ data <= LastWrite /\ LastWrite \in Nat
      /\ \A q \in Dashboards : floor[q] \in Nat /\ value[q] \in Nat /\ reader[q].joined \in Dashboards
      /\ \A f \in flights : f.owner \in Dashboards
      /\ reader[r].step = "loading"
      /\ UNCHANGED <<data, announced, entries, generation, flights, floor>>
  BY CacheTypes DEF CacheInv, C!Load, C!At
<1>1. /\ value'[r] = data /\ \A q \in Dashboards \ {r} : value'[q] = value[q]
      /\ value' \in [Dashboards -> 0..LastWrite]
  BY <1>t DEF C!Load, CacheInv, C!TypeOK
<1>2. /\ reader'[r] = [step |-> "loaded", joined |-> r]
      /\ \A q \in Dashboards \ {r} : reader'[q] = reader[q]
      /\ reader' \in [Dashboards -> [step : {"idle", "loading", "loaded", "joined", "answered"},
                                     joined : Dashboards]]
  BY DEF C!Load, C!Step, CacheInv, C!TypeOK
<1>3. C!TypeOK'  BY <1>t, <1>1, <1>2 DEF CacheInv, C!TypeOK
<1>4. Flown'  BY <1>t, <1>1, <1>2 DEF CacheInv, Flown, C!At
<1>5. Owned'  BY <1>t, <1>2 DEF CacheInv, Owned, C!At
<1>6. Recent'  BY <1>t DEF CacheInv, Recent
<1>7. Promised'
  <2>1. \A q \in Dashboards : floor[q] <= data  BY <1>t DEF CacheInv, Promised
  <2> QED  BY <1>t, <1>1, <1>2, <2>1 DEF CacheInv, Promised, Owned, C!At
<1> QED  BY <1>3, <1>4, <1>5, <1>6, <1>7 DEF CacheInv

(* What fills the cache was read under the key's generation. *)
LEMMA FilledIsOf ==
  ASSUME CacheInv, NEW f \in flights, C!At(f.owner, "loaded"), C!MayFill(f)
  PROVE  /\ C!Filled(f) \in Seq(CacheEntry)
         /\ \A j \in 1..Len(C!Filled(f)) : /\ C!Filled(f)[j].value >= announced
                                           /\ C!Filled(f)[j].value <= LastWrite
<1> DEFINE live == C!Kept(entries, {i \in DOMAIN entries : ~entries[i].expired})
           from == IF Len(live) >= CacheSize THEN Len(live) - CacheSize + 2 ELSE 1
           room == SubSeq(live, from, Len(live))
           rest == C!Without(room, {f.key})
           new == [key |-> f.key, value |-> value[f.owner], expired |-> FALSE]
           Fine(e) == e.value >= announced /\ e.value <= LastWrite
<1>t. /\ entries \in Seq(CacheEntry) /\ f.key \in C!DataKeys /\ f.owner \in Dashboards
      /\ value[f.owner] \in Nat /\ value[f.owner] <= LastWrite /\ DOMAIN entries = 1..Len(entries)
  BY CacheTypes DEF CacheInv
<1>0. \A i \in 1..Len(entries) : Fine(entries[i])  BY <1>t DEF CacheInv, Recent
<1>n. new \in CacheEntry /\ Fine(new)
  <2>1. value[f.owner] >= announced  BY DEF CacheInv, Flown, C!MayFill
  <2> QED  BY <1>t, <2>1 DEF CacheEntry
<1>f. C!Filled(f) = Append(rest, new)  BY DEF C!Filled
<1> HIDE DEF Fine, new
<1>1. live \in Seq(CacheEntry) /\ \A j \in 1..Len(live) : Fine(live[j])
  <2> DEFINE places == {i \in DOMAIN entries : ~entries[i].expired}
  <2>1. live = C!Kept(entries, places) /\ entries \in Seq(CacheEntry)  BY <1>t
  <2> DEFINE kept == C!Kept(entries, places)
  <2>2. /\ kept \in Seq(CacheEntry)
        /\ \A j \in 1..Len(kept) : \E i \in 1..Len(entries) : i \in places /\ kept[j] = entries[i]
    <3> HIDE DEF places, live, from, room, rest
    <3> QED  BY <2>1, KeptIsOf
  <2>3. live = kept  OBVIOUS
  <2> HIDE DEF kept, live, from, room, rest
  <2>4. \A j \in 1..Len(kept) : Fine(kept[j])  BY <1>0, <2>2
  <2> QED  BY <2>2, <2>3, <2>4
<1> HIDE DEF live
<1>2. room \in Seq(CacheEntry) /\ \A j \in 1..Len(room) : Fine(room[j])
  <2>1. Len(live) \in Nat /\ from \in Nat /\ from >= 1  BY <1>1, CacheAssumption
  <2> HIDE DEF from
  <2>2. \A i \in from..Len(live) : i \in 1..Len(live) /\ live[i] \in CacheEntry  BY <1>1, <2>1
  <2>3. room \in Seq(CacheEntry) /\ \A j \in 1..Len(room) : room[j] = live[from + j - 1] /\ from + j - 1 \in from..Len(live)
    BY <1>1, <2>1, <2>2
  <2> QED  BY <1>1, <2>2, <2>3
<1> HIDE DEF room
<1>3. rest \in Seq(CacheEntry) /\ \A j \in 1..Len(rest) : Fine(rest[j])
  BY <1>2, WithoutIsOf
<1> HIDE DEF rest
<1>4. /\ Append(rest, new) \in Seq(CacheEntry)
      /\ \A j \in 1..Len(Append(rest, new)) : Fine(Append(rest, new)[j])
  BY <1>n, <1>3
<1> QED  BY <1>f, <1>4 DEF Fine

(* A flight lands: its answer is recent enough for everyone who joined it.      *)
LEMMA LandStep ==
  ASSUME CacheInv, NEW f \in flights, C!Land(f)
  PROVE  CacheInv'
<1> DEFINE Joins(q) == C!At(q, "joined") /\ reader[q].joined = f.owner
<1>t. /\ announced \in Nat /\ f.owner \in Dashboards /\ C!At(f.owner, "loaded")
      /\ reader[f.owner].joined = f.owner /\ LastWrite \in Nat
      /\ \A g \in flights : g.owner \in Dashboards
      /\ value \in [Dashboards -> 0..LastWrite]
      /\ UNCHANGED <<data, announced, generation, floor>> /\ flights' = flights \ {f}
  BY CacheTypes DEF CacheInv, C!Land, C!At, Owned
<1>1. /\ value' \in [Dashboards -> 0..LastWrite]
      /\ \A q \in Dashboards : /\ Joins(q) => value'[q] = value[f.owner]
                               /\ ~Joins(q) => value'[q] = value[q]
  BY <1>t DEF C!Land
<1>2. /\ \A q \in Dashboards :
           /\ q = f.owner \/ Joins(q) => reader'[q] = [step |-> "answered", joined |-> q]
           /\ q # f.owner /\ ~Joins(q) => reader'[q] = reader[q]
      /\ reader' \in [Dashboards -> [step : {"idle", "loading", "loaded", "joined", "answered"},
                                     joined : Dashboards]]
  BY <1>t DEF C!Land, C!Answer, CacheInv, C!TypeOK
<1>3. entries' \in Seq(CacheEntry) /\ Recent'
  <2>1. CASE C!MayFill(f)
    <3>1. entries' = C!Filled(f)  BY <2>1 DEF C!Land
    <3>2. /\ entries' \in Seq(CacheEntry)
          /\ \A j \in 1..Len(entries') : entries'[j].value >= announced /\ entries'[j].value <= LastWrite
      BY <1>t, <2>1, <3>1, FilledIsOf
    <3>3. DOMAIN entries' = 1..Len(entries')  BY <3>2
    <3> QED  BY <1>t, <3>2, <3>3 DEF Recent
  <2>2. CASE ~C!MayFill(f)
    <3>1. entries' = entries  BY <2>2 DEF C!Land
    <3> QED  BY <1>t, <3>1, CacheTypes DEF CacheInv, Recent
  <2> QED  BY <2>1, <2>2
<1>4. C!TypeOK'  BY <1>t, <1>1, <1>2, <1>3 DEF CacheInv, C!TypeOK, CacheEntry
<1>5. Flown'
  <2>1. \A g \in flights \ {f} : /\ g.owner # f.owner /\ ~Joins(g.owner) /\ g.owner \in Dashboards
    BY <1>t DEF CacheInv, Flown, C!At
  <2>2. \A g \in flights \ {f} : reader'[g.owner] = reader[g.owner] /\ value'[g.owner] = value[g.owner]
    BY <1>1, <1>2, <2>1
  <2> QED  BY <1>t, <2>2 DEF CacheInv, Flown, C!At
<1>6. Owned'
  <2>1. \A q \in Dashboards : C!At(q, "joined") /\ ~Joins(q) =>
          /\ reader[q].joined \in Dashboards /\ reader[q].joined # f.owner /\ ~Joins(reader[q].joined)
    BY CacheTypes DEF CacheInv, Owned, C!At
  <2> QED  BY <1>t, <1>2, <2>1 DEF CacheInv, Owned, C!At
<1>7. Promised'
  <2>1. \A q \in Dashboards : Joins(q) => value[f.owner] >= floor[q]
    BY <1>t DEF CacheInv, Promised
  <2>2. value[f.owner] >= floor[f.owner]  BY <1>t DEF CacheInv, Promised, C!At
  <2>3. \A q \in Dashboards : C!At(q, "joined") /\ ~Joins(q) =>
          /\ reader[q].joined \in Dashboards /\ reader[q].joined # f.owner /\ ~Joins(reader[q].joined)
    BY CacheTypes DEF CacheInv, Owned, C!At
  <2> HIDE DEF Joins
  <2>4. ~Joins(f.owner)  BY <1>t DEF Joins, C!At
  <2> QED  BY <1>t, <1>1, <1>2, <2>1, <2>2, <2>3, <2>4 DEF CacheInv, Promised, C!At
<1> QED  BY <1>3, <1>4, <1>5, <1>6, <1>7 DEF CacheInv

(* A failed load takes its flight with it.                                    *)
LEMMA LoadFailsStep ==
  ASSUME CacheInv, NEW f \in flights, C!LoadFails(f)
  PROVE  CacheInv'
<1> DEFINE Joins(q) == C!At(q, "joined") /\ reader[q].joined = f.owner
<1>t. /\ f.owner \in Dashboards /\ C!At(f.owner, "loading")
      /\ \A g \in flights : g.owner \in Dashboards
      /\ UNCHANGED <<data, announced, entries, generation, value, floor>> /\ flights' = flights \ {f}
  BY CacheTypes DEF CacheInv, C!LoadFails, C!At
<1>1. C!Idle.step = "idle" /\ C!Idle.joined \in Dashboards  BY <1>t DEF C!Idle
<1>2. /\ \A q \in Dashboards : reader'[q] = IF q = f.owner \/ Joins(q) THEN C!Idle ELSE reader[q]
      /\ reader' \in [Dashboards -> [step : {"idle", "loading", "loaded", "joined", "answered"},
                                     joined : Dashboards]]
  BY <1>t, <1>1 DEF C!LoadFails, C!Idle, CacheInv, C!TypeOK
<1>3. C!TypeOK'  BY <1>t, <1>2 DEF CacheInv, C!TypeOK
<1>4. Flown'
  <2>1. \A g \in flights \ {f} : g.owner # f.owner /\ ~Joins(g.owner) /\ g.owner \in Dashboards
    BY <1>t DEF CacheInv, Flown, C!At
  <2>2. \A g \in flights \ {f} : reader'[g.owner] = reader[g.owner]  BY <1>2, <2>1
  <2> QED  BY <1>t, <2>2 DEF CacheInv, Flown, C!At
<1>5. \A q \in Dashboards : C!At(q, "joined") /\ ~Joins(q) =>
        /\ reader[q].joined \in Dashboards /\ reader[q].joined # f.owner /\ ~Joins(reader[q].joined)
  BY CacheTypes DEF CacheInv, Owned, C!At
<1>6. Owned'  BY <1>t, <1>1, <1>2, <1>5 DEF CacheInv, Owned, C!At
<1>7. Recent'  BY <1>t DEF CacheInv, Recent
<1>8. Promised'  BY <1>t, <1>1, <1>2, <1>5 DEF CacheInv, Promised, C!At
<1> QED  BY <1>3, <1>4, <1>6, <1>7, <1>8 DEF CacheInv

(* A request that was answered comes again, promised nothing yet.             *)
LEMMA AskAgainStep ==
  ASSUME CacheInv, NEW r \in Dashboards, C!AskAgain(r)
  PROVE  CacheInv'
<1>t. /\ announced \in Nat /\ reader[r].step = "answered" /\ LastWrite \in Nat
      /\ \A f \in flights : f.owner \in Dashboards
      /\ UNCHANGED <<data, announced, entries, generation, flights>>
  BY CacheTypes DEF CacheInv, C!AskAgain, C!At
<1>1. C!Idle.step = "idle" /\ C!Idle.joined \in Dashboards  BY DEF C!Idle
<1>2. /\ reader'[r] = C!Idle /\ \A q \in Dashboards \ {r} : reader'[q] = reader[q]
      /\ reader' \in [Dashboards -> [step : {"idle", "loading", "loaded", "joined", "answered"},
                                     joined : Dashboards]]
  BY <1>1 DEF C!AskAgain, C!Idle, CacheInv, C!TypeOK
<1>3. /\ value'[r] = 0 /\ floor'[r] = 0
      /\ \A q \in Dashboards \ {r} : value'[q] = value[q] /\ floor'[q] = floor[q]
      /\ value' \in [Dashboards -> 0..LastWrite] /\ floor' \in [Dashboards -> 0..LastWrite]
  BY <1>t DEF C!AskAgain, CacheInv, C!TypeOK
<1>4. C!TypeOK'  BY <1>t, <1>2, <1>3 DEF CacheInv, C!TypeOK
<1>5. Flown'  BY <1>t, <1>2, <1>3 DEF CacheInv, Flown, C!At
<1>6. \A q \in Dashboards : C!At(q, "joined") => reader[q].joined \in Dashboards \ {r}
  BY <1>t, CacheTypes DEF CacheInv, Owned, C!At
<1>7. Owned'  BY <1>t, <1>1, <1>2, <1>6 DEF CacheInv, Owned, C!At
<1>8. Recent'  BY <1>t DEF CacheInv, Recent
<1>9. Promised'  BY <1>t, <1>1, <1>2, <1>3, <1>6 DEF CacheInv, Promised, C!At
<1> QED  BY <1>4, <1>5, <1>7, <1>8, <1>9 DEF CacheInv

(* Where nothing changes.                                                     *)
LEMMA CacheStutter ==
  ASSUME CacheInv, UNCHANGED C!cacheVars
  PROVE  CacheInv'
BY DEF C!cacheVars, CacheInv, C!TypeOK, Flown, Owned, Recent, Promised, C!At

(* NeverStale: a dashboard asked for after the invalidation of a write shows     *)
(* that write, for any number of requests and keys, any size of the cache, with *)
(* and without it (getOrSet, invalidateTenantBranch).                           *)
THEOREM NeverStaleHolds == C!Spec => [](C!TypeOK /\ NeverStale)
<1>1. C!Init => CacheInv  BY CacheInit
<1>2. CacheInv /\ [C!Next]_(C!cacheVars) => CacheInv'
  <2> SUFFICES ASSUME CacheInv, C!Next  PROVE CacheInv'  BY CacheStutter
  <2>1. CASE C!Write \/ C!Invalidate \/ C!Expire  BY <2>1, WriteStep, InvalidateStep, ExpireStep
  <2>2. CASE \E r \in Dashboards : C!Get(r) \/ C!Load(r) \/ C!AskAgain(r)
    BY <2>2, GetStep, LoadStep, AskAgainStep
  <2>3. CASE \E f \in flights : C!Land(f) \/ C!LoadFails(f)  BY <2>3, LandStep, LoadFailsStep
  <2> QED  BY <2>1, <2>2, <2>3 DEF C!Next
<1>3. CacheInv => C!TypeOK /\ NeverStale  BY DEF CacheInv, Promised, NeverStale, C!NeverStale, C!At
<1> QED  BY <1>1, <1>2, <1>3, PTL DEF C!Spec

-----------------------------------------------------------------------------
(* The run: what MCServices explores are behaviours of each component.        *)

(* MCSpec moves one component at a time, by steps of its own specification: what  *)
(* the theorems say of the components holds in every behaviour that TLC explores. *)
THEOREM RunIsOfServices ==
  MCSpec => /\ Spec /\ R!Spec /\ P!Spec /\ S!Spec /\ F!Spec /\ C!Spec /\ PC!Spec /\ W!Spec
            /\ O!Spec /\ M!Spec /\ Q!Spec /\ T!Spec /\ A!Spec /\ B!Spec
<1> DEFINE all == <<moves, cvars, registrationVars, provisioningVars, sessionVars,
                    fiscalVars, cacheVars, connectionVars, webhookVars, opsVars,
                    refundVars, printVars, tillVars, certificateVars, amountVars>>
<1>1. MCInit => /\ Init /\ R!Init /\ P!Init /\ S!Init /\ F!Init /\ C!Init /\ PC!Init /\ W!Init
                /\ O!Init /\ M!Init /\ Q!Init /\ T!Init /\ A!Init /\ B!Init
  BY DEF MCInit
<1>2. [MCNext]_all => [Next]_cvars
  BY DEF MCNext, Moves, CampaignNext, TakeoverNext, TwoKeysNext, OneTenantNext, Next, cvars
<1>3. [MCNext]_all => [R!Next]_R!rvars  BY DEF MCNext, Moves, registrationVars, R!rvars
<1>4. [MCNext]_all => [P!Next]_P!pvars  BY DEF MCNext, Moves, provisioningVars, P!pvars, P!history
<1>5. [MCNext]_all => [S!Next]_S!svars
  BY DEF MCNext, Moves, PasswordsNext, OneRecoveryNext, sessionVars, S!svars
<1>6. [MCNext]_all => [F!Next]_F!fiscalVars  BY DEF MCNext, Moves, fiscalVars, F!fiscalVars
<1>7. [MCNext]_all => [C!Next]_C!cacheVars  BY DEF MCNext, Moves, cacheVars, C!cacheVars
<1>8. [MCNext]_all => [PC!Next]_PC!connectionVars  BY DEF MCNext, Moves, connectionVars, PC!connectionVars
<1>9. [MCNext]_all => [W!Next]_W!webhookVars  BY DEF MCNext, Moves, webhookVars, W!webhookVars
<1>10. [MCNext]_all => [O!Next]_O!opsVars  BY DEF MCNext, Moves, opsVars, O!opsVars, O!requestVars
<1>11. [MCNext]_all => [M!Next]_M!refundVars  BY DEF MCNext, Moves, refundVars, M!refundVars
<1>12. [MCNext]_all => [Q!Next]_Q!printVars  BY DEF MCNext, Moves, printVars, Q!printVars
<1>13. [MCNext]_all => [T!Next]_T!tillVars
  BY DEF MCNext, Moves, SellingNext, PrintingNext, tillVars, T!tillVars
<1>14. [MCNext]_all => [A!Next]_A!certificateVars
  BY DEF MCNext, Moves, ExchangeNext, CleanupNext, StatusNext, TestsNext, certificateVars, A!certificateVars
<1>15. [MCNext]_all => [B!Next]_B!amountVars  BY DEF MCNext, Moves, amountVars, B!amountVars
<1> QED
  BY <1>1, <1>2, <1>3, <1>4, <1>5, <1>6, <1>7, <1>8, <1>9, <1>10, <1>11, <1>12, <1>13, <1>14, <1>15, PTL
     DEF MCSpec, Spec, R!Spec, P!Spec, S!Spec, F!Spec, C!Spec, PC!Spec, W!Spec, O!Spec, M!Spec,
         Q!Spec, T!Spec, A!Spec, B!Spec

=============================================================================

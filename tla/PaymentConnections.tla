--------------------------- MODULE PaymentConnections ---------------------------
(* PaymentsService.validateConnection and revokeConnection (src/payments) for    *)
(* one payment_connections row.  The credentials are encrypted with the row's    *)
(* version as associated data (payment-credentials-crypto.service.ts), so that   *)
(* who changes the version must encrypt them again.                              *)
(* AdminOperationService replays a revocation by its key: it changes nothing.    *)
EXTENDS Naturals

CONSTANTS Validations, Revocations   \* requests

VARIABLES connection,   \* the payment_connections row
          validating,   \* [Validations -> where the request stands]
          revoking,     \* [Revocations -> where the request stands]
          withProvider  \* the provider still honours the credentials

connectionVars == <<connection, validating, revoking, withProvider>>

(* sealed: the version the stored ciphertext was encrypted for, 0 for none.      *)
TypeOK ==
  /\ connection \in [status : {"ACTIVE", "ERROR", "REVOKED"}, version : Nat \ {0}, sealed : Nat]
  /\ validating \in [Validations -> [at : {"start", "asked", "end"}, version : Nat]]
  /\ revoking \in [Revocations -> {"start", "asked", "end"}]
  /\ withProvider \in BOOLEAN

(* createConnection, once the provider has accepted the credentials.             *)
Init ==
  /\ connection = [status |-> "ACTIVE", version |-> 1, sealed |-> 1]
  /\ validating = [v \in Validations |-> [at |-> "start", version |-> 0]]
  /\ revoking = [r \in Revocations |-> "start"]
  /\ withProvider = TRUE

----------------------------------------------------------------------------

(* The row is read and decrypted; a revoked one is refused.                      *)
Readable == connection.sealed = connection.version
ValidateRead(v) ==
  /\ validating[v].at = "start"
  /\ validating' = [validating EXCEPT ![v] =
                      [at |-> IF connection.status # "REVOKED" /\ Readable THEN "asked" ELSE "end",
                       version |-> connection.version]]
  /\ UNCHANGED <<connection, revoking, withProvider>>

(* The provider's verdict, or its failure, is applied to the version it is about.*)
(* Fault: the verdict is applied whatever the version is by then                 *)
CurrentUnchecked(v) == TRUE
Current(v) == connection.version = validating[v].version
ValidateApply(v) ==
  /\ validating[v].at = "asked" /\ validating' = [validating EXCEPT ![v].at = "end"]
  /\ \E verdict \in (IF withProvider THEN {"ACTIVE"} ELSE {}) \cup {"ERROR"} :
       connection' = IF Current(v) /\ connection.status # "REVOKED"
                     THEN [status |-> verdict, version |-> connection.version + 1,
                           sealed |-> validating[v].version + 1]
                     ELSE connection
  /\ UNCHANGED <<revoking, withProvider>>

(* The credentials are revoked at the provider, if it has a way and answers; a   *)
(* failure of it is ignored.                                                     *)
RevokeRead(r) ==
  /\ revoking[r] = "start"
  /\ revoking' = [revoking EXCEPT ![r] = IF connection.sealed = 0 \/ Readable THEN "asked" ELSE "end"]
  /\ withProvider' \in {withProvider} \cup (IF connection.sealed # 0 /\ Readable THEN {FALSE} ELSE {})
  /\ UNCHANGED <<connection, validating>>

(* Then the row forgets them, whatever its version, unless it already has.       *)
Forgotten == [status |-> "REVOKED", version |-> connection.version + 1, sealed |-> 0]
RevokeApply(r) ==
  /\ revoking[r] = "asked" /\ revoking' = [revoking EXCEPT ![r] = "end"]
  /\ connection' = IF connection.status # "REVOKED" THEN Forgotten ELSE connection
  /\ UNCHANGED <<validating, withProvider>>

(* The process ends between the provider and the database.                       *)
Crash ==
  /\ \/ /\ \E v \in Validations : validating[v].at = "asked" /\ validating' = [validating EXCEPT ![v].at = "end"]
        /\ revoking' = revoking
     \/ /\ \E r \in Revocations : revoking[r] = "asked" /\ revoking' = [revoking EXCEPT ![r] = "end"]
        /\ validating' = validating
  /\ UNCHANGED <<connection, withProvider>>

Next ==
  \/ \E v \in Validations : ValidateRead(v) \/ ValidateApply(v)
  \/ \E r \in Revocations : RevokeRead(r) \/ RevokeApply(r)
  \/ Crash

Spec == Init /\ [][Next]_connectionVars

----------------------------------------------------------------------------

(* Whichever validations and revocations overlap, a connection that is not       *)
(* revoked can be decrypted at its version (payments and the revocation itself   *)
(* need the credentials), and a revoked one keeps none.                          *)
CredentialsReadable ==
  IF connection.status = "REVOKED" THEN connection.sealed = 0
  ELSE connection.sealed = connection.version
=============================================================================

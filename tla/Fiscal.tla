-------------------------------- MODULE Fiscal --------------------------------
(* FiscalService.sendDocument and queryDocumentStatus for one NF-e: an attempt  *)
(* claims the document with a token and a lease, is given a number, and only    *)
(* then calls the provider; its outcome is recorded, or remains unknown.  A     *)
(* cancellation never gets as far as the provider (cancelDocument hands         *)
(* SefazFiscalProvider no access key) and is left out.                          *)
EXTENDS Naturals, FiniteSets

CONSTANTS Attempts,    \* requests of sendDocument
          Nobody

VARIABLES document,    \* the sale_documents row
          nextNumber,  \* the fiscal_sequences row
          send,        \* [Attempts -> where sendDocument stands]
          asked        \* a status query waits for the provider

fiscalVars == <<document, nextNumber, send, asked>>

Statuses == {"draft", "processing", "authorized", "rejected"}
AttemptStates == {"none", "claimed", "dispatching", "unknown", "completed", "failed_pre_network"}

TypeOK ==
  /\ document \in [status : Statuses, attempt : Attempts \cup {Nobody}, state : AttemptStates,
                   lease : BOOLEAN, number : Nat, key : BOOLEAN, real : BOOLEAN]
  /\ nextNumber \in Nat \ {0} /\ asked \in BOOLEAN
  /\ send \in [Attempts -> {"start", "claimed", "allocate", "reuse", "sent", "unknown",
                            "lost", "end"}]

(* real: the branch has the SEFAZ provider, not the mock.                        *)
Init ==
  /\ \E real \in BOOLEAN :
       document = [status |-> "draft", attempt |-> Nobody, state |-> "none", lease |-> FALSE,
                   number |-> 0, key |-> FALSE, real |-> real]
  /\ nextNumber = 1 /\ asked = FALSE /\ send = [a \in Attempts |-> "start"]

Go(a, from, there) == send[a] = from /\ send' = [send EXCEPT ![a] = there]
Owns(a, state) == document.attempt = a /\ document.state = state

----------------------------------------------------------------------------

(* The claim: a draft, a refusal, a failure before the network, or a claim whose *)
(* five minutes are over and that has not been dispatched.                       *)
(* Fault: a claim whose lease is over is taken whether or not it was dispatched  *)
ClaimableDispatched ==
  \/ document.status = "draft"
  \/ document.status = "rejected" /\ document.state \in {"none", "completed", "failed_pre_network"}
  \/ document.status = "processing" /\ ~document.lease
Claimable ==
  \/ document.status = "draft"
  \/ document.status = "rejected" /\ document.state \in {"none", "completed", "failed_pre_network"}
  \/ document.status = "processing" /\ document.state = "claimed" /\ ~document.lease
Claim(a) ==
  /\ \/ /\ Claimable /\ Go(a, "start", "claimed")
        /\ document' = [document EXCEPT !.attempt = a, !.state = "claimed", !.lease = TRUE,
                                        !.status = "processing"]
     \/ ~Claimable /\ Go(a, "start", "end") /\ document' = document
  /\ UNCHANGED <<nextNumber, asked>>

LeaseExpires ==
  /\ document.state = "claimed" /\ document.lease
  /\ document' = [document EXCEPT !.lease = FALSE]
  /\ UNCHANGED <<nextNumber, send, asked>>

(* The numbering transaction reads the document as its own ...                   *)
ReadOwn(a) ==
  /\ IF Owns(a, "claimed")
     THEN Go(a, "claimed", IF document.number = 0 THEN "allocate" ELSE "reuse")
     ELSE Go(a, "claimed", "end")
  /\ UNCHANGED <<document, nextNumber, asked>>
(* ... and dispatches it if it still is; the number it took from the sequence is *)
(* spent even if it is not.                                                      *)
StillOwned(a) == document.attempt = a
Dispatch(a) ==
  \E how \in {"allocate", "reuse"} :
    /\ Go(a, how, IF StillOwned(a) THEN "sent" ELSE "end")
    /\ nextNumber' = IF how = "allocate" THEN nextNumber + 1 ELSE nextNumber
    /\ document' = IF StillOwned(a)
                   THEN [document EXCEPT !.state = "dispatching", !.lease = FALSE,
                           !.number = IF how = "allocate" THEN nextNumber ELSE @]
                   ELSE document
    /\ asked' = asked

(* The answer is applied where the attempt still is the one dispatching.  Only a *)
(* proof that nothing was sent, or a refusal, opens the document again.          *)
Apply(a, status, state) ==
  document' = IF Owns(a, "dispatching")
              THEN [document EXCEPT !.status = status, !.state = state,
                      !.key = IF state = "failed_pre_network" THEN @ ELSE status = "authorized"]
              ELSE document
Answer(a) ==
  /\ \/ /\ document.real
        /\ \/ Apply(a, "authorized", "completed") /\ Go(a, "sent", "end")
           \/ Apply(a, "rejected", "completed") /\ Go(a, "sent", "end")
           \/ Apply(a, "rejected", "failed_pre_network") /\ Go(a, "sent", "end")
     \/ Apply(a, "processing", "unknown") /\ Go(a, "sent", "unknown")
  /\ UNCHANGED <<nextNumber, asked>>
(* The process ends, or the upload of the authorised XML fails.                  *)
Fail(a) ==
  /\ \/ \E here \in {"claimed", "allocate", "reuse"} : Go(a, here, "end")
     \/ Go(a, "sent", "lost")
  /\ UNCHANGED <<document, nextNumber, asked>>

(* A status query overwrites the status with whatever the provider answers; the  *)
(* SEFAZ is asked by access key, which only an authorised document has.          *)
AskStatus ==
  /\ ~asked /\ document.number # 0 /\ (document.real => document.key) /\ asked' = TRUE
  /\ UNCHANGED <<document, nextNumber, send>>
StatusAnswered ==
  /\ asked /\ asked' = FALSE
  /\ \E status \in {"processing"} \cup (IF document.real THEN {"authorized", "rejected"} ELSE {}) :
       document' = [document EXCEPT !.status = status]
  /\ UNCHANGED <<nextNumber, send>>

Next ==
  \/ \E a \in Attempts : Claim(a) \/ ReadOwn(a) \/ Dispatch(a) \/ Answer(a) \/ Fail(a)
  \/ LeaseExpires \/ AskStatus \/ StatusAnswered

Spec == Init /\ [][Next]_fiscalVars

----------------------------------------------------------------------------

(* One attempt at most is of unknown outcome: while the SEFAZ may hold a request *)
(* whose answer was not recorded, no other is sent, whichever leases run out,    *)
(* processes end or status queries rewrite the document (the claim of            *)
(* sendDocument; 'reconcilie antes de nova tentativa').                          *)
InDoubt == {a \in Attempts : send[a] \in {"sent", "unknown", "lost"}}
OneInDoubt == Cardinality(InDoubt) <= 1
=============================================================================

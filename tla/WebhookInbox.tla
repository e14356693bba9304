----------------------------- MODULE WebhookInbox -----------------------------
(* WebhookService.handleMercadoPago for one event: the gateway delivers it until *)
(* it is answered, and more than once.  A delivery stores the event, claims it   *)
(* with a token and a lease of a minute, asks the gateway outside any            *)
(* transaction, and settles the payment and the event in one.  An unsigned or    *)
(* simulated delivery, and one with another payload, touch nothing: left out.    *)
EXTENDS Naturals, FiniteSets

CONSTANTS Deliveries,  \* the requests that deliver the event
          NoOne

VARIABLES event,       \* the gateway_webhook_events row
          delivery,    \* [Deliveries -> where the request stands]
          settled      \* deliveries whose transaction settled the payment

webhookVars == <<event, delivery, settled>>

Open == {"RECEIVED", "FAILED_RETRYABLE"}
Finished == {"PROCESSED", "IGNORED", "FAILED_FINAL"}
Kinds == {"payment", "subscription", "other", "empty"}   \* empty: without a resource

TypeOK ==
  /\ event \in [kind : Kinds, state : {"none", "PROCESSING"} \cup Open \cup Finished,
                token : Deliveries \cup {NoOne}, lease : BOOLEAN]
  /\ delivery \in [Deliveries -> {"sent", "stored", "claimed", "fetched", "owned",
                                  "answered", "failed", "lost"}]
  /\ settled \subseteq Deliveries

Init ==
  /\ \E kind \in Kinds : event = [kind |-> kind, state |-> "none", token |-> NoOne, lease |-> FALSE]
  /\ delivery = [d \in Deliveries |-> "sent"] /\ settled = {}

Moves(d, from, there) == delivery[d] = from /\ delivery' = [delivery EXCEPT ![d] = there]
Holds(d) == event.state = "PROCESSING" /\ event.token = d
(* finish: the row is closed where the delivery still holds it.                  *)
Finish(d, state) ==
  event' = IF Holds(d) THEN [event EXCEPT !.state = state, !.lease = FALSE] ELSE event

Persist(d) ==
  /\ Moves(d, "sent", "stored") /\ settled' = settled
  /\ event' = IF event.state = "none" THEN [event EXCEPT !.state = "RECEIVED"] ELSE event

(* Whoever cannot claim the event answers that it is a duplicate.                *)
Claimable == event.state \in Open \/ (event.state = "PROCESSING" /\ ~event.lease)
Claim(d) ==
  /\ settled' = settled
  /\ \/ /\ Claimable /\ Moves(d, "stored", "claimed")
        /\ event' = [event EXCEPT !.state = "PROCESSING", !.token = d, !.lease = TRUE]
     \/ ~Claimable /\ Moves(d, "stored", "answered") /\ event' = event
LeaseExpires ==
  /\ event.lease /\ event' = [event EXCEPT !.lease = FALSE]
  /\ UNCHANGED <<delivery, settled>>

(* What is not a payment is finished without a transaction; a subscription is    *)
(* confirmed from the gateway's terms (SubscriptionOps), or the gateway fails.   *)
Dispatch(d) ==
  /\ settled' = settled
  /\ \/ event.kind = "empty" /\ Moves(d, "claimed", "answered") /\ Finish(d, "FAILED_FINAL")
     \/ event.kind = "other" /\ Moves(d, "claimed", "answered") /\ Finish(d, "IGNORED")
     \/ /\ event.kind = "subscription" /\ Moves(d, "claimed", "answered")
        /\ \E state \in {"PROCESSED", "IGNORED"} : Finish(d, state)
     \/ event.kind = "payment" /\ Moves(d, "claimed", "fetched") /\ event' = event
     \/ /\ event.kind \in {"payment", "subscription"} /\ Moves(d, "claimed", "failed")
        /\ Finish(d, "FAILED_RETRYABLE")

(* The transaction reads the claim, processes the payment (BillingPayments), ... *)
ReadClaim(d) ==
  /\ Moves(d, "fetched", IF Holds(d) THEN "owned" ELSE "answered")
  /\ UNCHANGED <<event, settled>>
(* ... and commits both where the claim still holds; or is rolled back.           *)
(* Fault: the transaction does not count the rows its last update changed        *)
StillHeldUncounted(d) == TRUE
StillHeld(d) == Holds(d)
Settle(d) ==
  \/ /\ StillHeld(d) /\ Moves(d, "owned", "answered") /\ settled' = settled \cup {d}
     /\ \E state \in {"PROCESSED", "IGNORED"} : Finish(d, state)
  \/ Moves(d, "owned", "failed") /\ Finish(d, "FAILED_RETRYABLE") /\ settled' = settled

(* The process goes away; what it held waits for its lease and a new delivery.   *)
Crash(d) ==
  /\ \E here \in {"stored", "claimed", "fetched", "owned"} : Moves(d, here, "lost")
  /\ UNCHANGED <<event, settled>>

Next ==
  \/ \E d \in Deliveries : \/ Persist(d) \/ Claim(d) \/ Dispatch(d) \/ ReadClaim(d)
                           \/ Settle(d) \/ Crash(d)
  \/ LeaseExpires

Spec == Init /\ [][Next]_webhookVars

----------------------------------------------------------------------------

(* A payment event is finished exactly when one transaction has settled it: no   *)
(* delivery that was overtaken settles it again, and none is answered as         *)
(* processed that was rolled back (the claim and the fenced transaction).        *)
SettledOnce ==
  /\ Cardinality(settled) <= 1
  /\ event.kind = "payment" => (event.state \in Finished <=> settled # {})
=============================================================================

-------------------------------- MODULE Checkout ------------------------------
(* CheckoutService.create: a billing_checkout_intents row per Idempotency-Key is  *)
(* claimed, the gateway is asked under a key of its own, and one transaction      *)
(* makes the checkout session and, for a promotional offer, binds it to the       *)
(* reservation of the tenant.  A tenant has one subscription.                     *)
EXTENDS Promotions

CONSTANTS Requests, KeyOf,     \* requests, and the Idempotency-Key of each
          TenantOf, Promo      \* the tenant of a key; the keys of promotional offers

ASSUME CheckoutAssumption ==
  /\ KeyOf \in [Requests -> Keys] /\ TenantOf \in [Keys -> Tenants] /\ Promo \subseteq Keys

VARIABLES intent,    \* [Keys -> the billing_checkout_intents row]
          session,   \* [Keys -> status of its checkout_sessions row]
          step,      \* [Requests -> where create stands]
          seen       \* [Requests -> the intent as the request has read it]

checkoutVars == <<intent, session, step, seen>>
cvars == <<promotionVars, checkoutVars>>

States == {"none", "CLAIMED", "PROCESSING", "UNKNOWN", "SUCCEEDED",
           "FAILED_RETRYABLE", "FAILED_FINAL"}
Intents == [state : States, token : Requests \cup {Nothing}]
NoIntent == [state |-> "none", token |-> Nothing]

TypeOK ==
  /\ PromotionTypeOK /\ intent \in [Keys -> Intents] /\ seen \in [Requests -> Intents]
  /\ session \in [Keys -> {"none", "OPEN", "COMPLETED", "ENDED"}]
  /\ step \in [Requests -> {"start", "create", "reclaim", "process", "reserve",
                            "gateway", "commit", "end"}]

Init ==
  /\ PromotionInit
  /\ intent = [k \in Keys |-> NoIntent] /\ session = [k \in Keys |-> "none"]
  /\ step = [r \in Requests |-> "start"] /\ seen = [r \in Requests |-> NoIntent]

At(r, here) == step[r] = here
Go(r, there) == step' = [step EXCEPT ![r] = there]
Tenant(r) == TenantOf[KeyOf[r]]
Promotional(r) == KeyOf[r] \in Promo
KeysOf(t) == {k \in Keys : TenantOf[k] = t}
Owns(r, state) == intent[KeyOf[r]] = [state |-> state, token |-> r]
Becomes(r, state) == intent' = [intent EXCEPT ![KeyOf[r]].state = state]

----------------------------------------------------------------------------

(* What create refuses, or answers with the checkout that is open.               *)
Start(r) ==
  /\ At(r, "start")
  /\ LET it == slot[Tenant(r)] IN
     Go(r, IF /\ Promotional(r) => it.status = "RESERVED" /\ ~it.expired /\ it.checkout = Nothing
              /\ \A k \in KeysOf(Tenant(r)) : session[k] # "OPEN"
           THEN "create" ELSE "end")
  /\ UNCHANGED <<promotionVars, intent, session, seen>>

(* Unique: one claimed or processing intent per subscription.                    *)
OthersActive(r) == \E k \in KeysOf(Tenant(r)) \ {KeyOf[r]} :
                     intent[k].state \in {"CLAIMED", "PROCESSING"}
CreateIntent(r) ==
  /\ At(r, "create")
  /\ LET it == intent[KeyOf[r]] IN
     \/ /\ it.state = "none" /\ ~OthersActive(r) /\ seen' = seen
        /\ intent' = [intent EXCEPT ![KeyOf[r]] = [state |-> "CLAIMED", token |-> r]]
        /\ Go(r, "process")
     \/ /\ it.state \in {"FAILED_RETRYABLE", "UNKNOWN"} /\ intent' = intent
        /\ seen' = [seen EXCEPT ![r] = it] /\ Go(r, "reclaim")
     \/ /\ it.state \notin {"FAILED_RETRYABLE", "UNKNOWN"} /\ (it.state = "none" => OthersActive(r))
        /\ UNCHANGED <<intent, seen>> /\ Go(r, "end")
  /\ UNCHANGED <<promotionVars, session>>

(* A failed attempt, or one of unknown outcome, is taken over by one request.    *)
(* Fault: the takeover does not test the intent it has read                      *)
StillAsSeenUnchecked(r) == TRUE
StillAsSeen(r) == intent[KeyOf[r]] = seen[r]
Reclaim(r) ==
  /\ At(r, "reclaim")
  /\ IF StillAsSeen(r) /\ ~OthersActive(r)
     THEN intent' = [intent EXCEPT ![KeyOf[r]] = [state |-> "CLAIMED", token |-> r]] /\ Go(r, "process")
     ELSE intent' = intent /\ Go(r, "end")
  /\ UNCHANGED <<promotionVars, session, seen>>

Process(r) ==
  /\ At(r, "process")
  /\ IF Owns(r, "CLAIMED")
     THEN Becomes(r, "PROCESSING") /\ Go(r, IF Promotional(r) THEN "reserve" ELSE "gateway")
     ELSE intent' = intent /\ Go(r, "end")
  /\ UNCHANGED <<promotionVars, session, seen>>

(* The reservation is claimed for this intent for five minutes.                  *)
ClaimReservation(r) ==
  /\ At(r, "reserve")
  /\ LET it == slot[Tenant(r)]  k == KeyOf[r] IN
     IF /\ it.status = "RESERVED" /\ it.checkout = Nothing
        /\ it.claim \in {Nothing, k} \/ ~it.claimed
     THEN /\ slot' = [slot EXCEPT ![Tenant(r)].claim = k, ![Tenant(r)].claimed = TRUE]
          /\ intent' = intent /\ Go(r, "gateway")
     ELSE /\ slot' = slot /\ Go(r, "end")
          /\ IF Owns(r, "PROCESSING") THEN Becomes(r, "FAILED_RETRYABLE") ELSE intent' = intent
  /\ UNCHANGED <<campaign, reserving, activating, session, seen>>
ClaimLapses(t) ==
  /\ slot[t].claimed /\ slot' = [slot EXCEPT ![t].claimed = FALSE]
  /\ UNCHANGED <<campaign, reserving, activating, checkoutVars>>

(* The gateway answers, refuses, or leaves the outcome open.                     *)
AskGateway(r) ==
  /\ At(r, "gateway")
  /\ \/ intent' = intent /\ Go(r, "commit")
     \/ \E state \in {"FAILED_RETRYABLE", "FAILED_FINAL", "UNKNOWN"} :
          /\ Go(r, "end")
          /\ IF Owns(r, "PROCESSING") THEN Becomes(r, state) ELSE intent' = intent
  /\ UNCHANGED <<promotionVars, session, seen>>

(* Session, reservation, subscription and intent in one transaction; when it     *)
(* fails, the gateway has a checkout that the database knows nothing of.         *)
Linkable(r) == slot[Tenant(r)].status = "RESERVED" /\ slot[Tenant(r)].checkout = Nothing
Commit(r) ==
  /\ At(r, "commit") /\ Go(r, "end")
  /\ \/ /\ Owns(r, "PROCESSING") /\ Becomes(r, "SUCCEEDED")
        /\ \A k \in KeysOf(Tenant(r)) : session[k] # "OPEN"     \* unique
        /\ session' = [session EXCEPT ![KeyOf[r]] = "OPEN"]
        /\ IF Promotional(r)
           THEN /\ Linkable(r)
                /\ slot' = [slot EXCEPT ![Tenant(r)].checkout = KeyOf[r],
                                        ![Tenant(r)].claim = Nothing, ![Tenant(r)].claimed = FALSE]
           ELSE slot' = slot
     \/ /\ UNCHANGED <<session, slot>>
        /\ IF Owns(r, "PROCESSING") THEN Becomes(r, "UNKNOWN") ELSE intent' = intent
  /\ UNCHANGED <<campaign, reserving, activating, seen>>

Crash(r) ==
  /\ step[r] \notin {"start", "end"} /\ Go(r, "end")
  /\ UNCHANGED <<promotionVars, intent, session, seen>>

(* A session ends unpaid; or its payment is approved, which converts the         *)
(* reservation that is bound to it (PaymentsService.convertPromotionReservation). *)
EndSession(k) ==
  /\ session[k] = "OPEN" /\ session' = [session EXCEPT ![k] = "ENDED"]
  /\ UNCHANGED <<promotionVars, intent, step, seen>>
Approve(k) ==
  /\ session[k] \in {"OPEN", "ENDED"} /\ session' = [session EXCEPT ![k] = "COMPLETED"]
  /\ LET t == TenantOf[k] IN
     IF slot[t].status = "RESERVED" /\ slot[t].checkout = k
     THEN slot' = [slot EXCEPT ![t].status = "CONVERTED"] /\ campaign' = Converted
     ELSE UNCHANGED <<slot, campaign>>
  /\ UNCHANGED <<reserving, activating, intent, step, seen>>

Next ==
  \/ PromotionNext /\ UNCHANGED checkoutVars
  \/ \E r \in Requests :
       \/ Start(r) \/ CreateIntent(r) \/ Reclaim(r) \/ Process(r) \/ ClaimReservation(r)
       \/ AskGateway(r) \/ Commit(r) \/ Crash(r)
  \/ \E t \in Tenants : ClaimLapses(t)
  \/ \E k \in Keys : EndSession(k) \/ Approve(k)

Spec == Init /\ [][Next]_cvars

----------------------------------------------------------------------------

(* Whatever keys a customer retries with, one request at most waits for the      *)
(* gateway for a subscription (the claim of the intent and its unique index).    *)
OneAtGateway ==
  \A r, q \in Requests :
    At(r, "gateway") /\ At(q, "gateway") /\ Tenant(r) = Tenant(q) => r = q

(* A checkout at the promotional price is the one that the reservation of the    *)
(* tenant names: no reservation pays for two (the link in the transaction).      *)
OnePerReservation ==
  \A k \in Promo : session[k] # "none" => slot[TenantOf[k]].checkout = k

(* Both: no customer gets two checkouts out of one intention to buy.             *)
OneCheckout == OneAtGateway /\ OnePerReservation
=============================================================================

----------------------------- MODULE SubscriptionOps -----------------------------
(* SubscriptionsService.cancelForTenant and requestPlanChange for one            *)
(* subscription: both change the subscription at the gateway, so that both first *)
(* write an operation row, of which the index                                    *)
(* billing_one_pending_subscription_mutation admits one pending at a time.  A    *)
(* plan change is confirmed from the gateway's terms (webhook or                 *)
(* reconciliation) and takes effect with the next payment.                       *)
(*                                                                               *)
(* Left out: a subscription without a gateway, the CANCEL operations of older    *)
(* versions, and a replay with the key of an earlier request (it changes         *)
(* nothing).  An error status of the gateway is taken as proof that it did not   *)
(* apply the change, as the code does.                                           *)
EXTENDS Naturals

CONSTANTS Cancels, Changes,  \* requests of cancelForTenant and requestPlanChange
          Target,            \* [Changes -> the plan a request asks for]
          FirstPlan,
          MaxVersion,        \* bound of the renewals
          NoOne

VARIABLES subscription,  \* the subscriptions row
          expected,      \* plan whose price checkout_sessions expects
          cancelRow,     \* the billing_subscription_operations row of the cancellation
          changeState,   \* [Changes -> state of the row of a plan change]
          cancel,        \* [Cancels -> where the request and its call stand]
          change,        \* [Changes -> where the request and its call stand]
          confirming,    \* plan changes whose target a confirmation found at the gateway
          remote         \* the subscription at the gateway

requestVars == <<cancel, change, confirming>>
opsVars == <<subscription, expected, cancelRow, changeState, requestVars, remote>>

Plans == {FirstPlan} \cup {Target[p] : p \in Changes}
PendingStates == {"CLAIMED", "PROCESSING", "UNKNOWN"}

TypeOK ==
  /\ subscription \in [active : BOOLEAN, plan : Plans, version : Nat]
  /\ expected \in Plans
  /\ cancelRow \in [state : PendingStates \cup {"none", "SUCCEEDED"},
                    token : Cancels \cup {NoOne}, lease : BOOLEAN]
  /\ changeState \in [Changes -> {"none", "UNKNOWN", "PROCESSING", "SUCCEEDED", "FAILED"}]
  /\ cancel \in [Cancels -> [at : {"idle", "read", "claimed", "sent", "received", "lost", "end"},
                             version : Nat]]
  /\ change \in [Changes -> [at : {"idle", "read", "sent", "received", "end"}, version : Nat]]
  /\ confirming \subseteq Changes
  /\ remote \in [plan : Plans, cancelled : BOOLEAN]

Init ==
  /\ subscription = [active |-> TRUE, plan |-> FirstPlan, version |-> 0]
  /\ expected = FirstPlan /\ remote = [plan |-> FirstPlan, cancelled |-> FALSE]
  /\ cancelRow = [state |-> "none", token |-> NoOne, lease |-> FALSE]
  /\ changeState = [p \in Changes |-> "none"]
  /\ cancel = [c \in Cancels |-> [at |-> "idle", version |-> 0]]
  /\ change = [p \in Changes |-> [at |-> "idle", version |-> 0]]
  /\ confirming = {}

(* The version read is kept until the claim, which compares it.                  *)
CancelMoves(c, from, there) ==
  cancel[c].at = from /\ cancel' = [cancel EXCEPT ![c] = [at |-> there, version |-> 0]]
ChangeMoves(p, from, there) ==
  change[p].at = from /\ change' = [change EXCEPT ![p] = [at |-> there, version |-> 0]]

ChangePending == \E p \in Changes : changeState[p] \in PendingStates
(* The unique index, for a row about to become pending.                          *)
(* Fault: the index is about plan changes only                                   *)
IndexOfChanges == ~ChangePending
IndexFree == ~ChangePending /\ cancelRow.state \notin PendingStates
Holds(c, state) == cancelRow.token = c /\ cancelRow.state = state
Canceled == [subscription EXCEPT !.active = FALSE, !.version = @ + 1]

----------------------------------------------------------------------------
(* cancelForTenant                                                               *)

CancelRead(c) ==
  /\ cancel[c].at = "idle"
  /\ \/ /\ ChangePending
        /\ cancel' = [cancel EXCEPT ![c].at = "end"] /\ cancelRow' = cancelRow
     \/ /\ ~ChangePending /\ ~subscription.active
        /\ cancel' = [cancel EXCEPT ![c].at = "end"]
        /\ cancelRow' = IF cancelRow.state \in PendingStates
                        THEN [cancelRow EXCEPT !.state = "SUCCEEDED", !.token = NoOne] ELSE cancelRow
     \/ /\ ~ChangePending /\ subscription.active
        /\ cancel' = [cancel EXCEPT ![c] = [at |-> "read", version |-> subscription.version]]
        /\ cancelRow' = cancelRow
  /\ UNCHANGED <<subscription, expected, changeState, change, confirming, remote>>

(* The row is created, taken over once its lease is over, or found finished.     *)
CancelClaim(c) ==
  /\ \/ /\ \/ cancelRow.state = "none" /\ IndexFree
           \/ cancelRow.state \in PendingStates /\ ~cancelRow.lease
        /\ cancelRow' = [state |-> "CLAIMED", token |-> c, lease |-> TRUE]
        /\ CancelMoves(c, "read", "claimed") /\ subscription' = subscription
     \/ /\ \/ cancelRow.state = "none" /\ ~IndexFree
           \/ cancelRow.state \in PendingStates /\ cancelRow.lease
        /\ CancelMoves(c, "read", "end") /\ UNCHANGED <<cancelRow, subscription>>
     \/ /\ cancelRow.state = "SUCCEEDED"
        /\ CancelMoves(c, "read", "end") /\ cancelRow' = cancelRow
        /\ subscription' = IF subscription.version = cancel[c].version /\ subscription.active
                           THEN Canceled ELSE subscription
  /\ UNCHANGED <<expected, changeState, change, confirming, remote>>

LeaseExpires ==
  /\ cancelRow.lease /\ cancelRow' = [cancelRow EXCEPT !.lease = FALSE]
  /\ UNCHANGED <<subscription, expected, changeState, requestVars, remote>>

CancelSend(c) ==
  /\ IF Holds(c, "CLAIMED")
     THEN CancelMoves(c, "claimed", "sent") /\ cancelRow' = [cancelRow EXCEPT !.state = "PROCESSING"]
     ELSE CancelMoves(c, "claimed", "end") /\ cancelRow' = cancelRow
  /\ UNCHANGED <<subscription, expected, changeState, change, confirming, remote>>

CancelReceived(c) ==
  /\ CancelMoves(c, "sent", "received") \/ CancelMoves(c, "lost", "end")
  /\ remote' = [remote EXCEPT !.cancelled = TRUE]
  /\ UNCHANGED <<subscription, expected, cancelRow, changeState, change, confirming>>

(* The answer: the subscription and the row are finished in one transaction,     *)
(* which an operation that lost its claim rolls back.                            *)
CancelAnswered(c) ==
  /\ CancelMoves(c, "received", "end")
  /\ IF Holds(c, "PROCESSING")
     THEN /\ cancelRow' = [cancelRow EXCEPT !.state = "SUCCEEDED", !.token = NoOne]
          /\ subscription' = IF subscription.active THEN Canceled ELSE subscription
     ELSE UNCHANGED <<cancelRow, subscription>>
  /\ UNCHANGED <<expected, changeState, change, confirming, remote>>

(* No answer: the outcome is unknown, or the process ended and recorded nothing. *)
CancelFails(c) ==
  /\ \/ CancelMoves(c, "claimed", "end") /\ cancelRow' = cancelRow
     \/ /\ CancelMoves(c, "sent", "lost") \/ CancelMoves(c, "sent", "end") \/ CancelMoves(c, "received", "end")
        /\ \/ cancelRow' = cancelRow
           \/ Holds(c, "PROCESSING") /\ cancelRow' = [cancelRow EXCEPT !.state = "UNKNOWN"]
  /\ UNCHANGED <<subscription, expected, changeState, change, confirming, remote>>

----------------------------------------------------------------------------
(* requestPlanChange and confirmPlanChangeFromWebhook                            *)

ChangeRead(p) ==
  /\ change[p].at = "idle"
  /\ change' = [change EXCEPT ![p] =
                  [at |-> IF subscription.active /\ subscription.plan # Target[p] /\ ~ChangePending
                          THEN "read" ELSE "end",
                   version |-> subscription.version]]
  /\ UNCHANGED <<subscription, expected, cancelRow, changeState, cancel, confirming, remote>>

(* The version is taken and the row written UNKNOWN before the call, ...         *)
Unchanged(p) == subscription.version = change[p].version /\ subscription.active
ChangeClaim(p) ==
  /\ IF Unchanged(p) /\ IndexFree
     THEN /\ ChangeMoves(p, "read", "sent")
          /\ subscription' = [subscription EXCEPT !.version = @ + 1]
          /\ changeState' = [changeState EXCEPT ![p] = "UNKNOWN"]
     ELSE ChangeMoves(p, "read", "end") /\ UNCHANGED <<subscription, changeState>>
  /\ UNCHANGED <<expected, cancelRow, cancel, confirming, remote>>

(* ... which reaches the gateway, is refused with an error status, or never      *)
(* leaves the process.                                                           *)
ChangeReceived(p) ==
  /\ ~remote.cancelled /\ ChangeMoves(p, "sent", "received")
  /\ remote' = [remote EXCEPT !.plan = Target[p]]
  /\ UNCHANGED <<subscription, expected, cancelRow, changeState, cancel, confirming>>
ChangeRefused(p) ==
  /\ ChangeMoves(p, "sent", "end")
  /\ changeState' = [changeState EXCEPT ![p] = IF @ = "UNKNOWN" THEN "FAILED" ELSE @]
  /\ UNCHANGED <<subscription, expected, cancelRow, cancel, confirming, remote>>
ChangeLost(p) ==
  /\ ChangeMoves(p, "sent", "end")
  /\ UNCHANGED <<subscription, expected, cancelRow, changeState, cancel, confirming, remote>>

(* The gateway's terms are read ...                                              *)
TermsAgree(p) == ~remote.cancelled /\ remote.plan = Target[p]
ConfirmRead(p) ==
  /\ changeState[p] = "UNKNOWN" /\ TermsAgree(p) /\ confirming' = confirming \cup {p}
  /\ UNCHANGED <<subscription, expected, cancelRow, changeState, cancel, change, remote>>
(* ... and confirm the operation if it still is unknown.  The request itself, a   *)
(* webhook and the reconciliation may each have read the same.                   *)
Confirm(p) ==
  /\ p \in confirming /\ confirming' \in {confirming, confirming \ {p}}
  /\ IF changeState[p] = "UNKNOWN"
     THEN expected' = Target[p] /\ changeState' = [changeState EXCEPT ![p] = "PROCESSING"]
     ELSE UNCHANGED <<expected, changeState>>
  /\ UNCHANGED <<subscription, cancelRow, cancel, change, remote>>

(* The renewal: a payment of the expected amount switches the plan.              *)
Renewal ==
  /\ subscription.active /\ subscription.version < MaxVersion
  /\ ~remote.cancelled /\ remote.plan = expected
  /\ subscription' = [subscription EXCEPT !.plan = expected, !.version = @ + 1]
  /\ changeState' = [p \in Changes |-> IF changeState[p] = "PROCESSING" /\ Target[p] = expected
                                       THEN "SUCCEEDED" ELSE changeState[p]]
  /\ UNCHANGED <<expected, cancelRow, requestVars, remote>>

Next ==
  \/ \E c \in Cancels : \/ CancelRead(c) \/ CancelClaim(c) \/ CancelSend(c)
                        \/ CancelReceived(c) \/ CancelAnswered(c) \/ CancelFails(c)
  \/ \E p \in Changes : \/ ChangeRead(p) \/ ChangeClaim(p) \/ ChangeReceived(p) \/ ChangeRefused(p)
                        \/ ChangeLost(p) \/ ConfirmRead(p) \/ Confirm(p)
  \/ LeaseExpires \/ Renewal

Spec == Init /\ [][Next]_opsVars

----------------------------------------------------------------------------

(* A cancellation and a plan change are never both on their way to the gateway,  *)
(* which could apply them in either order, whichever requests time out, end or   *)
(* are taken over (the two pending checks of subscriptions.service.ts and the    *)
(* unique index).                                                                *)
NeverBoth ==
  ~ /\ \E c \in Cancels : cancel[c].at \in {"sent", "lost"}
    /\ \E p \in Changes : change[p].at = "sent"

(* Unless a plan change is of unknown outcome, the checkout expects the amount   *)
(* the gateway will charge: another amount would be refused as a renewal.        *)
ChargeExpected ==
  remote.cancelled \/ (\E p \in Changes : changeState[p] = "UNKNOWN") \/ expected = remote.plan

(* Both: the gateway and the database change the subscription in one order.      *)
MutationsApart == NeverBoth /\ ChargeExpected
=============================================================================

-------------------------------- MODULE Refunds --------------------------------
(* PaymentsService.refundForTenant: the refund of an approved payment at the     *)
(* gateway.  A row of BillingRefundIntent, one for each payment, is claimed with *)
(* a token and a lease, and whoever moves it from CLAIMED to PROCESSING sends    *)
(* the refund; what became of it is asked, never sent again.                     *)
(*                                                                               *)
(* Left out: the search for the right payment of the test of R$ 1,00, which ends *)
(* in the same updates of an UNKNOWN row, and what processVerifiedPayment does   *)
(* with a verified payment (BillingPayments).  A refusal of the gateway (4xx) is *)
(* trusted that nothing was refunded.                                            *)
EXTENDS Naturals, FiniteSets

CONSTANTS Refunders,   \* requests, each served once, with a claim token of its own
          Earlier      \* the token of a row that an earlier version left behind

VARIABLES refundIntent,  \* the row: its state, claimToken and whether the lease runs
          refunding,     \* [Refunders -> where the request stands, what it has read]
          charge,        \* status of the payment at the gateway
          ledger,        \* status of the payment's row
          sent           \* history: who sent a refund, and whether one took effect

refundVars == <<refundIntent, refunding, charge, ledger, sent>>

NoRefund == [state |-> "none", token |-> Earlier, live |-> FALSE]
Init ==
  /\ refundIntent \in {NoRefund, [NoRefund EXCEPT !.state = "FAILED_RETRYABLE"]}
  /\ sent \in [by : {{}, {Earlier}}, applied : {FALSE}]
  /\ sent.by # {} <=> refundIntent.state = "FAILED_RETRYABLE"
  /\ refunding = [r \in Refunders |-> [at |-> "start", seen |-> Earlier]]
  /\ charge = "APPROVED" /\ ledger = "APPROVED"

At(r, here) == refunding[r].at = here
Go(r, there) == refunding' = [refunding EXCEPT ![r].at = there]
(* The where of the updates a claim makes.                                       *)
Holds(r, state) == refundIntent.token = r /\ refundIntent.state = state

Ask(r) ==
  /\ At(r, "start") /\ Go(r, IF ledger = "APPROVED" THEN "approved" ELSE "other")
  /\ UNCHANGED <<refundIntent, charge, ledger, sent>>

FindIntent(r) ==
  /\ refunding[r].at \in {"approved", "other"}
  /\ refunding' = [refunding EXCEPT ![r] =
       [seen |-> refundIntent.token,
        at |-> CASE refundIntent.state = "none" /\ At(r, "approved") -> "create"
                 [] refundIntent.state = "UNKNOWN" -> "reconcile"
                 [] refundIntent.state = "FAILED_RETRYABLE" -> "distrust"
                 [] refundIntent.state = "CLAIMED" /\ ~refundIntent.live -> "reclaim"
                 [] refundIntent.state = "PROCESSING" /\ ~refundIntent.live -> "fence"
                 [] OTHER -> "done"]]
  /\ UNCHANGED <<refundIntent, charge, ledger, sent>>

Distrust(r) ==
  /\ At(r, "distrust") /\ Go(r, "done")
  /\ refundIntent' = IF refundIntent.state = "FAILED_RETRYABLE"
                     THEN [refundIntent EXCEPT !.state = "UNKNOWN"] ELSE refundIntent
  /\ UNCHANGED <<charge, ledger, sent>>

Claimed(r) == [state |-> "CLAIMED", token |-> r, live |-> TRUE]
Create(r) ==
  /\ At(r, "create")
  /\ IF refundIntent.state = "none" THEN refundIntent' = Claimed(r) /\ Go(r, "claimed")
     ELSE refundIntent' = refundIntent /\ Go(r, "duplicate")
  /\ UNCHANGED <<charge, ledger, sent>>
Duplicate(r) ==
  /\ At(r, "duplicate")
  /\ Go(r, IF refundIntent.state = "UNKNOWN" THEN "reconcile" ELSE "done")
  /\ UNCHANGED <<refundIntent, charge, ledger, sent>>

AsSeen(r, state) ==
  refundIntent.token = refunding[r].seen /\ refundIntent.state = state /\ ~refundIntent.live
Reclaim(r) ==
  /\ At(r, "reclaim")
  /\ IF AsSeen(r, "CLAIMED") THEN refundIntent' = Claimed(r) /\ Go(r, "claimed")
     ELSE refundIntent' = refundIntent /\ Go(r, "done")
  /\ UNCHANGED <<charge, ledger, sent>>
(* Fault: a claim that ran out at the gateway is taken over like any other *)
FenceReclaiming(r) ==
  /\ At(r, "fence")
  /\ IF AsSeen(r, "PROCESSING") THEN refundIntent' = Claimed(r) /\ Go(r, "claimed")
     ELSE refundIntent' = refundIntent /\ Go(r, "done")
  /\ UNCHANGED <<charge, ledger, sent>>
Fence(r) ==
  /\ At(r, "fence")
  /\ IF AsSeen(r, "PROCESSING")
     THEN refundIntent' = [refundIntent EXCEPT !.state = "UNKNOWN"] /\ Go(r, "reconcile")
     ELSE refundIntent' = refundIntent /\ Go(r, "done")
  /\ UNCHANGED <<charge, ledger, sent>>

Process(r) ==
  /\ At(r, "claimed")
  /\ IF Holds(r, "CLAIMED")
     THEN refundIntent' = [refundIntent EXCEPT !.state = "PROCESSING"] /\ Go(r, "processing")
     ELSE refundIntent' = refundIntent /\ Go(r, "done")
  /\ UNCHANGED <<charge, ledger, sent>>

(* The gateway takes the refund, at once or later, or refuses it, or is not      *)
(* heard; the request goes on with a refund accepted, refused or unknown.        *)
Send(r, applied, answer) ==
  /\ At(r, "processing") /\ answer \in {"accepted", "FAILED_FINAL", "UNKNOWN"}
  /\ answer = "accepted" => applied
  /\ answer = "FAILED_FINAL" => ~applied
  /\ sent' = [by |-> sent.by \cup {r}, applied |-> sent.applied \/ applied]
  /\ Go(r, answer) /\ UNCHANGED <<refundIntent, charge, ledger>>
RemoteRefund ==
  charge = "APPROVED" /\ charge' = "REFUNDED" /\ UNCHANGED <<refundIntent, refunding, ledger, sent>>

(* The number of the refund is written down, when the answer has one.            *)
SaveRefund(r, numbered) ==
  /\ At(r, "accepted")
  /\ Go(r, IF numbered /\ ~Holds(r, "PROCESSING") THEN "done" ELSE "verify")
  /\ UNCHANGED <<refundIntent, charge, ledger, sent>>
(* The payment is asked for, and its row follows what the gateway says of it.    *)
Learn == ledger' = IF charge = "REFUNDED" THEN "REFUNDED" ELSE ledger
Verify(r) ==
  /\ At(r, "verify")
  /\ \/ Learn /\ Go(r, IF charge = "REFUNDED" THEN "SUCCEEDED" ELSE "UNKNOWN")
     \/ ledger' = ledger /\ Go(r, "UNKNOWN")
  /\ UNCHANGED <<refundIntent, charge, sent>>
Mark(r) ==
  /\ refunding[r].at \in {"SUCCEEDED", "UNKNOWN", "FAILED_FINAL"} /\ Go(r, "done")
  /\ refundIntent' = IF Holds(r, "PROCESSING")
                     THEN [refundIntent EXCEPT !.state = refunding[r].at] ELSE refundIntent
  /\ UNCHANGED <<charge, ledger, sent>>

Reconcile(r) ==
  /\ At(r, "reconcile")
  /\ IF charge = "REFUNDED" THEN Learn /\ Go(r, "settle") ELSE ledger' = ledger /\ Go(r, "done")
  /\ UNCHANGED <<refundIntent, charge, sent>>
Settle(r) ==
  /\ At(r, "settle") /\ Go(r, "done")
  /\ refundIntent' = IF refundIntent.state = "UNKNOWN"
                     THEN [refundIntent EXCEPT !.state = "SUCCEEDED"] ELSE refundIntent
  /\ UNCHANGED <<charge, ledger, sent>>

LeaseExpires ==
  /\ refundIntent.live /\ refundIntent' = [refundIntent EXCEPT !.live = FALSE]
  /\ UNCHANGED <<refunding, charge, ledger, sent>>
(* The process goes away, or a call fails and the request with it.               *)
Crash(r) == ~At(r, "done") /\ Go(r, "done") /\ UNCHANGED <<refundIntent, charge, ledger, sent>>

Next ==
  \/ RemoteRefund \/ LeaseExpires
  \/ \E r \in Refunders :
       \/ Ask(r) \/ FindIntent(r) \/ Distrust(r) \/ Create(r) \/ Duplicate(r) \/ Reclaim(r)
       \/ Fence(r) \/ Process(r) \/ Verify(r) \/ Mark(r) \/ Reconcile(r) \/ Settle(r) \/ Crash(r)
       \/ \E applied \in BOOLEAN, answer \in {"accepted", "FAILED_FINAL", "UNKNOWN"} :
            Send(r, applied, answer)
       \/ \E numbered \in BOOLEAN : SaveRefund(r, numbered)

Spec == Init /\ [][Next]_refundVars

----------------------------------------------------------------------------

(* One refund is sent for a payment, whoever asks, dies or is overtaken and      *)
(* whatever an earlier version left (refundForTenant); a request that reports    *)
(* success stands on a payment the gateway has refunded, and one that reports a  *)
(* final failure on a refund that did not take effect (refundFailureState).      *)
OneRefund ==
  /\ Cardinality(sent.by) <= 1
  /\ refundIntent.state = "SUCCEEDED" => charge = "REFUNDED"
  /\ refundIntent.state = "FAILED_FINAL" => ~sent.applied
=============================================================================

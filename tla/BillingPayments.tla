-------------------------- MODULE BillingPayments --------------------------
(***************************************************************************)
(* Recurring billing of one tenant: PaymentsService.processVerifiedPayment *)
(* as webhooks, polling and reconciliation call it, concurrently.          *)
(*                                                                         *)
(* The gateway bills charges under checkouts.  A worker fetches a snapshot *)
(* of a charge outside any transaction, and then, in a READ COMMITTED      *)
(* transaction, reads the checkout, the subscription, the payment (a SELECT*)
(* each: Prisma loads what a query includes by queries of its own), and    *)
(* writes the subscription (a compare-and-set on its version), the         *)
(* payment, the invoice and the checkout.  Opening a checkout and          *)
(* cancelling write the subscription and its version too.                  *)
(*                                                                         *)
(* One plan and one amount; the invoice row, which is written with the     *)
(* payment and says the same, the promotion and the referral are left out. *)
(***************************************************************************)
EXTENDS BillingOrder, FiniteSets

CONSTANTS Charges,     \* payments at the gateway
          Checkouts, Workers,
          Nothing,     \* no checkout, no charge
          Reported,    \* the statuses that the gateway gives a charge here
          MaxTime      \* changes at the gateway

ASSUME NothingAssumption == Nothing \notin Checkouts \cup Charges
ASSUME ReportedAssumption == Reported \subseteq PaymentStatus
ASSUME MaxTimeAssumption == MaxTime \in Nat

VARIABLES clock,       \* dates of the gateway, one per change of a charge
          remote,      \* the charges at the gateway
          billed,      \* the checkout each charge is billed under
          payment,     \* billing_payments: one row per charge
          checkout,    \* checkout_sessions.status
          sub,         \* the subscription
          job,         \* what each worker is about
          current,     \* the workers that read subscription.version as it is
          told         \* history: the charges whose last change was processed

vars == <<clock, remote, billed, payment, checkout, sub, job, current, told>>

Time == 0..MaxTime     \* 0: missing, or never

CheckoutStatus == {"none", "OPEN", "PENDING", "COMPLETED", "CANCELED", "FAILED"}

Snapshot == [status : PaymentStatus \cup {"none"}, at : Time, paid : Time]

Subscription ==
  [status : {"trialing", "active", "suspended", "canceled"}, lastPaid : Time,
   gateway : Checkouts \cup {Nothing}, cancelAtEnd : BOOLEAN]

(* seen: the gateway's snapshot; was, row: what was read of the database *)
Job == [pc : {"idle", "fetched", "opened", "read"}, charge : Charges \cup {Nothing},
        seen : Snapshot, was : CheckoutStatus, row : Snapshot]

TypeOK ==
  /\ clock \in Time
  /\ remote \in [Charges -> Snapshot]
  /\ payment \in [Charges -> Snapshot]
  /\ checkout \in [Checkouts -> CheckoutStatus]
  /\ sub \in Subscription
  /\ job \in [Workers -> Job]
  /\ current \subseteq Workers
  /\ told \subseteq Charges
  /\ billed \in [Charges -> Checkouts \cup {Nothing}]

NoRow == [status |-> "none", at |-> 0, paid |-> 0]

NewSub == [status |-> "trialing", lastPaid |-> 0, gateway |-> Nothing,
           cancelAtEnd |-> FALSE]

NoJob == [pc |-> "idle", charge |-> Nothing, seen |-> NoRow,
          was |-> "none", row |-> NoRow]

Init ==
  /\ clock = 0
  /\ remote = [c \in Charges |-> NoRow]
  /\ payment = [c \in Charges |-> NoRow]
  /\ checkout = [k \in Checkouts |-> "none"]
  /\ sub = NewSub
  /\ job = [w \in Workers |-> NoJob]
  /\ current = {}
  /\ told = {}
  /\ billed = [c \in Charges |-> Nothing]

-----------------------------------------------------------------------------
(* The gateway bills a charge and settles, refuses or reverses it.  The     *)
(* date it was approved stays with a charge.                                *)
Decides(from) ==
  CASE from = "none"     -> {"PENDING", "APPROVED", "REJECTED"}
    [] from = "PENDING"  -> {"APPROVED", "REJECTED", "CANCELED"}
    [] from = "APPROVED" -> {"REFUNDED", "CHARGEBACK"}
    [] OTHER             -> {}

Remote(c) ==
  /\ clock < MaxTime
  /\ clock' = clock + 1
  /\ \E s \in Decides(remote[c].status) \cap Reported :
       remote' = [remote EXCEPT ![c] =
         [status |-> s, at |-> clock + 1,
          paid |-> IF s = "APPROVED" THEN clock + 1 ELSE @.paid]]
  /\ \E k \in Checkouts :
       /\ checkout[k] # "none"
       /\ billed[c] \in {Nothing, k}
       /\ billed' = [billed EXCEPT ![c] = k]
  /\ told' = told \ {c}
  /\ UNCHANGED <<payment, checkout, sub, job, current>>

-----------------------------------------------------------------------------
(* getPaymentStatus, findPayments: the snapshot is taken outside the        *)
(* transaction; it may lack its date                                        *)
Fetch(w, c) ==
  /\ job[w].pc = "idle"
  /\ remote[c].status # "none"
  /\ \E at \in {remote[c].at, 0} :
       job' = [job EXCEPT ![w] = [NoJob EXCEPT !.pc = "fetched", !.charge = c,
                                    !.seen = [remote[c] EXCEPT !.at = at]]]
  /\ UNCHANGED <<clock, remote, billed, payment, checkout, sub, current, told>>

(* The payments that leave a checkout as it was, or make an open one pending *)
KeepsCheckout(status) == status \in {"PENDING", "REFUNDED", "CHARGEBACK"}

(* checkoutSession.findUnique: the checkout; a step of its own only for the *)
(* snapshots that depend on what it returns                                 *)
ReadCheckout(w) ==
  /\ job[w].pc = "fetched" /\ KeepsCheckout(job[w].seen.status)
  /\ job' = [job EXCEPT ![w].pc = "opened", ![w].was = checkout[billed[job[w].charge]]]
  /\ UNCHANGED <<clock, remote, billed, payment, checkout, sub, current, told>>

(* ... its subscription, and billingPayment.findFirst.  Whoever writes a    *)
(* payment increments the version, so that one written between these two    *)
(* reads is refused with the version, and they are one step.                *)
ReadRows(w) ==
  /\ job[w].pc = IF KeepsCheckout(job[w].seen.status) THEN "opened" ELSE "fetched"
  /\ job' = [job EXCEPT ![w].pc = "read", ![w].row = payment[job[w].charge]]
  /\ current' = current \cup {w}
  /\ UNCHANGED <<clock, remote, billed, payment, checkout, sub, told>>

(* result.paidAt ?? existing.paidAt *)
PeriodStart(j) == IF j.seen.paid # 0 THEN j.seen.paid ELSE j.row.paid

(* Fault: only the checkout tells a payment from those of the current period *)
ProtectedByCheckout(j) == sub.gateway # billed[j.charge]

(* protectCurrentSubscription: an older checkout's payment, an older        *)
(* period's, or one that cannot be attributed to a period                   *)
Protected(j) ==
  \/ sub.gateway # billed[j.charge]
  \/ Older(PeriodStart(j), sub.lastPaid)
  \/ j.seen.status # "APPROVED" /\ sub.lastPaid # 0 /\ PeriodStart(j) = 0

(* preserveCanceledSubscription *)
KeepsCanceled(j) ==
  j.seen.status = "APPROVED" /\ sub.status = "canceled" /\ sub.cancelAtEnd

(* subscriptionState, and the period an approval begins *)
Effect(j) ==
  IF Protected(j) \/ KeepsCanceled(j) THEN sub
  ELSE IF j.seen.status = "APPROVED"
       THEN [sub EXCEPT !.status = "active", !.lastPaid = j.seen.paid]
  ELSE IF Reversal(j.seen.status) THEN [sub EXCEPT !.status = "suspended"]
  ELSE sub

(* checkoutStatus *)
CheckoutAfter(status, before) ==
  CASE status = "APPROVED" -> "COMPLETED"
    [] status = "CANCELED" -> "CANCELED"
    [] status = "REJECTED" -> "FAILED"
    [] OTHER               -> IF before = "OPEN" THEN "PENDING" ELSE before

(* The row of the payment after the snapshot *)
RowAfter(j) == [status |-> j.seen.status, at |-> j.seen.at,
                paid |-> IF j.seen.status = "APPROVED" THEN j.seen.paid ELSE j.row.paid]

Idle(w) == job' = [job EXCEPT ![w] = NoJob]

(* The worker ends with success: what it was told is taken for known *)
Done(w) ==
  /\ job[w].pc = "read"
  /\ Idle(w)
  /\ told' = IF job[w].seen.status = remote[job[w].charge].status
             THEN told \cup {job[w].charge} ELSE told

InUse == {"OPEN", "PENDING"}

(* What a checkout becomes is decided on the status READ BEFORE; no two of  *)
(* a subscription are in use (checkout_sessions_active_subscription_key)    *)
Write(w) ==
  LET j == job[w]
      status == CheckoutAfter(j.seen.status, j.was)
  IN  /\ sub' = Effect(j)
      /\ current' = {}
      /\ payment' = [payment EXCEPT ![j.charge] = RowAfter(j)]
      /\ status \in InUse =>
           \A k \in Checkouts \ {billed[j.charge]} : checkout[k] \notin InUse
      /\ checkout' = [checkout EXCEPT ![billed[j.charge]] = status]

(* Fault: the version is incremented and not compared *)
CommitUnversioned(w) ==
  /\ Done(w)
  /\ IF Applies(job[w].row, job[w].seen) THEN Write(w)
     ELSE current' = current \ {w} /\ UNCHANGED <<payment, checkout, sub>>
  /\ UNCHANGED <<clock, remote, billed>>

(* Fault: losing is not told from deciding nothing *)
CommitOrForget(w) ==
  /\ Done(w)
  /\ IF w \in current /\ Applies(job[w].row, job[w].seen) THEN Write(w)
     ELSE current' = current \ {w} /\ UNCHANGED <<payment, checkout, sub>>
  /\ UNCHANGED <<clock, remote, billed>>

(* A snapshot that decides nothing only leaves an event.  One that does is  *)
(* written if the subscription and the payment have the versions read.      *)
Commit(w) ==
  /\ Done(w)
  /\ \/ /\ ~Applies(job[w].row, job[w].seen)
        /\ current' = current \ {w}
        /\ UNCHANGED <<payment, checkout, sub>>
     \/ /\ Applies(job[w].row, job[w].seen)
        /\ w \in current
        /\ Write(w)
  /\ UNCHANGED <<clock, remote, billed>>

(* BillingCasLostError: the transaction is undone and tried again *)
Lose(w) ==
  /\ job[w].pc = "read"
  /\ Applies(job[w].row, job[w].seen) /\ w \notin current
  /\ job' = [job EXCEPT ![w].pc = "fetched", ![w].was = "none",
                                ![w].row = NoRow]
  /\ UNCHANGED <<clock, remote, billed, payment, checkout, sub, current, told>>

(* A worker ends without committing: a webhook, which does not try again    *)
(* when it lost, an error, or the process going away.  The reconciliation   *)
(* does it again at its next turn.                                          *)
GiveUp(w) ==
  /\ job[w].pc # "idle"
  /\ Idle(w)
  /\ current' = current \ {w}
  /\ UNCHANGED <<clock, remote, billed, payment, checkout, sub, told>>

-----------------------------------------------------------------------------
(* CheckoutService.create, its last transaction: at most one checkout of a  *)
(* subscription is OPEN or PENDING.  A tenant with access may open another, *)
(* for another plan; one that cancelled, once the paid period is over.      *)
OpenCheckout(k) ==
  /\ checkout[k] = "none"
  /\ \A l \in Checkouts : checkout[l] \notin InUse
  /\ checkout' = [checkout EXCEPT ![k] = "OPEN"]
  /\ sub' = [sub EXCEPT !.gateway = k]
  /\ current' = {}
  /\ UNCHANGED <<clock, remote, billed, payment, job, told>>

(* SubscriptionsService.cancelForTenant, its last transaction; access is    *)
(* kept until the end of the paid period if that is still to come           *)
Cancel ==
  /\ sub.status # "canceled"
  /\ \E kept \in BOOLEAN :
       /\ kept => sub.status = "active"
       /\ sub' = [sub EXCEPT !.status = "canceled", !.cancelAtEnd = kept]
  /\ current' = {}
  /\ UNCHANGED <<clock, remote, billed, payment, checkout, job, told>>

Step(w) == ReadCheckout(w) \/ ReadRows(w) \/ Commit(w) \/ Lose(w)

Next ==
  \/ \E c \in Charges : Remote(c)
  \/ \E w \in Workers, c \in Charges : Fetch(w, c)
  \/ \E w \in Workers : Step(w)
  \/ \E w \in Workers : GiveUp(w)
  \/ \E k \in Checkouts : OpenCheckout(k)
  \/ Cancel

Spec == Init /\ [][Next]_vars

-----------------------------------------------------------------------------
(* Properties *)

(* RC-004: a payment never leaves a stage of its life for an earlier one,   *)
(* whoever reports what and when: a decision taken from rows that changed   *)
(* since they were read is not written.                                     *)
Settled == [][\A c \in Charges : Level(payment'[c].status) >= Level(payment[c].status)]_vars

(* What was processed with success is known: a charge whose last change was *)
(* reported to the end has that status in the ledger, although workers      *)
(* lose against each other and older snapshots come later.                  *)
ToldIsKnown == \A c \in told : payment[c].status = remote[c].status

(* A late reversal of an older period, or under an older checkout, never    *)
(* takes the access that a later payment gave: if the period rests on a     *)
(* payment under the subscription's checkout that is still approved, and no *)
(* charge known was approved later, there is access, or the tenant          *)
(* cancelled it.                                                            *)
Known(c) == payment[c].status # "none"

LatestPaidKept ==
  \A c \in Charges :
    (/\ payment[c].status = "APPROVED"
     /\ billed[c] = sub.gateway /\ remote[c].paid = sub.lastPaid
     /\ \A d \in Charges : Known(d) => remote[d].paid <= remote[c].paid)
    => sub.status \in {"active", "canceled"}

(* RC-004: the subscription is the lock of the aggregate; who loses reads   *)
(* checkout, subscription and payment again and decides again.  A checkout  *)
(* that got an approved payment is over: it is not in use, where it would   *)
(* keep the tenant from opening another.  The code does not guarantee it:   *)
(* the version is read after the checkout and does not vouch for it.        *)
ApprovedCompletes ==
  \A c \in Charges : payment[c].status = "APPROVED" => checkout[billed[c]] \notin InUse

(* docs/billing-production.md: a refund or a chargeback suspends.  There is *)
(* no access that rests on a payment known to be reversed.                  *)
RefundSuspends ==
  sub.status = "active" =>
    \A c \in Charges : Reversal(payment[c].status) => payment[c].paid # sub.lastPaid
=============================================================================

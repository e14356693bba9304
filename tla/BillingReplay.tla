--------------------------- MODULE BillingReplay ---------------------------
(***************************************************************************)
(* The same snapshots of one payment reach two ledgers in different        *)
(* orders, as webhooks, polling and reconciliation may deliver them.  The  *)
(* snapshots are a gateway's own: its date of a status grows with every    *)
(* change, and after an approval it may report a status that normalizeStatus*)
(* has no name for (a mediation), which becomes PENDING.                   *)
(***************************************************************************)
EXTENDS BillingOrder, FiniteSets

CONSTANT MaxChanges      \* changes of the payment at the gateway

VARIABLES told,    \* the snapshots the gateway reported, by date
          left,    \* a ledger's row, and the snapshots it has seen
          right

vars == <<told, left, right>>

(* What a payment may become next at the gateway *)
NextStatus(status) ==
  CASE status = "none"       -> {"PENDING", "APPROVED", "REJECTED"}
    [] status = "PENDING"    -> {"APPROVED", "REJECTED", "CANCELED", "REFUNDED"}
    [] status = "APPROVED"   -> {"PENDING", "REFUNDED", "CHARGEBACK"}
    [] OTHER                 -> {}

Ledger == [row : [status : PaymentStatus \cup {"none"}, at : 0..MaxChanges],
           seen : SUBSET (1..MaxChanges)]

TypeOK == /\ \E n \in 0..MaxChanges : told \in [1..n -> PaymentStatus]
          /\ {left, right} \subseteq Ledger

Nothing == [row |-> [status |-> "none", at |-> 0], seen |-> {}]

Init == told = <<>> /\ left = Nothing /\ right = Nothing

Dates == DOMAIN told
Latest == Cardinality(Dates)

Change == /\ Latest < MaxChanges
          /\ \E s \in NextStatus(IF Latest = 0 THEN "none" ELSE told[Latest]) :
               told' = [d \in 1..(Latest + 1) |-> IF d > Latest THEN s ELSE told[d]]
          /\ UNCHANGED <<left, right>>

Receive(ledger, d) ==
  [row |-> Applied(ledger.row, [status |-> told[d], at |-> d]),
   seen |-> ledger.seen \cup {d}]

ReceiveLeft == \E d \in Dates : left' = Receive(left, d) /\ UNCHANGED <<told, right>>
ReceiveRight == \E d \in Dates : right' = Receive(right, d) /\ UNCHANGED <<told, left>>

Next == Change \/ ReceiveLeft \/ ReceiveRight

Spec == Init /\ [][Next]_vars

(* RC-004: the ledgers that received the same snapshots agree, whatever the *)
(* order ("qualquer permutacao do mesmo conjunto").                         *)
PermutationsConverge == left.seen = right.seen => left.row.status = right.row.status
=============================================================================

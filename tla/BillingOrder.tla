---------------------------- MODULE BillingOrder ----------------------------
(***************************************************************************)
(* decideBillingState: what a ledger row makes of a payment snapshot that  *)
(* the gateway reports, late, twice or out of order.  A row and a snapshot *)
(* have a status and the gateway's date of it; the date 0 stands for a     *)
(* missing one, which has no say.                                          *)
(***************************************************************************)
EXTENDS Integers

PaymentStatus ==
  {"PENDING", "REJECTED", "CANCELED", "APPROVED", "REFUNDED", "CHARGEBACK"}

(* lifecycle: "none" is the row that does not exist yet *)
Level(status) ==
  CASE status = "none"       -> -1
    [] status = "PENDING"    -> 0
    [] status = "REJECTED"   -> 1
    [] status = "CANCELED"   -> 2
    [] status = "APPROVED"   -> 3
    [] status = "REFUNDED"   -> 4
    [] status = "CHARGEBACK" -> 5

Reversal(status) == status \in {"REFUNDED", "CHARGEBACK"}

Older(at, than) == at # 0 /\ than # 0 /\ at < than

(* decideBillingState(...).apply *)
Applies(row, e) ==
  \/ row.status = "none"
  \/ /\ ~Older(e.at, row.at)
     /\ IF e.status = row.status THEN Older(row.at, e.at)
                                 ELSE Level(e.status) > Level(row.status)

(* The row after the snapshot *)
Applied(row, e) ==
  IF Applies(row, e) THEN [status |-> e.status, at |-> e.at] ELSE row
=============================================================================

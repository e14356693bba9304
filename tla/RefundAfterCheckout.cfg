SPECIFICATION Spec
CONSTANTS
  Charges = {c1}
  Checkouts = {k1, k2}
  Workers = {w1}
  Nothing = Nothing
  Reported = {"PENDING", "APPROVED", "REJECTED", "CANCELED", "REFUNDED", "CHARGEBACK"}
  MaxTime = 3
INVARIANT RefundSuspends
CHECK_DEADLOCK FALSE

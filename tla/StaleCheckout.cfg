SPECIFICATION Spec
CONSTANTS
  Charges = {c1, c2}
  Checkouts = {k1}
  Workers = {w1, w2}
  Nothing = Nothing
  Reported = {"PENDING", "APPROVED", "REJECTED", "CANCELED", "REFUNDED", "CHARGEBACK"}
  MaxTime = 2
INVARIANT ApprovedCompletes
CHECK_DEADLOCK FALSE

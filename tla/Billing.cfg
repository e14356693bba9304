SPECIFICATION Spec
CONSTANTS
  Charges = {c1, c2}
  Checkouts = {k1, k2}
  Workers = {w1, w2}
  Nothing = Nothing
  Reported = {"PENDING", "APPROVED", "REJECTED", "CANCELED", "REFUNDED"}
  MaxTime = 3
INVARIANTS LatestPaidKept ToldIsKnown
PROPERTY Settled
SYMMETRY Sym
CHECK_DEADLOCK FALSE

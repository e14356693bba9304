SPECIFICATION MCSpec
CONSTANTS
  Phones = {p1, p2}
  Keys = {k1, k2}
  Requests = {r1, r2}
  Bodies = {1, 2}
  Limit = 1
  MaxTries = 2
  Stock = 2
  NoOne = NoOne
  Events = {e1, e2}
  Hashes = {h1, h2}
  Workers = {w1, w2}
  MaxAttempts = 2
  BatchSize = 2
  MaxFaults = 2
INVARIANTS ActiveLimit AnswersAgree StockExact EvidenceOwed EvidenceOnce
PROPERTIES Answered Fenced TrailSpec
CHECK_DEADLOCK FALSE

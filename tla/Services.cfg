SPECIFICATION MCSpec
CONSTANTS
  t1 = t1  t2 = t2  k1 = k1  k2 = k2  r1 = r1  r2 = r2  r3 = r3  r4 = r4
  Tenants = {t1, t2}
  Keys = {k1, k2}
  MaxSlots = 2
  Nothing = Nothing
  Requests = {r1, r2, r3, r4}
  KeyOf <- MCKeyOf
  TenantOf <- MCTenantOf
  Promo = {k1, k2}
  Foreign = Foreign
  Nobody = Nobody
  a1 = a1  a2 = a2  a3 = a3
  Applicants = {a1, a2, a3}
  Payload <- MCPayload
  Managers = {m1, m2}
  Workers = {w1}
  Browsers = {b1}
  e2 = e2  s2 = s2
  Recoveries = {e1, e2}
  Resets = {s1, s2}
  Forms = {f1}
  LastVersion = 3
  Attempts = {n1, n2, n3}
  Validations = {v1, v2}
  Revocations = {x1, x2}
  Deliveries = {d1, d2, d3}
  Dashboards = {1, 2, 3}
  DashboardKey <- MCDashboardKey
  CacheSize = 1
  LastWrite = 2
  Local = TRUE
  Cancels = {c1, c2}
  p1 = p1  p2 = p2
  Changes = {p1, p2}
  Target <- MCTarget
  monthly = monthly  yearly = yearly
  LastRenewal = 2
  Refunders = {q1, q2, q3}
  Earlier = Earlier
  Jobs = {j1, j2}
  PrintAttempts = 2
  Posts = {r1, r2}
  Printouts = {"receipt"}
  MaxCarts = 3
  MaxKeys = 2
  MaxPrints = 2
  u1 = u1  u2 = u2  check = check  removal = removal  activation = activation
  CertUploads = {u1, u2}
  Checks = {check}
  Withdrawals = {removal}
  Activations = {activation}
  CleanupAttempts = 2
  Old = Old
  Scale = 100
  Prices = {0, 7, 49, 120}
  Payloads = {4, 22}
  Others = {25}
  Percentages = {10, 50}
  Fixed = {2}
  Notes = {0, 4}
  Stock = 350
  MaxScans = 2
INVARIANTS NeverOversold OneCheckout OneCompany RowIsTrue ResetOncePerVersion OneInDoubt
  NeverStale CredentialsReadable SettledOnce MutationsApart OneRefund
  SoldOnce CopiesAsked BucketAgrees AmountsAgree
PROPERTIES RevocationHolds NoBlindReprint
CHECK_DEADLOCK FALSE

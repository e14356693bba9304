SPECIFICATION MCSpec
CONSTANTS
  Uploads = {a, b}
  Parts = {full, thumb}
  Main = full
  Owner <- MCOwner
  Requested = 3
  PartSize = 1
  Limit <- MCLimit
  Removers = {m1, m2}
  MaxDay = 2
  Pipelines = {1, 2, 3, 4, 5}
  TenantOf <- MCTenantOf
  Concurrency = 2
  PerTenant = 1
  MaxQueue = 3
  Bookings = {b1, b2}
  b1 = b1  b2 = b2  r1 = r1  r2 = r2
  Requests = {r1, r2}
  pet1 = pet1  pet2 = pet2  vet1 = vet1  vet2 = vet2
  Pets = {pet1, pet2}  Attendants = {vet1, vet2}
  Rank <- MCRank  Times <- MCTimes
  nine = nine  ten = ten
  Keep = Keep
  Unlocked = Unlocked
INVARIANTS CountersHonest PlacesHandedOut
  NoDoubleBooking LocksGranted
PROPERTY TenantFifo
CHECK_DEADLOCK FALSE

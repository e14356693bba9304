------------------------------- MODULE MCShared -------------------------------
(* What concurrent requests share, for TLC: the upload quota of a tenant, the    *)
(* places of the image pipeline, the hours of pets and attendants.  The three    *)
(* share no variable, so a behaviour moves one of them (moves) and leaves the    *)
(* others at their start: what is explored is the sum of their states, not the   *)
(* product.  Below is also what the counters of Uploads stand for.               *)
EXTENDS Uploads, TLC

CONSTANTS Pipelines, TenantOf, Concurrency, PerTenant, MaxQueue,   \* ImageCoordinator
          Bookings, Requests, Pets, Attendants, Rank, Times, Keep, Unlocked,   \* AgendaPet
          b1, b2, r1, r2, pet1, pet2, vet1, vet2, nine, ten

VARIABLES moves, active, activeByTenant, queue, at, closing, agenda, lock, request, stale

coordinatorVars == <<active, activeByTenant, queue, at, closing>>
agendaVars == <<agenda, lock, request, stale>>

MCTenantOf == [p \in Pipelines |-> IF p \in {1, 2, 3} THEN "t1" ELSE "t2"]
MCOwner == [u \in Uploads |-> "u1"]
MCLimit == [total |-> 6, daily |-> 6, user |-> 3]
MCRank == vet1 :> 1 @@ vet2 :> 2 @@ pet1 :> 3 @@ pet2 :> 4
MCTimes == {{nine}, {ten}}

Coordinator == INSTANCE ImageCoordinator
Agenda == INSTANCE AgendaPet

(* The settings of the coordinator are numbers, read when it starts (setting).   *)
ASSUME CoordinatorAssumption ==
  IsFiniteSet(Pipelines) /\ Concurrency \in Nat /\ PerTenant \in Nat /\ MaxQueue \in Nat

(* The keys of the advisory locks are strings, in one order.                     *)
ASSUME AgendaAssumption ==
  /\ Unlocked \notin Requests /\ Keep \notin Pets \cup Attendants
  /\ Rank \in [Pets \cup Attendants -> Nat]
  /\ \A x, y \in Pets \cup Attendants : Rank[x] = Rank[y] => x = y
  /\ IsFiniteSet(Pets \cup Attendants)

(* Of what an agenda may be asked: r1 makes the appointments, b1 first and of    *)
(* one kind, and moves them to another pet; r2 moves them to another hour, or    *)
(* closes them; their attendants stay.                                           *)
Asking(r) == request[r].at # "lock" /\ request'[r].at = "lock"
Created(b, asked) ==
  /\ asked.status = "active"
  /\ \/ b = b1 /\ asked.pet = pet1 /\ asked.attendant = vet1 /\ asked.time = {nine}
     \/ b = b2 /\ agenda[b1].status # "none"
Moved(r, row, asked) ==
  /\ asked.attendant = row.attendant
  /\ \/ r = r1 /\ asked.pet # Keep /\ asked.time = row.time /\ asked.status = row.status
     \/ r = r2 /\ asked.pet = Keep /\ asked.time # row.time
AgendaNext ==
  /\ Agenda!Next
  /\ \A r \in Requests : Asking(r) =>
       LET asked == request'[r]  b == request'[r].booking IN
       IF request[r].at = "idle" THEN r = r1 /\ Created(b, asked) ELSE Moved(r, agenda[b], asked)

MCInit == Init /\ Coordinator!Init /\ Agenda!Init /\ moves \in {"uploads", "images", "agenda"}
MCNext ==
  /\ moves' = moves
  /\ \/ moves = "uploads" /\ Next /\ UNCHANGED <<coordinatorVars, agendaVars>>
     \/ moves = "images" /\ Coordinator!Next /\ UNCHANGED <<vars, agendaVars>>
     \/ moves = "agenda" /\ AgendaNext /\ UNCHANGED <<vars, coordinatorVars>>
MCSpec == MCInit /\ [][MCNext]_<<moves, vars, coordinatorVars, agendaVars>>

(* The properties of the coordinator and the agenda, which their modules state   *)
(* and explain.                                                                  *)
PlacesHandedOut == Coordinator!PlacesHandedOut
TenantFifo == Coordinator!TenantFifo
NoDoubleBooking == Agenda!NoDoubleBooking
LocksGranted == Agenda!LocksGranted

ChargedOn(w) == {u \in Uploads : state[u] \in Charged /\ w \in WindowsOf(u, day[u])}
ConfirmedOn(w) == {u \in Uploads : state[u] = "CONFIRMED" /\ w \in WindowsOf(u, day[u])}
FilesOf(parts) == {x \in Uploads \X Parts : x[2] \in parts[x[1]]}
Bytes(parts) == PartSize * Cardinality(FilesOf(parts))

(* Every reservation that was neither confirmed nor released is in the        *)
(* reserved bytes of its three windows exactly once, and every confirmed one  *)
(* in the confirmed bytes of its days, whichever of the request and the       *)
(* reconciler settled it and on whatever day (reserve, transition); and no    *)
(* window holds more than its limit (upload_quota_counters_limits).           *)
CountersExact ==
  TypeOK /\ \A w \in Windows :
    /\ reserved[w] = Requested * Cardinality(ChargedOn(w))
    /\ w # Total => confirmed[w] = Requested * Cardinality(ConfirmedOn(w))
    /\ confirmed[w] + reserved[w] <= Limit[w[1]]

(* The total of the tenant is what was confirmed, less what was marked        *)
(* deleted, less the rows that a removal subtracts although another request   *)
(* marked them after it read them (markDeleted): whatever else runs beside    *)
(* it, nothing leaves the total, the failed uploads included that are marked  *)
(* deleted without ever being confirmed ...                                   *)
Doubled == PartSize * doubled
TotalExplained ==
  confirmed[Total] = Requested * Cardinality(ConfirmedOn(Total)) - Bytes(deletedRows) - Doubled
(* ... so that but for those rows the tenant is charged for all that it has.  *)
ActiveCharged == Bytes(activeRows) <= confirmed[Total] + reserved[Total] + Doubled

(* "retries do not decrement again": each file leaves the total once.         *)
RemovedOnce ==
  confirmed[Total] = Requested * Cardinality(ConfirmedOn(Total)) - Bytes(deletedRows)

(* No blind release: an upload that may have left an object or a row behind   *)
(* is charged (prepareImage releases before the first call of the bucket).    *)
StoredIsCharged ==
  \A u \in Uploads : stored[u] \cup activeRows[u] \cup pending[u] # {} =>
                       state[u] \in Charged \cup {"CONFIRMED"}

(* The counters of the quota, each by itself, against what there is, and       *)
(* against what the bucket may hold.                                           *)
CountersHonest == CountersExact /\ TotalExplained /\ ActiveCharged /\ StoredIsCharged
=============================================================================

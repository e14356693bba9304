------------------------------- MODULE AgendaPet -------------------------------
(* AgendaPetService: the appointments of a pet shop.  create and update take the *)
(* advisory locks of the pets and attendants concerned, in the order of their    *)
(* keys and until the end of the transaction, look for active appointments that  *)
(* overlap, and write.  An edit form carries the version it was opened with.     *)
(* Each SELECT sees what is committed when it runs (READ COMMITTED).             *)
(*                                                                               *)
(* Scheduled, confirmed and in progress are one status here (active), completed, *)
(* canceled and no_show another (over): only the first take up time, and no      *)
(* transition leads back.  Clients, prices and texts are left out.               *)
EXTENDS Naturals, FiniteSets

CONSTANTS Bookings, Requests,  \* appointments, and slots for requests being served
          Pets, Attendants,
          Rank,                \* [Pets and Attendants -> place of the lock key in the order]
          Times,               \* what may be asked for, each a set of hours
          Keep,                \* a field that the request leaves out
          Unlocked

Resources == Pets \cup Attendants

VARIABLES agenda,    \* [Bookings -> row of agenda_pet]
          lock,      \* [Resources -> the request that holds its advisory lock]
          request,   \* [Requests -> what it asks for, and where it stands]
          stale      \* requests whose form shows an older version of the row (stands
                     \* for the versions, which only grow)

agendaVars == <<agenda, lock, request, stale>>

(* Of a row that is not there or deleted nothing is read.                        *)
NoRow == [status |-> "none"]
Deleted == [status |-> "deleted"]
Idle == [at |-> "idle"]

Init ==
  /\ agenda = [b \in Bookings |-> NoRow] /\ lock = [x \in Resources |-> Unlocked]
  /\ request = [r \in Requests |-> Idle] /\ stale = {}

At(r, here) == request[r].at = here
Go(r, there) == request' = [request EXCEPT ![r].at = there]
Found(b) == agenda[b].status \in {"active", "over"}
TakesTime(b) == agenda[b].status = "active"
(* The end of the transaction, committed or not, gives its locks back.           *)
End(r) ==
  /\ request' = [request EXCEPT ![r] = Idle] /\ stale' = stale \ {r}
  /\ lock' = [x \in Resources |-> IF lock[x] = r THEN Unlocked ELSE lock[x]]

----------------------------------------------------------------------------

(* withScheduleLocks: the keys a request needs, once each.                       *)
Locks(pet, attendant, old) == {pet, attendant} \cup old
Asks(r, b, locks, pet, attendant, time, status) ==
  request' = [request EXCEPT ![r] =
    [at |-> "lock", booking |-> b, pet |-> pet, attendant |-> attendant,
     time |-> time, status |-> status, locks |-> locks]]

Create(r, b, pet, attendant, time, status) ==
  /\ At(r, "idle") /\ agenda[b].status = "none"
  /\ b \notin {request[q].booking : q \in {q \in Requests : ~At(q, "idle")}}
  /\ Asks(r, b, Locks(pet, attendant, {}), pet, attendant, time, status)
  /\ UNCHANGED <<agenda, lock, stale>>

(* A form is opened; what it asks for is read again when it arrives (beforeLock), *)
(* to know the locks; the attendant it leaves out is taken from that read.        *)
OpenForm(r, b) ==
  /\ At(r, "idle") /\ Found(b)
  /\ request' = [request EXCEPT ![r] = [at |-> "form", booking |-> b]]
  /\ UNCHANGED <<agenda, lock, stale>>
Submit(r, pet, attendant, time, status) ==
  /\ At(r, "form")
  /\ LET b == request[r].booking  row == agenda[b]
         attending == IF attendant = Keep THEN row.attendant ELSE attendant
         animal == IF pet = Keep THEN row.pet ELSE pet IN
     /\ Found(b)
     /\ Asks(r, b, Locks(animal, attending, {row.pet, row.attendant}),
             pet, attending, time, status)
  /\ UNCHANGED <<agenda, lock, stale>>

Missing(r) == {x \in request[r].locks : lock[x] # r}
(* Fault: the locks are taken in the order of the fields *)
NextInAnyOrder(r, x) == x \in Missing(r)
NextLock(r, x) == x \in Missing(r) /\ \A y \in Missing(r) : Rank[x] <= Rank[y]
TakeLock(r, x) ==
  /\ At(r, "lock") /\ NextLock(r, x) /\ lock[x] = Unlocked
  /\ lock' = [lock EXCEPT ![x] = r]
  /\ IF Missing(r) = {x} THEN Go(r, IF agenda[request[r].booking].status = "none" THEN "pet" ELSE "read")
                         ELSE request' = request
  /\ UNCHANGED <<agenda, stale>>

(* Fault: the version of the form is not compared *)
VersionIgnored(r) == TRUE
VersionHolds(r) == r \notin stale
(* update reads the row again under the locks; a pet it leaves out is that row's. *)
ReadAgain(r) ==
  /\ At(r, "read")
  /\ LET q == request[r]  row == agenda[q.booking] IN
     IF /\ Found(q.booking) /\ VersionHolds(r)
        /\ row.status = "over" => q.status = "over"      \* assertStatusTransition
     THEN /\ request' = [request EXCEPT ![r].at = "pet", ![r].pet = IF @ = Keep THEN row.pet ELSE @]
          /\ UNCHANGED <<lock, stale>>
     ELSE End(r)
  /\ agenda' = agenda

(* assertNoTimeConflict: the pet is looked for, then the attendant.              *)
Conflict(r, of) ==
  /\ request[r].status = "active"
  /\ \E b \in Bookings \ {request[r].booking} :
       TakesTime(b) /\ agenda[b][of] = request[r][of] /\ agenda[b].time \cap request[r].time # {}
CheckPet(r) ==
  /\ At(r, "pet")
  /\ IF Conflict(r, "pet") THEN End(r)
     ELSE Go(r, "attendant") /\ UNCHANGED <<lock, stale>>
  /\ agenda' = agenda
CheckAttendant(r) ==
  /\ At(r, "attendant")
  /\ IF Conflict(r, "attendant") THEN End(r)
     ELSE Go(r, "write") /\ UNCHANGED <<lock, stale>>
  /\ agenda' = agenda

Write(r) ==
  /\ At(r, "write")
  /\ LET q == request[r]  new == agenda[q.booking].status = "none" IN
     IF new \/ (VersionHolds(r) /\ Found(q.booking))
     THEN /\ agenda' = [agenda EXCEPT ![q.booking] =
                [status |-> q.status, pet |-> q.pet, attendant |-> q.attendant, time |-> q.time]]
          /\ stale' = (stale \cup {p \in Requests : ~At(p, "idle") /\ request[p].booking = q.booking}) \ {r}
          /\ request' = [request EXCEPT ![r] = Idle]
          /\ lock' = [x \in Resources |-> IF lock[x] = r THEN Unlocked ELSE lock[x]]
     ELSE End(r) /\ agenda' = agenda

(* remove takes no lock and leaves the version alone.                            *)
Remove(b) ==
  /\ Found(b) /\ agenda' = [agenda EXCEPT ![b] = Deleted] /\ UNCHANGED <<lock, request, stale>>

(* The request is refused before it writes, or its process dies.                 *)
GiveUp(r) == ~At(r, "idle") /\ End(r) /\ agenda' = agenda

Next ==
  \/ \E r \in Requests, attendant \in Attendants \cup {Keep}, pet \in Pets \cup {Keep},
        time \in Times, status \in {"active", "over"} :
       \/ Submit(r, pet, attendant, time, status)
       \/ /\ Keep \notin {pet, attendant}
          /\ \E b \in Bookings : Create(r, b, pet, attendant, time, status)
  \/ \E r \in Requests, x \in Resources : TakeLock(r, x)
  \/ \E r \in Requests : \/ ReadAgain(r) \/ CheckPet(r) \/ CheckAttendant(r) \/ Write(r) \/ GiveUp(r)
  \/ \E b \in Bookings : Remove(b) \/ \E r \in Requests : OpenForm(r, b)

Spec == Init /\ [][Next]_agendaVars

----------------------------------------------------------------------------

(* No pet and no attendant is booked twice for the same hour, whatever is        *)
(* created and moved at the same time (withScheduleLocks, assertNoTimeConflict). *)
(* It takes the version too: the locks were chosen by an earlier read.           *)
NoDoubleBooking ==
  \A b, c \in Bookings :
    /\ b # c /\ TakesTime(b) /\ TakesTime(c)
    /\ agenda[b].pet = agenda[c].pet \/ agenda[b].attendant = agenda[c].attendant
    => agenda[b].time \cap agenda[c].time = {}

(* Requests that wait for each other's locks would wait for ever: while one      *)
(* waits, some request has all its locks, or finds its next one free.            *)
LocksGranted ==
  (\E r \in Requests : At(r, "lock")) =>
     \E r \in Requests :
       \/ request[r].at \in {"read", "pet", "attendant", "write"}
       \/ At(r, "lock") /\ \E x \in Resources : NextLock(r, x) /\ lock[x] = Unlocked
=============================================================================

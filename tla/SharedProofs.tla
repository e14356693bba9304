---------------------------- MODULE SharedProofs ----------------------------
(* Proofs about what concurrent requests share: the hours of pets and         *)
(* attendants, and the places of the image pipeline, for every number of      *)
(* them. A theorem names the component's own specification and the property   *)
(* that MCShared checks.                                                      *)
EXTENDS MCShared, FiniteSetTheorems, SequenceTheorems, NaturalsInduction, WellFoundedInduction, TLAPS

-----------------------------------------------------------------------------
(* Numbers, and the agenda: no hour is given twice, and no request waits for  *)
(* ever for a lock. The heart is that whoever is served holds the locks of    *)
(* what it will write, and that what it looked for and did not find, nobody   *)
(* without those locks can have written.                                      *)

Below == OpToRel(<, Nat)

(* A set of numbers that is not empty has a least one: the induction that the *)
(* proofs below need, over a number.                                          *)
LEMMA NatMin ==
  ASSUME NEW T, T \subseteq Nat, T # {}
  PROVE  \E x \in T : \A y \in T : x <= y
<1>1. IsWellFoundedOn(Below, Nat)  BY NatLessThanWellFounded DEF Below
<1>2. \A x, y \in Nat : y < x => <<y, x>> \in Below
  <2> SUFFICES ASSUME NEW x \in Nat, NEW y \in Nat, y < x PROVE <<y, x>> \in Below  OBVIOUS
  <2> QED  BY DEF Below, OpToRel
<1>3. PICK x \in T : \A y \in T : ~(<<y, x>> \in Below)  BY <1>1, WFMin
<1>4. \A y \in T : ~(y < x)  BY <1>2, <1>3
<1>5. \A y \in T : x <= y  BY <1>4
<1> QED  BY <1>5

(* Of finitely many things one has the highest number. *)
LEMMA Highest ==
  ASSUME NEW H, IsFiniteSet(H), H # {}, NEW f, \A x \in H : f[x] \in Nat
  PROVE  \E x \in H : \A y \in H : f[y] <= f[x]
<1> DEFINE Has(U) == \E x \in U : \A y \in U : f[y] <= f[x]
           Bad == {n \in Nat : \E U \in SUBSET H : U # {} /\ Cardinality(U) = n /\ ~Has(U)}
<1>1. \A U \in SUBSET H : IsFiniteSet(U) /\ Cardinality(U) \in Nat
  BY FS_Subset, FS_CardinalityType
<1>2. SUFFICES Bad = {}
  <2>1. Cardinality(H) \in Nat  BY <1>1
  <2> QED  BY <1>2, <2>1
<1>3. SUFFICES ASSUME Bad # {} PROVE FALSE  OBVIOUS
<1>4. PICK n \in Bad : \A m \in Bad : n <= m  BY <1>3, NatMin
<1>5. PICK U \in SUBSET H : U # {} /\ Cardinality(U) = n /\ ~Has(U)  BY <1>4
<1>6. PICK x \in U : TRUE  BY <1>5
<1>7. Cardinality(U \ {x}) = n - 1 /\ n \in Nat
  BY <1>1, <1>4, <1>5, <1>6, FS_RemoveElement
<1>8. Cardinality(U \ {x}) \in Nat  BY <1>1
<1>9. CASE U \ {x} = {}
  <2>1. U = {x}  BY <1>6, <1>9
  <2> QED  BY <1>5, <2>1
<1>10. CASE U \ {x} # {}
  <2>1. Has(U \ {x})
    <3>1. n - 1 \notin Bad  BY <1>4, <1>7, <1>8
    <3> QED  BY <1>7, <1>8, <1>10, <3>1
  <2>2. PICK z \in U \ {x} : \A y \in U \ {x} : f[y] <= f[z]  BY <2>1
  <2>3. f[x] \in Nat /\ f[z] \in Nat /\ \A y \in U : f[y] \in Nat  BY <1>5
  <2>4. CASE f[x] <= f[z]  BY <1>5, <2>2, <2>4
  <2>5. CASE f[z] <= f[x]  BY <1>5, <1>6, <2>2, <2>3, <2>5
  <2> QED  BY <2>3, <2>4, <2>5
<1> QED  BY <1>9, <1>10

-----------------------------------------------------------------------------
Resources == Pets \cup Attendants
Serving == {"read", "pet", "attendant", "write"}
AgendaRows == {Agenda!NoRow, Agenda!Deleted}
  \cup [status : {"active", "over"}, pet : Pets, attendant : Attendants, time : Times]
Asked ==
  [at : {"lock"} \cup Serving, booking : Bookings, pet : Pets \cup {Keep},
   attendant : Attendants, time : Times, status : {"active", "over"},
   locks : SUBSET Resources]
AgendaRequests == {Agenda!Idle} \cup [at : {"form"}, booking : Bookings] \cup Asked
AgendaTypeOK ==
  /\ agenda \in [Bookings -> AgendaRows] /\ request \in [Requests -> AgendaRequests]
  /\ lock \in [Resources -> Requests \cup {Unlocked}] /\ stale \subseteq Requests

(* A lock is held by a request that needs it, and whoever is served has all of *)
(* them.                                                                       *)
Held ==
  /\ \A r \in Requests, x \in Resources :
       lock[x] = r => request[r].at \in {"lock"} \cup Serving /\ x \in request[r].locks
  /\ \A r \in Requests : request[r].at \in Serving =>
       \A x \in request[r].locks : lock[x] = r

(* The locks are taken in the order of their keys, and not all are there.       *)
InOrder ==
  \A r \in Requests : request[r].at = "lock" =>
    /\ \E x \in request[r].locks : lock[x] # r
    /\ \A x, y \in request[r].locks : lock[x] = r /\ lock[y] # r => Rank[x] < Rank[y]

(* The locks are those of what will be written: a pet that the request leaves   *)
(* out is the row's, as long as the form shows its version.                     *)
Covers(r) ==
  LET q == request[r]  b == request[r].booking IN
  /\ q.attendant \in q.locks
  /\ \/ q.pet \in q.locks
     \/ /\ q.pet = Keep /\ q.at \in {"lock", "read"} /\ agenda[b].status # "none"
        /\ Agenda!Found(b) /\ r \notin stale => agenda[b].pet \in q.locks
LocksCover == \A r \in Requests : request[r].at \in {"lock"} \cup Serving => Covers(r)

(* What was looked for and not found is not there. *)
NoConflict(r, b, of) ==
  request[r].status = "active" /\ b # request[r].booking /\ Agenda!TakesTime(b)
  /\ agenda[b][of] = request[r][of] => agenda[b].time \cap request[r].time = {}
Checked ==
  \A r \in Requests, b \in Bookings :
    /\ request[r].at \in {"attendant", "write"} => NoConflict(r, b, "pet")
    /\ request[r].at = "write" => NoConflict(r, b, "attendant")

AgendaInv == AgendaTypeOK /\ Held /\ InOrder /\ LocksCover /\ Checked /\ NoDoubleBooking

(* The agenda begins empty. *)
LEMMA AgendaInit == Agenda!Init => AgendaInv
BY AgendaAssumption, SMT
   DEF Agenda!Init, AgendaInv, AgendaTypeOK, Held, InOrder, LocksCover, Covers, Checked,
   NoDoubleBooking,
       Agenda!NoDoubleBooking, AgendaRows, AgendaRequests, Agenda!NoRow, Agenda!Idle, Serving,
       Resources,
       Agenda!Resources, NoConflict, Agenda!TakesTime, Agenda!Found

(* What a request is while it has asked. *)
LEMMA AskedType ==
  ASSUME AgendaTypeOK, NEW r \in Requests
  PROVE  /\ request[r].at \in {"idle", "form", "lock"} \cup Serving
         /\ request[r].at # "idle" => request[r].booking \in Bookings
         /\ request[r].at \in {"lock"} \cup Serving =>
              request[r] \in Asked
BY DEF AgendaTypeOK, AgendaRequests, Asked, Agenda!Idle, Serving

(* What is read of a row that is there. *)
LEMMA FoundType ==
  ASSUME AgendaTypeOK, NEW b \in Bookings, Agenda!Found(b)
  PROVE  /\ agenda[b].pet \in Pets /\ agenda[b].attendant \in Attendants
         /\ agenda[b].time \in Times /\ agenda[b].status \in {"active", "over"}
BY DEF AgendaTypeOK, AgendaRows, Agenda!NoRow, Agenda!Deleted, Agenda!Found

(* A request that ends gives back its locks, and nobody else's.                *)
LEMMA EndStep ==
  ASSUME AgendaInv, NEW r \in Requests, Agenda!End(r), agenda' = agenda
  PROVE  AgendaInv'
<1> USE DEF AgendaInv
<1>1. request' = [request EXCEPT ![r] = [at |-> "idle"]] /\ stale' = stale \ {r}
      /\ lock' = [x \in Resources |-> IF lock[x] = r THEN Unlocked ELSE lock[x]]
  BY DEF Agenda!End, Agenda!Idle, Agenda!Resources, Resources
<1>2. AgendaTypeOK'  BY <1>1 DEF AgendaTypeOK, AgendaRequests, Agenda!Idle
<1>3. request'[r].at = "idle" /\ \A q \in Requests \ {r} : request'[q] = request[q]
  BY <1>1 DEF AgendaTypeOK
<1>4. \A x \in Resources : lock'[x] # r /\ \A q \in Requests \ {r} : lock'[x] = q <=> lock[x] = q
  BY <1>1, AgendaAssumption DEF AgendaTypeOK
<1>5. Held'  BY <1>3, <1>4, AskedType DEF Held, Serving, Asked
<1>6. InOrder'  BY <1>3, <1>4, AskedType DEF InOrder, Serving, Asked
<1>7. LocksCover'  BY <1>1, <1>3 DEF LocksCover, Covers, Agenda!Found, Serving
<1>8. Checked' /\ NoDoubleBooking'
  BY <1>3 DEF Checked, NoConflict, NoDoubleBooking, Agenda!NoDoubleBooking, Agenda!TakesTime
<1> QED  BY <1>2, <1>5, <1>6, <1>7, <1>8

(* A request asks for its locks, and has none of them. *)
LEMMA AskStep ==
  ASSUME AgendaInv, NEW r \in Requests, NEW b \in Bookings, NEW locks \in SUBSET Resources,
         NEW pet \in Pets \cup {Keep}, NEW attendant \in Attendants, NEW time \in Times,
         NEW status \in {"active", "over"},
         request[r].at \in {"idle", "form"},
         Agenda!Asks(r, b, locks, pet, attendant, time, status),
         UNCHANGED <<agenda, lock, stale>>,
         attendant \in locks,
         \/ pet \in locks
         \/ pet = Keep /\ Agenda!Found(b) /\ agenda[b].pet \in locks
  PROVE  AgendaInv'
<1> USE DEF AgendaInv
<1> DEFINE q == [at |-> "lock", booking |-> b, pet |-> pet, attendant |-> attendant,
                 time |-> time, status |-> status, locks |-> locks]
<1>1. request' = [request EXCEPT ![r] = q]  BY DEF Agenda!Asks
<1>2. q \in AgendaRequests  BY DEF AgendaRequests, Asked
<1>3. AgendaTypeOK'  BY <1>1, <1>2 DEF AgendaTypeOK
<1>4. request'[r] = q /\ \A p \in Requests \ {r} : request'[p] = request[p]
  BY <1>1 DEF AgendaTypeOK
<1>5. \A x \in Resources : lock'[x] = lock[x] /\ lock[x] # r
  BY DEF Held, Serving
<1>6. Held'  BY <1>4, <1>5 DEF Held, Serving
<1>7. InOrder'  BY <1>4, <1>5 DEF InOrder
<1>8. LocksCover'  BY <1>4 DEF LocksCover, Covers, Serving, Agenda!Found
<1>9. Checked' /\ NoDoubleBooking'
  BY <1>4 DEF Checked, NoConflict, NoDoubleBooking, Agenda!NoDoubleBooking, Agenda!TakesTime
<1> QED  BY <1>3, <1>6, <1>7, <1>8, <1>9

(* A request that goes on with the locks it has, the row and the forms as they *)
(* are: what it asks for may be completed from the row.                        *)
LEMMA GoStep ==
  ASSUME AgendaInv, NEW r \in Requests, request[r].at \in Serving,
         NEW q \in Asked, q.at \in Serving, request' = [request EXCEPT ![r] = q],
         UNCHANGED <<agenda, lock, stale>>,
         q.booking = request[r].booking, q.attendant = request[r].attendant,
         q.time = request[r].time, q.status = request[r].status, q.locks = request[r].locks,
         q.pet \in q.locks,
         q.at # "pet" => q.pet = request[r].pet /\ \A b \in Bookings : NoConflict(r, b, "pet"),
         q.at = "write" => \A b \in Bookings : NoConflict(r, b, "attendant"),
         q.at # "read"
  PROVE  AgendaInv'
<1> USE DEF AgendaInv
<1>5. AgendaTypeOK'  BY DEF AgendaTypeOK, AgendaRequests, Asked
<1>6. request'[r] = q /\ \A p \in Requests \ {r} : request'[p] = request[p]
  BY DEF AgendaTypeOK
<1>7. Held'  BY <1>6 DEF Held
<1>8. InOrder'  BY <1>6 DEF InOrder, Serving
<1>9. LocksCover'  BY <1>6 DEF LocksCover, Covers, Agenda!Found
<1>10. Checked'
  <2> SUFFICES ASSUME NEW p \in Requests, NEW b \in Bookings
               PROVE  /\ request'[p].at \in {"attendant", "write"} => NoConflict(p, b, "pet")'
                      /\ request'[p].at = "write" => NoConflict(p, b, "attendant")'
    BY DEF Checked
  <2>1. CASE p = r
    BY <1>6, <2>1 DEF Serving, NoConflict, Agenda!TakesTime
  <2>2. CASE p # r
    BY <1>6, <2>2 DEF Checked, NoConflict, Agenda!TakesTime
  <2> QED  BY <2>1, <2>2
<1>11. NoDoubleBooking'  BY DEF NoDoubleBooking, Agenda!NoDoubleBooking, Agenda!TakesTime
<1> QED  BY <1>5, <1>7, <1>8, <1>9, <1>10, <1>11

(* A lock is taken in order; with the last one the request is served. *)
LEMMA LockStep ==
  ASSUME AgendaInv, NEW r \in Requests, NEW x \in Resources, Agenda!TakeLock(r, x)
  PROVE  AgendaInv'
<1> USE DEF AgendaInv
<1>1. request[r] \in Asked /\ request[r].at = "lock"
  BY AskedType DEF Agenda!TakeLock, Agenda!At
<1>2. /\ x \in request[r].locks /\ lock[x] = Unlocked /\ lock' = [lock EXCEPT ![x] = r]
      /\ \A y \in request[r].locks : lock[y] # r => Rank[x] <= Rank[y]
      /\ agenda' = agenda /\ stale' = stale
  BY DEF Agenda!TakeLock, Agenda!NextLock, Agenda!Missing
<1>3. PICK there \in {"lock", "read", "pet"} :
        /\ request' = [request EXCEPT ![r].at = there]
        /\ there = "lock" => \E y \in request[r].locks : y # x /\ lock[y] # r
        /\ there # "lock" => \A y \in request[r].locks : y = x \/ lock[y] = r
        /\ there = "pet" => agenda[request[r].booking].status = "none"
  <2>1. CASE Agenda!Missing(r) = {x}
    BY <2>1 DEF Agenda!TakeLock, Agenda!Missing, Agenda!Go
  <2>2. CASE Agenda!Missing(r) # {x}
    <3>1. request' = [request EXCEPT ![r].at = "lock"]
      BY <1>1, <2>2 DEF Agenda!TakeLock, AgendaTypeOK, Asked
    <3>2. \E y \in request[r].locks : y # x /\ lock[y] # r
      BY <1>2, <2>2, AgendaAssumption DEF Agenda!Missing
    <3> QED  BY <3>1, <3>2
  <2> QED  BY <2>1, <2>2
<1> DEFINE q == [request[r] EXCEPT !.at = there]
<1>4. q \in Asked
  BY <1>1 DEF Serving, Asked
<1>5. /\ q.at = there /\ q.pet = request[r].pet /\ q.booking = request[r].booking
      /\ q.attendant = request[r].attendant /\ q.time = request[r].time
      /\ q.status = request[r].status /\ q.locks = request[r].locks
  BY <1>1 DEF Asked
<1>6. request' = [request EXCEPT ![r] = q]  BY <1>3 DEF AgendaTypeOK
<1> HIDE DEF q
<1>7. AgendaTypeOK'  BY <1>2, <1>4, <1>6 DEF AgendaTypeOK, AgendaRequests, Asked
<1>8. request'[r] = q /\ \A p \in Requests \ {r} : request'[p] = request[p]
  BY <1>6 DEF AgendaTypeOK
<1>9. lock'[x] = r /\ lock[x] = Unlocked /\ Unlocked \notin Requests
      /\ \A y \in Resources \ {x} : lock'[y] = lock[y]
  BY <1>2, AgendaAssumption DEF AgendaTypeOK
<1>10. Held'  BY <1>1, <1>2, <1>3, <1>5, <1>8, <1>9 DEF Held, Serving
<1>11. InOrder'
  <2> SUFFICES ASSUME NEW p \in Requests, request'[p].at = "lock"
               PROVE  /\ \E y \in request'[p].locks : lock'[y] # p
                      /\ \A y, z \in request'[p].locks :
                           lock'[y] = p /\ lock'[z] # p => Rank[y] < Rank[z]
    BY DEF InOrder
  <2>1. CASE p = r
    <3>1. \A y \in request[r].locks : y \in Resources /\ Rank[y] \in Nat
      BY <1>1, AgendaAssumption DEF Resources, Asked
    <3>2. \A y \in request[r].locks : y # x /\ lock[y] # r => Rank[x] < Rank[y]
      BY <1>2, <3>1, AgendaAssumption DEF Resources
    <3>3. there = "lock"  BY <1>5, <1>8, <2>1
    <3> QED  BY <1>1, <1>3, <1>5, <1>8, <1>9, <2>1, <3>1, <3>2, <3>3 DEF InOrder
  <2>2. CASE p # r
    <3>1. request[p].locks \subseteq Resources /\ request[p].at = "lock"
      BY <1>8, <2>2, AskedType DEF Asked
    <3> QED  BY <1>8, <1>9, <2>2, <3>1 DEF InOrder
  <2> QED  BY <2>1, <2>2
<1>12. LocksCover'  BY <1>1, <1>2, <1>3, <1>5, <1>8 DEF LocksCover, Covers, Agenda!Found, Serving
<1>13. Checked' /\ NoDoubleBooking'
  BY <1>1, <1>2, <1>3, <1>5, <1>8
     DEF Checked, NoConflict, NoDoubleBooking, Agenda!NoDoubleBooking, Agenda!TakesTime
<1> QED  BY <1>7, <1>10, <1>11, <1>12, <1>13

(* update reads the row again: the pet it leaves out is one it has locked. *)
LEMMA ReadAgainStep ==
  ASSUME AgendaInv, NEW r \in Requests, Agenda!ReadAgain(r)
  PROVE  AgendaInv'
<1>1. request[r].at = "read" /\ agenda' = agenda /\ request[r] \in Asked
  BY AskedType DEF Agenda!ReadAgain, Agenda!At, AgendaInv, Serving
<1>2. CASE Agenda!End(r)  BY <1>1, <1>2, EndStep
<1>3. CASE ~Agenda!End(r)
  <2>1. PICK pet : /\ pet = (IF request[r].pet = Keep THEN agenda[request[r].booking].pet
                             ELSE request[r].pet)
                   /\ request' = [request EXCEPT ![r].at = "pet", ![r].pet = pet]
                   /\ Agenda!Found(request[r].booking) /\ r \notin stale
                   /\ UNCHANGED <<lock, stale>>
    BY <1>1, <1>3 DEF Agenda!ReadAgain, Agenda!VersionHolds, AgendaInv, AgendaTypeOK, Asked
  <2>2. pet \in request[r].locks /\ pet \in Pets \cup {Keep}
    <3>1. request[r].booking \in Bookings /\ request[r].locks \subseteq Resources
          /\ request[r].pet \in Pets \cup {Keep} /\ Keep \notin Resources
      BY <1>1, AgendaAssumption DEF Asked, Resources
    <3>2. agenda[request[r].booking].pet \in Pets  BY <2>1, <3>1, FoundType DEF AgendaInv
    <3> QED  BY <1>1, <2>1, <3>1, <3>2 DEF AgendaInv, LocksCover, Covers, Serving
  <2> DEFINE q == [request[r] EXCEPT !.at = "pet", !.pet = pet]
  <2>3. q \in Asked  BY <1>1, <2>2 DEF Asked, Serving
  <2>4. /\ q.at = "pet" /\ q.pet = pet /\ q.booking = request[r].booking
        /\ q.attendant = request[r].attendant /\ q.time = request[r].time
        /\ q.status = request[r].status /\ q.locks = request[r].locks
    BY <1>1 DEF Asked
  <2>5. request' = [request EXCEPT ![r] = q]  BY <2>1 DEF AgendaInv, AgendaTypeOK
  <2>6. UNCHANGED <<agenda, lock, stale>>  BY <1>1, <2>1
  <2> HIDE DEF q
  <2>7. "pet" \in Serving /\ "read" \in Serving  BY DEF Serving
  <2> QED  BY <1>1, <2>2, <2>3, <2>4, <2>5, <2>6, <2>7, GoStep
<1> QED  BY <1>2, <1>3

(* assertNoTimeConflict, one look at a time *)
LEMMA CheckStep ==
  ASSUME AgendaInv, NEW r \in Requests, Agenda!CheckPet(r) \/ Agenda!CheckAttendant(r)
  PROVE  AgendaInv'
<1>1. request[r].at \in {"pet", "attendant"} /\ agenda' = agenda /\ request[r] \in Asked
  BY AskedType DEF Agenda!CheckPet, Agenda!CheckAttendant, Agenda!At, AgendaInv, Serving
<1>2. CASE Agenda!End(r)  BY <1>1, <1>2, EndStep
<1>3. CASE ~Agenda!End(r)
  <2>1. PICK there \in {"attendant", "write"} :
          /\ request' = [request EXCEPT ![r].at = there] /\ UNCHANGED <<lock, stale>>
          /\ there = "attendant" => request[r].at = "pet" /\ ~Agenda!Conflict(r, "pet")
          /\ there = "write" => request[r].at = "attendant" /\ ~Agenda!Conflict(r, "attendant")
    BY <1>1, <1>3 DEF Agenda!CheckPet, Agenda!CheckAttendant, Agenda!At, Agenda!Go
  <2> DEFINE q == [request[r] EXCEPT !.at = there]
  <2>2. q \in Asked  BY <1>1, <2>1 DEF Asked, Serving
  <2>3. /\ q.at = there /\ q.pet = request[r].pet /\ q.booking = request[r].booking
        /\ q.attendant = request[r].attendant /\ q.time = request[r].time
        /\ q.status = request[r].status /\ q.locks = request[r].locks
    BY <1>1 DEF Asked
  <2>4. request' = [request EXCEPT ![r] = q]  BY <2>1 DEF AgendaInv, AgendaTypeOK
  <2>5. UNCHANGED <<agenda, lock, stale>>  BY <1>1, <2>1
  <2> HIDE DEF q
  <2>6. q.pet \in q.locks  BY <1>1, <2>3 DEF AgendaInv, LocksCover, Covers, Serving
  <2>7. \A b \in Bookings : NoConflict(r, b, "pet")
    BY <1>1, <2>1 DEF AgendaInv, Checked, NoConflict, Agenda!Conflict, Asked
  <2>8. there = "write" => \A b \in Bookings : NoConflict(r, b, "attendant")
    BY <1>1, <2>1 DEF NoConflict, Agenda!Conflict, Asked
  <2>9. q.at \in Serving /\ request[r].at \in Serving  BY <1>1, <2>3 DEF Serving
  <2> QED  BY <1>1, <2>2, <2>3, <2>4, <2>5, <2>6, <2>7, <2>8, <2>9, GoStep
<1> QED  BY <1>2, <1>3

(* Of two that are served, one at most has the pet, and one the attendant: what *)
(* one looked for and did not find, the other does not write.                   *)
LEMMA WriteStep ==
  ASSUME AgendaInv, NEW r \in Requests, Agenda!Write(r)
  PROVE  AgendaInv'
<1>1. request[r].at = "write" /\ request[r] \in Asked
  BY AskedType DEF Agenda!Write, Agenda!At, AgendaInv, Serving
<1>2. CASE Agenda!End(r) /\ agenda' = agenda  BY <1>2, EndStep
<1>3. CASE ~(Agenda!End(r) /\ agenda' = agenda)
  <2> DEFINE q == request[r]
             b == request[r].booking
             row == [status |-> q.status, pet |-> q.pet, attendant |-> q.attendant, time |-> q.time]
  <2>1. /\ agenda' = [agenda EXCEPT ![b] = row]
        /\ stale' = (stale \cup {p \in Requests : request[p].at # "idle" /\ request[p].booking = b}) \ {r}
        /\ request' = [request EXCEPT ![r] = [at |-> "idle"]]
        /\ lock' = [x \in Resources |-> IF lock[x] = r THEN Unlocked ELSE lock[x]]
    BY <1>3 DEF Agenda!Write, Agenda!At, Agenda!Idle, Agenda!Resources, Resources
  <2>2. b \in Bookings /\ q.pet \in q.locks /\ q.attendant \in q.locks
        /\ q.pet \in Pets \cup {Keep} /\ q.locks \subseteq Resources
    BY <1>1 DEF AgendaInv, LocksCover, Covers, Serving, Asked
  <2>3. q.pet \in Pets  BY <2>2, AgendaAssumption DEF Resources
  <2>4. row \in AgendaRows  BY <1>1, <2>3 DEF AgendaRows, Asked
  <2>5. /\ row.status = q.status /\ row.pet = q.pet /\ row.attendant = q.attendant
        /\ row.time = q.time /\ q.status # "none" /\ q \in Asked
    BY <1>1 DEF Asked
  <2> HIDE DEF row, q
  <2>6. AgendaTypeOK'
    BY <2>1, <2>4 DEF AgendaInv, AgendaTypeOK, AgendaRequests, Agenda!Idle
  <2>7. request'[r].at = "idle" /\ \A p \in Requests \ {r} : request'[p] = request[p]
    BY <2>1 DEF AgendaInv, AgendaTypeOK
  <2>8. agenda'[b] = row /\ \A c \in Bookings \ {b} : agenda'[c] = agenda[c]
    BY <2>1, <2>2 DEF AgendaInv, AgendaTypeOK
  <2>9. \A x \in Resources : lock'[x] # r /\ \A p \in Requests \ {r} : lock'[x] = p <=> lock[x] = p
    BY <2>1, AgendaAssumption DEF AgendaInv, AgendaTypeOK
  <2>10. \A p \in Requests \ {r} : request[p].booking = b /\ request[p].at # "idle" => p \in stale'
    BY <2>1
  <2>11. \A p \in Requests \ {r} : p \in stale => p \in stale'  BY <2>1
  <2>12. Held'  BY <2>7, <2>9, AskedType DEF AgendaInv, Held, Serving, Asked
  <2>13. InOrder'  BY <2>7, <2>9, AskedType DEF AgendaInv, InOrder, Serving, Asked
  <2>14. LocksCover'
    <3> SUFFICES ASSUME NEW p \in Requests, request'[p].at \in {"lock"} \cup Serving
                 PROVE  Covers(p)'
      BY DEF LocksCover
    <3>1. p # r /\ request'[p] = request[p]  BY <2>7 DEF Serving
    <3>2. request[p] \in Asked  BY <3>1, AskedType DEF AgendaInv
    <3>3. request[p].booking \in Bookings /\ request[p].at # "idle"
      BY <3>1, <3>2 DEF Asked, Serving
    <3>4. CASE request[p].booking = b
      BY <2>5, <2>8, <2>10, <3>1, <3>3, <3>4 DEF AgendaInv, LocksCover, Covers
    <3>5. CASE request[p].booking # b
      BY <2>8, <2>11, <3>1, <3>3, <3>5 DEF AgendaInv, LocksCover, Covers, Agenda!Found
    <3> QED  BY <3>4, <3>5
  <2>15. Checked'
    <3> SUFFICES ASSUME NEW p \in Requests, NEW c \in Bookings
                 PROVE  /\ request'[p].at \in {"attendant", "write"} => NoConflict(p, c, "pet")'
                        /\ request'[p].at = "write" => NoConflict(p, c, "attendant")'
      BY DEF Checked
    <3>1. CASE p = r  BY <2>7, <3>1
    <3>2. CASE p # r /\ c # b
      BY <2>7, <2>8, <3>2 DEF AgendaInv, Checked, NoConflict, Agenda!TakesTime
    <3>3. CASE p # r /\ c = b /\ request[p].at \in {"attendant", "write"}
      <4>1. request[p] \in Asked  BY <3>3, AskedType DEF AgendaInv, Serving
      <4>2. request[p].pet \in request[p].locks /\ request[p].attendant \in request[p].locks
        BY <3>3 DEF AgendaInv, LocksCover, Covers, Serving
      <4>3. lock[request[p].pet] = p /\ lock[request[p].attendant] = p
        BY <3>3, <4>2 DEF AgendaInv, Held, Serving
      <4>4. lock[q.pet] = r /\ lock[q.attendant] = r
        BY <1>1, <2>2 DEF AgendaInv, Held, Serving, q
      <4>5. request[p].pet # q.pet /\ request[p].attendant # q.attendant
        BY <3>3, <4>3, <4>4
      <4> QED  BY <2>5, <2>7, <2>8, <3>3, <4>5 DEF NoConflict
    <3>4. CASE p # r /\ c = b /\ request[p].at \notin {"attendant", "write"}
      BY <2>7, <3>4
    <3> QED  BY <3>1, <3>2, <3>3, <3>4
  <2>16. NoDoubleBooking'
    <3>1. \A c \in Bookings \ {b} : NoConflict(r, c, "pet") /\ NoConflict(r, c, "attendant")
      BY <1>1 DEF AgendaInv, Checked
    <3>2. \A c \in Bookings \ {b} :
            row.status = "active" /\ agenda[c].status = "active"
            /\ (row.pet = agenda[c].pet \/ row.attendant = agenda[c].attendant)
            => row.time \cap agenda[c].time = {}
      BY <2>5, <3>1 DEF NoConflict, Agenda!TakesTime, q
    <3> QED  BY <2>8, <3>2 DEF AgendaInv, NoDoubleBooking, Agenda!NoDoubleBooking,
                               Agenda!TakesTime
  <2> QED  BY <2>6, <2>12, <2>13, <2>14, <2>15, <2>16 DEF AgendaInv
<1> QED  BY <1>2, <1>3

(* A form is opened; or a row goes, which takes no time any more.               *)
LEMMA OpenStep ==
  ASSUME AgendaInv, NEW r \in Requests, NEW b \in Bookings, Agenda!OpenForm(r, b)
  PROVE  AgendaInv'
<1> USE DEF AgendaInv
<1>1. /\ request[r].at = "idle" /\ request' = [request EXCEPT ![r] = [at |-> "form", booking |-> b]]
      /\ agenda' = agenda /\ lock' = lock /\ stale' = stale
  BY DEF Agenda!OpenForm, Agenda!At
<1>2. request'[r].at = "form" /\ \A q \in Requests \ {r} : request'[q] = request[q]
  BY <1>1 DEF AgendaTypeOK
<1>3. AgendaTypeOK'  BY <1>1 DEF AgendaTypeOK, AgendaRequests
<1>4. Held'  BY <1>1, <1>2 DEF Held, Serving
<1>5. InOrder'  BY <1>1, <1>2 DEF InOrder
<1>6. LocksCover'  BY <1>1, <1>2 DEF LocksCover, Covers, Agenda!Found, Serving
<1>7. Checked' /\ NoDoubleBooking'
  BY <1>1, <1>2 DEF Checked, NoConflict, NoDoubleBooking, Agenda!NoDoubleBooking, Agenda!TakesTime
<1> QED  BY <1>3, <1>4, <1>5, <1>6, <1>7

(* A row that is removed takes no time any more. *)
LEMMA RemoveStep ==
  ASSUME AgendaInv, NEW b \in Bookings, Agenda!Remove(b)
  PROVE  AgendaInv'
<1> USE DEF AgendaInv
<1>1. /\ agenda' = [agenda EXCEPT ![b] = [status |-> "deleted"]]
      /\ request' = request /\ lock' = lock /\ stale' = stale
  BY DEF Agenda!Remove, Agenda!Deleted
<1>2. agenda'[b].status = "deleted" /\ \A c \in Bookings \ {b} : agenda'[c] = agenda[c]
  BY <1>1 DEF AgendaTypeOK
<1>3. AgendaTypeOK'  BY <1>1 DEF AgendaTypeOK, AgendaRows, Agenda!Deleted
<1>4. Held' /\ InOrder'  BY <1>1 DEF Held, InOrder
<1>5. LocksCover'
  <2>1. \A r \in Requests : request[r].at \in {"lock"} \cup Serving => request[r].booking \in Bookings
    BY AskedType DEF Asked
  <2> QED  BY <1>1, <1>2, <2>1 DEF LocksCover, Covers, Agenda!Found
<1>6. Checked' /\ NoDoubleBooking'
  BY <1>1, <1>2 DEF Checked, NoConflict, NoDoubleBooking, Agenda!NoDoubleBooking, Agenda!TakesTime
<1> QED  BY <1>3, <1>4, <1>5, <1>6

(* Every step keeps the agenda as it should be. *)
LEMMA AgendaStep == AgendaInv /\ [Agenda!Next]_(Agenda!agendaVars) => AgendaInv'
<1> SUFFICES ASSUME AgendaInv, [Agenda!Next]_(Agenda!agendaVars) PROVE AgendaInv'  OBVIOUS
<1>1. ASSUME NEW r \in Requests, NEW attendant \in Attendants \cup {Keep}, NEW pet \in Pets \cup {Keep},
             NEW time \in Times, NEW status \in {"active", "over"},
             Agenda!Submit(r, pet, attendant, time, status)
      PROVE  AgendaInv'
  <2> DEFINE b == request[r].booking
             attending == IF attendant = Keep THEN agenda[b].attendant ELSE attendant
             animal == IF pet = Keep THEN agenda[b].pet ELSE pet
             locks == {animal, attending, agenda[b].pet, agenda[b].attendant}
  <2>1. /\ request[r].at = "form" /\ Agenda!Found(b) /\ UNCHANGED <<agenda, lock, stale>>
        /\ Agenda!Asks(r, b, locks, pet, attending, time, status)
    BY <1>1 DEF Agenda!Submit, Agenda!At, Agenda!Locks
  <2>2. b \in Bookings  BY <2>1, AskedType DEF AgendaInv
  <2>3. agenda[b].pet \in Pets /\ agenda[b].attendant \in Attendants
    BY <2>1, <2>2, FoundType DEF AgendaInv
  <2>4. attending \in Attendants /\ locks \in SUBSET Resources  BY <2>3 DEF Resources
  <2>5. attending \in locks /\ (pet \in locks \/ (pet = Keep /\ agenda[b].pet \in locks))  OBVIOUS
  <2> HIDE DEF b, attending, locks
  <2> QED  BY <2>1, <2>2, <2>4, <2>5, AskStep
<1>2. ASSUME NEW r \in Requests, NEW b \in Bookings, NEW attendant \in Attendants \cup {Keep},
             NEW pet \in Pets \cup {Keep}, NEW time \in Times, NEW status \in {"active", "over"},
             Keep \notin {pet, attendant}, Agenda!Create(r, b, pet, attendant, time, status)
      PROVE  AgendaInv'
  <2> DEFINE locks == {pet, attendant}
  <2>1. /\ request[r].at = "idle" /\ UNCHANGED <<agenda, lock, stale>>
        /\ Agenda!Asks(r, b, locks, pet, attendant, time, status)
    BY <1>2 DEF Agenda!Create, Agenda!At, Agenda!Locks
  <2>2. locks \in SUBSET Resources /\ attendant \in locks /\ pet \in locks /\ attendant \in Attendants
    BY <1>2 DEF Resources
  <2> HIDE DEF locks
  <2> QED  BY <2>1, <2>2, AskStep
<1>3. ASSUME NEW r \in Requests, NEW x \in Agenda!Resources, Agenda!TakeLock(r, x)
      PROVE  AgendaInv'
  BY <1>3, LockStep DEF Agenda!Resources, Resources
<1>4. ASSUME NEW r \in Requests,
             \/ Agenda!ReadAgain(r) \/ Agenda!CheckPet(r) \/ Agenda!CheckAttendant(r)
             \/ Agenda!Write(r)
      PROVE  AgendaInv'
  BY <1>4, ReadAgainStep, CheckStep, WriteStep
<1>5. ASSUME NEW r \in Requests, Agenda!GiveUp(r) PROVE AgendaInv'
  BY <1>5, EndStep DEF Agenda!GiveUp
<1>6. ASSUME NEW b \in Bookings, Agenda!Remove(b) PROVE AgendaInv'  BY <1>6, RemoveStep
<1>7. ASSUME NEW b \in Bookings, NEW r \in Requests, Agenda!OpenForm(r, b) PROVE AgendaInv'
  BY <1>7, OpenStep
<1>8. CASE UNCHANGED Agenda!agendaVars
  <2>1. agenda' = agenda /\ lock' = lock /\ request' = request /\ stale' = stale
    BY <1>8 DEF Agenda!agendaVars
  <2> QED  BY <2>1
       DEF AgendaInv, AgendaTypeOK, Held, InOrder, LocksCover, Covers, Checked, NoConflict,
       NoDoubleBooking,
           Agenda!NoDoubleBooking, Agenda!TakesTime, Agenda!Found
<1> QED  BY <1>1, <1>2, <1>3, <1>4, <1>5, <1>6, <1>7, <1>8 DEF Agenda!Next

(* No pet and no attendant is booked twice for the same hour, for any number of *)
(* requests, appointments and hours (withScheduleLocks, assertNoTimeConflict,   *)
(* the version in the WHERE clause of update).                                  *)
THEOREM NoDoubleBookingHolds == Agenda!Spec => []NoDoubleBooking
<1>1. AgendaInv => NoDoubleBooking  BY DEF AgendaInv
<1> QED  BY <1>1, AgendaInit, AgendaStep, PTL DEF Agenda!Spec

(* Of the locks that are missing one comes first. *)
LEMMA NextLockExists ==
  ASSUME AgendaInv, NEW r \in Requests, request[r].at = "lock"
  PROVE  \E x \in Resources : Agenda!NextLock(r, x)
<1> DEFINE M == {x \in request[r].locks : lock[x] # r}
           T == {Rank[x] : x \in M}
<1>1. M # {} /\ M \subseteq Resources
  <2>1. request[r] \in Asked  BY AskedType DEF AgendaInv
  <2> QED  BY <2>1 DEF AgendaInv, InOrder, Asked
<1>2. \A x \in M : Rank[x] \in Nat  BY <1>1, AgendaAssumption DEF Resources
<1>3. T \subseteq Nat /\ T # {}  BY <1>1, <1>2
<1>4. PICK n \in T : \A m \in T : n <= m  BY <1>3, NatMin
<1>5. PICK x \in M : \A y \in M : Rank[x] <= Rank[y]  BY <1>4
<1> QED  BY <1>1, <1>5 DEF Agenda!NextLock, Agenda!Missing

(* The holder of the highest lock that is held waits for none: nobody holds    *)
(* the next one of a request that has it.                                       *)
THEOREM LocksGrantedHolds == Agenda!Spec => []LocksGranted
<1>1. AgendaInv => LocksGranted
  <2> SUFFICES ASSUME AgendaInv, NEW p \in Requests, request[p].at = "lock",
                      \A r \in Requests : request[r].at \notin Serving
               PROVE  \E r \in Requests : /\ request[r].at = "lock"
                                          /\ \E x \in Resources : Agenda!NextLock(r, x) /\ lock[x] = Unlocked
    BY DEF LocksGranted, Agenda!LocksGranted, Agenda!At, Serving, Resources, Agenda!Resources
  <2> DEFINE H == {x \in Resources : lock[x] # Unlocked}
  <2>1. CASE H = {}  BY <2>1, NextLockExists
  <2>2. CASE H # {}
    <3>1. \A x \in H : Rank[x] \in Nat  BY AgendaAssumption DEF Resources
    <3>2. IsFiniteSet(H)  BY AgendaAssumption, FS_Subset DEF Resources
    <3>3. PICK x \in H : \A y \in H : Rank[y] <= Rank[x]  BY <2>2, <3>1, <3>2, Highest
    <3>4. PICK r \in Requests : lock[x] = r  BY <3>3 DEF AgendaInv, AgendaTypeOK
    <3>5. request[r].at = "lock" /\ x \in request[r].locks
      BY <3>3, <3>4 DEF AgendaInv, Held, Serving
    <3>6. PICK y \in Resources : Agenda!NextLock(r, y)  BY <3>5, NextLockExists
    <3>7. Rank[x] < Rank[y]
      BY <3>4, <3>5, <3>6 DEF AgendaInv, InOrder, Agenda!NextLock, Agenda!Missing
    <3>8. y \notin H
      BY <3>1, <3>3, <3>7
    <3> QED  BY <3>5, <3>6, <3>8
  <2> QED  BY <2>1, <2>2
<1> QED  BY <1>1, AgendaInit, AgendaStep, PTL DEF Agenda!Spec

-----------------------------------------------------------------------------
(* ImageCoordinator: no place is lost, none is kept from who may take it, and *)
(* a tenant's requests start in the order they came. The heart is what a pass *)
(* over the queue does, by induction over the queue.                          *)

(* Which counting of an instance is the counting.                              *)
LEMMA CoordinatorCounts == \A S : Coordinator!Cardinality(S) = Cardinality(S)
BY Zenon DEF Coordinator!Cardinality, Cardinality

(* The slots when W works.                                                     *)
OfTenant(W, t) == {p \in W : TenantOf[p] = t}
SlotsOf(W) ==
  [active |-> Cardinality(W),
   byTenant |-> [t \in Coordinator!Tenants |-> Cardinality(OfTenant(W, t))]]
WithinLimits(W) ==
  Cardinality(W) <= Concurrency /\ \A t \in Coordinator!Tenants : Cardinality(OfTenant(W, t)) <= PerTenant

(* Where all are finitely many, so are those of a set and those of a tenant   *)
(* in it.                                                                     *)
LEMMA Counting ==
  ASSUME NEW W \in SUBSET Pipelines
  PROVE  /\ IsFiniteSet(W) /\ Cardinality(W) \in Nat
         /\ \A t : IsFiniteSet(OfTenant(W, t)) /\ Cardinality(OfTenant(W, t)) \in Nat
<1>1. IsFiniteSet(W)  BY CoordinatorAssumption, FS_Subset
<1>2. \A t : OfTenant(W, t) \in SUBSET W  BY DEF OfTenant
<1>3. \A t : IsFiniteSet(OfTenant(W, t))  BY <1>1, <1>2, FS_Subset
<1> QED  BY <1>1, <1>3, FS_CardinalityType

(* A start takes a slot, of all and of the tenant.                             *)
LEMMA StartedSlots ==
  ASSUME NEW W \in SUBSET Pipelines, NEW p \in Pipelines \ W
  PROVE  /\ Coordinator!Started(SlotsOf(W), TenantOf[p]) = SlotsOf(W \cup {p})
         /\ WithinLimits(W) /\ Coordinator!CanStart(SlotsOf(W), TenantOf[p]) => WithinLimits(W \cup {p})
<1>1. Cardinality(W \cup {p}) = Cardinality(W) + 1  BY Counting, FS_AddElement
<1>2. TenantOf[p] \in Coordinator!Tenants  BY DEF Coordinator!Tenants
<1>3. \A t : t # TenantOf[p] => OfTenant(W \cup {p}, t) = OfTenant(W, t)  BY DEF OfTenant
<1>4. Cardinality(OfTenant(W \cup {p}, TenantOf[p])) = Cardinality(OfTenant(W, TenantOf[p])) + 1
  <2>1. OfTenant(W \cup {p}, TenantOf[p]) = OfTenant(W, TenantOf[p]) \cup {p}  BY DEF OfTenant
  <2>2. p \notin OfTenant(W, TenantOf[p])  BY DEF OfTenant
  <2> QED  BY <2>1, <2>2, Counting, FS_AddElement
<1>5. Coordinator!Started(SlotsOf(W), TenantOf[p]) = SlotsOf(W \cup {p})
  <2> DEFINE b == [t \in Coordinator!Tenants |-> Cardinality(OfTenant(W, t))]
             c == [t \in Coordinator!Tenants |-> Cardinality(OfTenant(W \cup {p}, t))]
  <2>1. [b EXCEPT ![TenantOf[p]] = @ + 1] = c  BY <1>2, <1>3, <1>4
  <2> QED  BY <1>1, <2>1 DEF Coordinator!Started, SlotsOf
<1>6. ASSUME WithinLimits(W), Coordinator!CanStart(SlotsOf(W), TenantOf[p]) PROVE WithinLimits(W \cup {p})
  <2>1. Cardinality(W) < Concurrency /\ Cardinality(OfTenant(W, TenantOf[p])) < PerTenant
    BY <1>2, <1>6 DEF Coordinator!CanStart, SlotsOf
  <2>2. Cardinality(W \cup {p}) <= Concurrency
    BY <1>1, <2>1, Counting, CoordinatorAssumption
  <2>3. \A t \in Coordinator!Tenants : Cardinality(OfTenant(W \cup {p}, t)) <= PerTenant
    BY <1>3, <1>4, <1>6, <2>1, Counting, CoordinatorAssumption DEF WithinLimits
  <2> QED  BY <2>2, <2>3 DEF WithinLimits
<1> QED  BY <1>5, <1>6

(* A release gives both back.                                                  *)
LEMMA ReleasedSlots ==
  ASSUME NEW W \in SUBSET Pipelines, NEW p \in W, NEW slots, slots = SlotsOf(W), WithinLimits(W)
  PROVE  /\ [active |-> slots.active - 1,
             byTenant |-> [slots.byTenant EXCEPT ![TenantOf[p]] = @ - 1]] = SlotsOf(W \ {p})
         /\ WithinLimits(W \ {p})
<1>1. Cardinality(W \ {p}) = Cardinality(W) - 1  BY Counting, FS_RemoveElement
<1>2. TenantOf[p] \in Coordinator!Tenants  BY DEF Coordinator!Tenants
<1>3. \A t : t # TenantOf[p] => OfTenant(W \ {p}, t) = OfTenant(W, t)  BY DEF OfTenant
<1>4. Cardinality(OfTenant(W \ {p}, TenantOf[p])) = Cardinality(OfTenant(W, TenantOf[p])) - 1
  <2>1. OfTenant(W \ {p}, TenantOf[p]) = OfTenant(W, TenantOf[p]) \ {p}  BY DEF OfTenant
  <2>2. p \in OfTenant(W, TenantOf[p])  BY DEF OfTenant
  <2>3. IsFiniteSet(OfTenant(W, TenantOf[p]))  BY Counting
  <2>4. Cardinality(OfTenant(W, TenantOf[p]) \ {p}) = Cardinality(OfTenant(W, TenantOf[p])) - 1
    BY <2>2, <2>3, FS_RemoveElement
  <2> QED  BY <2>1, <2>4
<1>5. [slots.byTenant EXCEPT ![TenantOf[p]] = @ - 1]
        = [t \in Coordinator!Tenants |-> Cardinality(OfTenant(W \ {p}, t))]
  <2> DEFINE b == [t \in Coordinator!Tenants |-> Cardinality(OfTenant(W, t))]
             c == [t \in Coordinator!Tenants |-> Cardinality(OfTenant(W \ {p}, t))]
  <2>1. [b EXCEPT ![TenantOf[p]] = @ - 1] = c  BY <1>2, <1>3, <1>4
  <2>2. slots.byTenant = b  BY DEF SlotsOf
  <2> QED  BY <2>1, <2>2
<1>6. slots.active = Cardinality(W)  BY DEF SlotsOf
<1>7. WithinLimits(W \ {p})
  <2>1. Cardinality(W \ {p}) <= Concurrency
    BY <1>1, Counting, CoordinatorAssumption DEF WithinLimits
  <2>2. \A t \in Coordinator!Tenants : Cardinality(OfTenant(W \ {p}, t)) <= PerTenant
    BY <1>3, <1>4, Counting, CoordinatorAssumption DEF WithinLimits
  <2> QED  BY <2>1, <2>2 DEF WithinLimits
<1> QED  BY <1>1, <1>5, <1>6, <1>7 DEF SlotsOf

(* Who can start beside many can start beside fewer.                           *)
LEMMA StartsBesideFewer ==
  ASSUME NEW V \in SUBSET Pipelines, NEW W \in SUBSET V, NEW t \in Coordinator!Tenants,
         Coordinator!CanStart(SlotsOf(V), t)
  PROVE  Coordinator!CanStart(SlotsOf(W), t)
<1>1. Cardinality(V) < Concurrency /\ Cardinality(OfTenant(V, t)) < PerTenant
  BY DEF Coordinator!CanStart, SlotsOf
<1>2. OfTenant(W, t) \in SUBSET OfTenant(V, t)  BY DEF OfTenant
<1>3. Cardinality(W) <= Cardinality(V) /\ Cardinality(OfTenant(W, t)) <= Cardinality(OfTenant(V, t))
  BY <1>2, Counting, FS_Subset
<1>4. W \in SUBSET Pipelines  OBVIOUS
<1>5. Cardinality(W) < Concurrency /\ Cardinality(OfTenant(W, t)) < PerTenant
  BY <1>1, <1>3, <1>4, Counting, CoordinatorAssumption
<1> QED  BY <1>5 DEF Coordinator!CanStart, SlotsOf

-----------------------------------------------------------------------------
(* The pass over the queue.  The recursive function is defined: by the least   *)
(* length for which it would not be.                                           *)
PassOf(f, n, slots, q) ==
  f = [i \in 0..n |-> IF i = 0 THEN [slots |-> slots, go |-> {}, rest |-> <<>>]
                               ELSE Coordinator!Pass(f[i - 1], q[i])]
(* Such a function exists.                                                    *)
LEMMA PassExists ==
  ASSUME NEW slots, NEW q, NEW n \in Nat
  PROVE  \E f : PassOf(f, n, slots, q)
<1> DEFINE Bad == {m \in Nat : ~\E f : PassOf(f, m, slots, q)}
<1> SUFFICES ASSUME Bad # {} PROVE FALSE  OBVIOUS
<1>1. PICK m \in Bad : \A k \in Bad : m <= k  BY NatMin
<1>2. m \in Nat /\ ~\E f : PassOf(f, m, slots, q)  BY <1>1
<1>3. CASE m = 0
  <2> DEFINE f == [i \in 0..0 |-> [slots |-> slots, go |-> {}, rest |-> <<>>]]
  <2>1. PassOf(f, 0, slots, q)  BY DEF PassOf
  <2> QED  BY <1>2, <1>3, <2>1
<1>4. CASE m # 0
  <2>1. m - 1 \in Nat /\ m - 1 \notin Bad  BY <1>1, <1>2, <1>4
  <2>2. PICK f : PassOf(f, m - 1, slots, q)  BY <2>1
  <2> DEFINE g == [i \in 0..m |-> IF i = m THEN Coordinator!Pass(f[m - 1], q[m]) ELSE f[i]]
  <2>3. \A i \in 0..m : i # m => i \in 0..(m - 1) /\ g[i] = f[i]  BY <1>2
  <2>4. \A i \in 1..m : g[i - 1] = f[i - 1]  BY <1>2
  <2>5. \A i \in 0..m : g[i] = IF i = 0 THEN [slots |-> slots, go |-> {}, rest |-> <<>>]
                                        ELSE Coordinator!Pass(g[i - 1], q[i])
    <3> SUFFICES ASSUME NEW i \in 0..m
                 PROVE  g[i] = IF i = 0 THEN [slots |-> slots, go |-> {}, rest |-> <<>>]
                                        ELSE Coordinator!Pass(g[i - 1], q[i])
      OBVIOUS
    <3>1. CASE i = m
      <4>1. g[i] = Coordinator!Pass(f[m - 1], q[m]) /\ i \in 1..m  BY <1>2, <1>4, <3>1
      <4> QED  BY <1>4, <2>4, <3>1, <4>1
    <3>2. CASE i # m /\ i = 0
      <4>1. f[0] = [slots |-> slots, go |-> {}, rest |-> <<>>]  BY <2>1, <2>2 DEF PassOf
      <4> QED  BY <2>3, <3>2, <4>1
    <3>3. CASE i # m /\ i # 0
      <4>1. f[i] = Coordinator!Pass(f[i - 1], q[i])  BY <2>2, <2>3, <3>3 DEF PassOf
      <4>2. i \in 1..m  BY <1>2, <3>3
      <4> QED  BY <2>3, <2>4, <3>3, <4>1, <4>2
    <3> QED  BY <3>1, <3>2, <3>3
  <2> HIDE DEF g
  <2>6. g = [i \in 0..m |-> g[i]]  BY DEF g
  <2>7. PassOf(g, m, slots, q)  BY <2>5, <2>6, Zenon DEF PassOf
  <2> QED  BY <1>2, <2>7
<1> QED  BY <1>3, <1>4

(* The passes one at a time: who can start does, and who cannot stays in the  *)
(* queue.                                                                     *)
LEMMA PassSteps ==
  ASSUME NEW slots, NEW S, NEW q \in Seq(S)
  PROVE  \E f : /\ f[0] = [slots |-> slots, go |-> {}, rest |-> <<>>]
                /\ \A i \in 1..Len(q) : f[i] = Coordinator!Pass(f[i - 1], q[i])
                /\ Coordinator!Passes(slots, q) = f[Len(q)]
<1> DEFINE f == CHOOSE f : PassOf(f, Len(q), slots, q)
<1>1. Len(q) \in Nat  OBVIOUS
<1>2. PassOf(f, Len(q), slots, q)  BY <1>1, PassExists
<1>3. Coordinator!Passes(slots, q) = f[Len(q)]  BY Zenon DEF Coordinator!Passes, PassOf
<1> HIDE DEF f
<1>4. f[0] = [slots |-> slots, go |-> {}, rest |-> <<>>]  BY <1>1, <1>2 DEF PassOf
<1>5. ASSUME NEW i \in 1..Len(q) PROVE f[i] = Coordinator!Pass(f[i - 1], q[i])
  <2>1. i \in 0..Len(q) /\ i # 0  BY <1>1
  <2> QED  BY <1>2, <2>1 DEF PassOf
<1> QED  BY <1>3, <1>4, <1>5

(* What a pass has seen: W are those that worked before it; go, that it        *)
(* started, and rest, that it left, are the first i of the queue; of rest      *)
(* nobody can start, and of one tenant the earlier go first.                   *)
Seen(acc, W, q, i, go, rest) ==
  /\ acc = [slots |-> SlotsOf(W \cup go), go |-> go, rest |-> rest] /\ WithinLimits(W \cup go)
  /\ Len(rest) <= i /\ \A j, k \in 1..Len(rest) : rest[j] = rest[k] => j = k
  /\ {rest[j] : j \in 1..Len(rest)} = {q[k] : k \in 1..i} \ go /\ go \subseteq {q[k] : k \in 1..i}
  /\ \A k \in 1..i : q[k] \notin go =>
       ~Coordinator!CanStart(SlotsOf(W \cup go), TenantOf[q[k]])
  /\ \A k \in 1..i, l \in 1..i :
       k < l /\ TenantOf[q[k]] = TenantOf[q[l]] /\ q[l] \in go => q[k] \in go

(* A pass over the queue, by induction over how far it has come: the places   *)
(* are those of who worked and who was started, who is left could not start   *)
(* and stands in the order of arrival, and of one tenant nobody is started    *)
(* before one that came earlier.                                              *)
LEMMA PassSees ==
  ASSUME NEW W \in SUBSET Pipelines, WithinLimits(W), NEW q \in Seq(Pipelines \ W),
         \A k, l \in 1..Len(q) : q[k] = q[l] => k = l,
         NEW f, f[0] = [slots |-> SlotsOf(W), go |-> {}, rest |-> <<>>],
         \A i \in 1..Len(q) : f[i] = Coordinator!Pass(f[i - 1], q[i])
  PROVE  \E go \in SUBSET Pipelines, rest \in Seq(Pipelines) : Seen(f[Len(q)], W, q, Len(q), go, rest)
<1> DEFINE Sees(i) == \E go \in SUBSET Pipelines, rest \in Seq(Pipelines) : Seen(f[i], W, q, i, go, rest)
           Bad == {i \in 0..Len(q) : ~Sees(i)}
<1>0. Len(q) \in Nat /\ \A k \in 1..Len(q) : q[k] \in Pipelines /\ q[k] \notin W  OBVIOUS
<1> SUFFICES ASSUME Bad # {} PROVE FALSE  BY <1>0
<1>1. PICK i \in Bad : \A k \in Bad : i <= k
  <2>1. Bad \subseteq Nat  OBVIOUS
  <2> HIDE DEF Bad
  <2> QED  BY <2>1, NatMin
<1>2. i \in 0..Len(q) /\ ~Sees(i)  BY <1>1
<1>3. CASE i = 0
  <2>1. W \cup {} = W  OBVIOUS
  <2>2. f[0] = [slots |-> SlotsOf(W \cup {}), go |-> {}, rest |-> <<>>] /\ WithinLimits(W \cup {})
    BY <2>1
  <2>3. Len(<<>>) = 0 /\ {<<>>[j] : j \in 1..0} = {} /\ {q[k] : k \in 1..0} = {}  OBVIOUS
  <2>4. Seen(f[0], W, q, 0, {}, <<>>)  BY <2>2, <2>3 DEF Seen
  <2>5. <<>> \in Seq(Pipelines)  OBVIOUS
  <2> QED  BY <1>2, <1>3, <2>4, <2>5
<1>4. CASE i # 0
  <2>1. i \in 1..Len(q) /\ i - 1 \in 0..Len(q) /\ i - 1 \notin Bad  BY <1>0, <1>1, <1>2, <1>4
  <2>2. PICK go \in SUBSET Pipelines, rest \in Seq(Pipelines) : Seen(f[i - 1], W, q, i - 1, go, rest)
    BY <2>1
  <2>s. /\ f[i - 1] = [slots |-> SlotsOf(W \cup go), go |-> go, rest |-> rest]
        /\ WithinLimits(W \cup go) /\ Len(rest) <= i - 1
        /\ \A j, k \in 1..Len(rest) : rest[j] = rest[k] => j = k
    BY <2>2 DEF Seen
  <2>v. \A j, k \in 1..Len(rest) : rest[j] = rest[k] => j = k  BY <2>2 DEF Seen
  <2>t. /\ {rest[j] : j \in 1..Len(rest)} = {q[k] : k \in 1..(i - 1)} \ go
        /\ go \subseteq {q[k] : k \in 1..(i - 1)}
    BY <2>2 DEF Seen
  <2>u. /\ \A k \in 1..(i - 1) : q[k] \notin go =>
             ~Coordinator!CanStart(SlotsOf(W \cup go), TenantOf[q[k]])
        /\ \A k \in 1..(i - 1), l \in 1..(i - 1) :
             k < l /\ TenantOf[q[k]] = TenantOf[q[l]] /\ q[l] \in go => q[k] \in go
    BY <2>2 DEF Seen
  <2>3. q[i] \in Pipelines /\ q[i] \notin W \cup go /\ \A k \in 1..(i - 1) : q[k] # q[i]
    <3>1. \A k \in 1..(i - 1) : q[k] # q[i] /\ k \in 1..Len(q)  BY <1>0, <2>1
    <3>2. q[i] \notin go  BY <2>t, <3>1
    <3> QED  BY <1>0, <2>1, <3>1, <3>2
  <2>4. f[i] = Coordinator!Pass([slots |-> SlotsOf(W \cup go), go |-> go, rest |-> rest], q[i])
    BY <2>1, <2>s
  <2>5. TenantOf[q[i]] \in Coordinator!Tenants  BY <2>3 DEF Coordinator!Tenants
  <2>6. CASE Coordinator!CanStart(SlotsOf(W \cup go), TenantOf[q[i]])
    <3> DEFINE now == go \cup {q[i]}
    <3>1. W \cup now = (W \cup go) \cup {q[i]}  OBVIOUS
    <3>2. /\ Coordinator!Started(SlotsOf(W \cup go), TenantOf[q[i]]) = SlotsOf(W \cup now)
          /\ WithinLimits(W \cup now)
      <4>1. W \cup go \in SUBSET Pipelines /\ q[i] \in Pipelines \ (W \cup go)  BY <2>3
      <4>2. /\ Coordinator!Started(SlotsOf(W \cup go), TenantOf[q[i]])
                  = SlotsOf((W \cup go) \cup {q[i]})
            /\ WithinLimits((W \cup go) \cup {q[i]})
        BY <2>s, <2>6, <4>1, StartedSlots
      <4> QED  BY <3>1, <4>2
    <3>3. f[i] = [slots |-> SlotsOf(W \cup now), go |-> now, rest |-> rest]
      BY <2>4, <2>6, <3>2 DEF Coordinator!Pass
    <3>4. \A k \in 1..(i - 1) : q[k] \notin go => TenantOf[q[k]] # TenantOf[q[i]]
      BY <2>u, <2>6
    <3>5. \A k \in 1..i : q[k] \notin now => ~Coordinator!CanStart(SlotsOf(W \cup now), TenantOf[q[k]])
      <4> SUFFICES ASSUME NEW k \in 1..i, q[k] \notin now,
                          Coordinator!CanStart(SlotsOf(W \cup now), TenantOf[q[k]])
                   PROVE  FALSE
        OBVIOUS
      <4>1. k \in 1..(i - 1) /\ q[k] \notin go  BY <2>1
      <4>2. TenantOf[q[k]] \in Coordinator!Tenants  BY <1>0, <2>1 DEF Coordinator!Tenants
      <4>3. W \cup now \in SUBSET Pipelines /\ W \cup go \in SUBSET (W \cup now)  BY <2>3
      <4>4. Coordinator!CanStart(SlotsOf(W \cup go), TenantOf[q[k]])
        BY <4>2, <4>3, StartsBesideFewer
      <4> QED  BY <2>u, <4>1, <4>4
    <3>6. \A k \in 1..i, l \in 1..i :
            k < l /\ TenantOf[q[k]] = TenantOf[q[l]] /\ q[l] \in now => q[k] \in now
      <4> SUFFICES ASSUME NEW k \in 1..i, NEW l \in 1..i, k < l, TenantOf[q[k]] = TenantOf[q[l]],
                          q[l] \in now
                   PROVE  q[k] \in now
        OBVIOUS
      <4>1. k \in 1..(i - 1)  BY <2>1
      <4>2. CASE l = i  BY <3>4, <4>1, <4>2
      <4>3. CASE l # i
        <5>1. l \in 1..(i - 1) /\ q[l] \in go  BY <2>1, <2>3, <4>3
        <5> QED  BY <2>u, <4>1, <5>1
      <4> QED  BY <4>2, <4>3
    <3>7. /\ {q[k] : k \in 1..i} = {q[k] : k \in 1..(i - 1)} \cup {q[i]}
          /\ q[i] \notin {q[k] : k \in 1..(i - 1)}
      BY <2>1, <2>3
    <3>8. /\ {rest[j] : j \in 1..Len(rest)} = {q[k] : k \in 1..i} \ now
          /\ now \subseteq {q[k] : k \in 1..i}
      BY <2>t, <3>7
    <3>9. Len(rest) <= i  BY <2>1, <2>s
    <3>10. now \in SUBSET Pipelines  BY <2>3
    <3> HIDE DEF now
    <3>11. Seen(f[i], W, q, i, now, rest)
      BY <2>s, <3>2, <3>3, <3>5, <3>6, <3>8, <3>9 DEF Seen
    <3> QED  BY <1>2, <3>10, <3>11
  <2>7. CASE ~Coordinator!CanStart(SlotsOf(W \cup go), TenantOf[q[i]])
    <3> DEFINE left == Append(rest, q[i])
    <3>1. f[i] = [slots |-> SlotsOf(W \cup go), go |-> go, rest |-> left]
      BY <2>4, <2>7 DEF Coordinator!Pass
    <3>2. /\ left \in Seq(Pipelines) /\ Len(left) = Len(rest) + 1 /\ left[Len(left)] = q[i]
          /\ \A j \in 1..Len(rest) : left[j] = rest[j]
      BY <2>3
    <3>3. /\ {q[k] : k \in 1..i} = {q[k] : k \in 1..(i - 1)} \cup {q[i]}
          /\ q[i] \notin {q[k] : k \in 1..(i - 1)}
      BY <2>1, <2>3
    <3>4. {left[j] : j \in 1..Len(left)} = {rest[j] : j \in 1..Len(rest)} \cup {q[i]}
      BY <3>2
    <3> HIDE DEF left
    <3>5. {left[j] : j \in 1..Len(left)} = {q[k] : k \in 1..i} \ go /\ go \subseteq {q[k] : k \in 1..i}
      <4> DEFINE before == {q[k] : k \in 1..(i - 1)}
      <4>1. /\ {rest[j] : j \in 1..Len(rest)} = before \ go /\ go \subseteq before
            /\ {q[k] : k \in 1..i} = before \cup {q[i]} /\ q[i] \notin before
        BY <2>t, <2>3, <3>3
      <4> DEFINE kept == {left[j] : j \in 1..Len(left)}
                 was  == {rest[j] : j \in 1..Len(rest)}
                 now  == {q[k] : k \in 1..i}
      <4>2. kept = was \cup {q[i]}  BY <3>4
      <4> HIDE DEF before, kept, was, now
      <4>3. kept = now \ go /\ go \subseteq now
        <5>1. was = before \ go /\ go \subseteq before /\ now = before \cup {q[i]} /\ q[i] \notin before
          BY <4>1 DEF was, now
        <5> QED  BY <4>2, <5>1
      <4> QED  BY <4>3 DEF kept, now
    <3>6. \A j, k \in 1..Len(left) : left[j] = left[k] => j = k
      <4>1. \A j \in 1..Len(rest) : rest[j] # q[i]  BY <2>t, <3>3
      <4>2. Len(rest) \in Nat  OBVIOUS
      <4>3. ASSUME NEW j \in 1..Len(left), NEW k \in 1..Len(left), left[j] = left[k], j < k
            PROVE  FALSE
        <5>1. j \in 1..Len(rest) /\ left[j] = rest[j]  BY <3>2, <4>2, <4>3
        <5>2. CASE k = Len(left)  BY <3>2, <4>1, <4>3, <5>1, <5>2
        <5>3. CASE k # Len(left)
          <6>1. k \in 1..Len(rest) /\ left[k] = rest[k]  BY <3>2, <4>2, <5>3
          <6>2. rest[j] = rest[k]  BY <4>3, <5>1, <6>1
          <6>3. j = k  BY <2>v, <5>1, <6>1, <6>2
          <6> QED  BY <4>2, <4>3, <6>3
        <5> QED  BY <5>2, <5>3
      <4> QED  BY <3>2, <4>2, <4>3
    <3>7. Len(left) <= i  BY <2>1, <2>s, <3>2
    <3>8. \A k \in 1..i : q[k] \notin go => ~Coordinator!CanStart(SlotsOf(W \cup go), TenantOf[q[k]])
      <4> SUFFICES ASSUME NEW k \in 1..i, q[k] \notin go
                   PROVE  ~Coordinator!CanStart(SlotsOf(W \cup go), TenantOf[q[k]])
        OBVIOUS
      <4>1. CASE k = i  BY <2>7, <4>1
      <4>2. CASE k # i
        <5>1. k \in 1..(i - 1)  BY <2>1, <4>2
        <5> QED  BY <2>u, <5>1
      <4> QED  BY <4>1, <4>2
    <3>9. \A k \in 1..i, l \in 1..i :
            k < l /\ TenantOf[q[k]] = TenantOf[q[l]] /\ q[l] \in go => q[k] \in go
      <4> SUFFICES ASSUME NEW k \in 1..i, NEW l \in 1..i, k < l, TenantOf[q[k]] = TenantOf[q[l]],
                          q[l] \in go
                   PROVE  q[k] \in go
        OBVIOUS
      <4>1. l # i  BY <2>3
      <4>2. k \in 1..(i - 1) /\ l \in 1..(i - 1)  BY <2>1, <4>1
      <4> QED  BY <2>u, <4>2
    <3>10. Seen(f[i], W, q, i, go, left)
      BY <2>s, <3>1, <3>5, <3>6, <3>7, <3>8, <3>9 DEF Seen
    <3> QED  BY <1>2, <3>2, <3>10
  <2> QED  BY <2>6, <2>7
<1> QED  BY <1>3, <1>4

-----------------------------------------------------------------------------
Steps == {"idle", "queued", "working"}
WorkingIn(where) == {p \in Pipelines : where[p] = "working"}
QueuedIn(where) == {p \in Pipelines : where[p] = "queued"}

(* A queue of different waiters, who are those that wait.                      *)
Lists(q, where) ==
  /\ \A j, k \in 1..Len(q) : q[j] = q[k] => j = k
  /\ {q[j] : j \in 1..Len(q)} = QueuedIn(where)
Waiting(slots, q) ==
  \A k \in 1..Len(q) : ~Coordinator!CanStart(slots, TenantOf[q[k]])

(* Whoever drain starts was waiting, and of one tenant those before him start  *)
(* with him; whoever it leaves cannot start.                                   *)
LEMMA DrainStep ==
  ASSUME NEW where \in [Pipelines -> Steps], NEW q \in Seq(Pipelines), Lists(q, where),
         NEW slots, slots = SlotsOf(WorkingIn(where)), WithinLimits(WorkingIn(where)),
         Coordinator!Drain(slots, q, where)
  PROVE  /\ at' \in [Pipelines -> Steps] /\ queue' \in Seq(Pipelines)
         /\ Coordinator!Slots' = SlotsOf(WorkingIn(at')) /\ WithinLimits(WorkingIn(at'))
         /\ Lists(queue', at') /\ Len(queue') <= Len(q) /\ Waiting(Coordinator!Slots', queue')
         /\ \A k \in 1..Len(q), l \in 1..Len(q) :
              k < l /\ TenantOf[q[k]] = TenantOf[q[l]] /\ at'[q[l]] = "working"
              => at'[q[k]] = "working"
         /\ \A p \in Pipelines : at'[p] = "working" /\ where[p] # "working" =>
              \E l \in 1..Len(q) : q[l] = p
<1> DEFINE W == WorkingIn(where)
<1>1. W \in SUBSET Pipelines  BY DEF WorkingIn
<1>2. Len(q) \in Nat /\ \A k \in 1..Len(q) : q[k] \in Pipelines /\ where[q[k]] = "queued"
  BY DEF Lists, QueuedIn
<1>3. q \in Seq(Pipelines \ W)
  <2>1. \A k \in 1..Len(q) : q[k] \in Pipelines \ W  BY <1>2 DEF WorkingIn
  <2> QED  BY <1>2, <2>1
<1>4. \A k, l \in 1..Len(q) : q[k] = q[l] => k = l  BY DEF Lists
<1>5. PICK f : /\ f[0] = [slots |-> slots, go |-> {}, rest |-> <<>>]
               /\ \A i \in 1..Len(q) : f[i] = Coordinator!Pass(f[i - 1], q[i])
               /\ Coordinator!Passes(slots, q) = f[Len(q)]
  BY PassSteps
<1>6. slots = SlotsOf(W) /\ WithinLimits(W)  OBVIOUS
<1> HIDE DEF W
<1>7. PICK go \in SUBSET Pipelines, rest \in Seq(Pipelines) : Seen(f[Len(q)], W, q, Len(q), go, rest)
  BY <1>1, <1>3, <1>4, <1>5, <1>6, PassSees
<1> DEFINE end == Coordinator!Passes(slots, q)
<1>8. end.slots = SlotsOf(W \cup go) /\ end.go = go /\ end.rest = rest
  BY <1>5, <1>7 DEF Seen
<1>9. /\ active' = end.slots.active /\ activeByTenant' = end.slots.byTenant /\ queue' = rest
      /\ at' = [p \in Pipelines |-> IF p \in go THEN "working" ELSE where[p]]
  BY <1>8 DEF Coordinator!Drain
<1> HIDE DEF end
<1>10. Coordinator!Slots' = SlotsOf(W \cup go)
  <2>1. active' = SlotsOf(W \cup go).active /\ activeByTenant' = SlotsOf(W \cup go).byTenant
    BY <1>8, <1>9
  <2> QED  BY <2>1 DEF Coordinator!Slots, SlotsOf
<1>11. WorkingIn(at') = W \cup go  BY <1>9 DEF WorkingIn, W
<1>12. at' \in [Pipelines -> Steps]  BY <1>9 DEF Steps
<1>13. /\ WithinLimits(W \cup go) /\ Len(rest) <= Len(q)
       /\ \A j, k \in 1..Len(rest) : rest[j] = rest[k] => j = k
  BY <1>7 DEF Seen
<1>14. /\ {rest[j] : j \in 1..Len(rest)} = {q[k] : k \in 1..Len(q)} \ go
       /\ go \subseteq {q[k] : k \in 1..Len(q)}
  BY <1>7 DEF Seen
<1>15. /\ \A k \in 1..Len(q) : q[k] \notin go =>
            ~Coordinator!CanStart(SlotsOf(W \cup go), TenantOf[q[k]])
       /\ \A k \in 1..Len(q), l \in 1..Len(q) :
            k < l /\ TenantOf[q[k]] = TenantOf[q[l]] /\ q[l] \in go => q[k] \in go
  BY <1>7 DEF Seen
<1>16. \A k \in 1..Len(q) : at'[q[k]] = "working" <=> q[k] \in go
  BY <1>2, <1>9
<1>17. Lists(queue', at')
  <2>1. QueuedIn(at') = QueuedIn(where) \ go  BY <1>9 DEF QueuedIn
  <2>2. {q[k] : k \in 1..Len(q)} = QueuedIn(where)  BY DEF Lists
  <2>3. {rest[j] : j \in 1..Len(rest)} = QueuedIn(at')  BY <1>14, <2>1, <2>2
  <2>4. Lists(rest, at')  BY <1>13, <2>3 DEF Lists
  <2> QED  BY <1>9, <2>4
<1>18. Waiting(Coordinator!Slots', queue')
  <2> SUFFICES ASSUME NEW j \in 1..Len(rest)
               PROVE  ~Coordinator!CanStart(SlotsOf(W \cup go), TenantOf[rest[j]])
    BY <1>9, <1>10 DEF Waiting
  <2>1. PICK k \in 1..Len(q) : rest[j] = q[k] /\ q[k] \notin go  BY <1>14
  <2> QED  BY <1>15, <2>1
<1>19. \A p \in Pipelines : at'[p] = "working" /\ where[p] # "working" =>
          \E l \in 1..Len(q) : q[l] = p
  BY <1>9, <1>14
<1>20. \A k \in 1..Len(q), l \in 1..Len(q) :
         k < l /\ TenantOf[q[k]] = TenantOf[q[l]] /\ at'[q[l]] = "working"
         => at'[q[k]] = "working"
  BY <1>15, <1>16
<1> QED  BY <1>9, <1>10, <1>11, <1>12, <1>13, <1>17, <1>18, <1>19, <1>20

(* The queue without one of its waiters.                                       *)
LEMMA RemovedFrom ==
  ASSUME NEW S, NEW q \in Seq(S), NEW i \in 1..Len(q)
  PROVE  LET r == Coordinator!RemoveAt(q, i) IN
         /\ r \in Seq(S) /\ Len(r) = Len(q) - 1
         /\ \A j \in 1..(i - 1) : r[j] = q[j]
         /\ \A j \in i..(Len(q) - 1) : r[j] = q[j + 1]
<1> DEFINE a == SubSeq(q, 1, i - 1)  b == SubSeq(q, i + 1, Len(q))
<1>1. a \in Seq(S) /\ Len(a) = i - 1 /\ \A j \in 1..(i - 1) : a[j] = q[j]  OBVIOUS
<1>2. b \in Seq(S) /\ Len(b) = Len(q) - i /\ \A j \in 1..(Len(q) - i) : b[j] = q[j + i]  OBVIOUS
<1> HIDE DEF a, b
<1>3. Coordinator!RemoveAt(q, i) = a \o b  BY DEF Coordinator!RemoveAt, a, b
<1>4. a \o b \in Seq(S) /\ Len(a \o b) = Len(q) - 1
  <2>1. a \o b \in Seq(S) /\ Len(a \o b) = Len(a) + Len(b)
    BY <1>1, <1>2, ConcatProperties
  <2>2. Len(q) \in Nat /\ i \in Int  OBVIOUS
  <2> QED  BY <1>1, <1>2, <2>1, <2>2
<1>5. \A j \in 1..(i - 1) : (a \o b)[j] = q[j]  BY <1>1, <1>2
<1>6. ASSUME NEW j \in i..(Len(q) - 1) PROVE (a \o b)[j] = q[j + 1]
  <2>1. (a \o b)[j] = b[j - (i - 1)] /\ j - (i - 1) \in 1..(Len(q) - i)  BY <1>1, <1>2
  <2> QED  BY <1>2, <2>1
<1> QED  BY <1>3, <1>4, <1>5, <1>6

-----------------------------------------------------------------------------
(* The inductive invariant: the counters are those of who works, the queue is  *)
(* who waits, and a coordinator that shuts down has no queue.                  *)
CoordinatorInv ==
  /\ at \in [Pipelines -> Steps] /\ queue \in Seq(Pipelines)
  /\ closing \in {"no", "draining", "closed", "gaveUp"}
  /\ Coordinator!Slots = SlotsOf(WorkingIn(at)) /\ WithinLimits(WorkingIn(at))
  /\ Lists(queue, at) /\ Len(queue) <= MaxQueue /\ Waiting(Coordinator!Slots, queue)
  /\ closing = "closed" => WorkingIn(at) = {}
  /\ closing # "no" => queue = <<>>

(* Nobody works and nobody waits.                                              *)
LEMMA CoordinatorInit == Coordinator!Init => CoordinatorInv
<1> SUFFICES ASSUME Coordinator!Init PROVE CoordinatorInv  OBVIOUS
<1>1. /\ active = 0 /\ activeByTenant = [t \in Coordinator!Tenants |-> 0] /\ queue = <<>>
      /\ at = [p \in Pipelines |-> "idle"] /\ closing = "no"
  BY DEF Coordinator!Init
<1>2. WorkingIn(at) = {} /\ QueuedIn(at) = {} /\ \A t : OfTenant({}, t) = {}
  BY <1>1 DEF WorkingIn, QueuedIn, OfTenant
<1>3. Cardinality({}) = 0  BY FS_EmptySet
<1>4. SlotsOf({}) = [active |-> 0, byTenant |-> [t \in Coordinator!Tenants |-> 0]]
  BY <1>2, <1>3 DEF SlotsOf
<1>5. WithinLimits({})  BY <1>2, <1>3, CoordinatorAssumption DEF WithinLimits
<1>6. Lists(queue, at) /\ Waiting(Coordinator!Slots, queue) /\ Len(queue) <= MaxQueue
  BY <1>1, <1>2, CoordinatorAssumption DEF Lists, Waiting
<1>7. Coordinator!Slots = SlotsOf({})  BY <1>1, <1>4 DEF Coordinator!Slots
<1>8. at \in [Pipelines -> Steps] /\ queue \in Seq(Pipelines)  BY <1>1 DEF Steps
<1> QED  BY <1>1, <1>2, <1>5, <1>6, <1>7, <1>8 DEF CoordinatorInv

(* In the words of the module.                                                 *)
LEMMA CoordinatorSays ==
  ASSUME CoordinatorInv
  PROVE  PlacesHandedOut
<1>0. /\ at \in [Pipelines -> Steps] /\ queue \in Seq(Pipelines) /\ Len(queue) \in Nat
      /\ closing \in {"no", "draining", "closed", "gaveUp"}
      /\ Len(queue) <= MaxQueue /\ Lists(queue, at) /\ WithinLimits(WorkingIn(at))
  BY DEF CoordinatorInv
<1>w. closing = "closed" => WorkingIn(at) = {}  BY DEF CoordinatorInv
<1>1. WorkingIn(at) \in SUBSET Pipelines  BY DEF WorkingIn
<1>2. active = Cardinality(WorkingIn(at))
  BY DEF CoordinatorInv, Coordinator!Slots, SlotsOf
<1>3. activeByTenant = [t \in Coordinator!Tenants |-> Cardinality(OfTenant(WorkingIn(at), t))]
  BY DEF CoordinatorInv, Coordinator!Slots, SlotsOf
<1>4. Coordinator!TypeOK
  BY <1>0, <1>1, <1>2, <1>3, Counting DEF Coordinator!TypeOK, Steps
<1>5. active = Coordinator!Cardinality({p \in Pipelines : at[p] = "working"})
  BY <1>2, CoordinatorCounts DEF WorkingIn
<1>6. ASSUME NEW t \in Coordinator!Tenants
      PROVE  /\ activeByTenant[t]
                  = Coordinator!Cardinality({p \in Pipelines : at[p] = "working" /\ TenantOf[p] = t})
             /\ activeByTenant[t] <= PerTenant
  <2>1. OfTenant(WorkingIn(at), t) = {p \in Pipelines : at[p] = "working" /\ TenantOf[p] = t}
    BY DEF OfTenant, WorkingIn
  <2>2. activeByTenant[t] = Cardinality(OfTenant(WorkingIn(at), t))  BY <1>3
  <2>3. activeByTenant[t] <= PerTenant  BY <1>0, <2>2 DEF WithinLimits
  <2> QED  BY <2>1, <2>2, <2>3, CoordinatorCounts
<1>7. active <= Concurrency  BY <1>0, <1>2 DEF WithinLimits
<1>8. closing = "closed" => active = 0  BY <1>w, <1>2, FS_EmptySet
<1>9. Coordinator!SlotsExact  BY <1>4, <1>5, <1>6, <1>7, <1>8 DEF Coordinator!SlotsExact
<1>10. Coordinator!Queued = {queue[j] : j \in 1..Len(queue)}
  BY <1>0 DEF Coordinator!Queued, Coordinator!ToSet
<1>11. Coordinator!Queued = {p \in Pipelines : at[p] = "queued"}
  BY <1>0, <1>10 DEF Lists, QueuedIn
<1>12. Coordinator!Cardinality(Coordinator!Queued) = Len(queue)
  <2> DEFINE b == [j \in 1..Len(queue) |-> queue[j]]
  <2>1. b \in Bijection(1..Len(queue), Coordinator!Queued)
    BY <1>0, <1>10 DEF Lists, Bijection, Injection, Surjection, IsInjective
  <2>2. IsFiniteSet(1..Len(queue)) /\ Cardinality(1..Len(queue)) = Len(queue)
    <3>1. 1 \in Int /\ Len(queue) \in Int  BY <1>0
    <3>2. IsFiniteSet(1..Len(queue)) /\ Cardinality(1..Len(queue))
            = IF 1 > Len(queue) THEN 0 ELSE Len(queue) - 1 + 1
      BY <3>1, FS_Interval
    <3> QED  BY <1>0, <3>2
  <2>3. ExistsBijection(1..Len(queue), Coordinator!Queued)  BY <2>1 DEF ExistsBijection
  <2>4. Cardinality(Coordinator!Queued) = Len(queue)  BY <2>2, <2>3, FS_Bijection
  <2> QED  BY <2>4, CoordinatorCounts
<1>13. \A p \in Coordinator!Queued : ~Coordinator!CanStart(Coordinator!Slots, TenantOf[p])
  BY <1>10 DEF CoordinatorInv, Waiting
<1> QED  BY <1>0, <1>9, <1>11, <1>12, <1>13
         DEF PlacesHandedOut, Coordinator!PlacesHandedOut, Coordinator!NobodyWaitsIdly

(* Nobody of the tenant of p who waited before p in the queue still waits when *)
(* p starts.                                                                   *)
InTurn(p) ==
  at[p] # "working" /\ at'[p] = "working" =>
    \A i \in 1..Len(queue) :
      TenantOf[queue[i]] = TenantOf[p] /\ at'[queue[i]] = "queued" => \E j \in 1..i : queue[j] = p

(* A place, a place in the queue, or a refusal (acquire).                     *)
LEMMA AcquireStep ==
  ASSUME CoordinatorInv, NEW p \in Pipelines, Coordinator!Acquire(p)
  PROVE  CoordinatorInv' /\ \A r \in Pipelines : InTurn(r)
<1> DEFINE W == WorkingIn(at)
<1>0. /\ at \in [Pipelines -> Steps] /\ queue \in Seq(Pipelines) /\ Len(queue) \in Nat
      /\ Len(queue) <= MaxQueue /\ WithinLimits(W) /\ Coordinator!Slots = SlotsOf(W)
      /\ \A k \in 1..Len(queue) : queue[k] \in Pipelines
  BY DEF CoordinatorInv
<1>a. /\ \A j, k \in 1..Len(queue) : queue[j] = queue[k] => j = k
      /\ {queue[j] : j \in 1..Len(queue)} = QueuedIn(at)
      /\ \A k \in 1..Len(queue) : ~Coordinator!CanStart(SlotsOf(W), TenantOf[queue[k]])
  BY <1>0 DEF CoordinatorInv, Lists, Waiting
<1>1. at[p] = "idle" /\ closing = "no" /\ p \in Pipelines \ W /\ W \in SUBSET Pipelines
  BY DEF Coordinator!Acquire, WorkingIn
<1>b. TenantOf[p] \in Coordinator!Tenants  BY DEF Coordinator!Tenants
<1>2. CASE /\ Coordinator!CanStart(Coordinator!Slots, TenantOf[p])
           /\ active' = active + 1
           /\ activeByTenant' = [activeByTenant EXCEPT ![TenantOf[p]] = @ + 1]
           /\ at' = [at EXCEPT ![p] = "working"]
           /\ UNCHANGED <<queue, closing>>
  <2>1. WorkingIn(at') = W \cup {p} /\ QueuedIn(at') = QueuedIn(at)
    BY <1>0, <1>1, <1>2 DEF WorkingIn, QueuedIn
  <2>2. Coordinator!Slots' = Coordinator!Started(Coordinator!Slots, TenantOf[p])
    BY <1>2 DEF Coordinator!Slots, Coordinator!Started
  <2> HIDE DEF W
  <2>3. Coordinator!Slots' = SlotsOf(W \cup {p}) /\ WithinLimits(W \cup {p})
    BY <1>0, <1>1, <1>2, <2>2, StartedSlots
  <2>4. \A k \in 1..Len(queue) : ~Coordinator!CanStart(SlotsOf(W \cup {p}), TenantOf[queue[k]])
    <3>1. \A k \in 1..Len(queue) : TenantOf[queue[k]] \in Coordinator!Tenants
      BY <1>0 DEF Coordinator!Tenants
    <3>2. W \cup {p} \in SUBSET Pipelines /\ W \in SUBSET (W \cup {p})  BY <1>1
    <3> QED  BY <1>a, <3>1, <3>2, StartsBesideFewer
  <2>5. Lists(queue', at')  BY <1>2, <1>a, <2>1 DEF Lists
  <2>6. Waiting(Coordinator!Slots', queue')  BY <1>2, <2>3, <2>4 DEF Waiting
  <2>7. at' \in [Pipelines -> Steps]  BY <1>0, <1>2 DEF Steps
  <2>8. CoordinatorInv'
    BY <1>0, <1>1, <1>2, <2>1, <2>3, <2>5, <2>6, <2>7 DEF CoordinatorInv
  <2>9. \A k \in 1..Len(queue) : TenantOf[queue[k]] # TenantOf[p]  BY <1>0, <1>2, <1>a
  <2> QED  BY <1>0, <1>2, <2>8, <2>9 DEF InTurn
<1>3. CASE /\ ~Coordinator!CanStart(Coordinator!Slots, TenantOf[p]) /\ Len(queue) < MaxQueue
           /\ queue' = Append(queue, p)
           /\ at' = [at EXCEPT ![p] = "queued"]
           /\ UNCHANGED <<active, activeByTenant, closing>>
  <2>1. WorkingIn(at') = W /\ QueuedIn(at') = QueuedIn(at) \cup {p} /\ p \notin QueuedIn(at)
    BY <1>0, <1>1, <1>3 DEF WorkingIn, QueuedIn
  <2>2. Coordinator!Slots' = Coordinator!Slots  BY <1>3 DEF Coordinator!Slots
  <2>3. /\ queue' \in Seq(Pipelines) /\ Len(queue') = Len(queue) + 1 /\ queue'[Len(queue) + 1] = p
        /\ \A j \in 1..Len(queue) : queue'[j] = queue[j]
    BY <1>0, <1>3
  <2>4. Len(queue') <= MaxQueue  BY <1>0, <1>3, <2>3, CoordinatorAssumption
  <2> HIDE DEF W
  <2>5. {queue'[j] : j \in 1..Len(queue')} = QueuedIn(at')  BY <1>0, <1>a, <2>1, <2>3
  <2>6. \A j, k \in 1..Len(queue') : queue'[j] = queue'[k] => j = k
    <3>1. \A j \in 1..Len(queue) : queue[j] # p  BY <1>a, <2>1
    <3>2. \A j \in 1..Len(queue') : j \in 1..Len(queue) \/ j = Len(queue) + 1  BY <1>0, <2>3
    <3> QED  BY <1>a, <2>3, <3>1, <3>2
  <2>7. Waiting(Coordinator!Slots', queue')
    <3>1. \A j \in 1..Len(queue') : j \in 1..Len(queue) \/ j = Len(queue) + 1  BY <1>0, <2>3
    <3> QED  BY <1>0, <1>3, <1>a, <2>2, <2>3, <3>1 DEF Waiting
  <2>8. at' \in [Pipelines -> Steps]  BY <1>0, <1>3 DEF Steps
  <2>9. Lists(queue', at')  BY <2>5, <2>6 DEF Lists
  <2>10. CoordinatorInv'
    BY <1>0, <1>1, <1>3, <2>1, <2>2, <2>3, <2>4, <2>7, <2>8, <2>9 DEF CoordinatorInv
  <2> QED  BY <1>0, <1>3, <2>10 DEF InTurn
<1> QED  BY <1>2, <1>3 DEF Coordinator!Acquire

(* A place is given back, and the queue is gone through (release, drain).     *)
LEMMA ReleaseStep ==
  ASSUME CoordinatorInv, NEW p \in Pipelines, Coordinator!Release(p)
  PROVE  CoordinatorInv' /\ \A r \in Pipelines : InTurn(r)
<1> DEFINE W == WorkingIn(at)
           where == [at EXCEPT ![p] = "idle"]
           slots == [active |-> active - 1,
                     byTenant |-> [activeByTenant EXCEPT ![TenantOf[p]] = @ - 1]]
<1>0. /\ at \in [Pipelines -> Steps] /\ queue \in Seq(Pipelines) /\ Len(queue) \in Nat
      /\ Len(queue) <= MaxQueue /\ WithinLimits(W) /\ Coordinator!Slots = SlotsOf(W) /\ Lists(queue, at)
      /\ \A k \in 1..Len(queue) : queue[k] \in Pipelines
  BY DEF CoordinatorInv
<1>1. /\ at[p] = "working" /\ Coordinator!Drain(slots, queue, where)
      /\ closing' = IF active' = 0 /\ closing = "draining" THEN "closed" ELSE closing
  BY DEF Coordinator!Release
<1>2. /\ p \in W /\ W \in SUBSET Pipelines /\ WorkingIn(where) = W \ {p}
      /\ QueuedIn(where) = QueuedIn(at) /\ where \in [Pipelines -> Steps]
  BY <1>0, <1>1 DEF WorkingIn, QueuedIn, Steps
<1>3. slots = [active |-> Coordinator!Slots.active - 1,
               byTenant |-> [Coordinator!Slots.byTenant EXCEPT ![TenantOf[p]] = @ - 1]]
  BY DEF Coordinator!Slots
<1> HIDE DEF W, where, slots
<1>4. slots = SlotsOf(WorkingIn(where)) /\ WithinLimits(WorkingIn(where))
  BY <1>0, <1>2, <1>3, ReleasedSlots
<1>5. Lists(queue, where)  BY <1>0, <1>2 DEF Lists
<1>6. /\ at' \in [Pipelines -> Steps] /\ queue' \in Seq(Pipelines)
      /\ Coordinator!Slots' = SlotsOf(WorkingIn(at')) /\ WithinLimits(WorkingIn(at'))
      /\ Lists(queue', at') /\ Len(queue') <= Len(queue) /\ Waiting(Coordinator!Slots', queue')
      /\ \A k \in 1..Len(queue), l \in 1..Len(queue) :
           k < l /\ TenantOf[queue[k]] = TenantOf[queue[l]] /\ at'[queue[l]] = "working"
           => at'[queue[k]] = "working"
      /\ \A r \in Pipelines : at'[r] = "working" /\ where[r] # "working" =>
           \E l \in 1..Len(queue) : queue[l] = r
  BY <1>0, <1>1, <1>2, <1>4, <1>5, DrainStep
<1>7. closing' \in {"no", "draining", "closed", "gaveUp"}  BY <1>1 DEF CoordinatorInv
<1>8. closing # "closed"  BY <1>2 DEF CoordinatorInv, W
<1>9. closing' = "closed" => WorkingIn(at') = {}
  <2> SUFFICES ASSUME closing' = "closed" PROVE WorkingIn(at') = {}  OBVIOUS
  <2>1. active' = 0  BY <1>1, <1>8
  <2>2. active' = Cardinality(WorkingIn(at'))  BY <1>6 DEF Coordinator!Slots, SlotsOf
  <2>3. WorkingIn(at') \in SUBSET Pipelines  BY DEF WorkingIn
  <2> QED  BY <2>1, <2>2, <2>3, Counting, FS_EmptySet
<1>10. closing' # "no" => queue' = <<>>
  <2> SUFFICES ASSUME closing' # "no" PROVE queue' = <<>>  OBVIOUS
  <2>1. closing # "no"  BY <1>1
  <2>2. Len(queue) = 0  BY <2>1 DEF CoordinatorInv
  <2>3. Len(queue') \in Nat /\ Len(queue') <= 0  BY <1>6, <2>2
  <2> QED  BY <1>6, <2>3
<1>11. Len(queue') <= MaxQueue  BY <1>0, <1>6, CoordinatorAssumption
<1>12. CoordinatorInv'  BY <1>6, <1>7, <1>9, <1>10, <1>11 DEF CoordinatorInv
<1>13. ASSUME NEW r \in Pipelines PROVE InTurn(r)
  <2> SUFFICES ASSUME at[r] # "working", at'[r] = "working",
                      NEW i \in 1..Len(queue), TenantOf[queue[i]] = TenantOf[r],
                      at'[queue[i]] = "queued"
               PROVE  \E j \in 1..i : queue[j] = r
    BY DEF InTurn
  <2>1. where[r] # "working"  BY <1>0, <1>1 DEF where
  <2>2. PICK l \in 1..Len(queue) : queue[l] = r  BY <1>6, <2>1
  <2>3. ~(i < l)  BY <1>6, <2>2
  <2> QED  BY <1>0, <2>2, <2>3
<1> QED  BY <1>12, <1>13

(* A waiter gives up, and the queue is gone through (the timer in acquire).   *)
LEMMA TimeOutStep ==
  ASSUME CoordinatorInv, NEW p \in Pipelines, Coordinator!TimeOut(p)
  PROVE  CoordinatorInv' /\ \A r \in Pipelines : InTurn(r)
<1> DEFINE where == [at EXCEPT ![p] = "idle"]
<1>0. /\ at \in [Pipelines -> Steps] /\ queue \in Seq(Pipelines) /\ Len(queue) \in Nat
      /\ Len(queue) <= MaxQueue /\ WithinLimits(WorkingIn(at)) /\ Coordinator!Slots = SlotsOf(WorkingIn(at))
      /\ \A j, k \in 1..Len(queue) : queue[j] = queue[k] => j = k
      /\ {queue[j] : j \in 1..Len(queue)} = QueuedIn(at)
      /\ \A k \in 1..Len(queue) : queue[k] \in Pipelines
  BY DEF CoordinatorInv, Lists
<1>1. PICK i \in 1..Len(queue) :
        queue[i] = p /\ Coordinator!Drain(Coordinator!Slots, Coordinator!RemoveAt(queue, i), where)
  BY DEF Coordinator!TimeOut
<1>2. at[p] = "queued" /\ closing' = closing  BY DEF Coordinator!TimeOut
<1>3. /\ WorkingIn(where) = WorkingIn(at) /\ QueuedIn(where) = QueuedIn(at) \ {p}
      /\ where \in [Pipelines -> Steps]
  BY <1>0, <1>2 DEF WorkingIn, QueuedIn, Steps
<1> DEFINE q == Coordinator!RemoveAt(queue, i)
<1>4. /\ q \in Seq(Pipelines) /\ Len(q) = Len(queue) - 1
      /\ \A j \in 1..(i - 1) : q[j] = queue[j]
      /\ \A j \in i..(Len(queue) - 1) : q[j] = queue[j + 1]
  BY <1>0, RemovedFrom
<1> HIDE DEF q, where
<1> DEFINE from(j) == IF j < i THEN j ELSE j + 1
<1>5. \A j \in 1..Len(q) : /\ from(j) \in 1..Len(queue) /\ from(j) # i /\ q[j] = queue[from(j)]
  <2> SUFFICES ASSUME NEW j \in 1..Len(q)
               PROVE  /\ from(j) \in 1..Len(queue) /\ from(j) # i /\ q[j] = queue[from(j)]
    OBVIOUS
  <2>1. CASE j < i
    <3>1. j \in 1..(i - 1) /\ j \in 1..Len(queue)  BY <1>0, <1>4, <2>1
    <3> QED  BY <1>4, <2>1, <3>1
  <2>2. CASE ~(j < i)
    <3>1. j \in i..(Len(queue) - 1) /\ j + 1 \in 1..Len(queue)  BY <1>0, <1>4, <2>2
    <3> QED  BY <1>4, <2>2, <3>1
  <2> QED  BY <2>1, <2>2
<1>6. \A k \in 1..Len(queue) : k # i => \E j \in 1..Len(q) : from(j) = k
  <2> SUFFICES ASSUME NEW k \in 1..Len(queue), k # i PROVE \E j \in 1..Len(q) : from(j) = k
    OBVIOUS
  <2>1. CASE k < i
    <3>1. k \in 1..Len(q) /\ from(k) = k  BY <1>0, <1>4, <2>1
    <3> QED  BY <3>1
  <2>2. CASE ~(k < i)
    <3>1. k - 1 \in 1..Len(q) /\ from(k - 1) = k  BY <1>0, <1>4, <2>2
    <3> QED  BY <3>1
  <2> QED  BY <2>1, <2>2
<1>7. \A j, k \in 1..Len(q) : from(j) = from(k) => j = k  BY <1>0, <1>4
<1>8. \A j, k \in 1..Len(q) : from(j) < from(k) <=> j < k  BY <1>0, <1>4
<1> HIDE DEF from
<1>9. Lists(q, where)
  <2>1. \A j, k \in 1..Len(q) : q[j] = q[k] => j = k  BY <1>0, <1>5, <1>7
  <2>2. {q[j] : j \in 1..Len(q)} = {queue[k] : k \in 1..Len(queue)} \ {p}
    <3>1. \A j \in 1..Len(q) : q[j] # p /\ \E k \in 1..Len(queue) : q[j] = queue[k]
      BY <1>0, <1>1, <1>5
    <3>2. \A k \in 1..Len(queue) : queue[k] # p => \E j \in 1..Len(q) : q[j] = queue[k]
      BY <1>0, <1>1, <1>5, <1>6
    <3>3. {q[j] : j \in 1..Len(q)} \subseteq {queue[k] : k \in 1..Len(queue)} \ {p}  BY <3>1
    <3>4. {queue[k] : k \in 1..Len(queue)} \ {p} \subseteq {q[j] : j \in 1..Len(q)}  BY <3>2
    <3> QED  BY <3>3, <3>4
  <2> QED  BY <1>0, <1>3, <2>1, <2>2 DEF Lists
<1>10. Coordinator!Slots = SlotsOf(WorkingIn(where)) /\ WithinLimits(WorkingIn(where))  BY <1>0, <1>3
<1>11. Coordinator!Drain(Coordinator!Slots, q, where)  BY <1>1 DEF q
<1>12. /\ at' \in [Pipelines -> Steps] /\ queue' \in Seq(Pipelines)
       /\ Coordinator!Slots' = SlotsOf(WorkingIn(at')) /\ WithinLimits(WorkingIn(at'))
       /\ Lists(queue', at') /\ Len(queue') <= Len(q) /\ Waiting(Coordinator!Slots', queue')
       /\ \A k \in 1..Len(q), l \in 1..Len(q) :
            k < l /\ TenantOf[q[k]] = TenantOf[q[l]] /\ at'[q[l]] = "working"
            => at'[q[k]] = "working"
       /\ \A r \in Pipelines : at'[r] = "working" /\ where[r] # "working" =>
            \E l \in 1..Len(q) : q[l] = r
  BY <1>3, <1>4, <1>9, <1>10, <1>11, DrainStep
<1>13. closing = "no"  BY <1>1 DEF CoordinatorInv
<1>14. Len(queue') <= MaxQueue  BY <1>0, <1>4, <1>12, CoordinatorAssumption
<1>15. CoordinatorInv'  BY <1>2, <1>12, <1>13, <1>14 DEF CoordinatorInv
<1>16. ASSUME NEW r \in Pipelines PROVE InTurn(r)
  <2> SUFFICES ASSUME at[r] # "working", at'[r] = "working",
                      NEW m \in 1..Len(queue), TenantOf[queue[m]] = TenantOf[r],
                      at'[queue[m]] = "queued"
               PROVE  \E j \in 1..m : queue[j] = r
    BY DEF InTurn
  <2>1. where[r] # "working"  BY <1>0, <1>2 DEF where
  <2>2. PICK l \in 1..Len(q) : q[l] = r  BY <1>12, <2>1
  <2>3. queue[from(l)] = r /\ from(l) \in 1..Len(queue)  BY <1>5, <2>2
  <2>4. CASE m = i
    <3>1. where[p] = "idle"  BY <1>0 DEF where
    <3>2. at'[p] \in {"working", "idle"}  BY <1>11, <3>1 DEF Coordinator!Drain
    <3> QED  BY <1>1, <2>4, <3>2
  <2>5. CASE m # i
    <3>1. PICK k \in 1..Len(q) : from(k) = m /\ q[k] = queue[m]  BY <1>5, <1>6, <2>5
    <3>2. ~(k < l)  BY <1>12, <2>2, <3>1
    <3>3. ~(from(k) < from(l))  BY <1>8, <3>2
    <3> QED  BY <2>3, <3>1, <3>3, <1>0
  <2> QED  BY <2>4, <2>5
<1> QED  BY <1>15, <1>16

(* Every step keeps the places and the queue as they should be, and within a  *)
(* tenant the order of arrival.                                               *)
LEMMA CoordinatorStep ==
  ASSUME CoordinatorInv, [Coordinator!Next]_(Coordinator!ivars)
  PROVE  CoordinatorInv' /\ (at' = at \/ \A r \in Pipelines : InTurn(r))
<1>1. CASE \E p \in Pipelines : Coordinator!Acquire(p) \/ Coordinator!Release(p) \/ Coordinator!TimeOut(p)
  BY <1>1, AcquireStep, ReleaseStep, TimeOutStep
<1>2. CASE Coordinator!Shutdown
  <2>1. /\ closing = "no" /\ queue' = <<>> /\ UNCHANGED <<active, activeByTenant>>
        /\ at' = [p \in Pipelines |-> IF at[p] = "queued" THEN "idle" ELSE at[p]]
        /\ closing' = IF active = 0 THEN "closed" ELSE "draining"
    BY <1>2 DEF Coordinator!Shutdown
  <2>2. at \in [Pipelines -> Steps]  BY DEF CoordinatorInv
  <2>3. at' \in [Pipelines -> Steps] /\ WorkingIn(at') = WorkingIn(at) /\ QueuedIn(at') = {}
    BY <2>1, <2>2 DEF WorkingIn, QueuedIn, Steps
  <2>4. Coordinator!Slots' = SlotsOf(WorkingIn(at')) /\ WithinLimits(WorkingIn(at'))
    BY <2>1, <2>3 DEF CoordinatorInv, Coordinator!Slots
  <2>5. Lists(queue', at') /\ Waiting(Coordinator!Slots', queue') /\ Len(queue') <= MaxQueue
        /\ queue' \in Seq(Pipelines)
    BY <2>1, <2>3, CoordinatorAssumption DEF Lists, Waiting
  <2>6. closing' = "closed" => WorkingIn(at') = {}
    <3>1. active = Cardinality(WorkingIn(at))  BY DEF CoordinatorInv, Coordinator!Slots, SlotsOf
    <3>2. WorkingIn(at) \in SUBSET Pipelines  BY DEF WorkingIn
    <3>3. active = 0 => WorkingIn(at) = {}  BY <3>1, <3>2, Counting, FS_EmptySet
    <3> QED  BY <2>1, <2>3, <3>3
  <2>7. CoordinatorInv'  BY <2>1, <2>3, <2>4, <2>5, <2>6 DEF CoordinatorInv
  <2>8. \A r \in Pipelines : at'[r] = "working" => at[r] = "working"  BY <2>1, <2>2
  <2> QED  BY <2>7, <2>8 DEF InTurn
<1>3. CASE Coordinator!GiveUp
  BY <1>3 DEF Coordinator!GiveUp, CoordinatorInv, Coordinator!Slots
<1>4. CASE UNCHANGED Coordinator!ivars
  BY <1>4 DEF Coordinator!ivars, CoordinatorInv, Coordinator!Slots
<1> QED  BY <1>1, <1>2, <1>3, <1>4 DEF Coordinator!Next

(* PlacesHandedOut: the counters are what runs, within both limits, and       *)
(* nobody waits who could start, for any number of requests and tenants and   *)
(* any limits (acquire, release, drain, onApplicationShutdown).               *)
THEOREM PlacesHandedOutHolds == Coordinator!Spec => []PlacesHandedOut
<1>1. CoordinatorInv => PlacesHandedOut  BY CoordinatorSays
<1>2. CoordinatorInv /\ [Coordinator!Next]_(Coordinator!ivars) => CoordinatorInv'
  BY CoordinatorStep
<1> QED  BY <1>1, <1>2, CoordinatorInit, PTL DEF Coordinator!Spec

(* TenantFifo: nobody starts while an earlier request of the same tenant goes *)
(* on waiting.                                                                *)
THEOREM TenantFifoHolds == Coordinator!Spec => TenantFifo
<1> DEFINE Fifo == \A p \in Pipelines : at[p] # "working" /\ at'[p] = "working" =>
                     \A i \in 1..Len(queue) :
                       TenantOf[queue[i]] = TenantOf[p] /\ at'[queue[i]] = "queued"
                       => \E j \in 1..i : queue[j] = p
<1>1. CoordinatorInv /\ [Coordinator!Next]_(Coordinator!ivars) => CoordinatorInv' /\ [Fifo]_(Coordinator!ivars)
  <2> SUFFICES ASSUME CoordinatorInv, [Coordinator!Next]_(Coordinator!ivars)
               PROVE  CoordinatorInv' /\ Fifo
    OBVIOUS
  <2>1. CASE \A r \in Pipelines : InTurn(r)  BY <2>1, CoordinatorStep DEF InTurn
  <2>2. CASE at' = at  BY <2>2, CoordinatorStep
  <2> QED  BY <2>1, <2>2, CoordinatorStep
<1> QED  BY <1>1, CoordinatorInit, PTL DEF Coordinator!Spec, TenantFifo, Coordinator!TenantFifo

-----------------------------------------------------------------------------
(* Uploads: the counters of the quota are what they count. What an upload     *)
(* holds is charged from its reservation to the deletion of its last row, on  *)
(* the day it was charged on; the sums of the counters are the sizes of sets  *)
(* of parts, less what each removal has read and taken off.                   *)

UploadSteps == Running \cup {"idle", "rejected", "attached", "failed", "crashed"}
Removals == [pc : {"idle", "found", "removed", "read"}, upload : Uploads, seen : SUBSET Parts]

(* What of an upload is there before its rows are written, and that a row is    *)
(* written once.                                                                *)
NothingYet(u) == pending[u] = {} /\ activeRows[u] = {} /\ deletedRows[u] = {}
Tidy(u) ==
  /\ state[u] \notin Charged \cup {"CONFIRMED"} =>
       pc[u] \in {"idle", "rejected", "failed", "crashed"} /\ stored[u] = {} /\ NothingYet(u)
  /\ pc[u] = "idle" => state[u] = "none"
  /\ pc[u] = "optimizing" => stored[u] = {}
  /\ pc[u] \in {"idle", "rejected", "optimizing", "uploading"} => NothingYet(u)
  /\ activeRows[u] \cap deletedRows[u] = {}
  /\ pending[u] \cap (activeRows[u] \cup deletedRows[u]) = {}

(* The types, a conjunct at a time.                                             *)
LEMMA UploadTypes ==
  ASSUME TypeOK
  PROVE  /\ today \in 1..MaxDay /\ state \in [Uploads -> ReservationStates \cup {"none"}]
         /\ day \in [Uploads -> 1..MaxDay]
         /\ reserved \in [Windows -> Nat] /\ confirmed \in [Windows -> Nat]
         /\ pc \in [Uploads -> UploadSteps] /\ attached \subseteq Uploads
         /\ sent \in [Uploads -> SUBSET Parts] /\ pending \in [Uploads -> SUBSET Parts]
         /\ stored \in [Uploads -> SUBSET Parts]
         /\ activeRows \in [Uploads -> SUBSET Parts] /\ deletedRows \in [Uploads -> SUBSET Parts]
         /\ check \in [Uploads -> {"none", "due", "local", "absent"}]
         /\ removal \in [Removers -> Removals]
BY DEF TypeOK, UploadSteps, Removals

(* Which windows there are.                                                     *)
LEMMA WindowsAre ==
  /\ Total \in Windows
  /\ \A u \in Uploads, d \in 1..MaxDay :
       /\ WindowsOf(u, d) \subseteq Windows /\ Total \in WindowsOf(u, d)
       /\ \A w \in WindowsOf(u, d) : w[1] \in {"total", "daily", "user"}
<1>1. \A u \in Uploads, d \in 1..MaxDay :
        /\ WindowsOf(u, d) \subseteq Windows /\ Total \in WindowsOf(u, d)
        /\ \A w \in WindowsOf(u, d) : w[1] \in {"total", "daily", "user"}
  <2> TAKE u \in Uploads, d \in 1..MaxDay
  <2>1. WindowsOf(u, d) \subseteq Windows  BY DEF Windows
  <2>2. Total \in WindowsOf(u, d)  BY DEF WindowsOf
  <2>3. \A w \in WindowsOf(u, d) : w[1] \in {"total", "daily", "user"}  BY DEF WindowsOf, Total
  <2> QED  BY <2>1, <2>2, <2>3
<1>2. PICK u \in Uploads : TRUE  BY QuotaAssumption
<1>3. 1 \in 1..MaxDay  BY QuotaAssumption
<1> QED  BY <1>1, <1>2, <1>3

(* The sets that are counted are finite.                                        *)
LEMMA UploadCounts ==
  /\ \A S \in SUBSET Uploads : IsFiniteSet(S) /\ Cardinality(S) \in Nat
  /\ \A S \in SUBSET Parts : IsFiniteSet(S) /\ Cardinality(S) \in Nat
                              /\ Cardinality(S) <= Cardinality(Parts)
BY QuotaAssumption, FS_Subset, FS_CardinalityType

(* One more, and one less, of what is counted.                                  *)
LEMMA OneMore ==
  ASSUME NEW S \in SUBSET Uploads, NEW u \in Uploads
  PROVE  /\ u \notin S => Requested * Cardinality(S \cup {u}) = Requested * Cardinality(S) + Requested
         /\ u \in S => Requested * Cardinality(S \ {u}) = Requested * Cardinality(S) - Requested
<1>1. IsFiniteSet(S) /\ Cardinality(S) \in Nat  BY UploadCounts
<1>2. CASE u \notin S
  <2>1. Cardinality(S \cup {u}) = Cardinality(S) + 1  BY <1>1, <1>2, FS_AddElement
  <2> QED  BY <1>1, <1>2, <2>1, QuotaAssumption
<1>3. CASE u \in S
  <2>1. Cardinality(S \ {u}) = Cardinality(S) - 1  BY <1>1, <1>3, FS_RemoveElement
  <2> QED  BY <1>1, <1>3, <2>1, QuotaAssumption
<1> QED  BY <1>2, <1>3

(* What the counters of a window hold, in the words of the invariant.           *)
Counts ==
  \A w \in Windows :
    /\ reserved[w] = Requested * Cardinality(ChargedOn(w))
    /\ w # Total => confirmed[w] = Requested * Cardinality(ConfirmedOn(w))
    /\ confirmed[w] + reserved[w] <= Limit[w[1]]
Off == confirmed[Total] - Requested * Cardinality(ConfirmedOn(Total))
QuotaTypes ==
  /\ state \in [Uploads -> ReservationStates \cup {"none"}] /\ day \in [Uploads -> 1..MaxDay]
  /\ reserved \in [Windows -> Nat] /\ confirmed \in [Windows -> Nat]

(* Who is charged in a window, after one reservation has changed its state.     *)
LEMMA StateSet ==
  ASSUME QuotaTypes, NEW u \in Uploads, NEW s \in ReservationStates,
         state' = [state EXCEPT ![u] = s], day' = day, NEW w
  PROVE  /\ ChargedOn(w)' = IF s \in Charged /\ w \in WindowsOf(u, day[u])
                            THEN ChargedOn(w) \cup {u} ELSE ChargedOn(w) \ {u}
         /\ ConfirmedOn(w)' = IF s = "CONFIRMED" /\ w \in WindowsOf(u, day[u])
                              THEN ConfirmedOn(w) \cup {u} ELSE ConfirmedOn(w) \ {u}
<1>1. \A v \in Uploads : state'[v] = (IF v = u THEN s ELSE state[v]) /\ day'[v] = day[v]
  BY DEF QuotaTypes
<1>2. \A v \in Uploads : v \in ChargedOn(w)' <=> state'[v] \in Charged /\ w \in WindowsOf(v, day[v])
  BY <1>1 DEF ChargedOn, WindowsOf
<1>3. \A v \in Uploads : v \in ConfirmedOn(w)' <=> state'[v] = "CONFIRMED" /\ w \in WindowsOf(v, day[v])
  BY <1>1 DEF ConfirmedOn, WindowsOf
<1>4. /\ ChargedOn(w)' \subseteq Uploads /\ ConfirmedOn(w)' \subseteq Uploads
      /\ ChargedOn(w) \subseteq Uploads /\ ConfirmedOn(w) \subseteq Uploads
  BY DEF ChargedOn, ConfirmedOn
<1>5. \A v \in Uploads : v \in ChargedOn(w) <=> state[v] \in Charged /\ w \in WindowsOf(v, day[v])
  BY DEF ChargedOn
<1>6. \A v \in Uploads : v \in ConfirmedOn(w) <=> state[v] = "CONFIRMED" /\ w \in WindowsOf(v, day[v])
  BY DEF ConfirmedOn
<1> QED  BY <1>1, <1>2, <1>3, <1>4, <1>5, <1>6

(* A settlement: what a window has reserved goes, and is confirmed or not; what *)
(* the total has lost by deletions stays lost (transition).                     *)
LEMMA TransitionStep ==
  ASSUME QuotaTypes, Counts, NEW u \in Uploads, NEW target \in {"CONFIRMED", "RELEASED"},
         Transition(u, target)
  PROVE  /\ QuotaTypes' /\ Counts' /\ Off' = Off /\ day' = day
         /\ \/ state' = state
            \/ state[u] \in {"RESERVED", "EXPIRED"} /\ state' = [state EXCEPT ![u] = target]
<1>1. CASE state[u] \notin {"RESERVED", "EXPIRED"}
  <2>1. UNCHANGED <<state, day, reserved, confirmed>>  BY <1>1 DEF Transition, quota
  <2> QED  BY <2>1 DEF QuotaTypes, Counts, Off, ChargedOn, ConfirmedOn
<1>2. CASE state[u] \in {"RESERVED", "EXPIRED"}
  <2> DEFINE mine == WindowsOf(u, day[u])
  <2>1. /\ state' = [state EXCEPT ![u] = target] /\ day' = day
        /\ reserved' = [w \in Windows |-> reserved[w] - IF w \in mine THEN Requested ELSE 0]
        /\ confirmed' = [w \in Windows |->
             confirmed[w] + IF w \in mine /\ target = "CONFIRMED" THEN Requested ELSE 0]
    BY <1>2 DEF Transition
  <2>2. target \in ReservationStates /\ target \notin Charged  BY DEF ReservationStates, Charged
  <2>3. \A w : /\ ChargedOn(w)' = ChargedOn(w) \ {u}
               /\ ConfirmedOn(w)' = IF target = "CONFIRMED" /\ w \in mine
                                    THEN ConfirmedOn(w) \cup {u} ELSE ConfirmedOn(w) \ {u}
    BY <2>1, <2>2, StateSet
  <2>4. \A w : /\ u \in ChargedOn(w) <=> w \in mine
               /\ u \notin ConfirmedOn(w)
               /\ ChargedOn(w) \in SUBSET Uploads /\ ConfirmedOn(w) \in SUBSET Uploads
    BY <1>2 DEF ChargedOn, ConfirmedOn, Charged
  <2>5. \A w : Requested * Cardinality(ChargedOn(w)') =
                 Requested * Cardinality(ChargedOn(w)) - IF w \in mine THEN Requested ELSE 0
    <3> TAKE w
    <3>1. CASE w \in mine  BY <2>3, <2>4, <3>1, OneMore
    <3>2. CASE w \notin mine
      <4>1. ChargedOn(w)' = ChargedOn(w)  BY <2>3, <2>4, <3>2
      <4>2. Cardinality(ChargedOn(w)) \in Nat  BY <2>4, UploadCounts
      <4> QED  BY <3>2, <4>1, <4>2, QuotaAssumption
    <3> QED  BY <3>1, <3>2
  <2>6. \A w : Requested * Cardinality(ConfirmedOn(w)') =
                 Requested * Cardinality(ConfirmedOn(w))
                   + IF w \in mine /\ target = "CONFIRMED" THEN Requested ELSE 0
    <3> TAKE w
    <3>1. CASE w \in mine /\ target = "CONFIRMED"  BY <2>3, <2>4, <3>1, OneMore
    <3>2. CASE ~(w \in mine /\ target = "CONFIRMED")
      <4>1. ConfirmedOn(w)' = ConfirmedOn(w)  BY <2>3, <2>4, <3>2
      <4>2. Cardinality(ConfirmedOn(w)) \in Nat  BY <2>4, UploadCounts
      <4> QED  BY <3>2, <4>1, <4>2, QuotaAssumption
    <3> QED  BY <3>1, <3>2
  <2>7. \A w \in Windows : /\ Requested * Cardinality(ChargedOn(w)) \in Nat
                           /\ Requested * Cardinality(ChargedOn(w)') \in Nat
                           /\ Requested * Cardinality(ConfirmedOn(w)) \in Nat
                           /\ reserved[w] \in Nat /\ confirmed[w] \in Nat
    <3> TAKE w \in Windows
    <3>1. ChargedOn(w)' \in SUBSET Uploads  BY <2>3, <2>4
    <3>2. /\ Cardinality(ChargedOn(w)) \in Nat /\ Cardinality(ConfirmedOn(w)) \in Nat
          /\ Cardinality(ChargedOn(w)') \in Nat
      BY <2>4, <3>1, UploadCounts
    <3> QED  BY <3>2, QuotaAssumption DEF QuotaTypes
  <2> HIDE DEF mine
  <2>8. \A w \in Windows : Limit[w[1]] \in Nat
    BY QuotaAssumption, WindowsAre DEF Windows
  <2>9. \A w \in Windows : /\ reserved[w] = Requested * Cardinality(ChargedOn(w))
                           /\ w # Total => confirmed[w] = Requested * Cardinality(ConfirmedOn(w))
                           /\ confirmed[w] + reserved[w] <= Limit[w[1]]
    BY DEF Counts
  <2>10. \A w \in Windows :
           /\ reserved'[w] = reserved[w] - IF w \in mine THEN Requested ELSE 0
           /\ confirmed'[w] = confirmed[w] + IF w \in mine /\ target = "CONFIRMED" THEN Requested ELSE 0
    BY <2>1
  <2>11. \A w \in Windows :
           /\ reserved'[w] = Requested * Cardinality(ChargedOn(w)') /\ reserved'[w] \in Nat
           /\ w # Total => confirmed'[w] = Requested * Cardinality(ConfirmedOn(w)')
           /\ confirmed'[w] \in Nat
           /\ confirmed'[w] + reserved'[w] <= Limit[w[1]]
    BY <2>5, <2>6, <2>7, <2>8, <2>9, <2>10, QuotaAssumption
  <2>12. Counts'  BY <2>11 DEF Counts, Windows, WindowsOf
  <2>13. QuotaTypes'
    <3>1. /\ reserved' \in [Windows -> Nat] /\ confirmed' \in [Windows -> Nat]
      BY <2>1, <2>11
    <3>2. state' \in [Uploads -> ReservationStates \cup {"none"}] /\ day' \in [Uploads -> 1..MaxDay]
      BY <2>1, <2>2 DEF QuotaTypes
    <3> QED  BY <3>1, <3>2 DEF QuotaTypes, Windows, WindowsOf
  <2>14. Off' = Off
    BY <2>6, <2>7, <2>10, WindowsAre, QuotaAssumption DEF Off, Total
  <2> QED  BY <1>2, <2>1, <2>12, <2>13, <2>14
<1> QED  BY <1>1, <1>2

(* Who is charged stays charged: a reservation that expires or goes to          *)
(* reconciliation changes no counter (claimExpired, requireReconciliation).     *)
LEMMA StillCharged ==
  ASSUME QuotaTypes, Counts, NEW u \in Uploads, NEW s \in Charged, state[u] \in Charged,
         state' = [state EXCEPT ![u] = s], UNCHANGED <<day, reserved, confirmed>>
  PROVE  QuotaTypes' /\ Counts' /\ Off' = Off
<1>1. s \in ReservationStates /\ s # "CONFIRMED" /\ state[u] # "CONFIRMED"
  BY DEF Charged, ReservationStates
<1>2. \A w : /\ ChargedOn(w)' = IF w \in WindowsOf(u, day[u])
                                THEN ChargedOn(w) \cup {u} ELSE ChargedOn(w) \ {u}
             /\ ConfirmedOn(w)' = ConfirmedOn(w) \ {u}
  BY <1>1, StateSet
<1>3. \A w : /\ u \in ChargedOn(w) <=> w \in WindowsOf(u, day[u])
             /\ u \notin ConfirmedOn(w)
  BY <1>1 DEF ChargedOn, ConfirmedOn
<1>4. \A w : ChargedOn(w)' = ChargedOn(w) /\ ConfirmedOn(w)' = ConfirmedOn(w)  BY <1>2, <1>3
<1>5. Counts'
  <2>1. \A w \in Windows : /\ reserved'[w] = Requested * Cardinality(ChargedOn(w)')
                           /\ w # Total => confirmed'[w] = Requested * Cardinality(ConfirmedOn(w)')
                           /\ confirmed'[w] + reserved'[w] <= Limit[w[1]]
    BY <1>4 DEF Counts
  <2> QED  BY <2>1 DEF Counts, Windows, WindowsOf
<1>6. QuotaTypes'  BY <1>1 DEF QuotaTypes, Windows, WindowsOf
<1> QED  BY <1>4, <1>5, <1>6 DEF Off, Total

(* A reservation set apart for the reconciliation stays charged, on its day   *)
(* (requireReconciliation).                                                   *)
LEMMA ReconciliationStep ==
  ASSUME QuotaTypes, Counts, NEW u \in Uploads, RequireReconciliation(u)
  PROVE  /\ QuotaTypes' /\ Counts' /\ Off' = Off /\ day' = day
         /\ \A v \in Uploads : \/ state'[v] = state[v]
                               \/ state[v] \in Charged /\ state'[v] \in Charged
<1>0. UNCHANGED <<day, reserved, confirmed>>  BY DEF RequireReconciliation
<1>1. CASE state[u] \in {"RESERVED", "EXPIRED"}
  <2>1. state' = [state EXCEPT ![u] = "RECONCILIATION_REQUIRED"]
    BY <1>1 DEF RequireReconciliation
  <2>2. state[u] \in Charged /\ "RECONCILIATION_REQUIRED" \in Charged  BY <1>1 DEF Charged
  <2> QED  BY <1>0, <2>1, <2>2, StillCharged DEF QuotaTypes
<1>2. CASE state[u] \notin {"RESERVED", "EXPIRED"}
  <2>1. state' = state  BY <1>2 DEF RequireReconciliation, QuotaTypes
  <2> QED  BY <1>0, <2>1 DEF QuotaTypes, Counts, Off, ChargedOn, ConfirmedOn
<1> QED  BY <1>1, <1>2

(* A reservation: nothing that has none is charged, and it fits its windows.    *)
LEMMA ReserveStep ==
  ASSUME QuotaTypes, Counts, NEW u \in Uploads, state[u] = "none", today \in 1..MaxDay,
         \A w \in WindowsOf(u, today) : Fits(u, w),
         reserved' = [w \in Windows |->
           reserved[w] + IF w \in WindowsOf(u, today) THEN Requested ELSE 0],
         state' = [state EXCEPT ![u] = "RESERVED"], day' = [day EXCEPT ![u] = today],
         confirmed' = confirmed
  PROVE  QuotaTypes' /\ Counts' /\ Off' = Off
<1> DEFINE mine == WindowsOf(u, today)
<1>1. \A v \in Uploads : /\ state'[v] = (IF v = u THEN "RESERVED" ELSE state[v])
                         /\ day'[v] = (IF v = u THEN today ELSE day[v])
  BY DEF QuotaTypes
<1>2. \A w : ChargedOn(w)' = IF w \in mine THEN ChargedOn(w) \cup {u} ELSE ChargedOn(w)
  <2> TAKE w
  <2>1. \A v \in Uploads : v \in ChargedOn(w)' <=> state'[v] \in Charged /\ w \in WindowsOf(v, day'[v])
    BY DEF ChargedOn, WindowsOf
  <2>2. \A v \in Uploads : v \in ChargedOn(w) <=> state[v] \in Charged /\ w \in WindowsOf(v, day[v])
    BY DEF ChargedOn
  <2>3. ChargedOn(w) \subseteq Uploads /\ ChargedOn(w)' \subseteq Uploads  BY DEF ChargedOn
  <2>4. "RESERVED" \in Charged /\ state[u] \notin Charged  BY DEF Charged
  <2> QED  BY <1>1, <2>1, <2>2, <2>3, <2>4
<1>3. \A w : ConfirmedOn(w)' = ConfirmedOn(w)
  <2> TAKE w
  <2>1. \A v \in Uploads : v \in ConfirmedOn(w)' <=> state'[v] = "CONFIRMED" /\ w \in WindowsOf(v, day'[v])
    BY DEF ConfirmedOn, WindowsOf
  <2>2. \A v \in Uploads : v \in ConfirmedOn(w) <=> state[v] = "CONFIRMED" /\ w \in WindowsOf(v, day[v])
    BY DEF ConfirmedOn
  <2>3. ConfirmedOn(w) \subseteq Uploads /\ ConfirmedOn(w)' \subseteq Uploads  BY DEF ConfirmedOn
  <2>4. \A v \in Uploads : v \in ConfirmedOn(w)' <=> v \in ConfirmedOn(w)
    <3> TAKE v \in Uploads
    <3>1. CASE v = u  BY <1>1, <2>1, <2>2, <3>1
    <3>2. CASE v # u  BY <1>1, <2>1, <2>2, <3>2
    <3> QED  BY <3>1, <3>2
  <2> QED  BY <2>3, <2>4
<1>4. \A w : u \notin ChargedOn(w) /\ ChargedOn(w) \in SUBSET Uploads  BY DEF ChargedOn, Charged
<1>5. \A w : Cardinality(ChargedOn(w)) \in Nat  BY <1>4, UploadCounts
<1>6. \A w : Requested * Cardinality(ChargedOn(w)') =
               Requested * Cardinality(ChargedOn(w)) + IF w \in mine THEN Requested ELSE 0
  <2> TAKE w
  <2>1. CASE w \in mine  BY <1>2, <1>4, <2>1, OneMore
  <2>2. CASE w \notin mine  BY <1>2, <1>5, <2>2, QuotaAssumption
  <2> QED  BY <2>1, <2>2
<1>7. \A w \in mine : confirmed[w] + reserved[w] + Requested <= Limit[w[1]]  BY DEF Fits
<1> HIDE DEF mine
<1>8. \A w \in Windows : /\ reserved[w] = Requested * Cardinality(ChargedOn(w))
                         /\ w # Total => confirmed[w] = Requested * Cardinality(ConfirmedOn(w))
                         /\ confirmed[w] + reserved[w] <= Limit[w[1]]
                         /\ reserved[w] \in Nat /\ confirmed[w] \in Nat
  BY DEF Counts, QuotaTypes
<1>9. \A w \in Windows : reserved'[w] = reserved[w] + IF w \in mine THEN Requested ELSE 0
  BY DEF mine
<1>10. \A w \in Windows :
         /\ reserved'[w] = Requested * Cardinality(ChargedOn(w)') /\ reserved'[w] \in Nat
         /\ w # Total => confirmed'[w] = Requested * Cardinality(ConfirmedOn(w)')
         /\ confirmed'[w] + reserved'[w] <= Limit[w[1]]
  <2> TAKE w \in Windows
  <2>1. Limit[w[1]] \in Nat  BY QuotaAssumption, WindowsAre DEF Windows
  <2> QED  BY <1>3, <1>6, <1>7, <1>8, <1>9, <2>1, QuotaAssumption
<1>11. Counts'  BY ONLY <1>10 DEF Counts
<1>12. QuotaTypes'
  <2>1. reserved' \in [Windows -> Nat]  BY <1>10
  <2>2. state' \in [Uploads -> ReservationStates \cup {"none"}] /\ day' \in [Uploads -> 1..MaxDay]
    BY DEF QuotaTypes, ReservationStates
  <2>3. confirmed' \in [Windows -> Nat]  BY DEF QuotaTypes
  <2> QED  BY ONLY <2>1, <2>2, <2>3 DEF QuotaTypes
<1> QED  BY <1>3, <1>11, <1>12 DEF Off, Total

(* A deletion takes from the total what the rows it read are worth, and no      *)
(* more than there is (markDeleted).                                            *)
LEMMA MarkStep ==
  ASSUME QuotaTypes, Counts, NEW u \in Uploads, NEW seen \in SUBSET Parts,
         MarkDeleted(u, seen), UNCHANGED <<state, day, reserved>>
  PROVE  QuotaTypes' /\ Counts' /\ Off' = Off - Cardinality(seen) * PartSize
<1>1. /\ confirmed[Total] >= Cardinality(seen) * PartSize
      /\ confirmed' = [confirmed EXCEPT ![Total] = @ - Cardinality(seen) * PartSize]
  BY DEF MarkDeleted, Shrinks
<1> DEFINE less == Cardinality(seen) * PartSize
<1>2. less \in Nat  BY UploadCounts, QuotaAssumption
<1>3. \A w : ChargedOn(w)' = ChargedOn(w) /\ ConfirmedOn(w)' = ConfirmedOn(w)
  BY DEF ChargedOn, ConfirmedOn
<1>4. \A w \in Windows : /\ reserved[w] = Requested * Cardinality(ChargedOn(w))
                         /\ w # Total => confirmed[w] = Requested * Cardinality(ConfirmedOn(w))
                         /\ confirmed[w] + reserved[w] <= Limit[w[1]]
                         /\ reserved[w] \in Nat /\ confirmed[w] \in Nat
  BY DEF Counts, QuotaTypes
<1>5. confirmed \in [Windows -> Nat] /\ Total \in Windows  BY WindowsAre DEF QuotaTypes
<1> HIDE DEF less
<1>6. /\ confirmed' \in [Windows -> Nat]
      /\ \A w \in Windows : confirmed'[w] = IF w = Total THEN confirmed[w] - less ELSE confirmed[w]
  BY <1>1, <1>2, <1>5 DEF less
<1>7. \A w \in Windows :
        /\ reserved'[w] = Requested * Cardinality(ChargedOn(w)')
        /\ w # Total => confirmed'[w] = Requested * Cardinality(ConfirmedOn(w)')
        /\ confirmed'[w] + reserved'[w] <= Limit[w[1]]
  <2> TAKE w \in Windows
  <2>1. Limit[w[1]] \in Nat  BY QuotaAssumption, WindowsAre DEF Windows
  <2> QED  BY <1>2, <1>3, <1>4, <1>6, <2>1
<1>8. Counts'  BY ONLY <1>7 DEF Counts
<1>9. QuotaTypes'  BY <1>6 DEF QuotaTypes
<1>10. ConfirmedOn(Total) \in SUBSET Uploads  BY DEF ConfirmedOn
<1>11. Requested * Cardinality(ConfirmedOn(Total)) \in Int  BY <1>10, UploadCounts, QuotaAssumption
<1>12. Off' = Off - less
  <2>1. Cardinality(ConfirmedOn(Total))' = Cardinality(ConfirmedOn(Total))  BY <1>3
  <2>2. confirmed'[Total] = confirmed[Total] - less /\ confirmed[Total] \in Int  BY <1>4, <1>5, <1>6
  <2>3. Off' = confirmed'[Total] - Requested * Cardinality(ConfirmedOn(Total))
    BY <2>1 DEF Off, Total
  <2> QED  BY <1>2, <1>11, <2>2, <2>3 DEF Off
<1> QED  BY <1>8, <1>9, <1>12 DEF less

(* Steps that leave the reservations and the counters alone.                  *)
LEMMA QuotaSame ==
  ASSUME QuotaTypes, Counts, UNCHANGED <<state, day, reserved, confirmed>>
  PROVE  QuotaTypes' /\ Counts' /\ Off' = Off
BY DEF QuotaTypes, Counts, Off, ChargedOn, ConfirmedOn

UploadsInv == TypeOK /\ Counts /\ \A u \in Uploads : Tidy(u)

(* What every step makes of the counters; only a deletion changes what the      *)
(* total has lost.                                                              *)
LEMMA QuotaStep ==
  ASSUME UploadsInv, [Next]_vars
  PROVE  /\ QuotaTypes' /\ Counts'
         /\ \/ Off' = Off /\ UNCHANGED <<deletedRows, doubled>>
            \/ \E u \in Uploads : CleanMark(u)
            \/ \E m \in Removers : MarkRows(m)
<1>0. TypeOK /\ QuotaTypes /\ Counts /\ \A u \in Uploads : Tidy(u)
  BY UploadTypes DEF UploadsInv, QuotaTypes
<1>t. /\ today \in 1..MaxDay /\ removal \in [Removers -> Removals]
      /\ sent \in [Uploads -> SUBSET Parts] /\ activeRows \in [Uploads -> SUBSET Parts]
  BY <1>0, UploadTypes
<1>1. CASE UNCHANGED <<state, day, reserved, confirmed, deletedRows, doubled>>
  BY <1>0, <1>1, QuotaSame
<1>2. ASSUME NEW u \in Uploads, Reserve(u), ~UNCHANGED <<state, day, reserved, confirmed>>
      PROVE  QuotaTypes' /\ Counts' /\ Off' = Off /\ UNCHANGED <<deletedRows, doubled>>
  <2>1. /\ pc[u] = "idle" /\ \A w \in WindowsOf(u, today) : Fits(u, w)
        /\ reserved' = [w \in Windows |->
             reserved[w] + IF w \in WindowsOf(u, today) THEN Requested ELSE 0]
        /\ state' = [state EXCEPT ![u] = "RESERVED"] /\ day' = [day EXCEPT ![u] = today]
        /\ confirmed' = confirmed /\ UNCHANGED <<deletedRows, doubled>>
    BY <1>2 DEF Reserve, Go, quota, files
  <2>2. state[u] = "none"  BY <1>0, <2>1 DEF Tidy
  <2> QED  BY <1>0, <1>t, <2>1, <2>2, ReserveStep
<1>3. ASSUME NEW u \in Uploads, Optimize(u) \/ Confirm(u),
             ~UNCHANGED <<state, day, reserved, confirmed>>
      PROVE  QuotaTypes' /\ Counts' /\ Off' = Off /\ UNCHANGED <<deletedRows, doubled>>
  <2>1. /\ Transition(u, "RELEASED") \/ Transition(u, "CONFIRMED")
        /\ UNCHANGED <<deletedRows, doubled>>
    BY <1>3 DEF Optimize, Confirm, quota, files
  <2> QED  BY <1>0, <2>1, TransitionStep
<1>4. ASSUME NEW u \in Uploads, HandOver(u)
      PROVE  QuotaTypes' /\ Counts' /\ Off' = Off /\ UNCHANGED <<deletedRows, doubled>>
  <2>1. RequireReconciliation(u) /\ UNCHANGED <<deletedRows, doubled>>  BY <1>4 DEF HandOver, files
  <2> QED  BY <1>0, <2>1, ReconciliationStep
<1>5. ASSUME NEW u \in Uploads, ReconcileExpired(u)
      PROVE  QuotaTypes' /\ Counts' /\ Off' = Off /\ UNCHANGED <<deletedRows, doubled>>
  <2>1. /\ Transition(u, "CONFIRMED") \/ RequireReconciliation(u)
        /\ UNCHANGED <<deletedRows, doubled>>
    BY <1>5 DEF ReconcileExpired, files
  <2> QED  BY <1>0, <2>1, TransitionStep, ReconciliationStep
<1>6. ASSUME NEW u \in Uploads, ClaimExpired(u)
      PROVE  QuotaTypes' /\ Counts' /\ Off' = Off /\ UNCHANGED <<deletedRows, doubled>>
  <2>1. /\ state[u] = "RESERVED" /\ state' = [state EXCEPT ![u] = "EXPIRED"]
        /\ UNCHANGED <<day, reserved, confirmed, deletedRows, doubled>>
    BY <1>6 DEF ClaimExpired, files
  <2>2. state[u] \in Charged /\ "EXPIRED" \in Charged  BY <2>1 DEF Charged
  <2> QED  BY <1>0, <2>1, <2>2, StillCharged
<1>7. ASSUME NEW u \in Uploads, CleanMark(u), ~UNCHANGED <<state, day, reserved, confirmed, deletedRows, doubled>>
      PROVE  QuotaTypes' /\ Counts'
  <2>1. MarkDeleted(u, activeRows[u] \cap sent[u]) /\ UNCHANGED <<state, day, reserved>>
    BY <1>7 DEF CleanMark, quota, files
  <2>2. activeRows[u] \cap sent[u] \in SUBSET Parts  BY <1>t
  <2> QED  BY <1>0, <2>1, <2>2, MarkStep
<1>8. ASSUME NEW m \in Removers, MarkRows(m), ~UNCHANGED <<state, day, reserved, confirmed, deletedRows, doubled>>
      PROVE  QuotaTypes' /\ Counts'
  <2>1. MarkDeleted(removal[m].upload, removal[m].seen) /\ UNCHANGED <<state, day, reserved>>
    BY <1>8 DEF MarkRows, quota, files
  <2>2. removal[m].upload \in Uploads /\ removal[m].seen \in SUBSET Parts  BY <1>t DEF Removals
  <2> QED  BY <1>0, <2>1, <2>2, MarkStep
<1>9. ASSUME NEW u \in Uploads, NEW p \in Parts, UploadPart(u, p) \/ RegisterPart(u, p)
      PROVE  UNCHANGED <<state, day, reserved, confirmed, deletedRows, doubled>>
  BY <1>9 DEF UploadPart, RegisterPart, quota
<1>10. ASSUME NEW u \in Uploads, Attach(u) \/ CleanRemove(u) \/ FindLocal(u) \/ Crash(u)
       PROVE  UNCHANGED <<state, day, reserved, confirmed, deletedRows, doubled>>
  BY <1>10 DEF Attach, CleanRemove, FindLocal, Crash, quota, files
<1>11. ASSUME NEW m \in Removers, RemoveFile(m) \/ ReadRows(m) \/ \E u \in Uploads : FindFile(m, u)
       PROVE  UNCHANGED <<state, day, reserved, confirmed, deletedRows, doubled>>
  BY <1>11 DEF RemoveFile, ReadRows, FindFile, quota, files
<1>12. Midnight => UNCHANGED <<state, day, reserved, confirmed, deletedRows, doubled>>
  BY DEF Midnight, quota, files
<1>13. UNCHANGED vars => UNCHANGED <<state, day, reserved, confirmed, deletedRows, doubled>>
  BY DEF vars, quota, files
<1>14. ASSUME NEW u \in Uploads, Reserve(u) \/ Optimize(u) \/ Confirm(u)
       PROVE  UNCHANGED <<deletedRows, doubled>>
  BY <1>14 DEF Reserve, Optimize, Confirm, files
<1> QED
  BY <1>1, <1>2, <1>3, <1>4, <1>5, <1>6, <1>7, <1>8, <1>9, <1>10, <1>11, <1>12, <1>13, <1>14
     DEF Next

(* The types of what is not the quota.                                          *)
FileTypes ==
  /\ today \in 1..MaxDay /\ pc \in [Uploads -> UploadSteps] /\ attached \subseteq Uploads
  /\ sent \in [Uploads -> SUBSET Parts] /\ pending \in [Uploads -> SUBSET Parts]
  /\ stored \in [Uploads -> SUBSET Parts]
  /\ activeRows \in [Uploads -> SUBSET Parts] /\ deletedRows \in [Uploads -> SUBSET Parts]
  /\ check \in [Uploads -> {"none", "due", "local", "absent"}]
  /\ removal \in [Removers -> Removals] /\ doubled \in Nat

(* The types, those of the quota and those of the files.                      *)
LEMMA TypesAre == TypeOK <=> QuotaTypes /\ FileTypes
BY DEF TypeOK, QuotaTypes, FileTypes, UploadSteps, Removals

(* A step about one upload leaves the others as they are.                       *)
Alone(v) ==
  /\ state'[v] = state[v] /\ pc'[v] = pc[v] /\ stored'[v] = stored[v]
  /\ pending'[v] = pending[v] /\ activeRows'[v] = activeRows[v] /\ deletedRows'[v] = deletedRows[v]

(* What is in order for an upload stays so while others move.                 *)
LEMMA TidyAlone ==
  ASSUME NEW v \in Uploads, Tidy(v), Alone(v) PROVE Tidy(v)'
BY DEF Tidy, NothingYet, Alone

(* A settlement moves a reservation that is charged, and of one upload.         *)
LEMMA StateAfter ==
  ASSUME QuotaTypes, NEW u \in Uploads,
         \/ Transition(u, "CONFIRMED") \/ Transition(u, "RELEASED") \/ RequireReconciliation(u)
         \/ UNCHANGED quota
  PROVE  /\ \A v \in Uploads \ {u} : state'[v] = state[v]
         /\ \/ state'[u] = state[u]
            \/ state[u] \in {"RESERVED", "EXPIRED"} /\ state'[u] = "RELEASED" /\ Transition(u, "RELEASED")
            \/ state[u] \in {"RESERVED", "EXPIRED"} /\ state'[u] \in Charged \cup {"CONFIRMED"}
BY DEF QuotaTypes, Transition, RequireReconciliation, quota, Charged

(* The upload, up to the registration of its objects.                           *)
LEMMA UploadFiles ==
  ASSUME UploadsInv, NEW u \in Uploads,
         \/ Reserve(u) \/ Optimize(u) \/ Confirm(u) \/ Attach(u) \/ Crash(u)
         \/ \E p \in Parts : UploadPart(u, p) \/ RegisterPart(u, p)
  PROVE  FileTypes' /\ \A v \in Uploads : Tidy(v)'
<1>0. QuotaTypes /\ FileTypes /\ Tidy(u) /\ \A v \in Uploads : Tidy(v)
  BY TypesAre DEF UploadsInv
<1>a. ASSUME \A v \in Uploads \ {u} : Alone(v), Tidy(u)' PROVE \A v \in Uploads : Tidy(v)'
  BY <1>0, <1>a, TidyAlone
<1>1. CASE Reserve(u)
  <2>1. FileTypes'  BY <1>0, <1>1 DEF Reserve, Go, FileTypes, UploadSteps, Running, files
  <2>2. \A v \in Uploads \ {u} : Alone(v)
    BY <1>0, <1>1 DEF Reserve, Go, FileTypes, QuotaTypes, Alone, files, quota
  <2>3. pc[u] = "idle" /\ pc'[u] \in {"optimizing", "rejected"} /\ UNCHANGED <<pending, files>>
        /\ (pc'[u] = "optimizing" => state'[u] = "RESERVED")
        /\ (pc'[u] = "rejected" => state'[u] = state[u])
    BY <1>0, <1>1 DEF Reserve, Go, FileTypes, QuotaTypes, quota
  <2>4. Tidy(u)'  BY <1>0, <2>3 DEF Tidy, NothingYet, files, Charged
  <2> QED  BY <1>a, <2>1, <2>2, <2>4
<1>2. CASE Optimize(u)
  <2>1. FileTypes'  BY <1>0, <1>2 DEF Optimize, Go, FileTypes, UploadSteps, Running, files
  <2>2. /\ pc[u] = "optimizing" /\ UNCHANGED <<pending, files>>
        /\ \/ pc' = [pc EXCEPT ![u] = "uploading"] /\ UNCHANGED quota
           \/ pc' = [pc EXCEPT ![u] = "failed"] /\ Transition(u, "RELEASED")
    BY <1>2 DEF Optimize, Go
  <2>3. /\ \A v \in Uploads \ {u} : state'[v] = state[v]
        /\ \/ state'[u] = state[u]
           \/ state'[u] = "RELEASED" /\ Transition(u, "RELEASED")
           \/ state'[u] \in Charged \cup {"CONFIRMED"}
    BY <1>0, <2>2, StateAfter
  <2>4. \A v \in Uploads \ {u} : Alone(v)  BY <1>0, <2>2, <2>3 DEF FileTypes, Alone, files
  <2>5. pc'[u] \in {"uploading", "failed"} /\ (pc'[u] = "uploading" => state' = state)
    BY <1>0, <2>2 DEF FileTypes, quota
  <2>6. stored[u] = {} /\ NothingYet(u) /\ state[u] \in Charged \cup {"CONFIRMED"}
    BY <1>0, <2>2 DEF Tidy
  <2>7. UNCHANGED <<pending, stored, activeRows, deletedRows>>  BY <2>2 DEF files
  <2>8. Tidy(u)'  BY <2>5, <2>6, <2>7 DEF Tidy, NothingYet
  <2> QED  BY <1>a, <2>1, <2>4, <2>8
<1>3. CASE Confirm(u)
  <2>1. FileTypes'  BY <1>0, <1>3 DEF Confirm, FileTypes, UploadSteps, Running, files
  <2>2. /\ pc[u] = "registering" /\ UNCHANGED <<pending, stored, activeRows, deletedRows>>
        /\ \E to \in {"done", "removing"} : pc' = [pc EXCEPT ![u] = to]
        /\ Transition(u, "CONFIRMED") \/ UNCHANGED quota
    BY <1>3 DEF Confirm, files
  <2>3. /\ \A v \in Uploads \ {u} : state'[v] = state[v]
        /\ state'[u] = state[u] \/ state'[u] = "CONFIRMED"
    BY <1>0, <2>2 DEF Transition, quota, QuotaTypes
  <2>4. \A v \in Uploads \ {u} : Alone(v)  BY <1>0, <2>2, <2>3 DEF FileTypes, Alone
  <2>5. pc'[u] \in {"done", "removing"}  BY <1>0, <2>2 DEF FileTypes
  <2>6. Tidy(u)'  BY <1>0, <2>2, <2>3, <2>5 DEF Tidy, NothingYet
  <2> QED  BY <1>a, <2>1, <2>4, <2>6
<1>4. CASE Attach(u)
  <2>1. FileTypes'  BY <1>0, <1>4 DEF Attach, Go, FileTypes, UploadSteps, Running, files
  <2>2. /\ pc[u] = "done" /\ UNCHANGED <<state, pending, stored, activeRows, deletedRows>>
        /\ \E to \in {"attached", "removing"} : pc' = [pc EXCEPT ![u] = to]
    BY <1>4 DEF Attach, Go, files, quota
  <2>3. \A v \in Uploads \ {u} : Alone(v)  BY <1>0, <2>2 DEF FileTypes, Alone
  <2>4. pc'[u] \in {"attached", "removing"}  BY <1>0, <2>2 DEF FileTypes
  <2>5. Tidy(u)'  BY <1>0, <2>2, <2>4 DEF Tidy, NothingYet
  <2> QED  BY <1>a, <2>1, <2>3, <2>5
<1>5. CASE Crash(u)
  <2>1. FileTypes'  BY <1>0, <1>5 DEF Crash, FileTypes, UploadSteps, Running, files
  <2>2. /\ pc[u] \in Running /\ UNCHANGED <<state, stored, activeRows, deletedRows>>
        /\ pc' = [pc EXCEPT ![u] = "crashed"] /\ pending' = [pending EXCEPT ![u] = {}]
    BY <1>5 DEF Crash, files, quota
  <2>3. \A v \in Uploads \ {u} : Alone(v)  BY <1>0, <2>2 DEF FileTypes, Alone
  <2>4. pc'[u] = "crashed" /\ pending'[u] = {}  BY <1>0, <2>2 DEF FileTypes
  <2>5. Tidy(u)'
    BY <1>0, <2>2, <2>4 DEF Tidy, NothingYet
  <2> QED  BY <1>a, <2>1, <2>3, <2>5
<1>6. ASSUME NEW p \in Parts, UploadPart(u, p)
      PROVE  FileTypes' /\ \A v \in Uploads : Tidy(v)'
  <2>1. /\ pc[u] = "uploading" /\ UNCHANGED <<state, activeRows, deletedRows>>
        /\ stored' = stored \/ stored' = [stored EXCEPT ![u] = @ \cup {p}]
        /\ \E to \in {"uploading", "registering", "removing"} :
             /\ pc' = [pc EXCEPT ![u] = to]
             /\ \/ pending' = pending
                \/ to = "registering" /\ pending' = [pending EXCEPT ![u] = Parts]
    BY <1>0, <1>6 DEF UploadPart, quota, FileTypes
  <2>2. FileTypes'
    <3>1. sent' \in [Uploads -> SUBSET Parts]  BY <1>0, <1>6 DEF UploadPart, FileTypes
    <3>2. pc' \in [Uploads -> UploadSteps]  BY <1>0, <2>1 DEF FileTypes, UploadSteps, Running
    <3>3. stored' \in [Uploads -> SUBSET Parts]  BY <1>0, <2>1 DEF FileTypes
    <3>4. pending' \in [Uploads -> SUBSET Parts]  BY <1>0, <2>1 DEF FileTypes
    <3>5. UNCHANGED <<today, activeRows, deletedRows, doubled, attached, check, removal>>
      BY <1>6 DEF UploadPart
    <3> QED  BY <1>0, <3>1, <3>2, <3>3, <3>4, <3>5 DEF FileTypes
  <2>3. \A v \in Uploads \ {u} : Alone(v)  BY <1>0, <2>1 DEF FileTypes, Alone
  <2>4. pc'[u] \in {"uploading", "registering", "removing"} /\ (pc'[u] = "uploading" => pending' = pending)
    BY <1>0, <2>1 DEF FileTypes
  <2>5. NothingYet(u) /\ state[u] \in Charged \cup {"CONFIRMED"}  BY <1>0, <2>1 DEF Tidy
  <2>6. Tidy(u)'  BY <2>1, <2>4, <2>5 DEF Tidy, NothingYet
  <2> QED  BY <1>a, <2>2, <2>3, <2>6
<1>7. ASSUME NEW p \in Parts, RegisterPart(u, p)
      PROVE  FileTypes' /\ \A v \in Uploads : Tidy(v)'
  <2>1. /\ p \in pending[u] /\ pending' = [pending EXCEPT ![u] = @ \ {p}]
        /\ UNCHANGED <<state, stored, deletedRows>>
        /\ activeRows' = activeRows \/ activeRows' = [activeRows EXCEPT ![u] = @ \cup {p}]
        /\ pc' \in [Uploads -> UploadSteps] /\ \A v \in Uploads \ {u} : pc'[v] = pc[v]
        /\ pc'[u] = pc[u] \/ (pc[u] = "registering" /\ pc'[u] = "removing")
    <3>1. /\ p \in pending[u] /\ pending' = [pending EXCEPT ![u] = @ \ {p}]
          /\ UNCHANGED <<state, stored, deletedRows>>
          /\ activeRows' = activeRows \/ activeRows' = [activeRows EXCEPT ![u] = @ \cup {p}]
      BY <1>7 DEF RegisterPart, quota
    <3>2. pc' = pc \/ pc' = [pc EXCEPT ![u] = IF @ = "registering" THEN "removing" ELSE @]
      BY <1>7 DEF RegisterPart
    <3>3. /\ pc' \in [Uploads -> UploadSteps] /\ \A v \in Uploads \ {u} : pc'[v] = pc[v]
          /\ pc'[u] = pc[u] \/ (pc[u] = "registering" /\ pc'[u] = "removing")
      BY <1>0, <3>2 DEF FileTypes, UploadSteps, Running
    <3> QED  BY <3>1, <3>3
  <2>2. FileTypes'
    <3>1. pc' \in [Uploads -> UploadSteps]  BY <2>1
    <3>2. activeRows' \in [Uploads -> SUBSET Parts]  BY <1>0, <2>1 DEF FileTypes
    <3>3. pending' \in [Uploads -> SUBSET Parts]  BY <1>0, <2>1 DEF FileTypes
    <3>4. UNCHANGED <<today, sent, stored, deletedRows, doubled, attached, check, removal>>
      BY <1>7 DEF RegisterPart
    <3> QED  BY <1>0, <3>1, <3>2, <3>3, <3>4 DEF FileTypes
  <2>3. \A v \in Uploads \ {u} : Alone(v)  BY <1>0, <2>1 DEF FileTypes, Alone
  <2>4. /\ pending'[u] = pending[u] \ {p}
        /\ activeRows'[u] = activeRows[u] \/ activeRows'[u] = activeRows[u] \cup {p}
    BY <1>0, <2>1 DEF FileTypes
  <2>5. ~NothingYet(u) /\ state[u] \in Charged \cup {"CONFIRMED"}
        /\ pc[u] \notin {"idle", "rejected", "optimizing", "uploading"}
    BY <1>0, <2>1 DEF Tidy, NothingYet
  <2>6. activeRows'[u] \cap deletedRows[u] = {} /\ pending'[u] \cap (activeRows'[u] \cup deletedRows[u]) = {}
    BY <1>0, <2>1, <2>4 DEF Tidy
  <2>7. Tidy(u)'  BY <2>1, <2>4, <2>5, <2>6 DEF Tidy, NothingYet
  <2> QED  BY <1>a, <2>2, <2>3, <2>7
<1> QED  BY <1>1, <1>2, <1>3, <1>4, <1>5, <1>6, <1>7

(* Removal, the expired reservations and midnight.                              *)
LEMMA RemovalFiles ==
  ASSUME UploadsInv, NEW u \in Uploads,
         \/ CleanRemove(u) \/ CleanMark(u) \/ HandOver(u)
         \/ ClaimExpired(u) \/ FindLocal(u) \/ ReconcileExpired(u)
  PROVE  FileTypes' /\ \A v \in Uploads : Tidy(v)'
<1>0. QuotaTypes /\ FileTypes /\ Tidy(u) /\ \A v \in Uploads : Tidy(v)
  BY TypesAre DEF UploadsInv
<1>a. ASSUME \A v \in Uploads \ {u} : Alone(v), Tidy(u)' PROVE \A v \in Uploads : Tidy(v)'
  BY <1>0, <1>a, TidyAlone
<1>1. CASE CleanRemove(u)
  <2>1. /\ pc[u] = "removing" /\ pc' = [pc EXCEPT ![u] = "marking"]
        /\ stored' = stored \/ stored' = [stored EXCEPT ![u] = @ \ sent[u]]
        /\ UNCHANGED <<state, pending, activeRows, deletedRows>>
    BY <1>1 DEF CleanRemove, Go, RemoveObjects, quota
  <2>2. UNCHANGED <<today, sent, pending, activeRows, deletedRows, doubled, attached, check, removal>>
    BY <1>1 DEF CleanRemove
  <2>3. FileTypes'
    <3>1. stored' \in [Uploads -> SUBSET Parts]  BY <1>0, <2>1 DEF FileTypes
    <3>2. pc' \in [Uploads -> UploadSteps]  BY <1>0, <2>1 DEF FileTypes, UploadSteps, Running
    <3> QED  BY <1>0, <2>2, <3>1, <3>2 DEF FileTypes
  <2>4. \A v \in Uploads \ {u} : Alone(v)  BY <1>0, <2>1 DEF FileTypes, Alone
  <2>5. pc'[u] = "marking"  BY <1>0, <2>1 DEF FileTypes
  <2>6. Tidy(u)'  BY <1>0, <2>1, <2>5 DEF Tidy, NothingYet
  <2> QED  BY <1>a, <2>3, <2>4, <2>6
<1>2. CASE CleanMark(u)
  <2> DEFINE seen == activeRows[u] \cap sent[u]
  <2>1. /\ pc[u] = "marking" /\ \E to \in {"handing", "failed"} : pc' = [pc EXCEPT ![u] = to]
        /\ \/ /\ activeRows' = [activeRows EXCEPT ![u] = @ \ seen]
              /\ deletedRows' = [deletedRows EXCEPT ![u] = @ \cup (activeRows[u] \cap seen)]
              /\ doubled' = doubled + Cardinality(seen \ activeRows[u])
           \/ UNCHANGED <<activeRows, deletedRows, doubled>>
        /\ UNCHANGED <<state, pending, stored>>
    BY <1>2 DEF CleanMark, MarkDeleted, Go, quota, files
  <2>2. UNCHANGED <<today, sent, pending, attached, check, removal>>  BY <1>2 DEF CleanMark
  <2> HIDE DEF seen
  <2>3. FileTypes'
    <3>1. activeRows' \in [Uploads -> SUBSET Parts] /\ deletedRows' \in [Uploads -> SUBSET Parts]
      BY <1>0, <2>1 DEF FileTypes
    <3>2. pc' \in [Uploads -> UploadSteps]  BY <1>0, <2>1 DEF FileTypes, UploadSteps, Running
    <3>3. doubled' \in Nat
      <4>1. seen \ activeRows[u] \in SUBSET Parts  BY <1>0 DEF FileTypes, seen
      <4>2. Cardinality(seen \ activeRows[u]) \in Nat  BY <4>1, UploadCounts
      <4> QED  BY <1>0, <2>1, <4>2 DEF FileTypes
    <3> QED  BY <1>0, <2>1, <2>2, <3>1, <3>2, <3>3 DEF FileTypes
  <2>4. \A v \in Uploads \ {u} : Alone(v)  BY <1>0, <2>1 DEF FileTypes, Alone
  <2>5. /\ pc'[u] \in {"handing", "failed"}
        /\ \/ activeRows'[u] = activeRows[u] /\ deletedRows'[u] = deletedRows[u]
           \/ /\ activeRows'[u] = activeRows[u] \ seen
              /\ deletedRows'[u] = deletedRows[u] \cup (activeRows[u] \cap seen)
    BY <1>0, <2>1 DEF FileTypes
  <2>6. state[u] \in Charged \cup {"CONFIRMED"}  BY <1>0, <2>1 DEF Tidy
  <2>7. /\ activeRows'[u] \cap deletedRows'[u] = {}
        /\ pending[u] \cap (activeRows'[u] \cup deletedRows'[u]) = {}
    BY <1>0, <2>5 DEF Tidy
  <2>8. Tidy(u)'  BY <2>1, <2>5, <2>6, <2>7 DEF Tidy, NothingYet
  <2> QED  BY <1>a, <2>3, <2>4, <2>8
<1>3. CASE HandOver(u)
  <2>1. /\ pc[u] = "handing" /\ pc' = [pc EXCEPT ![u] = "failed"] /\ RequireReconciliation(u)
        /\ UNCHANGED <<today, sent, pending, stored, activeRows, deletedRows, doubled, attached, check,
                       removal>>
    BY <1>3 DEF HandOver, Go, files
  <2>2. /\ \A v \in Uploads \ {u} : state'[v] = state[v]
        /\ state'[u] = state[u] \/ state'[u] = "RECONCILIATION_REQUIRED"
    BY <1>0, <2>1 DEF RequireReconciliation, QuotaTypes
  <2>3. FileTypes'  BY <1>0, <2>1 DEF FileTypes, UploadSteps
  <2>4. \A v \in Uploads \ {u} : Alone(v)  BY <1>0, <2>1, <2>2 DEF FileTypes, Alone
  <2>5. pc'[u] = "failed"  BY <1>0, <2>1 DEF FileTypes
  <2>6. Tidy(u)'  BY <1>0, <2>1, <2>2, <2>5 DEF Tidy, NothingYet, Charged
  <2> QED  BY <1>a, <2>3, <2>4, <2>6
<1>4. CASE ClaimExpired(u) \/ FindLocal(u) \/ ReconcileExpired(u)
  <2>1. UNCHANGED <<today, pc, sent, pending, stored, activeRows, deletedRows, doubled, attached, removal>>
    BY <1>4 DEF ClaimExpired, FindLocal, ReconcileExpired, files
  <2>2. check' \in [Uploads -> {"none", "due", "local", "absent"}]
    BY <1>0, <1>4 DEF ClaimExpired, FindLocal, ReconcileExpired, FileTypes
  <2>3. FileTypes'  BY <1>0, <2>1, <2>2 DEF FileTypes
  <2>4. /\ \A v \in Uploads \ {u} : state'[v] = state[v]
        /\ \/ state'[u] = state[u]
           \/ state[u] \in Charged /\ state'[u] \in Charged \cup {"CONFIRMED"}
    BY <1>0, <1>4 DEF ClaimExpired, FindLocal, ReconcileExpired, Transition, RequireReconciliation,
       QuotaTypes, quota, Charged
  <2>5. \A v \in Uploads \ {u} : Alone(v)  BY <2>1, <2>4 DEF Alone
  <2>6. Tidy(u)'  BY <1>0, <2>1, <2>4 DEF Tidy, NothingYet, Charged
  <2> QED  BY <1>a, <2>3, <2>5, <2>6
<1> QED  BY <1>1, <1>2, <1>3, <1>4

(* The request that removes a file.                                             *)
LEMMA RemoverFiles ==
  ASSUME UploadsInv, NEW m \in Removers,
         \/ RemoveFile(m) \/ ReadRows(m) \/ MarkRows(m) \/ \E u \in Uploads : FindFile(m, u)
  PROVE  FileTypes' /\ \A v \in Uploads : Tidy(v)'
<1>0. QuotaTypes /\ FileTypes /\ \A v \in Uploads : Tidy(v)
  BY TypesAre DEF UploadsInv
<1>a. removal[m].upload \in Uploads /\ removal[m].seen \in SUBSET Parts
  BY <1>0 DEF FileTypes, Removals
<1>1. PICK u \in Uploads, seen \in SUBSET Parts : u = removal[m].upload /\ seen = removal[m].seen
  BY <1>a
<1>2. UNCHANGED <<today, state, pc, sent, pending, check>> /\ attached' \subseteq Uploads
  BY <1>0 DEF RemoveFile, ReadRows, MarkRows, FindFile, quota, FileTypes
<1>3. removal' \in [Removers -> Removals]
  <2>1. CASE RemoveFile(m)
    <3>1. removal' = [removal EXCEPT ![m].pc = "removed"]  BY <2>1 DEF RemoveFile
    <3> QED  BY <1>0, <3>1 DEF FileTypes, Removals
  <2>2. CASE ReadRows(m)
    <3>1. removal' = [removal EXCEPT ![m].pc = "read", ![m].seen = activeRows[u]]
      BY <1>1, <2>2 DEF ReadRows
    <3>2. activeRows[u] \in SUBSET Parts  BY <1>0, <1>1 DEF FileTypes
    <3>3. removal' = [removal EXCEPT ![m] = [@ EXCEPT !.pc = "read", !.seen = activeRows[u]]]
      BY <3>1
    <3>4. \A r \in Removals : [r EXCEPT !.pc = "read", !.seen = activeRows[u]] \in Removals
      BY <3>2 DEF Removals
    <3> QED  BY <1>0, <3>3, <3>4 DEF FileTypes
  <2>3. CASE MarkRows(m)
    <3>1. removal' = [removal EXCEPT ![m] = Idle]  BY <2>3 DEF MarkRows
    <3>2. Idle \in Removals  BY QuotaAssumption DEF Idle, Removals
    <3> QED  BY <1>0, <3>1, <3>2 DEF FileTypes
  <2>4. ASSUME NEW v \in Uploads, FindFile(m, v) PROVE removal' \in [Removers -> Removals]
    <3>1. removal' = [removal EXCEPT ![m] = [pc |-> "found", upload |-> v, seen |-> {}]]
      BY <2>4 DEF FindFile
    <3> QED  BY <1>0, <3>1 DEF FileTypes, Removals
  <2> QED  BY <2>1, <2>2, <2>3, <2>4
<1>4. /\ stored' = stored \/ stored' = [stored EXCEPT ![u] = @ \ Parts]
      /\ \/ UNCHANGED <<activeRows, deletedRows, doubled>>
         \/ /\ activeRows' = [activeRows EXCEPT ![u] = @ \ seen]
            /\ deletedRows' = [deletedRows EXCEPT ![u] = @ \cup (activeRows[u] \cap seen)]
            /\ doubled' = doubled + Cardinality(seen \ activeRows[u])
  BY <1>1 DEF RemoveFile, ReadRows, MarkRows, FindFile, MarkDeleted, RemoveObjects, files
<1>5. FileTypes'
  <2>1. stored' \in [Uploads -> SUBSET Parts]  BY <1>0, <1>1, <1>4 DEF FileTypes
  <2>2. activeRows' \in [Uploads -> SUBSET Parts] /\ deletedRows' \in [Uploads -> SUBSET Parts]
    BY <1>0, <1>1, <1>4 DEF FileTypes
  <2>3. doubled' \in Nat
    <3>1. seen \ activeRows[u] \in SUBSET Parts  BY <1>1
    <3>2. Cardinality(seen \ activeRows[u]) \in Nat  BY <3>1, UploadCounts
    <3> QED  BY <1>0, <1>4, <3>2 DEF FileTypes
  <2> QED  BY <1>0, <1>2, <1>3, <2>1, <2>2, <2>3 DEF FileTypes
<1>6. \A v \in Uploads \ {u} : Alone(v)  BY <1>0, <1>1, <1>2, <1>4 DEF FileTypes, Alone
<1>7. /\ stored'[u] \subseteq stored[u]
      /\ \/ activeRows'[u] = activeRows[u] /\ deletedRows'[u] = deletedRows[u]
         \/ /\ activeRows'[u] = activeRows[u] \ seen
            /\ deletedRows'[u] = deletedRows[u] \cup (activeRows[u] \cap seen)
  BY <1>0, <1>1, <1>4 DEF FileTypes
<1>8. Tidy(u)'
  <2>1. /\ activeRows'[u] \cap deletedRows'[u] = {}
        /\ pending[u] \cap (activeRows'[u] \cup deletedRows'[u]) = {}
    BY <1>0, <1>1, <1>7 DEF Tidy
  <2>2. NothingYet(u) => NothingYet(u)'  BY <1>2, <1>7 DEF NothingYet
  <2>3. state'[u] = state[u] /\ pc'[u] = pc[u] /\ pending'[u] = pending[u]  BY <1>2
  <2> QED  BY <1>0, <1>1, <1>7, <2>1, <2>2, <2>3 DEF Tidy
<1> QED  BY <1>0, <1>1, <1>5, <1>6, <1>8, TidyAlone

(* The counters are exact before anybody uploads.                               *)
LEMMA UploadsInit == Init => UploadsInv
<1> SUFFICES ASSUME Init PROVE UploadsInv  OBVIOUS
<1>1. QuotaTypes
  BY QuotaAssumption DEF Init, QuotaTypes
<1>2. Idle \in Removals  BY QuotaAssumption DEF Idle, Removals
<1>3. FileTypes  BY <1>2, QuotaAssumption DEF Init, FileTypes, UploadSteps
<1>4. \A u \in Uploads : Tidy(u)  BY DEF Init, Tidy, NothingYet
<1>5. Counts
  <2>1. \A w : ChargedOn(w) = {} /\ ConfirmedOn(w) = {}  BY DEF Init, ChargedOn, ConfirmedOn, Charged
  <2>2. Cardinality({}) = 0  BY FS_EmptySet
  <2>3. \A w \in Windows : Limit[w[1]] \in Nat  BY QuotaAssumption, WindowsAre DEF Windows
  <2>4. \A w \in Windows : reserved[w] = 0 /\ confirmed[w] = 0  BY DEF Init
  <2>5. Requested * 0 = 0  BY QuotaAssumption
  <2>6. \A w \in Windows : /\ reserved[w] = Requested * Cardinality(ChargedOn(w))
                           /\ w # Total => confirmed[w] = Requested * Cardinality(ConfirmedOn(w))
                           /\ confirmed[w] + reserved[w] <= Limit[w[1]]
    <3> TAKE w \in Windows
    <3>1. Cardinality(ChargedOn(w)) = 0 /\ Cardinality(ConfirmedOn(w)) = 0  BY <2>1, <2>2
    <3> QED  BY <2>3, <2>4, <2>5, <3>1
  <2> QED  BY <2>6 DEF Counts
<1> QED  BY <1>1, <1>3, <1>4, <1>5, TypesAre DEF UploadsInv

(* Every step keeps them so.                                                    *)
LEMMA UploadsStep == UploadsInv /\ [Next]_vars => UploadsInv'
<1> SUFFICES ASSUME UploadsInv, [Next]_vars PROVE UploadsInv'  OBVIOUS
<1>1. QuotaTypes' /\ Counts'  BY QuotaStep
<1>2. FileTypes' /\ \A v \in Uploads : Tidy(v)'
  <2>1. CASE Midnight
    <3>1. FileTypes'
      BY <2>1, TypesAre, QuotaAssumption DEF Midnight, UploadsInv, FileTypes, files
    <3>2. \A v \in Uploads : Alone(v)  BY <2>1 DEF Midnight, Alone, files, quota
    <3> QED  BY <3>1, <3>2, TidyAlone DEF UploadsInv
  <2>2. CASE UNCHANGED vars
    <3>1. FileTypes'  BY <2>2, TypesAre DEF vars, UploadsInv, FileTypes, files
    <3>2. \A v \in Uploads : Alone(v)  BY <2>2 DEF vars, Alone, files, quota
    <3> QED  BY <3>1, <3>2, TidyAlone DEF UploadsInv
  <2> QED  BY <2>1, <2>2, UploadFiles, RemovalFiles, RemoverFiles DEF Next
<1>3. TypeOK'  BY <1>1, <1>2, TypesAre DEF QuotaTypes, FileTypes, TypeOK, Running, UploadSteps, Removals
<1> QED  BY <1>1, <1>2, <1>3 DEF UploadsInv

(* Of two sets without a common element there are as many as of both.           *)
LEMMA Apart ==
  ASSUME NEW S, IsFiniteSet(S), NEW T, IsFiniteSet(T), S \cap T = {}
  PROVE  IsFiniteSet(S \cup T) /\ Cardinality(S \cup T) = Cardinality(S) + Cardinality(T)
<1>1. /\ IsFiniteSet(S \cup T)
      /\ Cardinality(S \cup T) = Cardinality(S) + Cardinality(T) - Cardinality(S \cap T)
  BY FS_Union
<1>2. Cardinality(S \cap T) = 0  BY FS_EmptySet
<1>3. Cardinality(S) \in Nat /\ Cardinality(T) \in Nat  BY FS_CardinalityType
<1> QED  BY <1>1, <1>2, <1>3

(* Files that are counted.                                                      *)
LEMMA FilesCounted ==
  ASSUME NEW f \in [Uploads -> SUBSET Parts]
  PROVE  IsFiniteSet(FilesOf(f)) /\ Cardinality(FilesOf(f)) \in Nat
<1>1. IsFiniteSet(Uploads \X Parts)  BY QuotaAssumption, FS_Product
<1>2. FilesOf(f) \subseteq Uploads \X Parts  BY DEF FilesOf
<1> QED  BY <1>1, <1>2, FS_Subset, FS_CardinalityType

(* Files added to those of one upload.                                        *)
LEMMA FilesAdded ==
  ASSUME NEW f \in [Uploads -> SUBSET Parts], NEW u \in Uploads, NEW add \in SUBSET Parts,
         add \cap f[u] = {}, NEW g, g = [f EXCEPT ![u] = @ \cup add]
  PROVE  Cardinality(FilesOf(g)) = Cardinality(FilesOf(f)) + Cardinality(add)
<1>1. IsFiniteSet(FilesOf(f)) /\ Cardinality(FilesOf(f)) \in Nat  BY FilesCounted
<1>2. IsFiniteSet(add) /\ Cardinality(add) \in Nat  BY UploadCounts
<1>3. IsFiniteSet({u}) /\ Cardinality({u}) = 1  BY FS_Singleton
<1>4. IsFiniteSet({u} \X add) /\ Cardinality({u} \X add) = Cardinality(add)
  BY <1>2, <1>3, FS_Product
<1>5. FilesOf(g) = FilesOf(f) \cup ({u} \X add)  BY DEF FilesOf
<1>6. FilesOf(f) \cap ({u} \X add) = {}  BY DEF FilesOf
<1> QED  BY <1>1, <1>4, <1>5, <1>6, Apart

(* A product with what is more is more.                                         *)
LEMMA TimesMore ==
  ASSUME NEW a \in Nat, NEW b \in Nat, NEW n \in Nat, a <= b
  PROVE  a * n <= b * n
<1>1. PICK d \in Nat : b = a + d  OBVIOUS
<1>2. b * n = a * n + d * n  BY <1>1
<1>3. d * n \in Nat  OBVIOUS
<1> QED  BY <1>2, <1>3

(* What was taken off again is a number.                                      *)
LEMMA DoubledIs == UploadsInv => doubled \in Nat /\ Doubled \in Nat
BY TypesAre, QuotaAssumption DEF UploadsInv, FileTypes, Doubled

(* Whoever has rows is charged, for as many files as an upload can have.        *)
LEMMA ChargedEnough ==
  ASSUME UploadsInv, TotalExplained PROVE ActiveCharged
<1>0. /\ activeRows \in [Uploads -> SUBSET Parts] /\ deletedRows \in [Uploads -> SUBSET Parts]
      /\ \A u \in Uploads : Tidy(u)
  BY UploadTypes DEF UploadsInv
<1> DEFINE A == FilesOf(activeRows)  D == FilesOf(deletedRows)
           C == ChargedOn(Total)  K == ConfirmedOn(Total)
<1>1. /\ IsFiniteSet(A) /\ Cardinality(A) \in Nat
      /\ IsFiniteSet(D) /\ Cardinality(D) \in Nat
  BY <1>0, FilesCounted
<1>2. A \cap D = {}  BY <1>0 DEF FilesOf, Tidy
<1>3. Cardinality(A \cup D) = Cardinality(A) + Cardinality(D)
  BY <1>1, <1>2, Apart
<1>4. C \in SUBSET Uploads /\ K \in SUBSET Uploads /\ C \cap K = {}
  BY DEF ChargedOn, ConfirmedOn, Charged
<1>5. /\ IsFiniteSet(C) /\ Cardinality(C) \in Nat /\ IsFiniteSet(K) /\ Cardinality(K) \in Nat
      /\ IsFiniteSet(C \cup K) /\ Cardinality(C \cup K) = Cardinality(C) + Cardinality(K)
  <2> HIDE DEF C, K
  <2> QED  BY <1>4, UploadCounts, Apart
<1>6. A \cup D \subseteq (C \cup K) \X Parts
  <2>1. \A u \in Uploads : activeRows[u] \cup deletedRows[u] # {} => state[u] \in Charged \cup {"CONFIRMED"}
    BY <1>0 DEF Tidy, NothingYet
  <2>2. \A u \in Uploads : Total \in WindowsOf(u, day[u])
    BY WindowsAre, UploadTypes DEF UploadsInv
  <2>3. \A u \in Uploads : activeRows[u] \cup deletedRows[u] # {} => u \in C \cup K
    BY <2>1, <2>2 DEF ChargedOn, ConfirmedOn
  <2> HIDE DEF C, K
  <2> QED  BY <2>3 DEF FilesOf
<1> HIDE DEF A, D, C, K
<1>7. IsFiniteSet(Parts) /\ Cardinality(Parts) \in Nat  BY QuotaAssumption, FS_CardinalityType
<1>8. /\ IsFiniteSet((C \cup K) \X Parts)
      /\ Cardinality((C \cup K) \X Parts) = Cardinality(C \cup K) * Cardinality(Parts)
  BY <1>5, <1>7, FS_Product
<1>9. Cardinality(A \cup D) <= Cardinality(C \cup K) * Cardinality(Parts)
  BY <1>6, <1>8, FS_Subset
<1> DEFINE a == Cardinality(A)  d == Cardinality(D)  c == Cardinality(C)  k == Cardinality(K)
           n == Cardinality(Parts)
<1>10. /\ a \in Nat /\ d \in Nat /\ c \in Nat /\ k \in Nat /\ n \in Nat
       /\ a + d <= (c + k) * n
  BY <1>1, <1>3, <1>5, <1>7, <1>9
<1>11. PartSize \in Nat /\ Requested \in Nat /\ n * PartSize <= Requested  BY QuotaAssumption
<1>12. /\ confirmed[Total] = Requested * k - PartSize * d - Doubled
       /\ reserved[Total] = Requested * c
  BY WindowsAre DEF TotalExplained, Bytes, UploadsInv, Counts, D, C, K
<1> HIDE DEF a, d, c, k, n
<1>13. PartSize * a <= Requested * (c + k) - PartSize * d
  <2>1. (a + d) * PartSize <= ((c + k) * n) * PartSize  BY <1>10, <1>11, TimesMore
  <2>2. (n * PartSize) * (c + k) <= Requested * (c + k)  BY <1>10, <1>11, TimesMore
  <2>3. ((c + k) * n) * PartSize = (n * PartSize) * (c + k)  BY <1>10, <1>11
  <2>4. (a + d) * PartSize = PartSize * a + PartSize * d  BY <1>10, <1>11
  <2>5. PartSize * a \in Nat /\ PartSize * d \in Nat /\ Requested * (c + k) \in Nat
        /\ (a + d) * PartSize \in Nat /\ (n * PartSize) * (c + k) \in Nat
    BY <1>10, <1>11
  <2> QED  BY <2>1, <2>2, <2>3, <2>4, <2>5
<1>14. Requested * (c + k) = Requested * c + Requested * k  BY <1>10, <1>11
<1>15. PartSize * a <= confirmed[Total] + reserved[Total] + Doubled
  <2>1. /\ PartSize * a \in Nat /\ PartSize * d \in Nat
        /\ Requested * c \in Nat /\ Requested * k \in Nat
    BY <1>10, <1>11
  <2>2. Doubled \in Nat  BY DoubledIs
  <2> QED  BY <1>12, <1>13, <1>14, <2>1, <2>2
<1> QED  BY <1>15 DEF ActiveCharged, Bytes, a, A

(* The terms of the account of the total are numbers, before and after a step.  *)
LEMMA TotalNumbers ==
  ASSUME QuotaTypes, QuotaTypes'
  PROVE  /\ confirmed[Total] \in Int /\ confirmed'[Total] \in Int
         /\ Requested * Cardinality(ConfirmedOn(Total)) \in Int
         /\ Requested * Cardinality(ConfirmedOn(Total)') \in Int
<1>1. ConfirmedOn(Total) \in SUBSET Uploads /\ ConfirmedOn(Total)' \in SUBSET Uploads
  BY DEF ConfirmedOn
<1>2. Cardinality(ConfirmedOn(Total)) \in Nat /\ Cardinality(ConfirmedOn(Total)') \in Nat
  BY <1>1, UploadCounts
<1> QED  BY <1>2, WindowsAre, QuotaAssumption DEF QuotaTypes

(* A deletion: what the total loses is what the deleted rows gain, and the rows  *)
(* that another request had marked since they were read.                         *)
LEMMA RemovedStep ==
  ASSUME UploadsInv, TotalExplained, NEW u \in Uploads, NEW seen \in SUBSET Parts,
         MarkDeleted(u, seen), UNCHANGED <<state, day, reserved>>
  PROVE  TotalExplained'
<1>0. /\ QuotaTypes /\ Counts /\ deletedRows \in [Uploads -> SUBSET Parts] /\ Tidy(u)
  BY UploadTypes DEF UploadsInv, QuotaTypes
<1> DEFINE here == activeRows[u] \cap seen  gone == seen \ activeRows[u]
           h == Cardinality(here)  g == Cardinality(gone)
<1>1. Off' = Off - Cardinality(seen) * PartSize /\ QuotaTypes'  BY <1>0, MarkStep
<1>2. deletedRows' = [deletedRows EXCEPT ![u] = @ \cup here] /\ doubled' = doubled + g
  BY DEF MarkDeleted
<1>3. here \cap deletedRows[u] = {} /\ here \in SUBSET Parts  BY <1>0 DEF Tidy
<1>4. Cardinality(FilesOf(deletedRows')) = Cardinality(FilesOf(deletedRows)) + h
  <2>1. \A f : f = [deletedRows EXCEPT ![u] = @ \cup here] =>
          Cardinality(FilesOf(f)) = Cardinality(FilesOf(deletedRows)) + h
    BY <1>0, <1>3, FilesAdded
  <2> QED  BY <1>2, <2>1
<1>5. Cardinality(seen) = h + g /\ h \in Nat /\ g \in Nat
  <2>1. gone \in SUBSET Parts /\ here \cap gone = {} /\ seen = here \cup gone  OBVIOUS
  <2>2. IsFiniteSet(here) /\ IsFiniteSet(gone) /\ h \in Nat /\ g \in Nat  BY <1>3, <2>1, UploadCounts
  <2>3. Cardinality(here \cup gone) = h + g  BY <2>1, <2>2, Apart
  <2> QED  BY <2>1, <2>2, <2>3
<1> HIDE DEF here, gone, h, g
<1>6. Cardinality(FilesOf(deletedRows)) \in Nat /\ doubled \in Nat  BY <1>0, FilesCounted, DoubledIs
<1>7. /\ Bytes(deletedRows') = Bytes(deletedRows) + h * PartSize /\ Bytes(deletedRows) \in Nat
      /\ Doubled' = Doubled + g * PartSize /\ Doubled \in Nat
      /\ Cardinality(seen) * PartSize = h * PartSize + g * PartSize
      /\ h * PartSize \in Nat /\ g * PartSize \in Nat
  BY <1>2, <1>4, <1>5, <1>6, QuotaAssumption DEF Bytes, Doubled
<1>8. /\ confirmed[Total] \in Int /\ confirmed'[Total] \in Int
      /\ Requested * Cardinality(ConfirmedOn(Total)) \in Int
      /\ Requested * Cardinality(ConfirmedOn(Total)') \in Int
  BY <1>0, <1>1, TotalNumbers
<1>9. Off = 0 - Bytes(deletedRows) - Doubled  BY <1>7, <1>8 DEF TotalExplained, Off
<1>10. Off' = confirmed'[Total] - Requested * Cardinality(ConfirmedOn(Total)')  BY DEF Off, Total
<1>11. confirmed'[Total] = Requested * Cardinality(ConfirmedOn(Total)') - Bytes(deletedRows') - Doubled'
  BY <1>1, <1>7, <1>8, <1>9, <1>10
<1> QED  BY <1>11 DEF TotalExplained, Total, Bytes, FilesOf

(* ... so the total is explained, however many requests remove files.           *)
LEMMA TotalStep ==
  ASSUME UploadsInv, TotalExplained, [Next]_vars
  PROVE  TotalExplained'
<1>0. QuotaTypes /\ FileTypes  BY TypesAre DEF UploadsInv
<1>1. CASE Off' = Off /\ UNCHANGED <<deletedRows, doubled>>
  <2>1. QuotaTypes'  BY QuotaStep
  <2>2. /\ confirmed[Total] \in Int /\ confirmed'[Total] \in Int
        /\ Requested * Cardinality(ConfirmedOn(Total)) \in Int
        /\ Requested * Cardinality(ConfirmedOn(Total)') \in Int
    BY <1>0, <2>1, TotalNumbers
  <2>3. Bytes(deletedRows) \in Nat /\ Doubled \in Nat
    BY <1>0, FilesCounted, DoubledIs, QuotaAssumption DEF Bytes, FileTypes
  <2>4. confirmed'[Total] = Requested * Cardinality(ConfirmedOn(Total)') - Bytes(deletedRows) - Doubled
    BY <1>1, <2>2, <2>3 DEF TotalExplained, Off, Total
  <2> QED  BY <1>1, <2>4 DEF TotalExplained, Total, Bytes, FilesOf, Doubled
<1>s. ASSUME UNCHANGED <<state, day, confirmed, deletedRows, doubled>> PROVE TotalExplained'
  BY <1>s DEF TotalExplained, ConfirmedOn, Bytes, FilesOf, Doubled
<1>2. ASSUME NEW u \in Uploads, CleanMark(u) PROVE TotalExplained'
  <2>1. activeRows[u] \cap sent[u] \in SUBSET Parts  BY <1>0 DEF FileTypes
  <2>2. \/ MarkDeleted(u, activeRows[u] \cap sent[u]) /\ UNCHANGED <<state, day, reserved>>
        \/ UNCHANGED <<state, day, confirmed, deletedRows, doubled>>
    BY <1>2 DEF CleanMark, quota, files
  <2> QED  BY <1>s, <2>1, <2>2, RemovedStep
<1>3. ASSUME NEW m \in Removers, MarkRows(m) PROVE TotalExplained'
  <2>1. removal[m].upload \in Uploads /\ removal[m].seen \in SUBSET Parts
    BY <1>0 DEF FileTypes, Removals
  <2>2. \/ MarkDeleted(removal[m].upload, removal[m].seen) /\ UNCHANGED <<state, day, reserved>>
        \/ UNCHANGED <<state, day, confirmed, deletedRows, doubled>>
    BY <1>3 DEF MarkRows, quota, files
  <2> QED  BY <1>s, <2>1, <2>2, RemovedStep
<1> QED  BY <1>1, <1>2, <1>3, QuotaStep

(* CountersHonest, however many requests upload and remove files at once, for    *)
(* any limits and sizes (reserve, transition, claimExpired, markDeleted).        *)
THEOREM CountersHonestHolds == Spec => []CountersHonest
<1>1. Init => UploadsInv /\ TotalExplained
  <2> SUFFICES ASSUME Init PROVE TotalExplained  BY UploadsInit
  <2>1. FilesOf(deletedRows) = {} /\ ConfirmedOn(Total) = {}  BY DEF Init, FilesOf, ConfirmedOn
  <2>2. confirmed[Total] = 0 /\ doubled = 0  BY WindowsAre DEF Init
  <2>3. Cardinality({}) = 0 /\ Requested * 0 - PartSize * 0 - PartSize * 0 = 0
    BY FS_EmptySet, QuotaAssumption
  <2> QED  BY <2>1, <2>2, <2>3 DEF TotalExplained, Bytes, Doubled
<1>2. UploadsInv /\ TotalExplained /\ [Next]_vars => (UploadsInv /\ TotalExplained)'
  BY UploadsStep, TotalStep
<1>3. UploadsInv /\ TotalExplained => CountersHonest
  <2>1. UploadsInv => CountersExact /\ StoredIsCharged
    BY DEF UploadsInv, Counts, CountersExact, StoredIsCharged, Tidy, NothingYet
  <2> QED  BY <2>1, ChargedEnough DEF CountersHonest
<1> QED  BY <1>1, <1>2, <1>3, PTL DEF Spec

-----------------------------------------------------------------------------
(* The run: what MCShared explores are behaviours of each component.          *)

(* MCSpec moves one component at a time, by steps of its own specification: what  *)
(* the theorems say of the components holds in every behaviour that TLC explores. *)
THEOREM RunIsOfShared == MCSpec => Spec /\ Coordinator!Spec /\ Agenda!Spec
<1> DEFINE all == <<moves, vars, coordinatorVars, agendaVars>>
<1>1. MCInit => Init /\ Coordinator!Init /\ Agenda!Init  BY DEF MCInit
<1>2. [MCNext]_all => [Next]_vars  BY DEF MCNext
<1>3. [MCNext]_all => [Coordinator!Next]_Coordinator!ivars  BY DEF MCNext, coordinatorVars, Coordinator!ivars
<1>4. [MCNext]_all => [Agenda!Next]_Agenda!agendaVars
  BY DEF MCNext, AgendaNext, agendaVars, Agenda!agendaVars
<1> QED  BY <1>1, <1>2, <1>3, <1>4, PTL DEF MCSpec, Spec, Coordinator!Spec, Agenda!Spec

=============================================================================

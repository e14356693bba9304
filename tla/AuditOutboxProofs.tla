------------------------- MODULE AuditOutboxProofs -------------------------
(* Theorems about AuditOutbox, for any events, workers and bounds *)
EXTENDS AuditOutbox, TLAPS

(* The outbox starts well typed. *)
LEMMA TypeInit == Init => TypeOK
BY DEF Init, TypeOK, NoRow, Row, Statuses

(* The row that enqueue inserts is a row. *)
LEMMA NewRow ==
  ASSUME NEW h \in Hashes
  PROVE  [NoRow EXCEPT !.status = "PENDING", !.hash = h, !.due = TRUE] \in Row
BY DEF NoRow, Row, Statuses

(* A claimed row is a row: its attempts are counted on. *)
LEMMA ClaimRow ==
  ASSUME NEW r \in Row
  PROVE  [r EXCEPT !.status = "PROCESSING", !.lease = TRUE,
                   !.attempts = r.attempts + 1] \in Row
<1>1. r.attempts + 1 \in Nat
  BY DEF Row
<1>2. \A n \in Nat : [r EXCEPT !.status = "PROCESSING", !.lease = TRUE,
                               !.attempts = n] \in Row
  BY DEF Row, Statuses
<1>3. QED
  BY <1>1, <1>2

(* What the steps of a delivery need to know of it and of those left. *)
LEMMA RunningType ==
  ASSUME TypeOK, NEW w \in Workers, NEW d \in running[w]
  PROVE  /\ d \in Delivery
         /\ d.event \in Events
         /\ Over(w, d) => running' \in [Workers -> SUBSET Delivery]
         /\ \A phase \in {"claimed", "read", "failing"} :
              Becomes(w, d, phase) => running' \in [Workers -> SUBSET Delivery]
<1>1. d \in Delivery
  BY DEF TypeOK
<1>2. \A phase \in {"claimed", "read", "failing"} : [d EXCEPT !.phase = phase] \in Delivery
  BY <1>1 DEF Delivery
<1>3. d.event \in Events
  BY <1>1 DEF Delivery
<1>4. QED
  BY <1>1, <1>2, <1>3 DEF TypeOK, Over, Becomes

(* Every action keeps the types *)
LEMMA TypeStep == TypeOK /\ [Next]_vars => TypeOK'
<1> SUFFICES ASSUME TypeOK, [Next]_vars PROVE TypeOK'
  OBVIOUS
<1>a. Fault => faults' \in Nat
  BY DEF Fault, TypeOK
<1>b. \A e \in Events : row[e] \in Row
  BY DEF TypeOK
<1>1. ASSUME NEW e \in Events, NEW h \in Hashes, Enqueue(e, h) PROVE TypeOK'
  <2>1. row' \in [Events -> Row]
    BY <1>1, <1>b, NewRow DEF Enqueue, TypeOK
  <2>2. QED
    BY <1>1, <2>1 DEF Enqueue, TypeOK
<1>2. ASSUME NEW w \in Workers, NEW S \in SUBSET Events, Claim(w, S) PROVE TypeOK'
  <2>1. row' \in [Events -> Row]
    BY <1>2, <1>b, ClaimRow DEF Claim, TypeOK
  <2>2. \A e \in S : [event |-> e, token |-> row[e].attempts + 1, phase |-> "claimed"]
                       \in Delivery
    <3>1. \A e \in S : row[e].attempts + 1 \in Nat
      BY <1>b DEF Row
    <3>2. QED
      BY <3>1 DEF Delivery
  <2>3. running' \in [Workers -> SUBSET Delivery]
    BY <1>2, <2>2 DEF Claim, TypeOK
  <2>4. QED
    BY <1>2, <2>1, <2>3 DEF Claim, TypeOK
<1>3. ASSUME NEW w \in Workers, NEW d \in running[w], DeliverRead(w, d) PROVE TypeOK'
  BY <1>3, RunningType DEF DeliverRead, TypeOK
<1>4. ASSUME NEW w \in Workers, NEW d \in running[w], DeliverCommit(w, d) PROVE TypeOK'
  <2>1. /\ d.event \in Events
        /\ running' \in [Workers -> SUBSET Delivery]
    BY <1>4, RunningType DEF DeliverCommit
  <2>2. row' \in [Events -> Row]
    <3>1. [row[d.event] EXCEPT !.status = "DELIVERED", !.lease = FALSE] \in Row
      BY <1>b, <2>1 DEF Row, Statuses
    <3>2. row' = row \/ row' = [row EXCEPT ![d.event] =
                       [row[d.event] EXCEPT !.status = "DELIVERED", !.lease = FALSE]]
      BY <1>4, <2>1, <1>b DEF DeliverCommit, TypeOK, Row
    <3>3. QED
      BY <3>1, <3>2, <2>1 DEF TypeOK
  <2>3. ledger' \in [Events -> {0, 1}] /\ faults' \in Nat
    BY <1>4, <1>a, <2>1 DEF DeliverCommit, TypeOK
  <2>4. QED
    BY <1>4, <2>1, <2>2, <2>3 DEF DeliverCommit, TypeOK
<1>5. ASSUME NEW w \in Workers, NEW d \in running[w], Fail(w, d) PROVE TypeOK'
  <2>1. /\ d.event \in Events
        /\ running' \in [Workers -> SUBSET Delivery]
    BY <1>5, RunningType DEF Fail
  <2>2. row' \in [Events -> Row]
    <3> DEFINE s == IF d.token >= MaxAttempts THEN "FAILED_FINAL" ELSE "FAILED_RETRYABLE"
               r == [row[d.event] EXCEPT !.status = s, !.due = FALSE, !.lease = FALSE]
    <3>1. s \in Statuses
      BY DEF Statuses
    <3>2. r \in Row
      BY <1>b, <2>1, <3>1 DEF Row
    <3>3. row' = row \/ row' = [row EXCEPT ![d.event] = r]
      BY <1>5, <2>1, <1>b DEF Fail, TypeOK, Row
    <3>4. QED
      BY <3>2, <3>3, <2>1 DEF TypeOK
  <2>3. QED
    BY <1>5, <2>1, <2>2 DEF Fail, TypeOK
<1>6. ASSUME NEW w \in Workers, NEW d \in running[w], DeliverError(w, d) PROVE TypeOK'
  BY <1>6, <1>a, RunningType DEF DeliverError, TypeOK
<1>7. ASSUME NEW w \in Workers, NEW d \in running[w], FailError(w, d) PROVE TypeOK'
  BY <1>7, <1>a, RunningType DEF FailError, TypeOK
<1>8. ASSUME NEW e \in Events, LeaseExpires(e) PROVE TypeOK'
  <2>1. [row[e] EXCEPT !.lease = FALSE] \in Row
    BY <1>b DEF Row
  <2>2. QED
    BY <1>8, <1>a, <2>1 DEF LeaseExpires, TypeOK
<1>9. ASSUME NEW e \in Events, BackoffOver(e) PROVE TypeOK'
  <2>1. [row[e] EXCEPT !.due = TRUE] \in Row
    BY <1>b DEF Row
  <2>2. QED
    BY <1>9, <2>1 DEF BackoffOver, TypeOK
<1>10. ASSUME NEW w \in Workers, Start(w) \/ Stop(w) \/ Exit(w) \/ Crash(w) PROVE TypeOK'
  BY <1>10, <1>a DEF Start, Stop, Exit, Crash, TypeOK
<1>11. CASE UNCHANGED vars
  BY <1>11 DEF vars, TypeOK
<1>12. QED
  BY <1>1, <1>2, <1>3, <1>4, <1>5, <1>6, <1>7, <1>8, <1>9, <1>10, <1>11 DEF Next, Step
-----------------------------------------------------------------------------
(* The invariants *)

(* No type is needed of EvidenceOwed but that of the rows *)
LEMMA OwedStep == TypeOK /\ EvidenceOwed /\ [Next]_vars => EvidenceOwed'
<1> SUFFICES ASSUME TypeOK, EvidenceOwed, [Next]_vars PROVE EvidenceOwed'
  OBVIOUS
<1>a. ASSUME committed' = committed,
             \A e \in Events :
               /\ row'[e].hash = row[e].hash
               /\ row'[e].status = "none" <=> row[e].status = "none"
      PROVE  EvidenceOwed'
  BY <1>a DEF EvidenceOwed
<1>b. \A e \in Events : row[e] \in Row
  BY DEF TypeOK
<1>1. ASSUME NEW e \in Events, NEW h \in Hashes, Enqueue(e, h) PROVE EvidenceOwed'
  <2>1. CASE row[e].status = "none"
    <3>1. row'[e].status = "PENDING" /\ row'[e].hash = h /\ committed'[e] = {h}
      BY <1>1, <2>1 DEF Enqueue, EvidenceOwed, TypeOK, NoRow
    <3>2. \A x \in Events \ {e} : row'[x] = row[x] /\ committed'[x] = committed[x]
      BY <1>1, <2>1 DEF Enqueue, TypeOK
    <3>3. QED
      BY <3>1, <3>2 DEF EvidenceOwed
  <2>2. CASE row[e].status # "none"
    <3>1. row' = row /\ row[e].hash = h
      BY <1>1, <2>2 DEF Enqueue
    <3>2. committed'[e] = committed[e]
      BY <1>1, <2>2, <3>1 DEF Enqueue, EvidenceOwed, TypeOK
    <3>3. \A x \in Events \ {e} : committed'[x] = committed[x]
      BY <1>1 DEF Enqueue, TypeOK
    <3>4. QED
      BY <3>1, <3>2, <3>3 DEF EvidenceOwed
  <2>3. QED
    BY <2>1, <2>2
<1>2. ASSUME NEW w \in Workers, NEW S \in SUBSET Events, Claim(w, S) PROVE EvidenceOwed'
  <2>1. \A e \in S : row[e].status # "none"
    BY <1>2 DEF Claim, Claimable
  <2>2. \A e \in Events : /\ row'[e].hash = row[e].hash
                          /\ row'[e].status = "none" <=> row[e].status = "none"
    BY <1>2, <1>b, <2>1 DEF Claim, Row
  <2>3. QED
    BY <1>2, <1>a, <2>2 DEF Claim
<1>3. ASSUME NEW w \in Workers, NEW d \in running[w], DeliverCommit(w, d) \/ Fail(w, d)
      PROVE  EvidenceOwed'
  <2>1. \A e \in Events : row'[e].hash = row[e].hash
    BY <1>3, <1>b DEF DeliverCommit, Fail, TypeOK, Row
  <2>2. \A e \in Events : row'[e].status = "none" <=> row[e].status = "none"
    BY <1>3, <1>b DEF DeliverCommit, Fail, Holds, TypeOK, Row
  <2>3. committed' = committed
    BY <1>3 DEF DeliverCommit, Fail
  <2>4. QED
    BY <1>a, <2>1, <2>2, <2>3
<1>4. ASSUME NEW e \in Events, LeaseExpires(e) \/ BackoffOver(e) PROVE EvidenceOwed'
  <2>1. \A x \in Events : /\ row'[x].hash = row[x].hash
                          /\ row'[x].status = "none" <=> row[x].status = "none"
    BY <1>4, <1>b DEF LeaseExpires, BackoffOver, TypeOK, Row
  <2>2. QED
    BY <1>4, <1>a, <2>1 DEF LeaseExpires, BackoffOver
<1>5. CASE UNCHANGED <<committed, row>>
  BY <1>5, <1>a
<1>6. QED
  BY <1>1, <1>2, <1>3, <1>4, <1>5
  DEF Next, Step, DeliverRead, DeliverError, FailError, Start, Stop, Exit, Crash, vars

(* No step records an event that is not delivered, or the reverse. *)
LEMMA OnceStep == TypeOK /\ EvidenceOnce /\ [Next]_vars => EvidenceOnce'
<1> SUFFICES ASSUME TypeOK, EvidenceOnce, [Next]_vars PROVE EvidenceOnce'
  OBVIOUS
<1>a. ASSUME ledger' = ledger,
             \A e \in Events : row'[e].status = "DELIVERED" <=> row[e].status = "DELIVERED"
      PROVE  EvidenceOnce'
  BY <1>a DEF EvidenceOnce
<1>b. \A e \in Events : row[e] \in Row
  BY DEF TypeOK
<1>1. ASSUME NEW e \in Events, NEW h \in Hashes, Enqueue(e, h) PROVE EvidenceOnce'
  BY <1>1, <1>a DEF Enqueue, TypeOK, NoRow
<1>2. ASSUME NEW w \in Workers, NEW S \in SUBSET Events, Claim(w, S) PROVE EvidenceOnce'
  <2>1. \A e \in Events : row'[e].status = "DELIVERED" <=> row[e].status = "DELIVERED"
    BY <1>2, <1>b DEF Claim, Claimable, Row
  <2>2. QED
    BY <1>2, <1>a, <2>1 DEF Claim
<1>3. ASSUME NEW w \in Workers, NEW d \in running[w], DeliverCommit(w, d)
      PROVE  EvidenceOnce'
  <2>1. CASE Holds(d)
    <3>1. d.event \in Events
      BY RunningType
    <3>2. row'[d.event].status = "DELIVERED" /\ ledger'[d.event] = 1
      BY <1>3, <1>b, <2>1, <3>1 DEF DeliverCommit, TypeOK, Row
    <3>3. \A x \in Events \ {d.event} : row'[x] = row[x] /\ ledger'[x] = ledger[x]
      BY <1>3, <2>1, <3>1 DEF DeliverCommit, TypeOK
    <3>4. QED
      BY <3>2, <3>3 DEF EvidenceOnce
  <2>2. CASE ~Holds(d)
    BY <1>3, <2>2, <1>a DEF DeliverCommit
  <2>3. QED
    BY <2>1, <2>2
<1>4. ASSUME NEW w \in Workers, NEW d \in running[w], Fail(w, d) PROVE EvidenceOnce'
  <2>1. \A e \in Events : row'[e].status = "DELIVERED" <=> row[e].status = "DELIVERED"
    BY <1>4, <1>b DEF Fail, Holds, TypeOK, Row
  <2>2. QED
    BY <1>4, <1>a, <2>1 DEF Fail
<1>5. ASSUME NEW e \in Events, LeaseExpires(e) \/ BackoffOver(e) PROVE EvidenceOnce'
  <2>1. \A x \in Events : row'[x].status = row[x].status
    <3>1. row[e] \in Row
      BY <1>b
    <3>2. \/ row' = [row EXCEPT ![e] = [row[e] EXCEPT !.lease = FALSE]]
          \/ row' = [row EXCEPT ![e] = [row[e] EXCEPT !.due = TRUE]]
      BY <1>5 DEF LeaseExpires, BackoffOver
    <3>3. row'[e].status = row[e].status
      BY <3>1, <3>2 DEF TypeOK, Row
    <3>4. QED
      BY <3>2, <3>3 DEF TypeOK
  <2>2. QED
    BY <1>5, <1>a, <2>1 DEF LeaseExpires, BackoffOver
<1>6. CASE UNCHANGED <<ledger, row>>
  BY <1>6, <1>a
<1>7. QED
  BY <1>1, <1>2, <1>3, <1>4, <1>5, <1>6
  DEF Next, Step, DeliverRead, DeliverError, FailError, Start, Stop, Exit, Crash, vars

(* The inductive invariant *)
Inv == TypeOK /\ EvidenceOwed /\ EvidenceOnce

(* It holds of every reachable state. *)
LEMMA InvInvariant == Spec => []Inv
<1>1. Init => Inv
  BY TypeInit DEF Init, Inv, EvidenceOwed, EvidenceOnce, NoRow
<1>2. Inv /\ [Next]_vars => Inv'
  BY TypeStep, OwedStep, OnceStep DEF Inv
<1>3. QED
  BY <1>1, <1>2, PTL DEF Spec

(* Types; security_audit_events has at most one record per event *)
THEOREM OutboxTypeCorrect == Spec => []TypeOK
<1>1. Inv => TypeOK
  BY DEF Inv
<1>2. QED
  BY <1>1, InvInvariant, PTL

(* A committed business operation has its outbox row, with its payload *)
THEOREM EvidenceOwedTheorem == Spec => []EvidenceOwed
<1>1. Inv => EvidenceOwed
  BY DEF Inv
<1>2. QED
  BY <1>1, InvInvariant, PTL

(* The record of an event is in the ledger exactly when it is DELIVERED *)
THEOREM EvidenceOnceTheorem == Spec => []EvidenceOnce
<1>1. Inv => EvidenceOnce
  BY DEF Inv
<1>2. QED
  BY <1>1, InvInvariant, PTL

-----------------------------------------------------------------------------
(* AuditOutbox implements AuditTrail (its safety; liveness is left to TLC) *)

(* Each step is a step of AuditTrail, or leaves the mapped trail as it is. *)
LEMMA TrailStep ==
  ASSUME Inv, [Next]_vars
  PROVE  [Trail!Next]_Mapped
<1> SUFFICES Mapped' = Mapped \/ Trail!Next
  BY DEF Trail!Next
<1> USE DEF Inv
<1>a. \A e \in Events : row[e] \in Row
  BY DEF TypeOK
<1>b. ASSUME \A e \in Events :
               /\ ledger'[e] = ledger[e]
               /\ row'[e].status = "none" <=> row[e].status = "none"
               /\ row'[e].status = "FAILED_FINAL" <=> row[e].status = "FAILED_FINAL"
      PROVE  Mapped' = Mapped
  BY <1>b DEF Mapped
<1>c. ASSUME NEW e \in Events, NEW s, Mapped'[e] = s,
             \A x \in Events \ {e} : row'[x] = row[x] /\ ledger'[x] = ledger[x]
      PROVE  Mapped' = [Mapped EXCEPT ![e] = s]
  <2>1. \A x \in Events \ {e} : Mapped'[x] = Mapped[x]
    BY <1>c DEF Mapped
  <2> DEFINE States == {"absent", "owed", "recorded", "abandoned"}
  <2>2. Mapped \in [Events -> States] /\ Mapped' \in [Events -> States]
    BY DEF Mapped
  <2>3. QED
    BY <1>c, <2>1, <2>2
<1>1. ASSUME NEW e \in Events, NEW h \in Hashes, Enqueue(e, h)
      PROVE  Mapped' = Mapped \/ Trail!Next
  <2>1. CASE row[e].status = "none"
    <3>1. row'[e].status = "PENDING" /\ ledger' = ledger
      BY <1>1, <2>1 DEF Enqueue, TypeOK, NoRow
    <3>2. \A x \in Events \ {e} : row'[x] = row[x]
      BY <1>1, <2>1 DEF Enqueue, TypeOK
    <3>3. ledger[e] # 1
      BY <2>1 DEF EvidenceOnce
    <3>4. Mapped[e] = "absent" /\ Mapped'[e] = "owed"
      BY <2>1, <3>1, <3>3 DEF Mapped
    <3>5. QED
      BY <1>c, <3>1, <3>2, <3>4 DEF Trail!Next, Trail!Commit
  <2>2. CASE row[e].status # "none"
    BY <1>1, <1>b, <2>2 DEF Enqueue
  <2>3. QED
    BY <2>1, <2>2
<1>2. ASSUME NEW w \in Workers, NEW S \in SUBSET Events, Claim(w, S)
      PROVE  Mapped' = Mapped
  <2>1. \A e \in Events :
          /\ row'[e].status = "none" <=> row[e].status = "none"
          /\ row'[e].status = "FAILED_FINAL" <=> row[e].status = "FAILED_FINAL"
    BY <1>2, <1>a DEF Claim, Claimable, Row
  <2>2. QED
    BY <1>2, <1>b, <2>1 DEF Claim
<1>3. ASSUME NEW w \in Workers, NEW d \in running[w], DeliverCommit(w, d)
      PROVE  Mapped' = Mapped \/ Trail!Next
  <2>1. PICK e \in Events : e = d.event
    BY RunningType
  <2>2. CASE Holds(d)
    <3>1. row'[e].status = "DELIVERED" /\ ledger'[e] = 1
      BY <1>3, <1>a, <2>1, <2>2 DEF DeliverCommit, TypeOK, Row
    <3>2. \A x \in Events \ {e} : row'[x] = row[x] /\ ledger'[x] = ledger[x]
      BY <1>3, <2>1, <2>2 DEF DeliverCommit, TypeOK
    <3>3. row[e].status = "PROCESSING" /\ ledger[e] # 1
      BY <2>1, <2>2 DEF Holds, EvidenceOnce
    <3>4. Mapped[e] = "owed" /\ Mapped'[e] = "recorded"
      BY <3>1, <3>3 DEF Mapped
    <3>5. QED
      BY <1>c, <3>2, <3>4 DEF Trail!Next, Trail!Settle
  <2>3. CASE ~Holds(d)
    BY <1>3, <1>b, <2>3 DEF DeliverCommit
  <2>4. QED
    BY <2>2, <2>3
<1>4. ASSUME NEW w \in Workers, NEW d \in running[w], Fail(w, d)
      PROVE  Mapped' = Mapped \/ Trail!Next
  <2>1. PICK e \in Events : e = d.event
    BY RunningType
  <2>2. CASE Holds(d)
    <3>1. row'[e].status \in {"FAILED_FINAL", "FAILED_RETRYABLE"} /\ ledger' = ledger
      BY <1>4, <1>a, <2>1, <2>2 DEF Fail, TypeOK, Row
    <3>2. \A x \in Events \ {e} : row'[x] = row[x] /\ ledger'[x] = ledger[x]
      BY <1>4, <2>1, <2>2, <3>1 DEF Fail, TypeOK
    <3>3. row[e].status = "PROCESSING" /\ ledger[e] # 1
      BY <2>1, <2>2 DEF Holds, EvidenceOnce
    <3>4. Mapped[e] = "owed" /\ Mapped'[e] \in {"owed", "abandoned"}
      BY <3>1, <3>3 DEF Mapped
    <3>5. CASE Mapped'[e] = "abandoned"
      BY <1>c, <3>2, <3>4, <3>5 DEF Trail!Next, Trail!Settle
    <3>6. CASE Mapped'[e] = "owed"
      <4>1. Mapped' = [Mapped EXCEPT ![e] = "owed"]
        BY <1>c, <3>2, <3>6
      <4>2. QED
        BY <4>1, <3>4 DEF Mapped
    <3>7. QED
      BY <3>4, <3>5, <3>6
  <2>3. CASE ~Holds(d)
    BY <1>4, <1>b, <2>3 DEF Fail
  <2>4. QED
    BY <2>2, <2>3
<1>5. ASSUME NEW e \in Events, LeaseExpires(e) \/ BackoffOver(e)
      PROVE  Mapped' = Mapped
  <2>1. \A x \in Events : row'[x].status = row[x].status
    <3>1. row[e] \in Row
      BY <1>a
    <3>2. \/ row' = [row EXCEPT ![e] = [row[e] EXCEPT !.lease = FALSE]]
          \/ row' = [row EXCEPT ![e] = [row[e] EXCEPT !.due = TRUE]]
      BY <1>5 DEF LeaseExpires, BackoffOver
    <3>3. row'[e].status = row[e].status
      BY <3>1, <3>2 DEF TypeOK, Row
    <3>4. QED
      BY <3>2, <3>3 DEF TypeOK
  <2>2. QED
    BY <1>5, <1>b, <2>1 DEF LeaseExpires, BackoffOver
<1>6. CASE UNCHANGED <<ledger, row>>
  BY <1>6, <1>b
<1>7. QED
  BY <1>1, <1>2, <1>3, <1>4, <1>5, <1>6
  DEF Next, Step, DeliverRead, DeliverError, FailError, Start, Stop, Exit, Crash, vars

(* Every step of the outbox is a step of the promised trail or changes     *)
(* nothing of it: no operation is recorded that was not committed, none is *)
(* recorded twice, and what is recorded or given up stays so.              *)
THEOREM TrailSafety == Spec => Trail!Init /\ [][Trail!Next]_Mapped
<1>1. Init => Trail!Init
  BY DEF Init, Trail!Init, NoRow, Mapped
<1>2. Inv /\ [Next]_vars => [Trail!Next]_Mapped
  BY TrailStep
<1>3. QED
  BY <1>1, <1>2, InvInvariant, PTL DEF Spec
-----------------------------------------------------------------------------
(* A step takes an event out of PROCESSING only as the end of a delivery that *)
(* held its latest claim: an unexpired lease is no part of the test, and a    *)
(* claim that was overtaken finds another count of attempts.                  *)
LEMMA FencedStep ==
  ASSUME TypeOK, [Next]_vars, NEW e \in Events,
         row[e].status = "PROCESSING", row'[e].status # "PROCESSING"
  PROVE  \E w \in Workers : \E d \in running[w] \ running'[w] :
           d.event = e /\ d.token = row[e].attempts
<1> DEFINE Fences(w, d) ==
      /\ d \in running[w] \ running'[w]
      /\ d.event = e /\ d.token = row[e].attempts
<1> SUFFICES \E w \in Workers : \E d \in running[w] : Fences(w, d)
  OBVIOUS
<1>1. ASSUME NEW f \in Events, NEW h \in Hashes, Enqueue(f, h) PROVE FALSE
  BY <1>1 DEF Enqueue, TypeOK
<1>2. ASSUME NEW w \in Workers, NEW S \in SUBSET Events, Claim(w, S) PROVE FALSE
  BY <1>2 DEF Claim, TypeOK, Row
<1>3. ASSUME NEW w \in Workers, NEW d \in running[w], Step(w, d) PROVE Fences(w, d)
  <2>1. d.event \in Events /\ d \in Delivery  BY <1>3, RunningType
  <2>2. CASE DeliverRead(w, d)  BY <2>2 DEF DeliverRead
  <2>3. CASE DeliverCommit(w, d)
    <3>1. Holds(d) /\ d.event = e  BY <2>1, <2>3 DEF DeliverCommit, TypeOK
    <3>2. d.phase = "read"  BY <2>3 DEF DeliverCommit
    <3>3. [d EXCEPT !.phase = "failing"] # d  BY <2>1, <3>2 DEF Delivery
    <3>4. d \notin running'[w]
      BY <2>3, <3>1, <3>3 DEF DeliverCommit, Over, Becomes, TypeOK
    <3> QED  BY <3>1, <3>4 DEF Holds
  <2>4. CASE Fail(w, d)
    <3>1. Holds(d) /\ d.event = e  BY <2>1, <2>4 DEF Fail, TypeOK
    <3>2. d \notin running'[w]  BY <2>4 DEF Fail, Over, TypeOK
    <3> QED  BY <3>1, <3>2 DEF Holds
  <2> QED  BY <1>3, <2>2, <2>3, <2>4 DEF Step
<1>4. ASSUME NEW w \in Workers, NEW d \in running[w], DeliverError(w, d) \/ FailError(w, d)
      PROVE  FALSE
  BY <1>4 DEF DeliverError, FailError
<1>5. ASSUME NEW f \in Events, LeaseExpires(f) \/ BackoffOver(f) PROVE FALSE
  BY <1>5 DEF LeaseExpires, BackoffOver, TypeOK, Row
<1>6. ASSUME NEW w \in Workers, Start(w) \/ Stop(w) \/ Exit(w) \/ Crash(w) PROVE FALSE
  BY <1>6 DEF Start, Stop, Exit, Crash
<1>7. CASE UNCHANGED vars  BY <1>7 DEF vars
<1> QED  BY <1>1, <1>2, <1>3, <1>4, <1>5, <1>6, <1>7 DEF Next

(* A stale attempt cannot finalize a newer claim (the WHERE clause of deliver  *)
(* and of fail: status PROCESSING and the claim token).                        *)
THEOREM FencedTheorem == Spec => Fenced
<1>1. TypeOK /\ [Next]_vars =>
        [\A e \in Events :
           row[e].status = "PROCESSING" /\ row'[e].status # "PROCESSING" =>
             \E w \in Workers : \E d \in running[w] \ running'[w] :
               d.event = e /\ d.token = row[e].attempts]_vars
  BY FencedStep
<1>2. QED
  BY <1>1, OutboxTypeCorrect, PTL DEF Spec, Fenced
=============================================================================

----------------------------- MODULE AuditOutbox -----------------------------
(***************************************************************************)
(* The transactional audit outbox (AuditOutboxService).                    *)
(*                                                                         *)
(* A business transaction inserts a row of audit_outbox_events.  Workers,  *)
(* one per replica of the server, claim due rows (status PROCESSING, a new *)
(* claim token, a lease), and deliver each in a transaction that writes    *)
(* the row of security_audit_events and sets DELIVERED if the token is     *)
(* still theirs.  Workers stop, crash and start again; a transaction may   *)
(* fail, or commit without the worker hearing of it; a delivery may        *)
(* outlast its lease, and its event be claimed again meanwhile.            *)
(*                                                                         *)
(* claim_token is a fresh UUID with every claim and so is attempt_count:   *)
(* the count stands for the token.  A time is replaced by whether it has   *)
(* passed.                                                                 *)
(***************************************************************************)
EXTENDS Integers, FiniteSets

CONSTANTS Events,        \* (tenant_id, operation_id) of business operations
          Hashes,        \* payload hashes
          Workers,
          MaxAttempts,   \* AUDIT_OUTBOX_MAX_ATTEMPTS
          BatchSize,     \* rows one claim takes at most
          MaxFaults      \* bound: how often something goes wrong

ASSUME MaxAttemptsAssumption == MaxAttempts \in Nat \ {0}
ASSUME BatchSizeAssumption == BatchSize \in Nat \ {0}
ASSUME MaxFaultsAssumption == MaxFaults \in Nat

VARIABLES committed,     \* payloads of the business transactions committed
          row,           \* audit_outbox_events
          ledger,        \* security_audit_events per outbox event (unique)
          worker,        \* process state of each worker
          running,       \* deliveries under way in each worker
          faults         \* how often something went wrong so far

vars == <<committed, row, ledger, worker, running, faults>>

Statuses == {"none", "PENDING", "PROCESSING", "DELIVERED", "FAILED_RETRYABLE",
             "FAILED_FINAL"}

(* lease: lease_expires_at lies ahead; due: available_at has passed *)
Row == [status : Statuses, hash : Hashes \cup {"none"}, attempts : Nat,
        lease : BOOLEAN, due : BOOLEAN]

NoRow == [status |-> "none", hash |-> "none", attempts |-> 0,
          lease |-> FALSE, due |-> FALSE]

Delivery == [event : Events, token : Nat, phase : {"claimed", "read", "failing"}]

TypeOK ==
  /\ committed \in [Events -> SUBSET Hashes]
  /\ row \in [Events -> Row]
  /\ ledger \in [Events -> {0, 1}]
  /\ worker \in [Workers -> {"up", "stopping", "down"}]
  /\ running \in [Workers -> SUBSET Delivery]
  /\ faults \in Nat

Init ==
  /\ committed = [e \in Events |-> {}]
  /\ row = [e \in Events |-> NoRow]
  /\ ledger = [e \in Events |-> 0]
  /\ worker = [w \in Workers |-> "down"]
  /\ running = [w \in Workers |-> {}]
  /\ faults = 0

Fault == faults < MaxFaults /\ faults' = faults + 1

(* A delivery of w goes on in another phase, or is over *)
Becomes(w, d, phase) ==
  running' = [running EXCEPT ![w] = (@ \ {d}) \cup {[d EXCEPT !.phase = phase]}]

Over(w, d) == running' = [running EXCEPT ![w] = @ \ {d}]

(* The claim of a delivery is still the latest of its event *)
Holds(d) == row[d.event].status = "PROCESSING" /\ row[d.event].attempts = d.token

-----------------------------------------------------------------------------
(* enqueue, in the business transaction: INSERT ... ON CONFLICT DO NOTHING, *)
(* then the row's payload hash must be this one, or everything is undone    *)
EnqueueUnchecked(e, h) ==   \* fault: the hash is not compared
  /\ row' = IF row[e].status = "none"
            THEN [row EXCEPT ![e] = [NoRow EXCEPT !.status = "PENDING",
                                                  !.hash = h, !.due = TRUE]]
            ELSE row
  /\ committed' = [committed EXCEPT ![e] = @ \cup {h}]
  /\ UNCHANGED <<ledger, worker, running, faults>>

Enqueue(e, h) ==
  /\ row[e].status = "none" \/ row[e].hash = h
  /\ row' = IF row[e].status = "none"
            THEN [row EXCEPT ![e] = [NoRow EXCEPT !.status = "PENDING",
                                                  !.hash = h, !.due = TRUE]]
            ELSE row
  /\ committed' = [committed EXCEPT ![e] = @ \cup {h}]
  /\ UNCHANGED <<ledger, worker, running, faults>>

(* Fault: rows whose worker died are never claimed again *)
ClaimableOnce(e) == row[e].status \in {"PENDING", "FAILED_RETRYABLE"} /\ row[e].due

Claimable(e) ==
  \/ row[e].status \in {"PENDING", "FAILED_RETRYABLE"} /\ row[e].due
  \/ row[e].status = "PROCESSING" /\ ~row[e].lease

(* processBatch and claim: at most BatchSize due rows, skipping those that *)
(* another worker's statement has locked, in one statement                 *)
Claim(w, S) ==
  /\ worker[w] = "up"
  /\ S # {} /\ Cardinality(S) <= BatchSize
  /\ \A e \in S : Claimable(e)
  /\ row' = [e \in Events |->
       IF e \in S THEN [row[e] EXCEPT !.status = "PROCESSING", !.lease = TRUE,
                                      !.attempts = @ + 1]
                  ELSE row[e]]
  /\ running' = [running EXCEPT ![w] = @ \cup
       {[event |-> e, token |-> row[e].attempts + 1, phase |-> "claimed"] : e \in S}]
  /\ UNCHANGED <<committed, ledger, worker, faults>>

(* deliver reads the event: a claim that was lost, or whose lease is over  *)
(* by the clock of the worker (which may differ from the database's), ends *)
(* the delivery                                                            *)
DeliverRead(w, d) ==
  /\ d.phase = "claimed"
  /\ \/ Holds(d) /\ Becomes(w, d, "read")
     \/ ~(Holds(d) /\ row[d.event].lease) /\ Over(w, d)
  /\ UNCHANGED <<committed, row, ledger, worker, faults>>

(* Fault: the record and the status are written, whatever became of the claim *)
DeliverUnfenced(w, d) ==
  /\ d.phase = "read"
  /\ ledger' = [ledger EXCEPT ![d.event] = 1]
  /\ row' = [row EXCEPT ![d.event].status = "DELIVERED", ![d.event].lease = FALSE]
  /\ Over(w, d)
  /\ UNCHANGED <<committed, worker, faults>>

(* ... the record is upserted and the status set if the claim still holds, *)
(* in one transaction; its commit may not be heard of                      *)
DeliverCommit(w, d) ==
  /\ d.phase = "read"
  /\ IF Holds(d)
     THEN /\ ledger' = [ledger EXCEPT ![d.event] = 1]
          /\ row' = [row EXCEPT ![d.event].status = "DELIVERED",
                                ![d.event].lease = FALSE]
          /\ \/ Over(w, d) /\ UNCHANGED faults
             \/ Becomes(w, d, "failing") /\ Fault
     ELSE /\ Becomes(w, d, "failing")
          /\ UNCHANGED <<row, ledger, faults>>
  /\ UNCHANGED <<committed, worker>>

(* The transaction fails and is rolled back *)
DeliverError(w, d) ==
  /\ d.phase \in {"claimed", "read"}
  /\ Becomes(w, d, "failing")
  /\ Fault
  /\ UNCHANGED <<committed, row, ledger, worker>>

(* Fault: fail does not test the status again *)
FailUnguarded(w, d) ==
  /\ d.phase = "failing"
  /\ Over(w, d)
  /\ row' = IF row[d.event].attempts = d.token
            THEN [row EXCEPT ![d.event].status =
                               IF d.token >= MaxAttempts THEN "FAILED_FINAL"
                                                         ELSE "FAILED_RETRYABLE",
                             ![d.event].due = FALSE, ![d.event].lease = FALSE]
            ELSE row
  /\ UNCHANGED <<committed, ledger, worker, faults>>

(* fail: if the claim is still the latest, retry after a delay or give up *)
Fail(w, d) ==
  /\ d.phase = "failing"
  /\ Over(w, d)
  /\ row' = IF Holds(d)
            THEN [row EXCEPT ![d.event].status =
                               IF d.token >= MaxAttempts THEN "FAILED_FINAL"
                                                         ELSE "FAILED_RETRYABLE",
                             ![d.event].due = FALSE, ![d.event].lease = FALSE]
            ELSE row
  /\ UNCHANGED <<committed, ledger, worker, faults>>

(* fail throws: the row is left as it is *)
FailError(w, d) ==
  /\ d.phase = "failing"
  /\ Over(w, d)
  /\ Fault
  /\ UNCHANGED <<committed, row, ledger, worker>>

-----------------------------------------------------------------------------
(* Time *)

InFlight(e) == \E w \in Workers : \E d \in running[w] :
                 d.event = e /\ d.token = row[e].attempts

(* A lease runs out: a fault when its delivery is still under way *)
LeaseExpires(e) ==
  /\ row[e].status = "PROCESSING" /\ row[e].lease
  /\ row' = [row EXCEPT ![e].lease = FALSE]
  /\ IF InFlight(e) THEN Fault ELSE UNCHANGED faults
  /\ UNCHANGED <<committed, ledger, worker, running>>

(* The delay of a retry is over *)
BackoffOver(e) ==
  /\ row[e].status = "FAILED_RETRYABLE" /\ ~row[e].due
  /\ row' = [row EXCEPT ![e].due = TRUE]
  /\ UNCHANGED <<committed, ledger, worker, running, faults>>

-----------------------------------------------------------------------------
(* Processes *)

(* onModuleInit *)
Start(w) ==
  /\ worker[w] = "down"
  /\ worker' = [worker EXCEPT ![w] = "up"]
  /\ UNCHANGED <<committed, row, ledger, running, faults>>

(* beforeApplicationShutdown: no new claims *)
Stop(w) ==
  /\ worker[w] = "up"
  /\ worker' = [worker EXCEPT ![w] = "stopping"]
  /\ Fault
  /\ UNCHANGED <<committed, row, ledger, running>>

(* onApplicationShutdown: waits for the deliveries, for a while only *)
Exit(w) ==
  /\ worker[w] = "stopping"
  /\ worker' = [worker EXCEPT ![w] = "down"]
  /\ running' = [running EXCEPT ![w] = {}]
  /\ UNCHANGED <<committed, row, ledger, faults>>

Crash(w) ==
  /\ worker[w] # "down"
  /\ worker' = [worker EXCEPT ![w] = "down"]
  /\ running' = [running EXCEPT ![w] = {}]
  /\ Fault
  /\ UNCHANGED <<committed, row, ledger>>

-----------------------------------------------------------------------------
(* What the delivery does next *)
Step(w, d) == DeliverRead(w, d) \/ DeliverCommit(w, d) \/ Fail(w, d)

Next ==
  \/ \E e \in Events, h \in Hashes : Enqueue(e, h)
  \/ \E w \in Workers, S \in SUBSET Events : Claim(w, S)
  \/ \E w \in Workers : \E d \in running[w] : Step(w, d)
  \/ \E w \in Workers : \E d \in running[w] : DeliverError(w, d)
  \/ \E w \in Workers : \E d \in running[w] : FailError(w, d)
  \/ \E e \in Events : LeaseExpires(e)
  \/ \E e \in Events : BackoffOver(e)
  \/ \E w \in Workers : Start(w)
  \/ \E w \in Workers : Stop(w)
  \/ \E w \in Workers : Exit(w)
  \/ \E w \in Workers : Crash(w)

(* Time passes; processes are started again and their timers fire; a       *)
(* delivery under way goes on.  A claim takes the oldest rows first, so    *)
(* that each due row is taken in the end.                                  *)
Fairness ==
  /\ \A e \in Events :
       /\ WF_vars(LeaseExpires(e)) /\ WF_vars(BackoffOver(e))
       /\ WF_vars(\E w \in Workers, S \in SUBSET Events : e \in S /\ Claim(w, S))
  /\ \A w \in Workers :
       /\ WF_vars(Start(w)) /\ WF_vars(Exit(w))
       /\ WF_vars(\E d \in running[w] : Step(w, d))

Spec == Init /\ [][Next]_vars /\ Fairness

-----------------------------------------------------------------------------
(* Properties *)

(* Every committed business operation has its row, with the payload it was *)
(* committed with: a second operation under the same identity is the same  *)
(* operation or is undone.                                                 *)
EvidenceOwed ==
  \A e \in Events : committed[e] =
    (IF row[e].status = "none" THEN {} ELSE {row[e].hash})

(* The ledger has the record of exactly the delivered events, through lost *)
(* leases, lost replies, crashes and concurrent deliveries of one event.   *)
EvidenceOnce ==
  \A e \in Events : ledger[e] = 1 <=> row[e].status = "DELIVERED"

(* A stale attempt cannot finalize a newer claim: an event leaves          *)
(* PROCESSING only by a delivery that holds its latest claim.              *)
Fenced ==
  [][\A e \in Events :
       row[e].status = "PROCESSING" /\ row'[e].status # "PROCESSING" =>
         \E w \in Workers : \E d \in running[w] \ running'[w] :
           d.event = e /\ d.token = row[e].attempts]_vars

(* The refinement mapping *)
Mapped == [e \in Events |-> CASE row[e].status = "none" -> "absent"
                             [] ledger[e] = 1 -> "recorded"
                             [] row[e].status = "FAILED_FINAL" -> "abandoned"
                             [] OTHER -> "owed"]

(* The outbox keeps the promise of AuditTrail, its liveness included: once *)
(* faults end, each committed operation is recorded or given up for good,  *)
(* also after crashes between any two steps.                               *)
Trail == INSTANCE AuditTrail WITH trail <- Mapped

TrailSpec == Trail!Spec
=============================================================================

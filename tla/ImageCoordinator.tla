--------------------------- MODULE ImageCoordinator ---------------------------
(* ImageProcessingCoordinatorService: the semaphore of one replica that lets   *)
(* few images be optimised at a time, with a bounded queue, a limit per tenant *)
(* and a timeout of the wait.  One step is one turn of the event loop.         *)
EXTENDS Integers, Sequences, FiniteSets, SequencesExt

CONSTANTS Pipelines,      \* requests that ask for a slot, again and again
          TenantOf,       \* [Pipelines -> tenant]
          Concurrency, PerTenant, MaxQueue

VARIABLES active,         \* active
          activeByTenant, \* activeByTenant, 0 for a tenant that has no entry
          queue,          \* queue: the waiting requests in arrival order
          at,             \* [Pipelines -> "idle", "queued", "working"]
          closing         \* "no", "draining" (awaits idleWaiters), "closed", "gaveUp"

ivars == <<active, activeByTenant, queue, at, closing>>

Tenants == {TenantOf[p] : p \in Pipelines}
Queued == ToSet(queue)

TypeOK ==
  /\ active \in Nat /\ activeByTenant \in [Tenants -> Nat]
  /\ queue \in Seq(Pipelines)
  /\ at \in [Pipelines -> {"idle", "queued", "working"}]
  /\ closing \in {"no", "draining", "closed", "gaveUp"}

Init ==
  /\ active = 0 /\ activeByTenant = [t \in Tenants |-> 0]
  /\ queue = <<>> /\ at = [p \in Pipelines |-> "idle"] /\ closing = "no"

CanStart(slots, t) ==
  slots.active < Concurrency /\ slots.byTenant[t] < PerTenant
Started(slots, t) ==
  [active |-> slots.active + 1, byTenant |-> [slots.byTenant EXCEPT ![t] = @ + 1]]

(* drain: the first waiter that can start does, again and again.  A start only *)
(* takes capacity away, so one pass over the queue is the same.                *)
Pass(acc, p) ==
  IF CanStart(acc.slots, TenantOf[p])
  THEN [slots |-> Started(acc.slots, TenantOf[p]), go |-> acc.go \cup {p}, rest |-> acc.rest]
  ELSE [slots |-> acc.slots, go |-> acc.go, rest |-> Append(acc.rest, p)]
Passes(slots, q) ==
  LET pass[i \in 0..Len(q)] ==
        IF i = 0 THEN [slots |-> slots, go |-> {}, rest |-> <<>>] ELSE Pass(pass[i - 1], q[i])
  IN  pass[Len(q)]
(* Fault: the newest waiter is looked at first                                 *)
DrainNewestFirst(slots, q, where) ==
  LET end == Passes(slots, Reverse(q)) IN
  /\ active' = end.slots.active /\ activeByTenant' = end.slots.byTenant
  /\ queue' = Reverse(end.rest)
  /\ at' = [p \in Pipelines |-> IF p \in end.go THEN "working" ELSE where[p]]
Drain(slots, q, where) ==
  LET end == Passes(slots, q) IN
  /\ active' = end.slots.active /\ activeByTenant' = end.slots.byTenant
  /\ queue' = end.rest
  /\ at' = [p \in Pipelines |-> IF p \in end.go THEN "working" ELSE where[p]]

Slots == [active |-> active, byTenant |-> activeByTenant]

(* acquire: a slot, a place in the queue, or 503.                              *)
Acquire(p) ==
  /\ at[p] = "idle" /\ closing = "no"
  /\ \/ /\ CanStart(Slots, TenantOf[p])
        /\ active' = active + 1
        /\ activeByTenant' = [activeByTenant EXCEPT ![TenantOf[p]] = @ + 1]
        /\ at' = [at EXCEPT ![p] = "working"]
        /\ UNCHANGED <<queue, closing>>
     \/ /\ ~CanStart(Slots, TenantOf[p]) /\ Len(queue) < MaxQueue
        /\ queue' = Append(queue, p)
        /\ at' = [at EXCEPT ![p] = "queued"]
        /\ UNCHANGED <<active, activeByTenant, closing>>

(* The slot is given back in finally; the last one wakes the shutdown.         *)
Release(p) ==
  /\ at[p] = "working"
  /\ Drain([active |-> active - 1,
            byTenant |-> [activeByTenant EXCEPT ![TenantOf[p]] = @ - 1]],
           queue, [at EXCEPT ![p] = "idle"])
  /\ closing' = IF active' = 0 /\ closing = "draining" THEN "closed" ELSE closing

(* Fault: a waiter that gives up stays in the queue                            *)
TimeOutStaysQueued(p) ==
  /\ at[p] = "queued" /\ at' = [at EXCEPT ![p] = "idle"]
  /\ UNCHANGED <<active, activeByTenant, queue, closing>>
(* The timer of a waiter; a start and the shutdown clear it.                   *)
TimeOut(p) ==
  /\ at[p] = "queued"
  /\ \E i \in 1..Len(queue) :
       queue[i] = p /\ Drain(Slots, RemoveAt(queue, i), [at EXCEPT ![p] = "idle"])
  /\ UNCHANGED closing

(* onApplicationShutdown: nobody waits any more, and the process waits for     *)
(* those that work, up to a deadline.                                          *)
Shutdown ==
  /\ closing = "no"
  /\ queue' = <<>>
  /\ at' = [p \in Pipelines |-> IF at[p] = "queued" THEN "idle" ELSE at[p]]
  /\ closing' = IF active = 0 THEN "closed" ELSE "draining"
  /\ UNCHANGED <<active, activeByTenant>>
GiveUp == closing = "draining" /\ closing' = "gaveUp"
          /\ UNCHANGED <<active, activeByTenant, queue, at>>

Next ==
  \/ \E p \in Pipelines : Acquire(p) \/ Release(p) \/ TimeOut(p)
  \/ Shutdown \/ GiveUp

Spec == Init /\ [][Next]_ivars

----------------------------------------------------------------------------

(* The types, and: the counters are what runs, within both limits, and a       *)
(* shutdown that ended before its deadline left nothing running (start,        *)
(* release, idleWaiters).                                                      *)
SlotsExact ==
  LET working(t) == {p \in Pipelines : at[p] = "working" /\ TenantOf[p] = t} IN
  /\ TypeOK
  /\ active = Cardinality({p \in Pipelines : at[p] = "working"})
  /\ \A t \in Tenants : activeByTenant[t] = Cardinality(working(t))
                        /\ activeByTenant[t] <= PerTenant
  /\ active <= Concurrency
  /\ closing = "closed" => active = 0

(* No wake-up is lost: a request is in the queue exactly while it waits, and   *)
(* nobody waits who could start (drain after every release and every timeout,  *)
(* the bypass of a head whose tenant is at its limit).                         *)
NobodyWaitsIdly ==
  /\ Queued = {p \in Pipelines : at[p] = "queued"} /\ Cardinality(Queued) = Len(queue)
  /\ Len(queue) <= MaxQueue
  /\ \A p \in Queued : ~CanStart(Slots, TenantOf[p])

(* Both at once: no place is lost and none is kept from who may take it.        *)
PlacesHandedOut == SlotsExact /\ NobodyWaitsIdly

(* Arrival order within a tenant: nobody starts while an earlier request of    *)
(* the same tenant still waits, not even one that has just arrived.            *)
TenantFifo ==
  [][\A p \in Pipelines : at[p] # "working" /\ at'[p] = "working" =>
       \A i \in 1..Len(queue) :
         TenantOf[queue[i]] = TenantOf[p] /\ at'[queue[i]] = "queued"
         => \E j \in 1..i : queue[j] = p]_ivars
=============================================================================

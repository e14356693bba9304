----------------------- MODULE BillingPaymentsProofs -----------------------
(***************************************************************************)
(* Theorems about BillingPayments, for any charges, checkouts and workers. *)
(* What a worker has read is a past state of the gateway and of the ledger;*)
(* only the version tells that the ledger has not moved on.                *)
(***************************************************************************)
EXTENDS BillingPayments, TLAPS

(* What the gateway may have reported of a charge that it now reports as r *)
Past(s, r) ==
  /\ Level(s.status) <= Level(r.status)
  /\ s.at <= r.at
  /\ s.status = r.status /\ s.at # 0 => s.at = r.at

(* The gateway's own dates *)
Dated ==
  \A c \in Charges :
    /\ remote[c].at <= clock /\ remote[c].paid <= clock
    /\ Level(remote[c].status) >= 3 <=> remote[c].paid # 0
    /\ \A d \in Charges : remote[c].paid = remote[d].paid /\ remote[c].paid # 0 => c = d

(* A charge that exists is billed under a checkout that was opened *)
Billed ==
  \A c \in Charges :
    /\ remote[c].status # "none" => billed[c] \in Checkouts
    /\ billed[c] \in Checkouts => checkout[billed[c]] # "none"

(* A worker's charge exists, and what it was told of it was so *)
Told ==
  \A w \in Workers : job[w].pc # "idle" =>
    /\ job[w].charge \in Charges
    /\ remote[job[w].charge].status # "none"
    /\ job[w].seen.status # "none"
    /\ Past(job[w].seen, remote[job[w].charge])
    /\ Level(job[w].seen.status) >= 3 => job[w].seen.paid = remote[job[w].charge].paid
    /\ job[w].pc = "opened" => job[w].was # "none"
    /\ job[w].pc = "read" /\ KeepsCheckout(job[w].seen.status) => job[w].was # "none"

(* The ledger is a past state of the gateway *)
Behind == \A c \in Charges : Past(payment[c], remote[c])

(* The row read is a past row, and the row itself if the version is *)
RowRead ==
  \A w \in Workers : job[w].pc = "read" =>
    /\ Level(job[w].row.status) <= Level(payment[job[w].charge].status)
    /\ Past(job[w].row, remote[job[w].charge])
    /\ w \in current => job[w].row = payment[job[w].charge]

(* The inductive invariant *)
IInv == /\ TypeOK /\ Dated /\ Billed /\ Told /\ Behind /\ RowRead
        /\ ToldIsKnown /\ LatestPaidKept
-----------------------------------------------------------------------------
(* The life of a charge *)

(* Statuses are ordered strictly by their stage. *)
LEMMA Levels ==
  /\ \A s \in PaymentStatus \cup {"none"} : Level(s) \in -1..5
  /\ \A s, t \in PaymentStatus \cup {"none"} : Level(s) = Level(t) => s = t
  /\ \A s \in PaymentStatus \cup {"none"} :
       Level(s) >= 3 <=> s = "APPROVED" \/ Reversal(s)
<1>1. Level("none") = -1
  BY DEF Level
<1>2. Level("PENDING") = 0
  BY DEF Level
<1>3. Level("REJECTED") = 1
  BY DEF Level
<1>4. Level("CANCELED") = 2
  BY DEF Level
<1>5. Level("APPROVED") = 3
  BY DEF Level
<1>6. Level("REFUNDED") = 4
  BY DEF Level
<1>7. Level("CHARGEBACK") = 5
  BY DEF Level
<1>8. QED
  BY <1>1, <1>2, <1>3, <1>4, <1>5, <1>6, <1>7 DEF PaymentStatus, Reversal

(* What the gateway does to a charge *)
LEMMA RemoteChange ==
  ASSUME TypeOK, NEW c \in Charges, Remote(c)
  PROVE  /\ clock' = clock + 1 /\ clock' \in Time
         /\ remote'[c] \in Snapshot
         /\ Level(remote'[c].status) > Level(remote[c].status)
         /\ remote'[c].at = clock + 1
         /\ remote'[c].paid = IF remote'[c].status = "APPROVED" THEN clock + 1
                                                               ELSE remote[c].paid
         /\ Reversal(remote'[c].status) => remote[c].status = "APPROVED"
         /\ remote'[c].status # "none"
         /\ remote' = [remote EXCEPT ![c] = remote'[c]]
<1>1. PICK s \in Decides(remote[c].status) \cap Reported :
        remote' = [remote EXCEPT ![c] =
         [status |-> s, at |-> clock + 1,
          paid |-> IF s = "APPROVED" THEN clock + 1 ELSE remote[c].paid]]
  BY DEF Remote, TypeOK
<1>2. clock \in Nat /\ clock < MaxTime /\ clock' = clock + 1 /\ clock' \in Time
  BY MaxTimeAssumption DEF Remote, TypeOK, Time
<1>3. remote[c] \in Snapshot
  BY DEF TypeOK
<1>4. s \in PaymentStatus
  BY <1>1, ReportedAssumption
<1>5. Level(s) > Level(remote[c].status)
  BY <1>1, <1>3 DEF Decides, Level, Snapshot, PaymentStatus
<1>6. Reversal(s) => remote[c].status = "APPROVED"
  BY <1>1, <1>3 DEF Decides, Reversal, Snapshot, PaymentStatus
<1>7. /\ remote'[c] = [status |-> s, at |-> clock + 1,
            paid |-> IF s = "APPROVED" THEN clock + 1 ELSE remote[c].paid]
      /\ remote' = [remote EXCEPT ![c] = remote'[c]]
  BY <1>1 DEF TypeOK
<1>8. remote'[c] \in Snapshot
  BY <1>2, <1>3, <1>4, <1>7 DEF Snapshot
<1>9. s # "none"
  BY <1>4 DEF PaymentStatus
<1>10. QED
  BY <1>2, <1>5, <1>6, <1>7, <1>8, <1>9

(* Nobody but the gateway changes a charge. *)
LEMMA OnlyRemote ==
  ASSUME [Next]_vars
  PROVE  \/ \E c \in Charges : Remote(c)
         \/ UNCHANGED <<clock, remote, billed>>
BY DEF Next, Step, Fetch, ReadCheckout, ReadRows, Commit, Lose, GiveUp, OpenCheckout,
       Cancel, vars

(* What was so at some time stays something that was so. *)
LEMMA PastKept ==
  ASSUME TypeOK, Dated, [Next]_vars, NEW c \in Charges, NEW s \in Snapshot,
         Past(s, remote[c])
  PROVE  Past(s, remote'[c])
<1>1. ASSUME NEW x \in Charges, Remote(x) PROVE Past(s, remote'[c])
  <2>1. CASE x = c
    <3>1. /\ Level(remote'[c].status) > Level(remote[c].status)
          /\ remote'[c].at = clock + 1 /\ remote[c].at <= clock
          /\ remote'[c] \in Snapshot /\ remote[c] \in Snapshot /\ clock \in Nat
      BY <1>1, <2>1, RemoteChange DEF TypeOK, Time, Dated
    <3>2. /\ Level(s.status) \in -1..5 /\ Level(remote[c].status) \in -1..5
          /\ Level(remote'[c].status) \in -1..5
      BY <3>1, Levels DEF Snapshot
    <3>3. s.status # remote'[c].status
      BY <3>1, <3>2 DEF Past
    <3>4. Level(s.status) <= Level(remote'[c].status) /\ s.at <= remote'[c].at
      BY <3>1, <3>2 DEF Past, Snapshot, Time
    <3>5. QED
      BY <3>3, <3>4 DEF Past
  <2>2. CASE x # c
    <3>1. remote'[c] = remote[c]
      BY <1>1, <2>2, RemoteChange DEF TypeOK
    <3>2. QED
      BY <3>1
  <2>3. QED
    BY <2>1, <2>2
<1>2. CASE remote' = remote
  BY <1>2
<1>3. QED
  BY <1>1, <1>2, OnlyRemote

(* The gateway's dates grow, and no two approvals have the same. *)
LEMMA DatedStep == TypeOK /\ Dated /\ [Next]_vars => Dated'
<1> SUFFICES ASSUME TypeOK, Dated, [Next]_vars PROVE Dated'
  OBVIOUS
<1>1. ASSUME NEW x \in Charges, Remote(x) PROVE Dated'
  <2>1. /\ \A c \in Charges : remote[c] \in Snapshot
        /\ clock \in Nat
        /\ \A c \in Charges \ {x} : remote'[c] = remote[c]
    BY <1>1, RemoteChange DEF TypeOK, Time
  <2>2. /\ clock' = clock + 1
        /\ remote'[x] \in Snapshot
        /\ remote'[x].at = clock + 1
        /\ remote'[x].paid = IF remote'[x].status = "APPROVED" THEN clock + 1
                                                              ELSE remote[x].paid
        /\ Reversal(remote'[x].status) => remote[x].status = "APPROVED"
        /\ Level(remote'[x].status) > Level(remote[x].status)
    BY <1>1, RemoteChange
  <2>3. \A c \in Charges : remote'[c].at <= clock' /\ remote'[c].paid <= clock'
    BY <2>1, <2>2 DEF Dated, Snapshot, Time
  <2>4. Level(remote'[x].status) >= 3 <=> remote'[x].paid # 0
    <3>1. /\ Level(remote[x].status) \in -1..5 /\ Level(remote'[x].status) \in -1..5
          /\ Level(remote[x].status) >= 3 <=> remote[x].paid # 0
          /\ Level(remote[x].status) >= 3 <=>
               remote[x].status = "APPROVED" \/ Reversal(remote[x].status)
          /\ Level(remote'[x].status) >= 3 <=>
               remote'[x].status = "APPROVED" \/ Reversal(remote'[x].status)
      BY <2>1, <2>2, Levels DEF Dated, Snapshot
    <3>2. QED
      BY <2>1, <2>2, <3>1
  <2>5. ASSUME NEW c \in Charges, NEW d \in Charges,
               remote'[c].paid = remote'[d].paid, remote'[c].paid # 0
        PROVE  c = d
    <3>1. CASE remote'[x].paid = remote[x].paid
      BY <2>1, <2>5, <3>1 DEF Dated
    <3>2. CASE remote'[x].paid = clock + 1
      BY <2>1, <2>5, <3>2 DEF Dated, Snapshot, Time
    <3>3. QED
      BY <2>2, <3>1, <3>2
  <2>6. QED
    BY <2>1, <2>3, <2>4, <2>5 DEF Dated
<1>2. CASE UNCHANGED <<clock, remote, billed>>
  BY <1>2 DEF Dated
<1>3. QED
  BY <1>1, <1>2, OnlyRemote

(* A charge that exists stays one, and once approved keeps its date. *)
LEMMA RemoteKept ==
  ASSUME TypeOK, Dated, Billed, [Next]_vars, NEW c \in Charges, remote[c].status # "none"
  PROVE  /\ remote'[c].status # "none"
         /\ billed'[c] = billed[c]
         /\ Level(remote[c].status) >= 3 => remote'[c].paid = remote[c].paid
<1>1. ASSUME NEW x \in Charges, Remote(x), x = c
      PROVE  /\ remote'[c].status # "none"
             /\ Level(remote[c].status) >= 3 => remote'[c].paid = remote[c].paid
  <2>1. /\ Level(remote'[c].status) > Level(remote[c].status)
        /\ remote'[c].paid = IF remote'[c].status = "APPROVED" THEN clock + 1
                                                              ELSE remote[c].paid
        /\ remote'[c].status # "none"
    BY <1>1, RemoteChange
  <2>2. Level("APPROVED") = 3
    BY DEF Level
  <2>3. Level(remote[c].status) \in -1..5
    BY Levels DEF TypeOK, Snapshot
  <2>4. QED
    BY <2>1, <2>2, <2>3
<1>2. ASSUME NEW x \in Charges, Remote(x), x = c PROVE billed'[c] = billed[c]
  <2>1. billed[c] \in Checkouts
    BY DEF Billed
  <2>2. QED
    BY <1>2, <2>1, NothingAssumption DEF Remote, TypeOK
<1>3. ASSUME NEW x \in Charges, Remote(x), x # c
      PROVE  remote'[c] = remote[c] /\ billed'[c] = billed[c]
  <2>1. remote'[c] = remote[c]
    BY <1>3, RemoteChange DEF TypeOK
  <2>2. billed'[c] = billed[c]
    BY <1>3 DEF Remote, TypeOK
  <2>3. QED
    BY <2>1, <2>2
<1>4. QED
  BY <1>1, <1>2, <1>3, OnlyRemote
-----------------------------------------------------------------------------
(* Workers *)

(* What a worker is about changes by its own steps, while the gateway rests. *)
LEMMA JobChange ==
  ASSUME TypeOK, [Next]_vars, NEW w \in Workers, job'[w] # job[w]
  PROVE  /\ UNCHANGED <<clock, remote, billed>>
         /\ \/ \E c \in Charges : Fetch(w, c)
            \/ ReadCheckout(w)
            \/ ReadRows(w)
            \/ Lose(w)
            \/ job'[w] = NoJob
<1>1. ASSUME NEW v \in Workers, v # w,
             \/ \E c \in Charges : Fetch(v, c)
             \/ Step(v)
             \/ GiveUp(v)
      PROVE  job'[w] = job[w]
  BY <1>1 DEF TypeOK, Fetch, Step, ReadCheckout, ReadRows, Commit, Done, Idle, Lose, GiveUp
<1>2. ASSUME Commit(w) \/ GiveUp(w)
      PROVE  job'[w] = NoJob /\ UNCHANGED <<clock, remote, billed>>
  BY <1>2 DEF TypeOK, Commit, Done, Idle, GiveUp
<1>3. ASSUME \/ \E c \in Charges : Fetch(w, c)
             \/ ReadCheckout(w) \/ ReadRows(w) \/ Lose(w)
      PROVE  UNCHANGED <<clock, remote, billed>>
  BY <1>3 DEF Fetch, ReadCheckout, ReadRows, Lose
<1>4. ASSUME \/ \E c \in Charges : Remote(c)
             \/ \E k \in Checkouts : OpenCheckout(k)
             \/ Cancel
             \/ UNCHANGED vars
      PROVE  job' = job
  BY <1>4 DEF Remote, OpenCheckout, Cancel, vars
<1>5. QED
  BY <1>1, <1>2, <1>3, <1>4 DEF Next, Step

(* What a worker that writes does to the ledger and to the subscription. *)
LEMMA WriteChange ==
  ASSUME TypeOK, Billed, Told, NEW w \in Workers, job[w].pc = "read", Write(w)
  PROVE  /\ job[w] \in Job /\ job[w].charge \in Charges
         /\ RowAfter(job[w]) \in Snapshot
         /\ payment' = [payment EXCEPT ![job[w].charge] = RowAfter(job[w])]
         /\ current' = {}
         /\ sub' = Effect(job[w]) /\ sub' \in Subscription
         /\ checkout' \in [Checkouts -> CheckoutStatus]
         /\ \A k \in Checkouts : checkout[k] # "none" => checkout'[k] # "none"
<1> DEFINE j == job[w]
           k == billed[j.charge]
           status == CheckoutAfter(j.seen.status, j.was)
<1>1. j \in Job /\ j.charge \in Charges /\ j.seen.status \in PaymentStatus
  BY DEF TypeOK, Told, Job, Snapshot
<1>2. RowAfter(j) \in Snapshot
  BY <1>1 DEF RowAfter, Job, Snapshot
<1>3. k \in Checkouts
  BY <1>1 DEF Billed, Told
<1>4. Effect(j) \in Subscription
  BY <1>1 DEF Effect, TypeOK, Job, Snapshot, Subscription
<1>5. status \in CheckoutStatus /\ status # "none"
  <2>1. CASE KeepsCheckout(j.seen.status)
    <3>1. j.was \in CheckoutStatus /\ j.was # "none"
      BY <1>1, <2>1 DEF Told, Job
    <3>2. status = IF j.was = "OPEN" THEN "PENDING" ELSE j.was
      BY <2>1 DEF KeepsCheckout, CheckoutAfter
    <3>3. QED
      BY <3>1, <3>2 DEF CheckoutStatus
  <2>2. CASE ~KeepsCheckout(j.seen.status)
    BY <1>1, <2>2 DEF KeepsCheckout, PaymentStatus, CheckoutAfter, CheckoutStatus
  <2>3. QED
    BY <2>1, <2>2
<1>6. checkout' = [checkout EXCEPT ![k] = status]
  BY DEF Write
<1>7. /\ checkout' \in [Checkouts -> CheckoutStatus]
      /\ \A l \in Checkouts : checkout[l] # "none" => checkout'[l] # "none"
  BY <1>3, <1>5, <1>6 DEF TypeOK
<1>8. QED
  BY <1>1, <1>2, <1>4, <1>7 DEF Write

(* An outcome of a worker's transaction writes, or leaves the ledger alone. *)
LEMMA CommitChange ==
  ASSUME TypeOK, NEW w \in Workers, Commit(w)
  PROVE  /\ job[w].pc = "read"
         /\ job' = [job EXCEPT ![w] = NoJob]
         /\ UNCHANGED <<clock, remote, billed>>
         /\ \/ /\ ~Applies(job[w].row, job[w].seen)
               /\ current' = current \ {w}
               /\ UNCHANGED <<payment, checkout, sub>>
            \/ /\ Applies(job[w].row, job[w].seen)
               /\ w \in current
               /\ Write(w)
BY DEF Commit, Done, Idle

(* The ledger, the subscription and the checkouts change only when a worker *)
(* writes, a checkout is opened or the tenant cancels.                      *)
LEMMA DatabaseChange ==
  ASSUME [Next]_vars
  PROVE  \/ \E w \in Workers : Commit(w)
         \/ \E k \in Checkouts : OpenCheckout(k)
         \/ Cancel
         \/ \E c \in Charges : Remote(c)
         \/ UNCHANGED <<remote, billed, payment, checkout, sub>> /\ told' = told
BY DEF Next, Step, Fetch, ReadCheckout, ReadRows, Lose, GiveUp, vars
-----------------------------------------------------------------------------
(* Type correctness *)

(* What a worker is about stays well-formed. *)
LEMMA JobTyped ==
  ASSUME TypeOK, Billed, Told, [Next]_vars, NEW w \in Workers
  PROVE  job'[w] \in Job
<1>1. CASE job'[w] = job[w]
  BY <1>1 DEF TypeOK
<1>2. ASSUME NEW c \in Charges, Fetch(w, c) PROVE job'[w] \in Job
  <2>1. PICK at \in {remote[c].at, 0} :
          job' = [job EXCEPT ![w] = [NoJob EXCEPT !.pc = "fetched", !.charge = c,
                                    !.seen = [remote[c] EXCEPT !.at = at]]]
    BY <1>2 DEF Fetch
  <2>2. [remote[c] EXCEPT !.at = at] \in Snapshot
    BY MaxTimeAssumption DEF TypeOK, Snapshot, Time
  <2>3. NoRow \in Snapshot
    BY MaxTimeAssumption DEF NoRow, Snapshot, Time
  <2>4. [NoJob EXCEPT !.pc = "fetched", !.charge = c,
                      !.seen = [remote[c] EXCEPT !.at = at]] \in Job
    BY <2>2, <2>3 DEF NoJob, Job, CheckoutStatus
  <2>5. QED
    BY <2>1, <2>4 DEF TypeOK
<1>3. CASE ReadCheckout(w)
  <2>1. billed[job[w].charge] \in Checkouts
    BY <1>3 DEF ReadCheckout, Told, Billed
  <2>2. checkout[billed[job[w].charge]] \in CheckoutStatus
    BY <2>1 DEF TypeOK
  <2>3. QED
    BY <1>3, <2>2 DEF ReadCheckout, TypeOK, Job
<1>4. CASE ReadRows(w)
  <2>1. job[w].charge \in Charges /\ job[w] \in Job
    BY <1>4 DEF ReadRows, Told, TypeOK
  <2>2. payment[job[w].charge] \in Snapshot
    BY <2>1 DEF TypeOK
  <2>3. QED
    BY <1>4, <2>1, <2>2 DEF ReadRows, TypeOK, Job
<1>5. CASE Lose(w)
  <2>1. NoRow \in Snapshot
    BY MaxTimeAssumption DEF NoRow, Snapshot, Time
  <2>2. [job[w] EXCEPT !.pc = "fetched", !.was = "none", !.row = NoRow] \in Job
    BY <2>1 DEF TypeOK, Job, CheckoutStatus
  <2>3. job'[w] = [job[w] EXCEPT !.pc = "fetched", !.was = "none", !.row = NoRow]
    BY <1>5 DEF Lose, TypeOK
  <2>4. QED
    BY <2>2, <2>3
<1>6. CASE job'[w] = NoJob
  BY <1>6, MaxTimeAssumption DEF NoJob, NoRow, Job, Snapshot, Time, CheckoutStatus
<1>7. QED
  BY <1>1, <1>2, <1>3, <1>4, <1>5, <1>6, JobChange

(* The variables that hold functions stay functions. *)
LEMMA JobFunction ==
  ASSUME TypeOK, [Next]_vars
  PROVE  job' = [w \in Workers |-> job'[w]]
BY DEF TypeOK, Next, Remote, Step, Fetch, ReadCheckout, ReadRows, Commit, Done, Idle, Lose,
       GiveUp, OpenCheckout, Cancel, vars

(* Every step keeps the types. *)
LEMMA TypeStep == TypeOK /\ Billed /\ Told /\ [Next]_vars => TypeOK'
<1> SUFFICES ASSUME TypeOK, Billed, Told, [Next]_vars PROVE TypeOK'
  OBVIOUS
<1>1. job' \in [Workers -> Job]
  BY JobTyped, JobFunction
<1>2. /\ clock' \in Time
      /\ remote' \in [Charges -> Snapshot]
      /\ billed' \in [Charges -> Checkouts \cup {Nothing}]
  <2>1. ASSUME NEW c \in Charges, Remote(c)
        PROVE  /\ clock' \in Time
               /\ remote' \in [Charges -> Snapshot]
               /\ billed' \in [Charges -> Checkouts \cup {Nothing}]
    <3>1. /\ clock' \in Time /\ remote'[c] \in Snapshot
          /\ remote' = [remote EXCEPT ![c] = remote'[c]]
      BY <2>1, RemoteChange
    <3>2. remote' \in [Charges -> Snapshot]
      BY <3>1 DEF TypeOK
    <3>3. billed' \in [Charges -> Checkouts \cup {Nothing}]
      BY <2>1 DEF Remote, TypeOK
    <3>4. QED
      BY <3>1, <3>2, <3>3
  <2>2. CASE UNCHANGED <<clock, remote, billed>>
    BY <2>2 DEF TypeOK
  <2>3. QED
    BY <2>1, <2>2, OnlyRemote
<1>3. /\ payment' \in [Charges -> Snapshot]
      /\ checkout' \in [Checkouts -> CheckoutStatus]
      /\ sub' \in Subscription
  <2>1. ASSUME NEW w \in Workers, Commit(w)
        PROVE  /\ payment' \in [Charges -> Snapshot]
               /\ checkout' \in [Checkouts -> CheckoutStatus]
               /\ sub' \in Subscription
    <3>1. CASE UNCHANGED <<payment, checkout, sub>>
      BY <3>1 DEF TypeOK
    <3>2. CASE Write(w) /\ job[w].pc = "read"
      <4>1. /\ RowAfter(job[w]) \in Snapshot
            /\ payment' = [payment EXCEPT ![job[w].charge] = RowAfter(job[w])]
            /\ sub' \in Subscription /\ checkout' \in [Checkouts -> CheckoutStatus]
        BY <3>2, WriteChange
      <4>2. QED
        BY <4>1 DEF TypeOK
    <3>3. QED
      BY <2>1, <3>1, <3>2, CommitChange
  <2>2. ASSUME NEW k \in Checkouts, OpenCheckout(k)
        PROVE  /\ payment' \in [Charges -> Snapshot]
               /\ checkout' \in [Checkouts -> CheckoutStatus]
               /\ sub' \in Subscription
    BY <2>2 DEF OpenCheckout, TypeOK, CheckoutStatus, Subscription
  <2>3. CASE Cancel
    BY <2>3 DEF Cancel, TypeOK, Subscription
  <2>4. ASSUME NEW c \in Charges, Remote(c)
        PROVE  UNCHANGED <<payment, checkout, sub>>
    BY <2>4 DEF Remote
  <2>5. QED
    BY <2>1, <2>2, <2>3, <2>4, DatabaseChange DEF TypeOK
<1>4. current' \subseteq Workers /\ told' \subseteq Charges
  <2>1. ASSUME NEW w \in Workers, Commit(w) \/ Fetch(w, job'[w].charge) \/ Step(w) \/ GiveUp(w)
        PROVE  current' \subseteq Workers
    BY <2>1 DEF TypeOK, Commit, Write, Step, Fetch, ReadCheckout, ReadRows, Lose, GiveUp
  <2>2. ASSUME NEW w \in Workers, Commit(w)
        PROVE  told' \subseteq Charges
    <3>1. job[w].charge \in Charges
      BY <2>2 DEF Commit, Done, Told
    <3>2. QED
      BY <2>2, <3>1 DEF Commit, Done, TypeOK
  <2>3. told' \subseteq Charges
    BY <2>2, DatabaseChange DEF Remote, OpenCheckout, Cancel, TypeOK
  <2>4. current' \subseteq Workers
    BY <2>1 DEF TypeOK, Next, Fetch, Remote, OpenCheckout, Cancel, vars
  <2>5. QED
    BY <2>3, <2>4
<1>5. QED
  BY <1>1, <1>2, <1>3, <1>4 DEF TypeOK
-----------------------------------------------------------------------------
(* What the workers and the ledger know is of the past *)

(* A checkout that bills a charge stays opened. *)
LEMMA BilledStep == TypeOK /\ Dated /\ Billed /\ Told /\ [Next]_vars => Billed'
<1> SUFFICES ASSUME TypeOK, Dated, Billed, Told, [Next]_vars PROVE Billed'
  OBVIOUS
<1>1. \A k \in Checkouts : checkout[k] # "none" => checkout'[k] # "none"
  <2>1. ASSUME NEW w \in Workers, Commit(w), NEW k \in Checkouts, checkout[k] # "none"
        PROVE  checkout'[k] # "none"
    BY <2>1, CommitChange, WriteChange
  <2>2. ASSUME NEW l \in Checkouts, OpenCheckout(l), NEW k \in Checkouts, checkout[k] # "none"
        PROVE  checkout'[k] # "none"
    BY <2>2 DEF OpenCheckout, TypeOK
  <2>3. ASSUME Cancel \/ \E c \in Charges : Remote(c) PROVE checkout' = checkout
    BY <2>3 DEF Cancel, Remote
  <2>4. QED
    BY <2>1, <2>2, <2>3, DatabaseChange
<1>2. ASSUME NEW x \in Charges, Remote(x), NEW c \in Charges
      PROVE  /\ remote'[c].status # "none" => billed'[c] \in Checkouts
             /\ billed'[c] \in Checkouts => checkout'[billed'[c]] # "none"
  <2>1. CASE x = c
    BY <1>2, <2>1 DEF Remote, TypeOK
  <2>2. CASE x # c
    <3>1. remote'[c] = remote[c]
      BY <1>2, <2>2, RemoteChange DEF TypeOK
    <3>2. billed'[c] = billed[c] /\ checkout' = checkout
      BY <1>2, <2>2 DEF Remote, TypeOK
    <3>3. QED
      BY <3>1, <3>2 DEF Billed
  <2>3. QED
    BY <2>1, <2>2
<1>3. CASE UNCHANGED <<clock, remote, billed>>
  BY <1>1, <1>3 DEF Billed
<1>4. QED
  BY <1>2, <1>3, OnlyRemote DEF Billed

(* What a worker was told of its charge stays something that was so. *)
LEMMA ToldStep == TypeOK /\ Dated /\ Billed /\ Told /\ [Next]_vars => Told'
<1> SUFFICES ASSUME TypeOK, Dated, Billed, Told, [Next]_vars,
                    NEW w \in Workers, job'[w].pc # "idle"
             PROVE  /\ job'[w].charge \in Charges
                    /\ remote'[job'[w].charge].status # "none"
                    /\ job'[w].seen.status # "none"
                    /\ Past(job'[w].seen, remote'[job'[w].charge])
                    /\ Level(job'[w].seen.status) >= 3 =>
                         job'[w].seen.paid = remote'[job'[w].charge].paid
                    /\ job'[w].pc = "opened" => job'[w].was # "none"
                    /\ job'[w].pc = "read" /\ KeepsCheckout(job'[w].seen.status) =>
                         job'[w].was # "none"
  BY DEF Told
<1>1. CASE job'[w] = job[w]
  <2> DEFINE c == job[w].charge
             s == job[w].seen
  <2>1. /\ c \in Charges /\ s \in Snapshot
        /\ remote[c].status # "none" /\ s.status # "none"
        /\ Past(s, remote[c])
        /\ Level(s.status) >= 3 => s.paid = remote[c].paid
        /\ job[w].pc = "opened" => job[w].was # "none"
        /\ job[w].pc = "read" /\ KeepsCheckout(s.status) => job[w].was # "none"
    BY <1>1 DEF Told, TypeOK, Job
  <2>2. remote'[c].status # "none" /\ (Level(remote[c].status) >= 3 =>
                                         remote'[c].paid = remote[c].paid)
    BY <2>1, RemoteKept
  <2>3. Past(s, remote'[c])
    BY <2>1, PastKept
  <2>4. Level(s.status) >= 3 => Level(remote[c].status) >= 3
    <3>1. Level(s.status) \in -1..5 /\ Level(remote[c].status) \in -1..5
      BY <2>1, Levels DEF TypeOK, Snapshot
    <3>2. QED
      BY <2>1, <3>1 DEF Past
  <2>5. QED
    BY <1>1, <2>1, <2>2, <2>3, <2>4
<1>2. ASSUME NEW c \in Charges, Fetch(w, c), remote' = remote
      PROVE  /\ job'[w].pc = "fetched" /\ job'[w].charge = c
             /\ remote'[c].status # "none"
             /\ job'[w].seen.status = remote[c].status
             /\ job'[w].seen.paid = remote[c].paid
             /\ Past(job'[w].seen, remote'[c])
  <2>1. PICK at \in {remote[c].at, 0} :
          job' = [job EXCEPT ![w] = [NoJob EXCEPT !.pc = "fetched", !.charge = c,
                                    !.seen = [remote[c] EXCEPT !.at = at]]]
    BY <1>2 DEF Fetch
  <2>2. remote[c] \in Snapshot /\ remote[c].status # "none"
    BY <1>2 DEF TypeOK, Fetch
  <2>3. job'[w] = [NoJob EXCEPT !.pc = "fetched", !.charge = c,
                                !.seen = [remote[c] EXCEPT !.at = at]]
    BY <2>1 DEF TypeOK
  <2>4. /\ job'[w].pc = "fetched" /\ job'[w].charge = c
        /\ job'[w].seen = [remote[c] EXCEPT !.at = at]
    BY <2>3 DEF NoJob
  <2>5. /\ job'[w].seen.status = remote[c].status
        /\ job'[w].seen.paid = remote[c].paid
        /\ job'[w].seen.at = at
    BY <2>2, <2>4 DEF Snapshot
  <2>6. Level(remote[c].status) \in -1..5
    BY <2>2, Levels DEF Snapshot
  <2>7. Past(job'[w].seen, remote[c])
    BY <2>2, <2>5, <2>6 DEF Past, Snapshot, Time
  <2>8. QED
    BY <1>2, <2>2, <2>4, <2>5, <2>7
<1>3. ASSUME ReadCheckout(w) \/ ReadRows(w) \/ Lose(w), remote' = remote
      PROVE  /\ job[w].pc # "idle"
             /\ job'[w].charge = job[w].charge /\ job'[w].seen = job[w].seen
             /\ job'[w].pc = "opened" => job'[w].was = checkout[billed[job[w].charge]]
             /\ job'[w].pc = "read" => /\ job'[w].was = job[w].was
                                       /\ KeepsCheckout(job[w].seen.status) =>
                                            job[w].pc = "opened"
  <2>1. job[w] \in Job
    BY DEF TypeOK
  <2>2. CASE ReadCheckout(w)
    BY <2>1, <2>2 DEF ReadCheckout, TypeOK, Job
  <2>3. CASE ReadRows(w)
    <3>1. job'[w] = [job[w] EXCEPT !.pc = "read", !.row = payment[job[w].charge]]
      BY <2>3 DEF ReadRows, TypeOK
    <3>2. /\ job'[w].pc = "read" /\ job'[w].was = job[w].was
          /\ job'[w].charge = job[w].charge /\ job'[w].seen = job[w].seen
      BY <2>1, <3>1 DEF Job
    <3>3. /\ job[w].pc # "idle"
          /\ KeepsCheckout(job[w].seen.status) => job[w].pc = "opened"
      BY <2>3 DEF ReadRows
    <3>4. QED
      BY <3>2, <3>3
  <2>4. CASE Lose(w)
    <3>1. job'[w] = [job[w] EXCEPT !.pc = "fetched", !.was = "none", !.row = NoRow]
      BY <2>4 DEF Lose, TypeOK
    <3>2. /\ job'[w].pc = "fetched"
          /\ job'[w].charge = job[w].charge /\ job'[w].seen = job[w].seen
      BY <2>1, <3>1 DEF Job
    <3>3. job[w].pc # "idle"
      BY <2>4 DEF Lose
    <3>4. QED
      BY <3>2, <3>3
  <2>5. QED
    BY <1>3, <2>2, <2>3, <2>4
<1>4. CASE \E c \in Charges : Fetch(w, c) /\ remote' = remote
  BY <1>2, <1>4
<1>5. CASE (ReadCheckout(w) \/ ReadRows(w) \/ Lose(w)) /\ remote' = remote
  <2>1. billed[job[w].charge] \in Checkouts /\ checkout[billed[job[w].charge]] # "none"
    BY <1>3, <1>5 DEF Told, Billed
  <2>2. QED
    BY <1>3, <1>5, <2>1 DEF Told
<1>6. CASE job'[w] = NoJob
  BY <1>6 DEF NoJob
<1>7. QED
  BY <1>1, <1>4, <1>5, <1>6, JobChange
-----------------------------------------------------------------------------
(* The ledger *)

(* What is written comes later in the life of the charge than what it replaces. *)
LEMMA WriteRises ==
  ASSUME TypeOK, Billed, Told, RowRead, NEW w \in Workers,
         job[w].pc = "read", w \in current, Applies(job[w].row, job[w].seen), Write(w),
         NEW c \in Charges
  PROVE  /\ Level(payment'[c].status) >= Level(payment[c].status)
         /\ c = job[w].charge => payment'[c] = RowAfter(job[w])
         /\ c # job[w].charge => payment'[c] = payment[c]
<1> DEFINE j == job[w]
<1>1. /\ payment' = [payment EXCEPT ![j.charge] = RowAfter(j)]
      /\ j \in Job /\ j.charge \in Charges
  BY WriteChange
<1>2. j.row = payment[j.charge]
  BY DEF RowRead
<1>3. /\ Level(j.seen.status) \in -1..5 /\ Level(j.row.status) \in -1..5
      /\ Level(payment[c].status) \in -1..5
  BY <1>1, Levels DEF Job, Snapshot, TypeOK
<1>4. Level("none") = -1
  BY DEF Level
<1>5. Level(j.seen.status) >= Level(j.row.status)
  BY <1>3, <1>4 DEF Applies
<1>6. RowAfter(j).status = j.seen.status
  BY DEF RowAfter
<1>7. /\ c = j.charge => payment'[c] = RowAfter(j)
      /\ c # j.charge => payment'[c] = payment[c]
  BY <1>1 DEF TypeOK
<1>8. CASE c = j.charge
  BY <1>2, <1>5, <1>6, <1>7, <1>8
<1>9. CASE c # j.charge
  BY <1>3, <1>7, <1>9
<1>10. QED
  BY <1>7, <1>8, <1>9

(* A row of the ledger is left alone, or a worker that read it replaces it. *)
LEMMA RowChange ==
  ASSUME TypeOK, [Next]_vars, NEW c \in Charges
  PROVE  \/ payment'[c] = payment[c]
         \/ /\ UNCHANGED <<clock, remote, billed>>
            /\ \E w \in Workers :
                 /\ job[w].pc = "read" /\ w \in current
                 /\ Applies(job[w].row, job[w].seen) /\ Write(w)
<1>1. ASSUME NEW w \in Workers, Commit(w), payment' # payment
      PROVE  /\ UNCHANGED <<clock, remote, billed>>
             /\ job[w].pc = "read" /\ w \in current
             /\ Applies(job[w].row, job[w].seen) /\ Write(w)
  BY <1>1, CommitChange
<1>2. ASSUME \/ \E k \in Checkouts : OpenCheckout(k)
             \/ Cancel
             \/ \E x \in Charges : Remote(x)
      PROVE  payment' = payment
  BY <1>2 DEF OpenCheckout, Cancel, Remote
<1>3. QED
  BY <1>1, <1>2, DatabaseChange

(* No row of the ledger goes back. *)
LEMMA RowRises ==
  ASSUME TypeOK, Billed, Told, RowRead, [Next]_vars, NEW c \in Charges
  PROVE  Level(payment'[c].status) >= Level(payment[c].status)
<1>1. CASE payment'[c] = payment[c]
  <2>1. Level(payment[c].status) \in -1..5
    BY Levels DEF TypeOK, Snapshot
  <2>2. QED
    BY <1>1, <2>1
<1>2. ASSUME NEW w \in Workers, job[w].pc = "read", w \in current,
             Applies(job[w].row, job[w].seen), Write(w)
      PROVE  Level(payment'[c].status) >= Level(payment[c].status)
  BY <1>2, WriteRises
<1>3. QED
  BY <1>1, <1>2, RowChange

(* The ledger stays a past state of the gateway. *)
LEMMA BehindStep ==
  TypeOK /\ Dated /\ Billed /\ Told /\ Behind /\ RowRead /\ [Next]_vars => Behind'
<1> SUFFICES ASSUME TypeOK, Dated, Billed, Told, Behind, RowRead, [Next]_vars,
                    NEW c \in Charges
             PROVE  Past(payment'[c], remote'[c])
  BY DEF Behind
<1>1. CASE payment'[c] = payment[c]
  <2>1. payment[c] \in Snapshot /\ Past(payment[c], remote[c])
    BY DEF Behind, TypeOK
  <2>2. QED
    BY <1>1, <2>1, PastKept
<1>2. ASSUME NEW w \in Workers, job[w].pc = "read", w \in current, remote' = remote,
             Applies(job[w].row, job[w].seen), Write(w), c = job[w].charge
      PROVE  Past(payment'[c], remote'[c])
  <2>1. payment'[c] = RowAfter(job[w])
    BY <1>2, WriteRises
  <2>2. Past(job[w].seen, remote[c])
    BY <1>2 DEF Told
  <2>3. /\ payment'[c].status = job[w].seen.status
        /\ payment'[c].at = job[w].seen.at
    BY <2>1 DEF RowAfter
  <2>4. QED
    BY <1>2, <2>2, <2>3 DEF Past
<1>3. ASSUME NEW w \in Workers, job[w].pc = "read", w \in current,
             Applies(job[w].row, job[w].seen), Write(w), c # job[w].charge
      PROVE  payment'[c] = payment[c]
  BY <1>3, WriteRises
<1>4. QED
  BY <1>1, <1>2, <1>3, RowChange

(* A worker whose version is still good read the row as it is. *)
LEMMA RowReadStep ==
  TypeOK /\ Dated /\ Billed /\ Told /\ Behind /\ RowRead /\ [Next]_vars => RowRead'
<1> SUFFICES ASSUME TypeOK, Dated, Billed, Told, Behind, RowRead, [Next]_vars,
                    NEW w \in Workers, job'[w].pc = "read"
             PROVE  /\ Level(job'[w].row.status) <= Level(payment'[job'[w].charge].status)
                    /\ Past(job'[w].row, remote'[job'[w].charge])
                    /\ w \in current' => job'[w].row = payment'[job'[w].charge]
  BY DEF RowRead
<1>1. CASE job'[w] = job[w]
  <2> DEFINE c == job[w].charge
             r == job[w].row
  <2>1. /\ c \in Charges /\ r \in Snapshot
        /\ Level(r.status) <= Level(payment[c].status) /\ Past(r, remote[c])
        /\ w \in current => r = payment[c]
    BY <1>1 DEF Told, TypeOK, Job, RowRead
  <2>2. Past(r, remote'[c])
    BY <2>1, PastKept
  <2>3. Level(r.status) <= Level(payment'[c].status)
    <3>1. Level(payment'[c].status) >= Level(payment[c].status)
      BY <2>1, RowRises
    <3>2. /\ Level(r.status) \in -1..5 /\ Level(payment[c].status) \in -1..5
          /\ Level(payment'[c].status) \in -1..5
      BY <2>1, TypeStep, Levels DEF TypeOK, Snapshot
    <3>3. QED
      BY <2>1, <3>1, <3>2
  <2>4. w \in current' => r = payment'[c]
    <3>1. ASSUME w \in current' PROVE w \in current
      <4>1. ASSUME NEW v \in Workers, ReadRows(v) PROVE v # w
        BY <4>1, <1>1 DEF ReadRows, TypeOK, Job
      <4>2. QED
        BY <3>1, <4>1 DEF Next, Remote, Fetch, Step, ReadCheckout, ReadRows, Commit, Write,
                          Lose, GiveUp, OpenCheckout, Cancel, vars
    <3>2. ASSUME w \in current' PROVE payment'[c] = payment[c]
      <4>1. ASSUME NEW v \in Workers, Write(v) PROVE current' = {}
        BY <4>1 DEF Write
      <4>2. QED
        BY <2>1, <3>2, <4>1, RowChange
    <3>3. QED
      BY <2>1, <3>1, <3>2
  <2>5. QED
    BY <1>1, <2>2, <2>3, <2>4
<1>2. ASSUME ReadRows(w), remote' = remote
      PROVE  /\ Level(job'[w].row.status) <= Level(payment'[job'[w].charge].status)
             /\ Past(job'[w].row, remote'[job'[w].charge])
             /\ job'[w].row = payment'[job'[w].charge]
  <2>1. job[w] \in Job /\ job[w].charge \in Charges
    BY <1>2 DEF TypeOK, ReadRows, Told
  <2>2. job'[w] = [job[w] EXCEPT !.pc = "read", !.row = payment[job[w].charge]]
    BY <1>2 DEF ReadRows, TypeOK
  <2>3. /\ job'[w].charge = job[w].charge /\ job'[w].row = payment[job[w].charge]
    BY <2>1, <2>2 DEF Job
  <2>4. payment' = payment
    BY <1>2 DEF ReadRows
  <2>5. Level(payment[job[w].charge].status) \in -1..5
    BY <2>1, Levels DEF TypeOK, Snapshot
  <2>6. QED
    BY <1>2, <2>1, <2>3, <2>4, <2>5 DEF Behind
<1>3. ASSUME \/ \E c \in Charges : Fetch(w, c)
             \/ ReadCheckout(w) \/ Lose(w) \/ job'[w] = NoJob
      PROVE  job'[w].pc # "read"
  <2>1. job[w] \in Job
    BY DEF TypeOK
  <2>2. ASSUME NEW c \in Charges, Fetch(w, c) PROVE job'[w].pc # "read"
    <3>1. \E s : job'[w] = [NoJob EXCEPT !.pc = "fetched", !.charge = c, !.seen = s]
      BY <2>2 DEF Fetch, TypeOK
    <3>2. QED
      BY <3>1 DEF NoJob
  <2>3. CASE ReadCheckout(w)
    BY <2>1, <2>3 DEF ReadCheckout, TypeOK, Job
  <2>4. CASE Lose(w)
    BY <2>1, <2>4 DEF Lose, TypeOK, Job
  <2>5. CASE job'[w] = NoJob
    BY <2>5 DEF NoJob
  <2>6. QED
    BY <1>3, <2>2, <2>3, <2>4, <2>5
<1>4. QED
  BY <1>1, <1>2, <1>3, JobChange

(* What was reported to the end is known to the ledger. *)
LEMMA ToldIsKnownStep ==
  TypeOK /\ Dated /\ Billed /\ Told /\ Behind /\ RowRead /\ ToldIsKnown /\ [Next]_vars
    => ToldIsKnown'
<1> SUFFICES ASSUME TypeOK, Dated, Billed, Told, Behind, RowRead, ToldIsKnown, [Next]_vars,
                    NEW c \in told'
             PROVE  payment'[c].status = remote'[c].status
  BY DEF ToldIsKnown
<1>0. /\ c \in Charges
      /\ Past(payment[c], remote[c])
      /\ Level(payment[c].status) \in -1..5 /\ Level(remote[c].status) \in -1..5
  <2>1. c \in Charges
    BY TypeStep DEF TypeOK
  <2>2. QED
    BY <2>1, Levels DEF Behind, TypeOK, Snapshot
<1>1. ASSUME NEW w \in Workers, Commit(w)
      PROVE  payment'[c].status = remote[c].status
  <2> DEFINE j == job[w]
  <2>1. /\ j.pc = "read" /\ j \in Job /\ j.charge \in Charges
        /\ c # j.charge => c \in told
        /\ c = j.charge => c \in told \/ j.seen.status = remote[c].status
    BY <1>1 DEF Commit, Done, TypeOK, Told
  <2>2. CASE UNCHANGED payment /\ c \in told
    BY <2>2 DEF ToldIsKnown
  <2>3. CASE c = j.charge
    <3>1. /\ Past(j.seen, remote[c]) /\ Past(j.row, remote[c])
          /\ Level(j.row.status) <= Level(payment[c].status)
          /\ w \in current => j.row = payment[c]
          /\ j.seen.status # "none" /\ j.seen \in Snapshot /\ j.row \in Snapshot
      BY <2>1, <2>3 DEF Told, RowRead, Job
    <3>2. Level(j.seen.status) \in -1..5 /\ Level(j.row.status) \in -1..5
      BY <3>1, Levels DEF Snapshot
    <3>3. CASE /\ Write(w) /\ w \in current
               /\ Applies(j.row, j.seen)
      <4>1. /\ payment'[c] = RowAfter(j)
            /\ Level(payment'[c].status) >= Level(payment[c].status)
        BY <1>0, <2>1, <2>3, <3>3, WriteRises
      <4>2. payment'[c].status = j.seen.status
        BY <4>1 DEF RowAfter
      <4>3. ASSUME c \in told PROVE j.seen.status = remote[c].status
        <5>1. payment[c].status = remote[c].status
          BY <4>3 DEF ToldIsKnown
        <5>2. Level(j.seen.status) = Level(remote[c].status)
          BY <1>0, <3>1, <3>2, <4>1, <4>2, <5>1 DEF Past
        <5>3. QED
          BY <1>0, <3>1, <5>2, Levels DEF TypeOK, Snapshot
      <4>4. QED
        BY <2>1, <2>3, <4>2, <4>3
    <3>4. CASE ~Applies(j.row, j.seen) /\ UNCHANGED payment /\ j.seen.status = remote[c].status
      <4>1. ~Older(j.seen.at, j.row.at)
        <5>1. remote[c] \in Snapshot
          BY <1>0 DEF TypeOK
        <5>2. QED
          BY <3>1, <3>4, <5>1 DEF Older, Past, Snapshot, Time
      <4>2. Level(j.row.status) >= Level(remote[c].status)
        BY <1>0, <3>2, <3>4, <4>1 DEF Applies
      <4>3. Level(payment[c].status) = Level(remote[c].status)
        BY <1>0, <3>1, <3>2, <4>2 DEF Past
      <4>4. payment[c].status = remote[c].status
        BY <1>0, <4>3, Levels DEF TypeOK, Snapshot
      <4>5. QED
        BY <3>4, <4>4
    <3>5. QED
      BY <1>1, <2>1, <2>2, <2>3, <3>3, <3>4, CommitChange
  <2>4. CASE c # j.charge
    <3>1. ASSUME Write(w), w \in current, Applies(j.row, j.seen)
          PROVE  payment'[c] = payment[c]
      BY <1>0, <2>1, <2>4, <3>1, WriteRises
    <3>2. payment'[c] = payment[c]
      BY <1>1, <3>1, CommitChange
    <3>3. QED
      BY <2>1, <2>4, <3>2 DEF ToldIsKnown
  <2>5. QED
    BY <2>3, <2>4
<1>2. ASSUME NEW x \in Charges, Remote(x)
      PROVE  payment'[c].status = remote'[c].status
  <2>1. c # x /\ c \in told /\ payment' = payment
    BY <1>2 DEF Remote
  <2>2. remote'[c] = remote[c]
    BY <1>0, <1>2, <2>1, RemoteChange DEF TypeOK
  <2>3. QED
    BY <2>1, <2>2 DEF ToldIsKnown
<1>3. CASE told' = told /\ UNCHANGED <<remote, payment>>
  BY <1>3 DEF ToldIsKnown
<1>4. ASSUME Cancel \/ \E k \in Checkouts : OpenCheckout(k)
      PROVE  told' = told /\ UNCHANGED <<remote, payment>>
  BY <1>4 DEF Cancel, OpenCheckout
<1>5. ASSUME NEW w \in Workers, Commit(w) PROVE remote' = remote
  BY <1>5 DEF Commit
<1>6. QED
  BY <1>1, <1>2, <1>3, <1>4, <1>5, DatabaseChange
-----------------------------------------------------------------------------
(* The access that a payment gave *)

(* What is written keeps the access that the latest approved payment gave. *)
LEMMA LatestPaidWrite ==
  ASSUME TypeOK, Dated, Billed, Told, Behind, RowRead, LatestPaidKept,
         NEW w \in Workers, job[w].pc = "read", w \in current,
         Applies(job[w].row, job[w].seen), Write(w), UNCHANGED <<remote, billed>>
  PROVE  LatestPaidKept'
<1> DEFINE j == job[w]
<1> PICK d \in Charges : d = job[w].charge
  BY WriteChange
<1> SUFFICES ASSUME NEW c \in Charges, payment'[c].status = "APPROVED",
                    billed[c] = sub'.gateway, remote[c].paid = sub'.lastPaid,
                    \A e \in Charges : Known(e)' => remote[e].paid <= remote[c].paid
             PROVE  sub'.status \in {"active", "canceled"}
  BY DEF LatestPaidKept
<1>1. /\ j \in Job /\ d \in Charges /\ sub' = Effect(j)
      /\ sub \in Subscription
      /\ j.seen \in Snapshot
      /\ j.seen.status # "none" /\ Past(j.seen, remote[d])
      /\ Level(j.seen.status) >= 3 => j.seen.paid = remote[d].paid
  BY WriteChange DEF Told, TypeOK, Job
<1>2. /\ payment'[d] = RowAfter(j)
      /\ \A e \in Charges \ {d} : payment'[e] = payment[e]
  BY <1>1, WriteRises
<1>3. payment'[d].status = j.seen.status
  BY <1>2 DEF RowAfter
<1>4. payment'[d].status # "none" /\ \A e \in Charges : Known(e) => Known(e)'
  BY <1>1, <1>2, <1>3 DEF Known
<1>5. CASE sub' = sub
  <2>1. CASE c # d
    BY <1>2, <1>4, <1>5, <2>1 DEF LatestPaidKept
  <2>2. CASE c = d
    <3>1. j.seen.status = "APPROVED"
      BY <1>3, <2>2
    <3>2. j.seen.paid = remote[d].paid /\ j.seen.paid # 0
      <4>1. Level(j.seen.status) = 3
        BY <3>1 DEF Level
      <4>2. Level(remote[d].status) \in -1..5
        BY <1>1, Levels DEF TypeOK, Snapshot
      <4>3. Level(remote[d].status) >= 3
        BY <1>1, <4>1, <4>2 DEF Past
      <4>4. QED
        BY <1>1, <4>1, <4>3 DEF Dated
    <3>3. ~Protected(j)
      BY <1>1, <1>5, <2>2, <3>1, <3>2 DEF Protected, PeriodStart, Older, Snapshot, Time
    <3>4. CASE KeepsCanceled(j)
      BY <1>5, <3>4 DEF KeepsCanceled
    <3>5. CASE ~KeepsCanceled(j)
      BY <1>1, <3>1, <3>3, <3>5 DEF Effect, Subscription
    <3>6. QED
      BY <3>4, <3>5
  <2>3. QED
    BY <2>1, <2>2
<1>6. CASE Reversal(j.seen.status) /\ ~Protected(j) /\ sub' = [sub EXCEPT !.status = "suspended"]
  <2>1. c # d
    BY <1>3, <1>6 DEF Reversal
  <2>2. remote[c].paid # 0
    <3>1. Level(payment[c].status) = 3 /\ Past(payment[c], remote[c])
      BY <1>2, <2>1 DEF Level, Behind
    <3>2. Level(remote[c].status) \in -1..5
      BY Levels DEF TypeOK, Snapshot
    <3>3. QED
      BY <3>1, <3>2 DEF Past, Dated
  <2>3. j.seen.paid = remote[d].paid /\ j.seen.paid # 0
    <3>1. Level(j.seen.status) >= 3
      BY <1>6 DEF Level, Reversal
    <3>2. Level(remote[d].status) \in -1..5 /\ Level(j.seen.status) \in -1..5
      BY <1>1, Levels DEF TypeOK, Snapshot
    <3>3. Level(remote[d].status) >= 3
      BY <1>1, <3>1, <3>2 DEF Past
    <3>4. QED
      BY <1>1, <3>1, <3>3 DEF Dated
  <2>4. sub'.lastPaid = sub.lastPaid
    BY <1>1, <1>6 DEF Subscription
  <2>5. ~Older(remote[d].paid, sub.lastPaid)
    BY <1>6, <2>3 DEF Protected, PeriodStart
  <2>6. remote[d].paid <= remote[c].paid
    BY <1>4 DEF Known
  <2>7. remote[d].paid = remote[c].paid
    <3>1. remote[d].paid \in 0..MaxTime /\ remote[c].paid \in 0..MaxTime
      BY DEF TypeOK, Snapshot, Time
    <3>2. sub.lastPaid = remote[c].paid /\ remote[d].paid # 0
      BY <2>3, <2>4
    <3>3. ~(remote[d].paid < remote[c].paid)
      BY <2>2, <2>5, <3>2 DEF Older
    <3>4. QED
      BY <2>6, <3>1, <3>3
  <2>8. QED
    BY <1>1, <2>1, <2>2, <2>7 DEF Dated
<1>7. CASE sub' = [sub EXCEPT !.status = "active", !.lastPaid = j.seen.paid]
  BY <1>1, <1>7 DEF Subscription
<1>8. QED
  BY <1>1, <1>5, <1>6, <1>7 DEF Effect

(* Every step keeps the access that the latest approved payment gave. *)
LEMMA LatestPaidStep ==
  /\ TypeOK /\ Dated /\ Billed /\ Told /\ Behind /\ RowRead /\ LatestPaidKept
  /\ [Next]_vars
  => LatestPaidKept'
<1> SUFFICES ASSUME TypeOK, Dated, Billed, Told, Behind, RowRead, LatestPaidKept, [Next]_vars
             PROVE  LatestPaidKept'
  OBVIOUS
<1>1. CASE UNCHANGED <<remote, billed, payment, sub>>
  BY <1>1 DEF LatestPaidKept, Known
<1>2. ASSUME NEW w \in Workers, Commit(w) PROVE LatestPaidKept'
  BY <1>1, <1>2, CommitChange, LatestPaidWrite
<1>3. ASSUME NEW k \in Checkouts, OpenCheckout(k) PROVE LatestPaidKept'
  <2>1. /\ checkout[k] = "none" /\ sub'.gateway = k
        /\ UNCHANGED <<remote, billed, payment>>
    BY <1>3 DEF OpenCheckout, TypeOK, Subscription
  <2>2. \A c \in Charges : billed[c] # k
    BY <2>1 DEF Billed
  <2>3. QED
    BY <2>1, <2>2 DEF LatestPaidKept
<1>4. ASSUME Cancel PROVE LatestPaidKept'
  <2>1. sub'.status = "canceled"
    BY <1>4 DEF Cancel, TypeOK, Subscription
  <2>2. QED
    BY <2>1 DEF LatestPaidKept
<1>5. ASSUME NEW x \in Charges, Remote(x) PROVE LatestPaidKept'
  <2> SUFFICES ASSUME NEW c \in Charges, payment'[c].status = "APPROVED",
                      billed'[c] = sub'.gateway, remote'[c].paid = sub'.lastPaid,
                      \A e \in Charges : Known(e)' => remote'[e].paid <= remote'[c].paid
               PROVE  sub'.status \in {"active", "canceled"}
    BY DEF LatestPaidKept
  <2>1. UNCHANGED <<payment, sub>>
    BY <1>5 DEF Remote
  <2>2. Level(remote[c].status) >= 3 /\ remote[c].status # "none"
    <3>1. Level(payment[c].status) = 3 /\ Past(payment[c], remote[c])
      BY <2>1 DEF Level, Behind
    <3>2. Level(remote[c].status) \in -1..5 /\ Level("none") = -1
      BY Levels DEF TypeOK, Snapshot, Level
    <3>3. QED
      BY <3>1, <3>2 DEF Past
  <2>3. remote'[c].paid = remote[c].paid /\ billed'[c] = billed[c]
    BY <2>2, RemoteKept
  <2>4. ASSUME NEW e \in Charges, Known(e) PROVE remote[e].paid <= remote[c].paid
    <3>1. remote'[e].paid <= remote[c].paid
      BY <2>1, <2>3, <2>4 DEF Known
    <3>2. CASE e # x
      BY <1>5, <3>1, <3>2, RemoteChange DEF TypeOK
    <3>3. CASE e = x
      <4>1. \/ remote'[e].paid = clock + 1
            \/ remote'[e].paid = remote[e].paid
        BY <1>5, <3>3, RemoteChange
      <4>2. remote[c].paid <= clock /\ remote[c].paid \in Nat /\ clock \in Nat
        BY DEF Dated, TypeOK, Snapshot, Time
      <4>3. QED
        BY <3>1, <4>1, <4>2
    <3>4. QED
      BY <3>2, <3>3
  <2>5. QED
    BY <2>1, <2>3, <2>4 DEF LatestPaidKept
<1>6. QED
  BY <1>1, <1>2, <1>3, <1>4, <1>5, DatabaseChange
-----------------------------------------------------------------------------
(* The theorems *)

(* The invariant holds in the beginning. *)
LEMMA InitIInv == Init => IInv
<1> SUFFICES ASSUME Init PROVE IInv
  OBVIOUS
<1>1. /\ 0 \in Time /\ NoRow \in Snapshot /\ NoJob \in Job /\ NewSub \in Subscription
  BY MaxTimeAssumption DEF Time, NoRow, Snapshot, NoJob, Job, CheckoutStatus, NewSub,
                           Subscription
<1>2. TypeOK
  BY <1>1 DEF Init, TypeOK, CheckoutStatus
<1>3. Level("none") = -1
  BY DEF Level
<1>4. Dated /\ Billed /\ Behind
  BY <1>3, NothingAssumption DEF Init, Dated, Billed, Behind, Past, NoRow
<1>5. Told /\ RowRead
  BY DEF Init, Told, RowRead, NoJob
<1>6. ToldIsKnown /\ LatestPaidKept
  BY DEF Init, ToldIsKnown, LatestPaidKept, NoRow
<1>7. QED
  BY <1>2, <1>4, <1>5, <1>6 DEF IInv

(* Every step preserves it. *)
LEMMA StepIInv == IInv /\ [Next]_vars => IInv'
BY TypeStep, DatedStep, BilledStep, ToldStep, BehindStep, RowReadStep, ToldIsKnownStep,
   LatestPaidStep DEF IInv

(* What the workers know is of the past, and the version tells whether the  *)
(* ledger has moved on: processVerifiedPayment on any number of charges,    *)
(* checkouts and workers.                                                   *)
THEOREM BillingInvariant == Spec => []IInv
BY InitIInv, StepIInv, PTL DEF Spec

(* The state of the billing stays well-formed. *)
THEOREM BillingTypeCorrect == Spec => []TypeOK
<1>1. IInv => TypeOK
  BY DEF IInv
<1>2. QED
  BY <1>1, BillingInvariant, PTL

(* RC-004: no payment goes back in its life: the compare-and-set on the     *)
(* subscription's version refuses every decision taken from an older row.   *)
THEOREM SettledTheorem == Spec => Settled
<1>1. IInv /\ [Next]_vars
        => [\A c \in Charges : Level(payment'[c].status) >= Level(payment[c].status)]_vars
  <2> SUFFICES ASSUME IInv, [Next]_vars, NEW c \in Charges
               PROVE  Level(payment'[c].status) >= Level(payment[c].status)
    OBVIOUS
  <2>1. QED
    BY RowRises DEF IInv
<1>2. QED
  BY <1>1, BillingInvariant, PTL DEF Spec, Settled

(* What was processed with success is known to the ledger, however workers  *)
(* lose against each other and whatever older snapshots come later.         *)
THEOREM ToldTheorem == Spec => []ToldIsKnown
<1>1. IInv => ToldIsKnown
  BY DEF IInv
<1>2. QED
  BY <1>1, BillingInvariant, PTL

(* protectCurrentSubscription: a late reversal of an older period, or under *)
(* an older checkout, never takes the access of the latest payment.         *)
THEOREM LatestPaidTheorem == Spec => []LatestPaidKept
<1>1. IInv => LatestPaidKept
  BY DEF IInv
<1>2. QED
  BY <1>1, BillingInvariant, PTL
=============================================================================

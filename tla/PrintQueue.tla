------------------------------- MODULE PrintQueue ------------------------------
(* The local printing agent (scripts/printing): PrintQueue over a file and a     *)
(* printer.  One process; a step runs from one await on a file, a printer, a     *)
(* timer or a request to the next.  Every write puts the whole queue on disk, in *)
(* the order of the calls, and a write that was begun and not finished is one    *)
(* that did not happen; one that fails is followed by nothing that is sent, as   *)
(* every later one fails too, until the agent is started again: a crash here.    *)
(*                                                                               *)
(* Left out: a file that cannot be read (the snapshot before it is used then),   *)
(* and the layout of receipts.  A transport that throws a plain error, or        *)
(* reports one, is trusted that nothing was printed.                             *)
EXTENDS Naturals

CONSTANTS Jobs,          \* receipts, by their idempotency key
          MaxAttempts

VARIABLES queue,    \* [Jobs -> status and attempts], as the process has them
          disk,     \* the same, as the file has them
          loaded,   \* the process has read the file
          unsaved,  \* receipts whose enqueue waits for its write
          at,       \* [Jobs -> where process() stands]
          again,    \* receipts to be processed once more when process() ends
          timers,   \* receipts whose retry is on its way
          watched,  \* receipts whose spooler job is followed by monitor()
          paper     \* history: [Jobs -> is it "blank", perhaps "out", "denied"
                    \* by the transport or the operator, or "excused"]

printVars == <<queue, disk, loaded, unsaved, at, again, timers, watched, paper>>

NoJob == [status |-> "none", attempts |-> 0]

Init ==
  /\ queue = [j \in Jobs |-> NoJob] /\ disk = queue /\ loaded = FALSE
  /\ at = [j \in Jobs |-> "rest"] /\ paper = [j \in Jobs |-> "blank"]
  /\ unsaved = {} /\ again = {} /\ timers = {} /\ watched = {}

Status(j) == queue[j].status
Underway == {"accepted", "spooled"}
Closed == Underway \cup {"printed", "unknown", "none"}
Sets(j, status) == queue' = [queue EXCEPT ![j].status = status]

----------------------------------------------------------------------------

(* process() of the receipts in todo, up to the write of "accepted".  The count  *)
(* of attempts is only compared with MaxAttempts, so it stops there.             *)
Begun(job) == [status |-> "accepted",
               attempts |-> IF job.attempts < MaxAttempts THEN job.attempts + 1 ELSE MaxAttempts]
Processes(jobs, todo) ==
  LET begin == {j \in todo : at[j] = "rest" /\ jobs[j].status \notin Closed} IN
  /\ queue' = [j \in Jobs |-> IF j \in begin THEN Begun(jobs[j]) ELSE jobs[j]]
  /\ at' = [j \in Jobs |-> IF j \in begin THEN "accepting" ELSE at[j]]

(* load(), at the first request after a start: what was on its way to the        *)
(* printer is followed and never sent again.                                     *)
(* Fault: what was accepted is sent again, as what is pending is *)
ResumableAll(job) ==
  job.status \notin {"printed", "unknown", "none"} /\ job.attempts < MaxAttempts
Resumable(job) == job.status \notin Closed /\ job.attempts < MaxAttempts
Load ==
  /\ ~loaded /\ loaded' = TRUE
  /\ LET begin == {j \in Jobs : Resumable(disk[j])} IN
     /\ queue' = [j \in Jobs |-> IF j \in begin THEN Begun(disk[j]) ELSE disk[j]]
     /\ at' = [j \in Jobs |-> IF j \in begin THEN "accepting" ELSE "rest"]
     /\ watched' = {j \in Jobs \ begin : disk[j].status \in Underway}
  /\ UNCHANGED <<disk, unsaved, again, timers, paper>>

Enqueue(j) ==
  /\ loaded
  /\ IF Status(j) = "none"
     THEN /\ queue' = [queue EXCEPT ![j] = [status |-> "pending", attempts |-> 0]]
          /\ unsaved' = unsaved \cup {j} /\ at' = at
     ELSE Status(j) \notin Closed /\ Processes(queue, {j}) /\ unsaved' = unsaved
  /\ UNCHANGED <<disk, loaded, again, timers, watched, paper>>
Enqueued(j) ==
  /\ j \in unsaved /\ unsaved' = unsaved \ {j} /\ disk' = queue /\ Processes(queue, {j})
  /\ UNCHANGED <<loaded, again, timers, watched, paper>>

(* The writes that nobody waits for to go on.                                    *)
Persist ==
  /\ loaded /\ disk # queue /\ disk' = queue
  /\ UNCHANGED <<queue, loaded, unsaved, at, again, timers, watched, paper>>

(* Once "accepted" is on disk the receipt is handed to the transport ...         *)
Send(j) ==
  /\ at[j] = "accepting" /\ at' = [at EXCEPT ![j] = "sending"] /\ disk' = queue
  /\ paper' = [paper EXCEPT ![j] = IF @ = "excused" THEN @ ELSE "out"]
  /\ UNCHANGED <<queue, loaded, unsaved, again, timers, watched>>
(* ... which answers, or throws.                                                 *)
Answer(j, status, thrown) ==
  /\ at[j] = "sending" /\ Sets(j, status)
  /\ thrown => status \in {"error", "unknown"}
  /\ at' = [at EXCEPT ![j] = IF thrown THEN "failed" ELSE "answered"]
  /\ paper' = [paper EXCEPT ![j] = IF status = "error" THEN "denied" ELSE @]
  /\ UNCHANGED <<disk, loaded, unsaved, again, timers, watched>>
(* The outcome is on disk: the spooler job is followed, an error tried again     *)
(* later, and what the operator asked for meanwhile done.                        *)
Finish(j) ==
  /\ at[j] \in {"answered", "failed"} /\ disk' = queue
  /\ watched' = IF at[j] = "answered" /\ Status(j) \in Underway THEN watched \cup {j} ELSE watched
  /\ timers' = IF /\ at[j] = "failed" /\ Status(j) = "error"
                  /\ queue[j].attempts < MaxAttempts THEN timers \cup {j} ELSE timers
  /\ again' = again \ {j}
  /\ IF j \in again /\ Status(j) \notin Closed
     THEN queue' = [queue EXCEPT ![j] = Begun(@)] /\ at' = [at EXCEPT ![j] = "accepting"]
     ELSE queue' = queue /\ at' = [at EXCEPT ![j] = "rest"]
  /\ UNCHANGED <<loaded, unsaved, paper>>
Retry(j) ==
  /\ j \in timers /\ timers' = timers \ {j} /\ Processes(queue, {j})
  /\ UNCHANGED <<disk, loaded, unsaved, again, watched, paper>>

(* monitor(): the spooler tells the outcome, or twenty polls do not.             *)
Poll(j, status) ==
  /\ j \in watched /\ watched' = watched \ {j}
  /\ IF Status(j) \in Underway THEN Sets(j, status) ELSE queue' = queue
  /\ paper' = [paper EXCEPT ![j] = IF status = "error" /\ @ = "out" THEN "excused" ELSE @]
  /\ UNCHANGED <<disk, loaded, unsaved, at, again, timers>>

(* resolve(): the operator tells what became of a receipt.                       *)
ConfirmPrinted(j) ==
  /\ Status(j) = "unknown" /\ Sets(j, "printed")
  /\ UNCHANGED <<disk, loaded, unsaved, at, again, timers, watched, paper>>
ConfirmNotPrinted(j) ==
  /\ Status(j) = "unknown" /\ paper' = [paper EXCEPT ![j] = "denied"]
  /\ LET pending == [queue EXCEPT ![j] = [status |-> "pending", attempts |-> 0]] IN
     Processes(pending, {j})
  /\ again' = IF at[j] = "rest" THEN again ELSE again \cup {j}
  /\ UNCHANGED <<disk, loaded, unsaved, timers, watched>>
CancelPrint(j) ==
  /\ Status(j) = "unknown" /\ Sets(j, "error")
  /\ paper' = [paper EXCEPT ![j] = "excused"]
  /\ UNCHANGED <<disk, loaded, unsaved, at, again, timers, watched>>

(* The agent dies and is started again.                                          *)
Crash ==
  /\ loaded /\ loaded' = FALSE /\ queue' = [j \in Jobs |-> NoJob]
  /\ at' = [j \in Jobs |-> "rest"]
  /\ unsaved' = {} /\ again' = {} /\ timers' = {} /\ watched' = {}
  /\ UNCHANGED <<disk, paper>>

Next ==
  \/ Load \/ Persist \/ Crash
  \/ \E j \in Jobs :
       \/ Enqueue(j) \/ Enqueued(j) \/ Send(j) \/ Finish(j) \/ Retry(j)
       \/ \E status \in {"spooled", "printed", "error", "unknown"}, thrown \in BOOLEAN :
            Answer(j, status, thrown)
       \/ \E status \in {"printed", "error", "unknown"} : Poll(j, status)
       \/ ConfirmPrinted(j) \/ ConfirmNotPrinted(j) \/ CancelPrint(j)

Spec == Init /\ [][Next]_printVars

----------------------------------------------------------------------------

(* A receipt that may be on paper is not sent to the printer again before the    *)
(* transport or the operator said that it is not, whenever the agent dies and    *)
(* is started again (printing-agent-windows.md: unknown is not sent again by     *)
(* itself).  Set apart are the receipts that the operator canceled and those     *)
(* whose spooler job failed late: they rest in "error", which load() and         *)
(* enqueue() send again while attempts are left.                                 *)
NoBlindReprint ==
  [][\A j \in Jobs : at[j] = "accepting" /\ at'[j] = "sending" => paper[j] # "out"]_printVars
=============================================================================

----------------------------- MODULE TillProofs -----------------------------
(* Proofs about the till and its papers: the cash register's sales and        *)
(* printed copies, the queue of the printing agent, what a sale amounts to,   *)
(* and the certificate that fiscal documents are signed with, for every       *)
(* number of carts, keys, posts, jobs, requests and replicas.                 *)
EXTENDS MCServices, Sequences, FiniteSetTheorems, TLAPS

-----------------------------------------------------------------------------
(* PrintQueue: nothing that may be on paper is sent again by itself.          *)

JobStatus == {"none", "pending", "accepted", "spooled", "printed", "error", "unknown"}
(* A job with one of those statuses, whatever its attempts.                      *)
IsJob(job) ==
  job.status \in JobStatus /\ job = [status |-> job.status, attempts |-> job.attempts]
JobsTypeOK ==
  /\ DOMAIN printQueue = Jobs /\ printQueue = [j \in Jobs |-> printQueue[j]]
  /\ disk = [j \in Jobs |-> disk[j]]
  /\ \A j \in Jobs : IsJob(printQueue[j]) /\ IsJob(disk[j])
  /\ printing \in [Jobs -> {"rest", "accepting", "sending", "answered", "failed"}]
  /\ paper \in [Jobs -> {"blank", "out", "denied", "excused"}]

(* What is perhaps on paper waits in a state that nothing sends from, in the     *)
(* memory of the process and on disk.                                            *)
OutIsClosed ==
  \A j \in Jobs :
    paper[j] = "out" =>
      /\ printQueue[j].status \in Q!Closed /\ disk[j].status \in Q!Closed
      /\ printing[j] # "accepting"

(* ... where it has a job, from which load() makes one again: a receipt that is  *)
(* asked for again is known.                                                     *)
OutIsKnown ==
  /\ \A j \in Jobs :
       paper[j] = "out" => disk[j].status # "none" /\ (loaded => printQueue[j].status # "none")
  /\ ~loaded =>
       /\ unsaved = {}
       /\ \A j \in Jobs : printQueue[j].status = "none" /\ printing[j] = "rest"

(* A receipt that is being sent says so, and none is followed meanwhile.         *)
AcceptedFirst ==
  /\ \A j \in Jobs : printing[j] \in {"accepting", "sending"} => printQueue[j].status = "accepted"
  /\ \A j \in watched \cap Jobs : printing[j] = "rest" /\ printQueue[j].status \in Q!Underway

PrintInv == JobsTypeOK /\ OutIsClosed /\ OutIsKnown /\ AcceptedFirst

(* Nothing is queued, and nothing is on paper.                                *)
LEMMA PrintInit == Q!Init => PrintInv
<1> SUFFICES ASSUME Q!Init PROVE PrintInv  OBVIOUS
<1>1. IsJob(Q!NoJob) /\ Q!NoJob.status = "none"
  BY DEF IsJob, Q!NoJob, JobStatus
<1>2. \A j \in Jobs : printQueue[j] = Q!NoJob /\ disk[j] = Q!NoJob  BY DEF Q!Init
<1>3. JobsTypeOK  BY <1>1, <1>2 DEF Q!Init, JobsTypeOK
<1>4. \A j \in Jobs : paper[j] = "blank" /\ printing[j] = "rest"  BY DEF Q!Init
<1> QED
  BY <1>1, <1>2, <1>3, <1>4 DEF Q!Init, PrintInv, OutIsClosed, OutIsKnown, AcceptedFirst

(* The change of a status, and the beginning of an attempt.                      *)
LEMMA SetsStatus ==
  ASSUME JobsTypeOK, NEW j \in Jobs, NEW status \in JobStatus
  PROVE  LET new == [printQueue EXCEPT ![j].status = status] IN
         /\ DOMAIN new = Jobs /\ new = [i \in Jobs |-> new[i]]
         /\ IsJob(new[j]) /\ new[j].status = status
         /\ \A i \in Jobs \ {j} : new[i] = printQueue[i]
BY DEF JobsTypeOK, IsJob

(* A job that is begun is a job (newJob).                                     *)
LEMMA BegunIsJob ==
  ASSUME NEW job PROVE IsJob(Q!Begun(job)) /\ Q!Begun(job).status = "accepted"
BY DEF IsJob, Q!Begun, JobStatus

(* process() leaves jobs.                                                     *)
LEMMA ProcessesJobs ==
  ASSUME NEW jobs, NEW todo, Q!Processes(jobs, todo), \A j \in Jobs : IsJob(jobs[j]), JobsTypeOK
  PROVE  /\ DOMAIN printQueue' = Jobs /\ printQueue' = [j \in Jobs |-> printQueue'[j]]
         /\ \A j \in Jobs : IsJob(printQueue'[j])
         /\ printing' \in [Jobs -> {"rest", "accepting", "sending", "answered", "failed"}]
         /\ \A j \in Jobs :
              \/ printQueue'[j] = jobs[j] /\ printing'[j] = printing[j]
              \/ /\ printing[j] = "rest" /\ jobs[j].status \notin Q!Closed /\ j \in todo
                 /\ printing'[j] = "accepting" /\ printQueue'[j].status = "accepted"
<1> DEFINE begin == {j \in todo : printing[j] = "rest" /\ jobs[j].status \notin Q!Closed}
<1>1. /\ printQueue' = [j \in Jobs |-> IF j \in begin THEN Q!Begun(jobs[j]) ELSE jobs[j]]
      /\ printing' = [j \in Jobs |-> IF j \in begin THEN "accepting" ELSE printing[j]]
  BY DEF Q!Processes
<1>2. \A j \in Jobs : j \in begin =>
        j \in todo /\ printing[j] = "rest" /\ jobs[j].status \notin Q!Closed
  OBVIOUS
<1> HIDE DEF begin
<1> QED  BY <1>1, <1>2, BegunIsJob DEF JobsTypeOK

(* Every write of the queue and of its file, and a restart between them: what *)
(* may be on paper is closed in both (process, save, load).                   *)
LEMMA PrintStep == PrintInv /\ [Q!Next]_(Q!printVars) => PrintInv'
<1> SUFFICES ASSUME PrintInv, [Q!Next]_(Q!printVars) PROVE PrintInv'  OBVIOUS
<1>0. JobsTypeOK /\ OutIsClosed /\ OutIsKnown /\ AcceptedFirst  BY DEF PrintInv
<1>c. /\ "accepted" \in Q!Closed /\ "spooled" \in Q!Closed /\ "unknown" \in Q!Closed
      /\ "none" \in Q!Closed /\ "printed" \in Q!Closed
      /\ "pending" \notin Q!Closed /\ "error" \notin Q!Closed
      /\ Q!Underway = {"accepted", "spooled"}
  BY DEF Q!Closed, Q!Underway
<1>1. CASE Q!Load
  <2> DEFINE begin == {j \in Jobs : Q!Resumable(disk[j])}
  <2>1. /\ printQueue' = [j \in Jobs |-> IF j \in begin THEN Q!Begun(disk[j]) ELSE disk[j]]
        /\ printing' = [j \in Jobs |-> IF j \in begin THEN "accepting" ELSE "rest"]
        /\ watched' = {j \in Jobs \ begin : disk[j].status \in Q!Underway}
        /\ loaded' /\ UNCHANGED <<disk, paper>>
    BY <1>1 DEF Q!Load
  <2>2. \A j \in Jobs : j \in begin => disk[j].status \notin Q!Closed  BY DEF Q!Resumable
  <2> HIDE DEF begin
  <2>3. JobsTypeOK'  BY <1>0, <2>1, BegunIsJob DEF JobsTypeOK
  <2>4. OutIsClosed'  BY <1>0, <2>1, <2>2 DEF OutIsClosed
  <2>5. OutIsKnown'  BY <1>0, <2>1, BegunIsJob DEF OutIsKnown
  <2>6. AcceptedFirst'  BY <2>1, BegunIsJob DEF AcceptedFirst
  <2> QED  BY <2>3, <2>4, <2>5, <2>6 DEF PrintInv
<1>2. CASE Q!Persist
  BY <1>0, <1>2 DEF Q!Persist, PrintInv, JobsTypeOK, OutIsClosed, OutIsKnown, AcceptedFirst
<1>3. CASE Q!Crash
  <2>1. IsJob(Q!NoJob) /\ Q!NoJob.status = "none"
    BY DEF IsJob, Q!NoJob, JobStatus
  <2>2. /\ \A j \in Jobs : printQueue'[j] = Q!NoJob /\ printing'[j] = "rest"
        /\ printQueue' = [j \in Jobs |-> Q!NoJob]
        /\ printing' = [j \in Jobs |-> "rest"]
        /\ watched' = {} /\ unsaved' = {} /\ ~loaded' /\ UNCHANGED <<disk, paper>>
    BY <1>3 DEF Q!Crash
  <2>3. JobsTypeOK'  BY <1>0, <2>1, <2>2 DEF JobsTypeOK
  <2> QED
    BY <1>0, <1>c, <2>1, <2>2, <2>3 DEF PrintInv, OutIsClosed, OutIsKnown, AcceptedFirst
(* What processing leaves of the jobs as they are, or as the operator's answer   *)
(* makes them.                                                                   *)
<1>4. ASSUME NEW jobs, NEW todo, Q!Processes(jobs, todo), \A j \in Jobs : IsJob(jobs[j]),
             \A j \in Jobs : \/ jobs[j] = printQueue[j] /\ paper'[j] = paper[j]
                             \/ /\ printQueue[j].status = "unknown" /\ paper'[j] = "denied"
                                /\ jobs[j].status = "pending",
             paper' \in [Jobs -> {"blank", "out", "denied", "excused"}],
             watched' = watched, loaded' = loaded, unsaved' \subseteq unsaved,
             disk' = disk \/ (disk' = printQueue /\ loaded)
      PROVE  PrintInv'
  <2>1. /\ DOMAIN printQueue' = Jobs /\ printQueue' = [j \in Jobs |-> printQueue'[j]]
        /\ \A j \in Jobs : IsJob(printQueue'[j])
        /\ printing' \in [Jobs -> {"rest", "accepting", "sending", "answered", "failed"}]
        /\ \A j \in Jobs :
             \/ printQueue'[j] = jobs[j] /\ printing'[j] = printing[j]
             \/ /\ printing[j] = "rest" /\ jobs[j].status \notin Q!Closed /\ j \in todo
                /\ printing'[j] = "accepting" /\ printQueue'[j].status = "accepted"
    BY <1>0, <1>4, ProcessesJobs
  <2>2. JobsTypeOK'  BY <1>0, <1>4, <2>1 DEF JobsTypeOK
  <2>3. \A j \in Jobs : paper'[j] = "out" => paper[j] = "out" /\ jobs[j] = printQueue[j]
    BY <1>4
  <2>4. OutIsClosed'
    <3> SUFFICES ASSUME NEW j \in Jobs, paper'[j] = "out"
                 PROVE  /\ printQueue'[j].status \in Q!Closed /\ disk'[j].status \in Q!Closed
                        /\ printing'[j] # "accepting"
        BY DEF OutIsClosed
    <3> QED  BY <1>0, <1>4, <2>1, <2>3 DEF OutIsClosed
  <2>5. OutIsKnown'
    <3>1. \A j \in Jobs :
            paper'[j] = "out" => disk'[j].status # "none" /\ (loaded' => printQueue'[j].status # "none")
      BY <1>0, <1>4, <2>1, <2>3 DEF OutIsKnown
    <3>2. ASSUME ~loaded, NEW j \in Jobs
          PROVE  printQueue'[j].status = "none" /\ printing'[j] = "rest"
      BY <1>0, <1>4, <1>c, <2>1, <3>2 DEF OutIsKnown
    <3> QED  BY <1>0, <1>4, <3>1, <3>2 DEF OutIsKnown
  <2>6. AcceptedFirst'  BY <1>0, <1>4, <1>c, <2>1 DEF AcceptedFirst
  <2> QED  BY <2>2, <2>4, <2>5, <2>6 DEF PrintInv
<1>5. ASSUME NEW j \in Jobs, Q!Enqueue(j) PROVE PrintInv'
  <2>1. CASE printQueue[j].status = "none"
    <3>1. /\ printQueue' = [printQueue EXCEPT ![j] = [status |-> "pending", attempts |-> 0]]
          /\ loaded /\ UNCHANGED <<disk, loaded, printing, watched, paper>>
      BY <1>5, <2>1 DEF Q!Enqueue, Q!Status
    <3>2. paper[j] # "out"  BY <1>0, <2>1, <3>1 DEF OutIsKnown
    <3>3. IsJob([status |-> "pending", attempts |-> 0])  BY DEF IsJob, JobStatus
    <3>4. JobsTypeOK'  BY <1>0, <3>1, <3>3 DEF JobsTypeOK
    <3>5. OutIsClosed'  BY <1>0, <3>1, <3>2 DEF OutIsClosed, JobsTypeOK
    <3>6. OutIsKnown'  BY <1>0, <3>1, <3>2 DEF OutIsKnown, JobsTypeOK
    <3>7. AcceptedFirst'  BY <1>0, <1>c, <2>1, <3>1 DEF AcceptedFirst, JobsTypeOK
    <3> QED  BY <3>4, <3>5, <3>6, <3>7 DEF PrintInv
  <2>2. CASE Q!Processes(printQueue, {j}) /\ UNCHANGED <<disk, loaded, unsaved, watched, paper>>
    BY <1>0, <1>4, <2>2 DEF JobsTypeOK
  <2> QED  BY <1>5, <2>1, <2>2 DEF Q!Enqueue, Q!Status
<1>6. ASSUME NEW j \in Jobs, Q!Enqueued(j) PROVE PrintInv'
  <2>1. loaded  BY <1>0, <1>6 DEF Q!Enqueued, OutIsKnown
  <2> QED  BY <1>0, <1>4, <1>6, <2>1 DEF Q!Enqueued, JobsTypeOK
<1>7. ASSUME NEW j \in Jobs, Q!Retry(j) PROVE PrintInv'
  BY <1>0, <1>4, <1>7 DEF Q!Retry, JobsTypeOK
<1>8. ASSUME NEW j \in Jobs, Q!Send(j) PROVE PrintInv'
  <2>1. /\ printing[j] = "accepting" /\ printing' = [printing EXCEPT ![j] = "sending"]
        /\ disk' = printQueue /\ UNCHANGED <<printQueue, loaded, unsaved, watched>>
        /\ \A i \in Jobs \ {j} : paper'[i] = paper[i]
        /\ paper' \in [Jobs -> {"blank", "out", "denied", "excused"}]
    BY <1>0, <1>8 DEF Q!Send, JobsTypeOK
  <2>2. printQueue[j].status = "accepted" /\ loaded
    BY <1>0, <2>1 DEF AcceptedFirst, OutIsKnown
  <2>3. JobsTypeOK'  BY <1>0, <2>1 DEF JobsTypeOK
  <2>4. OutIsClosed'  BY <1>0, <1>c, <2>1, <2>2 DEF OutIsClosed, JobsTypeOK
  <2>5. OutIsKnown'  BY <1>0, <2>1, <2>2 DEF OutIsKnown, JobsTypeOK
  <2>6. AcceptedFirst'  BY <1>0, <2>1, <2>2 DEF AcceptedFirst, JobsTypeOK
  <2> QED  BY <2>3, <2>4, <2>5, <2>6 DEF PrintInv
<1>9. ASSUME NEW j \in Jobs, NEW status \in {"spooled", "printed", "error", "unknown"},
             NEW thrown \in BOOLEAN, Q!Answer(j, status, thrown)
      PROVE  PrintInv'
  <2>1. /\ printing[j] = "sending" /\ UNCHANGED <<disk, loaded, unsaved, watched>>
        /\ printing' \in [Jobs -> {"rest", "accepting", "sending", "answered", "failed"}]
        /\ printing'[j] \in {"failed", "answered"}
        /\ \A i \in Jobs \ {j} : printing'[i] = printing[i] /\ paper'[i] = paper[i]
        /\ paper' \in [Jobs -> {"blank", "out", "denied", "excused"}]
        /\ status = "error" => paper'[j] = "denied"
        /\ paper'[j] = "out" => paper[j] = "out"
    BY <1>0, <1>9 DEF Q!Answer, JobsTypeOK
  <2>2. /\ DOMAIN printQueue' = Jobs /\ printQueue' = [i \in Jobs |-> printQueue'[i]]
        /\ IsJob(printQueue'[j]) /\ printQueue'[j].status = status
        /\ \A i \in Jobs \ {j} : printQueue'[i] = printQueue[i]
    <3>1. printQueue' = [printQueue EXCEPT ![j].status = status]  BY <1>9 DEF Q!Answer, Q!Sets
    <3>2. status \in JobStatus  BY DEF JobStatus
    <3> QED  BY <1>0, <3>1, <3>2, SetsStatus
  <2>3. j \notin watched  BY <1>0, <2>1 DEF AcceptedFirst
  <2>4. JobsTypeOK'  BY <1>0, <2>1, <2>2 DEF JobsTypeOK
  <2>5. OutIsClosed'  BY <1>0, <1>c, <2>1, <2>2 DEF OutIsClosed
  <2>6. loaded  BY <1>0, <2>1 DEF OutIsKnown
  <2>7. OutIsKnown'  BY <1>0, <2>1, <2>2, <2>6 DEF OutIsKnown
  <2>8. AcceptedFirst'  BY <1>0, <2>1, <2>2, <2>3 DEF AcceptedFirst
  <2> QED  BY <2>4, <2>5, <2>7, <2>8 DEF PrintInv
<1>10. ASSUME NEW j \in Jobs, Q!Finish(j) PROVE PrintInv'
  <2>1. /\ printing[j] \in {"answered", "failed"} /\ disk' = printQueue
        /\ UNCHANGED <<loaded, unsaved, paper>>
        /\ watched' \in {watched, watched \cup {j}}
        /\ j \in watched' => j \in watched \/ printQueue[j].status \in Q!Underway
    BY <1>10 DEF Q!Finish, Q!Status
  <2>2. j \notin watched /\ loaded  BY <1>0, <2>1 DEF AcceptedFirst, OutIsKnown
  <2>3. \/ /\ printQueue[j].status \notin Q!Closed /\ printing' = [printing EXCEPT ![j] = "accepting"]
           /\ printQueue' = [printQueue EXCEPT ![j] = Q!Begun(@)]
        \/ printQueue' = printQueue /\ printing' = [printing EXCEPT ![j] = "rest"]
    BY <1>10 DEF Q!Finish, Q!Status
  <2>4. JobsTypeOK'  BY <1>0, <2>1, <2>3, BegunIsJob DEF JobsTypeOK
  <2>5. OutIsClosed'  BY <1>0, <2>1, <2>3 DEF OutIsClosed, JobsTypeOK
  <2>6. OutIsKnown'  BY <1>0, <2>1, <2>2, <2>3, BegunIsJob DEF OutIsKnown, JobsTypeOK
  <2>7. AcceptedFirst'
    <3>1. CASE printQueue[j].status \notin Q!Closed /\ printing' = [printing EXCEPT ![j] = "accepting"]
               /\ printQueue' = [printQueue EXCEPT ![j] = Q!Begun(@)]
      BY <1>0, <1>c, <2>1, <2>2, <3>1, BegunIsJob DEF AcceptedFirst, JobsTypeOK
    <3>2. CASE printQueue' = printQueue /\ printing' = [printing EXCEPT ![j] = "rest"]
      BY <1>0, <2>1, <2>2, <3>2 DEF AcceptedFirst, JobsTypeOK
    <3> QED  BY <2>3, <3>1, <3>2
  <2> QED  BY <2>4, <2>5, <2>6, <2>7 DEF PrintInv
(* A job that is at rest, or followed, changes its status.                       *)
<1>11. ASSUME NEW j \in Jobs, NEW status \in JobStatus,
              printQueue[j].status \notin {"none", "accepted"} \/ j \in watched,
              printQueue' = [printQueue EXCEPT ![j].status = status],
              status # "none", paper'[j] # "out" \/ (paper' = paper /\ status \in Q!Closed),
              \A i \in Jobs \ {j} : paper'[i] = paper[i],
              paper' \in [Jobs -> {"blank", "out", "denied", "excused"}],
              UNCHANGED <<disk, loaded, unsaved, printing>>,
              watched' \subseteq watched, j \notin watched'
       PROVE  PrintInv'
  <2>1. /\ DOMAIN printQueue' = Jobs /\ printQueue' = [i \in Jobs |-> printQueue'[i]]
        /\ IsJob(printQueue'[j]) /\ printQueue'[j].status = status
        /\ \A i \in Jobs \ {j} : printQueue'[i] = printQueue[i]
    BY <1>0, <1>11, SetsStatus
  <2>2. JobsTypeOK'  BY <1>0, <1>11, <2>1 DEF JobsTypeOK
  <2>3. OutIsClosed'  BY <1>0, <1>11, <2>1 DEF OutIsClosed
  <2>4. printing[j] \notin {"accepting", "sending"}  BY <1>0, <1>11 DEF AcceptedFirst
  <2>5. printQueue[j].status # "none"  BY <1>0, <1>11, <1>c DEF AcceptedFirst
  <2>6. loaded  BY <1>0, <2>5 DEF OutIsKnown
  <2>7. OutIsKnown'  BY <1>0, <1>11, <2>1, <2>6 DEF OutIsKnown
  <2>8. AcceptedFirst'  BY <1>0, <1>11, <2>1, <2>4 DEF AcceptedFirst
  <2> QED  BY <2>2, <2>3, <2>7, <2>8 DEF PrintInv
<1>12. ASSUME NEW j \in Jobs, NEW status \in {"printed", "error", "unknown"}, Q!Poll(j, status)
       PROVE  PrintInv'
  <2>1. /\ j \in watched /\ watched' = watched \ {j}
        /\ UNCHANGED <<disk, loaded, unsaved, printing>>
    BY <1>12 DEF Q!Poll
  <2>2. printQueue' = [printQueue EXCEPT ![j].status = status]
    BY <1>0, <1>12, <2>1 DEF Q!Poll, Q!Sets, Q!Status, AcceptedFirst
  <2>3. /\ paper' \in [Jobs -> {"blank", "out", "denied", "excused"}]
        /\ \A i \in Jobs \ {j} : paper'[i] = paper[i]
        /\ paper'[j] # "out" \/ (paper' = paper /\ status # "error")
    BY <1>0, <1>12 DEF Q!Poll, JobsTypeOK
  <2>4. status \in JobStatus /\ status # "none" /\ (status # "error" => status \in Q!Closed)
    BY <1>c DEF JobStatus
  <2> QED  BY <1>11, <2>1, <2>2, <2>3, <2>4
<1>13. ASSUME NEW j \in Jobs, Q!ConfirmPrinted(j) \/ Q!CancelPrint(j) PROVE PrintInv'
  <2>1. printQueue[j].status = "unknown" /\ UNCHANGED <<disk, loaded, unsaved, printing, watched>>
    BY <1>13 DEF Q!ConfirmPrinted, Q!CancelPrint, Q!Status
  <2>2. j \notin watched  BY <1>0, <1>c, <2>1 DEF AcceptedFirst
  <2>3. PICK status \in {"printed", "error"} :
          /\ printQueue' = [printQueue EXCEPT ![j].status = status]
          /\ \/ paper' = paper /\ status = "printed"
             \/ paper' = [paper EXCEPT ![j] = "excused"]
    BY <1>13 DEF Q!ConfirmPrinted, Q!CancelPrint, Q!Sets
  <2>4. status \in JobStatus /\ status # "none" /\ "printed" \in Q!Closed
    BY <1>c DEF JobStatus
  <2>5. /\ paper' \in [Jobs -> {"blank", "out", "denied", "excused"}]
        /\ \A i \in Jobs \ {j} : paper'[i] = paper[i]
        /\ paper'[j] # "out" \/ (paper' = paper /\ status \in Q!Closed)
    BY <1>0, <1>c, <2>3 DEF JobsTypeOK
  <2> QED  BY <1>11, <2>1, <2>2, <2>3, <2>4, <2>5
<1>14. ASSUME NEW j \in Jobs, Q!ConfirmNotPrinted(j) PROVE PrintInv'
  <2> DEFINE pending == [printQueue EXCEPT ![j] = [status |-> "pending", attempts |-> 0]]
  <2>1. /\ printQueue[j].status = "unknown" /\ paper' = [paper EXCEPT ![j] = "denied"]
        /\ Q!Processes(pending, {j}) /\ UNCHANGED <<disk, loaded, unsaved, watched>>
    BY <1>14 DEF Q!ConfirmNotPrinted, Q!Status
  <2>2. IsJob([status |-> "pending", attempts |-> 0])  BY DEF IsJob, JobStatus
  <2>3. /\ \A i \in Jobs : IsJob(pending[i]) /\ (i # j => pending[i] = printQueue[i])
        /\ pending[j].status = "pending"
    BY <1>0, <2>2 DEF JobsTypeOK
  <2>4. /\ paper' \in [Jobs -> {"blank", "out", "denied", "excused"}] /\ paper'[j] = "denied"
        /\ \A i \in Jobs \ {j} : paper'[i] = paper[i]
    BY <1>0, <2>1 DEF JobsTypeOK
  <2> HIDE DEF pending
  <2> QED  BY <1>4, <2>1, <2>3, <2>4
<1>15. CASE UNCHANGED Q!printVars
  BY <1>0, <1>15
     DEF Q!printVars, PrintInv, JobsTypeOK, OutIsClosed, OutIsKnown, AcceptedFirst
<1> QED
  BY <1>1, <1>2, <1>3, <1>5, <1>6, <1>7, <1>8, <1>9, <1>10, <1>12, <1>13, <1>14, <1>15 DEF Q!Next

(* NoBlindReprint: what may have been printed is sent to the printer again    *)
(* only after somebody asked for it, across crashes of the agent between any  *)
(* two writes.                                                                *)
THEOREM NoBlindReprintHolds == Q!Spec => NoBlindReprint
<1>1. PrintInv =>
        [\A j \in Jobs : printing[j] = "accepting" /\ printing'[j] = "sending" =>
           paper[j] # "out"]_(Q!printVars)
  BY DEF PrintInv, OutIsClosed
<1> QED  BY <1>1, PrintInit, PrintStep, PTL DEF Q!Spec, NoBlindReprint, Q!NoBlindReprint

-----------------------------------------------------------------------------
(* CashRegister: a cart is sold once, under one key.                          *)

TillPosts == [at : {"none", "lookup", "create", "sold", "refused"}, key : Nat, cart : Nat]
Histories == [shown : Nat, changed : SUBSET Nat, open : SUBSET T!Papers, owed : [T!Papers -> Int]]
SaleTypeOK ==
  /\ cart \in Nat /\ checkoutKey \in Nat /\ lastSale \in Nat
  /\ post \in [Posts -> TillPosts] /\ sale \in [T!SaleKeys -> Nat]
  /\ used \in [carts : Nat, keys : Nat, prints : Nat]
  /\ till \in Histories

(* What has a number was given it.                                               *)
Numbers ==
  /\ cart <= used.carts /\ checkoutKey <= used.keys /\ used.keys <= MaxKeys
  /\ lastSale # 0 => lastSale \in T!SaleKeys
  /\ \A r \in Posts : post[r].at # "none" =>
       /\ post[r].key \in T!SaleKeys /\ post[r].key <= used.keys
       /\ post[r].cart # 0 /\ post[r].cart <= used.carts
  /\ \A k \in T!SaleKeys : sale[k] # 0 => k <= used.keys /\ sale[k] <= used.carts

(* The cart c was sent under the key k, and is on its way or sold.               *)
Sent(k, c) ==
  \/ \E r \in Posts : post[r].at # "none" /\ post[r].key = k /\ post[r].cart = c
  \/ k \in T!SaleKeys /\ sale[k] = c /\ c # 0

(* A key stands for one cart; a cart has one key unless its method was changed.  *)
KeyOfCart ==
  /\ \A k, c, d \in Nat : Sent(k, c) /\ Sent(k, d) => c = d
  /\ \A k, l, c \in Nat : Sent(k, c) /\ Sent(l, c) /\ k # l => c \in till.changed
  /\ checkoutKey # 0 => cart # 0 /\ \A c \in Nat : Sent(checkoutKey, c) => c = cart
  /\ \A k \in Nat : Sent(k, cart) /\ k # checkoutKey => cart \in till.changed

(* What is answered, and shown, is the sale of what was sent.                    *)
AnswersTrue ==
  /\ \A r \in Posts : post[r].at = "sold" => sale[post[r].key] = post[r].cart
  /\ lastSale # 0 => sale[lastSale] = till.shown /\ till.shown # 0

SaleInv == SaleTypeOK /\ Numbers /\ KeyOfCart /\ AnswersTrue

(* An empty cart, and no key.                                                 *)
LEMMA SaleInit == T!Init => SaleInv
<1> SUFFICES ASSUME T!Init PROVE SaleInv  OBVIOUS
<1>1. SaleTypeOK
  <2>1. till \in Histories  BY DEF T!Init, Histories
  <2> QED  BY <2>1 DEF T!Init, SaleTypeOK, TillPosts, T!NoPost
<1>2. /\ cart = 0 /\ checkoutKey = 0 /\ lastSale = 0 /\ used.keys = 0
      /\ \A r \in Posts : post[r].at = "none"
      /\ \A k \in T!SaleKeys : sale[k] = 0
  BY DEF T!Init, T!NoPost
<1>3. \A k, c \in Nat : ~Sent(k, c)  BY <1>2 DEF Sent
<1>4. Numbers  BY <1>1, <1>2, TillAssumption DEF Numbers, SaleTypeOK
<1> QED  BY <1>1, <1>2, <1>3, <1>4 DEF SaleInv, KeyOfCart, AnswersTrue

(* Of the history only what is shown and what was changed matters to the sales.  *)
LEMMA SaleFrame ==
  ASSUME SaleInv, UNCHANGED T!saleVars, till' \in Histories,
         till'.shown = till.shown, till'.changed = till.changed,
         used' \in [carts : Nat, keys : Nat, prints : Nat],
         used'.carts = used.carts, used'.keys = used.keys
  PROVE  SaleInv'
<1>1. UNCHANGED <<cart, checkoutKey, lastSale, post, sale>>  BY DEF T!saleVars
<1>2. \A k, c \in Nat : Sent(k, c)' <=> Sent(k, c)  BY <1>1 DEF Sent
<1>3. SaleTypeOK'  BY <1>1 DEF SaleInv, SaleTypeOK
<1>4. Numbers'  BY <1>1 DEF SaleInv, Numbers
<1>5. KeyOfCart'
  <2>1. cart \in Nat /\ checkoutKey \in Nat  BY DEF SaleInv, SaleTypeOK
  <2> QED  BY <1>1, <1>2, <2>1 DEF SaleInv, KeyOfCart
<1>6. AnswersTrue'  BY <1>1 DEF SaleInv, AnswersTrue
<1> QED  BY <1>3, <1>4, <1>5, <1>6 DEF SaleInv

(* A post that goes on, or ends, carries what it carried.                        *)
LEMMA PostGoes ==
  ASSUME SaleInv, NEW r \in Posts, post[r].at # "none",
         UNCHANGED <<cart, checkoutKey, lastSale, sale, used, till>>,
         \/ /\ post' = [post EXCEPT ![r].at = "sold"]
            /\ sale[post[r].key] # 0
         \/ \E there \in {"create", "refused"} : post' = [post EXCEPT ![r].at = there]
         \/ post' = [post EXCEPT ![r] = T!NoPost]
  PROVE  SaleInv'
<1>0. SaleTypeOK /\ Numbers /\ KeyOfCart /\ AnswersTrue  BY DEF SaleInv
<1>1. /\ post' \in [Posts -> TillPosts]
      /\ \A q \in Posts \ {r} : post'[q] = post[q]
      /\ post'[r].at # "none" => post'[r].key = post[r].key /\ post'[r].cart = post[r].cart
      /\ post'[r].at = "sold" => sale[post[r].key] # 0
  BY <1>0 DEF SaleTypeOK, TillPosts, T!NoPost
<1>2. \A k, c \in Nat : Sent(k, c)' => Sent(k, c)  BY <1>1 DEF Sent
<1>3. SaleTypeOK'  BY <1>0, <1>1 DEF SaleTypeOK
<1>4. Numbers'  BY <1>0, <1>1 DEF Numbers
<1>5. KeyOfCart'  BY <1>0, <1>2 DEF KeyOfCart, SaleTypeOK
<1>6. sale[post[r].key] # 0 => sale[post[r].key] = post[r].cart
  <2>1. post[r].key \in Nat /\ post[r].key \in T!SaleKeys /\ post[r].cart \in Nat
        /\ sale[post[r].key] \in Nat
    BY <1>0 DEF SaleTypeOK, TillPosts, Numbers
  <2>2. Sent(post[r].key, post[r].cart)  BY DEF Sent
  <2>3. sale[post[r].key] # 0 => Sent(post[r].key, sale[post[r].key])  BY <2>1 DEF Sent
  <2> QED  BY <1>0, <2>1, <2>2, <2>3 DEF KeyOfCart
<1>7. AnswersTrue'  BY <1>0, <1>1, <1>6 DEF AnswersTrue
<1> QED  BY <1>3, <1>4, <1>5, <1>7 DEF SaleInv

(* A cart that is emptied, or made anew, has no key yet.                         *)
LEMMA NewCart ==
  ASSUME SaleInv, UNCHANGED <<post, sale>>, checkoutKey' = 0,
         cart' = 0 \/ cart' = used.carts + 1, cart' <= used'.carts, used'.carts \in Nat,
         used' \in [carts : Nat, keys : Nat, prints : Nat], used'.keys = used.keys,
         used'.carts >= used.carts,
         till' \in Histories, till'.changed = till.changed,
         \/ lastSale' = 0
         \/ lastSale' \in T!SaleKeys /\ sale[lastSale'] = till'.shown /\ till'.shown # 0
  PROVE  SaleInv'
<1>0. SaleTypeOK /\ Numbers /\ KeyOfCart /\ AnswersTrue  BY DEF SaleInv
<1>1. \A k, c \in Nat : Sent(k, c)' <=> Sent(k, c)  BY DEF Sent
<1>2. \A k \in Nat : ~Sent(k, cart')
  <2>1. \A r \in Posts : post[r].at # "none" => post[r].cart # cart'
    BY <1>0 DEF Numbers, SaleTypeOK, TillPosts
  <2>2. \A k \in T!SaleKeys : sale[k] # 0 => sale[k] # cart'
    BY <1>0 DEF Numbers, SaleTypeOK
  <2> QED  BY <2>1, <2>2 DEF Sent
<1>3. SaleTypeOK'  BY <1>0 DEF SaleTypeOK, T!SaleKeys
<1>4. Numbers'  BY <1>0 DEF Numbers, SaleTypeOK, TillPosts
<1>5. KeyOfCart'  BY <1>0, <1>1, <1>2 DEF KeyOfCart, SaleTypeOK
<1>6. AnswersTrue'  BY <1>0 DEF AnswersTrue
<1> QED  BY <1>3, <1>4, <1>5, <1>6 DEF SaleInv

(* What the steps do to the history.                                             *)
LEMMA HistoryMoves ==
  ASSUME NEW h \in Histories, NEW c \in Nat, NEW p, NEW n \in {0, 1}
  PROVE  /\ [h EXCEPT !.changed = @ \cup {c}] \in Histories
         /\ [h EXCEPT !.shown = c] \in Histories
         /\ [h EXCEPT !.open = @ \ {p}] \in Histories
         /\ [h EXCEPT !.owed[p] = @ - n] \in Histories
         /\ [h EXCEPT !.owed[p] = @ + 1] \in Histories
<1>1. /\ h.shown \in Nat /\ h.changed \in SUBSET Nat /\ h.open \in SUBSET T!Papers
      /\ h.owed \in [T!Papers -> Int]
      /\ h = [shown |-> h.shown, changed |-> h.changed, open |-> h.open, owed |-> h.owed]
  BY DEF Histories
<1>2. [h EXCEPT !.changed = @ \cup {c}]
      = [shown |-> h.shown, changed |-> h.changed \cup {c}, open |-> h.open, owed |-> h.owed]
  BY <1>1
<1>3. [h EXCEPT !.open = @ \ {p}]
      = [shown |-> h.shown, changed |-> h.changed, open |-> h.open \ {p}, owed |-> h.owed]
  BY <1>1
<1>4. [h EXCEPT !.owed[p] = @ - n]
      = [shown |-> h.shown, changed |-> h.changed, open |-> h.open,
         owed |-> [h.owed EXCEPT ![p] = @ - n]]
  BY <1>1
<1>5. [h EXCEPT !.owed[p] = @ + 1]
      = [shown |-> h.shown, changed |-> h.changed, open |-> h.open,
         owed |-> [h.owed EXCEPT ![p] = @ + 1]]
  BY <1>1
<1>6. [h EXCEPT !.shown = c]
      = [shown |-> c, changed |-> h.changed, open |-> h.open, owed |-> h.owed]
  BY <1>1
<1>7. /\ [h.owed EXCEPT ![p] = @ - n] \in [T!Papers -> Int]
      /\ [h.owed EXCEPT ![p] = @ + 1] \in [T!Papers -> Int]
  <2>1. n \in Int  OBVIOUS
  <2>2. \A q \in T!Papers : h.owed[q] - n \in Int /\ h.owed[q] + 1 \in Int  BY <1>1, <2>1
  <2> QED  BY <1>1, <2>2
<1>8. h.changed \cup {c} \in SUBSET Nat /\ h.open \ {p} \in SUBSET T!Papers
  BY <1>1
<1> QED  BY <1>1, <1>2, <1>3, <1>4, <1>5, <1>6, <1>7, <1>8 DEF Histories

(* What the steps that leave the sales alone do to them.                         *)
LEMMA HistoryFields ==
  ASSUME NEW h \in Histories, NEW p, NEW n \in {0, 1}
  PROVE  /\ LET g == [h EXCEPT !.open = @ \ {p}] IN
            /\ g.shown = h.shown /\ g.changed = h.changed
            /\ g.open = h.open \ {p} /\ g.owed = h.owed
         /\ LET g == [h EXCEPT !.owed[p] = @ - n] IN
            /\ g.shown = h.shown /\ g.changed = h.changed
            /\ g.open = h.open /\ g.owed = [h.owed EXCEPT ![p] = @ - n]
         /\ LET g == [h EXCEPT !.owed[p] = @ + 1] IN
            /\ g.shown = h.shown /\ g.changed = h.changed
            /\ g.open = h.open /\ g.owed = [h.owed EXCEPT ![p] = @ + 1]
<1>1. /\ h.shown \in Nat /\ h.changed \in SUBSET Nat /\ h.open \in SUBSET T!Papers
      /\ h.owed \in [T!Papers -> Int]
      /\ h = [shown |-> h.shown, changed |-> h.changed, open |-> h.open, owed |-> h.owed]
  BY DEF Histories
<1>2. LET g == [h EXCEPT !.open = @ \ {p}] IN
      /\ g.shown = h.shown /\ g.changed = h.changed
      /\ g.open = h.open \ {p} /\ g.owed = h.owed
  BY <1>1
<1>3. LET g == [h EXCEPT !.owed[p] = @ - n] IN
      /\ g.shown = h.shown /\ g.changed = h.changed
      /\ g.open = h.open /\ g.owed = [h.owed EXCEPT ![p] = @ - n]
  BY <1>1
<1>4. LET g == [h EXCEPT !.owed[p] = @ + 1] IN
      /\ g.shown = h.shown /\ g.changed = h.changed
      /\ g.open = h.open /\ g.owed = [h.owed EXCEPT ![p] = @ + 1]
  BY <1>1
<1> QED  BY <1>2, <1>3, <1>4

(* The history in which a paper is wanted, field by field.                       *)
LEMMA WantedRecord ==
  ASSUME NEW h \in Histories, NEW X \in SUBSET T!Papers, NEW p \in T!Papers
  PROVE [h EXCEPT !.open = X, !.owed[p] = @ + 1]
      = [shown |-> h.shown, changed |-> h.changed, open |-> X,
         owed |-> [h.owed EXCEPT ![p] = @ + 1]]
<1>1. [h EXCEPT !.open = X]
      = [shown |-> h.shown, changed |-> h.changed, open |-> X, owed |-> h.owed]
  BY DEF Histories
<1>2. \A v : [[shown |-> h.shown, changed |-> h.changed, open |-> X, owed |-> h.owed]
                EXCEPT !.owed[p] = v]
      = [shown |-> h.shown, changed |-> h.changed, open |-> X,
         owed |-> [h.owed EXCEPT ![p] = v]]
  OBVIOUS
<1>3. [h EXCEPT !.open = X, !.owed[p] = h.owed[p] + 1]
      = [[shown |-> h.shown, changed |-> h.changed, open |-> X, owed |-> h.owed]
                EXCEPT !.owed[p] = h.owed[p] + 1]
  BY <1>1, Zenon
<1> QED  BY <1>2, <1>3, Zenon

(* A paper that is wanted is a paper of the sale.                                *)
LEMMA WantedType ==
  ASSUME NEW h \in Histories, NEW s \in T!SaleKeys, NEW d \in Printouts
  PROVE  /\ T!Wanted(h, s, d) \in Histories
         /\ T!Wanted(h, s, d).shown = h.shown /\ T!Wanted(h, s, d).changed = h.changed
         /\ T!Wanted(h, s, d).open = h.open \cup {<<s, d>>}
         /\ T!Wanted(h, s, d).owed = IF <<s, d>> \in h.open THEN h.owed
                                     ELSE [h.owed EXCEPT ![<<s, d>>] = @ + 1]
<1> DEFINE p == <<s, d>>
<1>1. p \in T!Papers  BY DEF T!Papers
<1>2. /\ h.shown \in Nat /\ h.changed \in SUBSET Nat /\ h.open \in SUBSET T!Papers
      /\ h.owed \in [T!Papers -> Int]
      /\ h = [shown |-> h.shown, changed |-> h.changed, open |-> h.open, owed |-> h.owed]
  BY DEF Histories
<1>3. h.open \cup {p} \in SUBSET T!Papers /\ [h.owed EXCEPT ![p] = @ + 1] \in [T!Papers -> Int]
  BY <1>1, <1>2
<1>4. [h EXCEPT !.open = @ \cup {p}, !.owed[p] = @ + 1]
      = [shown |-> h.shown, changed |-> h.changed, open |-> h.open \cup {p},
         owed |-> [h.owed EXCEPT ![p] = @ + 1]]
  <2> DEFINE X == h.open \cup {p}
  <2>1. X \in SUBSET T!Papers  BY <1>3
  <2> HIDE DEF p, X
  <2>2. [h EXCEPT !.open = X, !.owed[p] = @ + 1]
        = [shown |-> h.shown, changed |-> h.changed, open |-> X,
           owed |-> [h.owed EXCEPT ![p] = @ + 1]]
    <3>1. h \in Histories /\ p \in T!Papers  BY <1>1
    <3> QED  BY ONLY <2>1, <3>1, WantedRecord, ZenonT(60)
  <2> QED  BY <2>2 DEF X
<1>5. CASE p \in h.open
  <2>1. T!Wanted(h, s, d) = h  BY <1>5 DEF T!Wanted
  <2> QED  BY <2>1, <1>5
<1>6. CASE p \notin h.open
  <2>1. T!Wanted(h, s, d) = [h EXCEPT !.open = @ \cup {p}, !.owed[p] = @ + 1]
    BY <1>6 DEF T!Wanted
  <2>2. T!Wanted(h, s, d) = [shown |-> h.shown, changed |-> h.changed,
                             open |-> h.open \cup {p}, owed |-> [h.owed EXCEPT ![p] = @ + 1]]
    BY <2>1, <1>4
  <2> QED  BY <1>2, <1>3, <1>6, <2>2 DEF Histories
<1> QED  BY <1>5, <1>6

(* What of it does not depend on the papers that are owed.                       *)
LEMMA WantedKeeps ==
  ASSUME NEW h \in Histories, NEW s \in T!SaleKeys, NEW d \in Printouts
  PROVE  /\ T!Wanted(h, s, d) \in Histories
         /\ T!Wanted(h, s, d).shown = h.shown /\ T!Wanted(h, s, d).changed = h.changed
         /\ T!Wanted(h, s, d).open = h.open \cup {<<s, d>>}
BY WantedType, ZenonT(60)

(* The key that a print begins with.                                             *)
LEMMA BeginsUsed ==
  ASSUME SaleTypeOK, NEW s, NEW d, T!Begins(s, d)
  PROVE  /\ used' \in [carts : Nat, keys : Nat, prints : Nat]
         /\ used'.carts = used.carts /\ used'.keys = used.keys
  BY DEF T!Begins, SaleTypeOK

(* Every step keeps the invariant of the sales.                                  *)
LEMMA SaleStep == SaleInv /\ [T!Next]_(T!tillVars) => SaleInv'
<1> SUFFICES ASSUME SaleInv, [T!Next]_(T!tillVars) PROVE SaleInv'  OBVIOUS
<1>0. SaleTypeOK /\ Numbers /\ KeyOfCart /\ AnswersTrue  BY DEF SaleInv
<1>a. /\ till \in Histories /\ used \in [carts : Nat, keys : Nat, prints : Nat]
      /\ cart \in Nat /\ post \in [Posts -> TillPosts] /\ sale \in [T!SaleKeys -> Nat]
  BY <1>0 DEF SaleTypeOK
<1>1. CASE T!Edit
  <2>1. used' \in [carts : Nat, keys : Nat, prints : Nat] /\ used'.keys = used.keys
        /\ used'.carts = used.carts + 1
    BY <1>1, <1>a DEF T!Edit
  <2>2. used'.carts \in Nat /\ used'.carts >= used.carts /\ used.carts \in Nat  BY <1>a, <2>1
  <2> QED  BY <1>1, <1>a, <2>1, <2>2, NewCart DEF T!Edit
<1>2. CASE T!ChangeMethod
  <2>1. till' \in Histories /\ till'.changed = till.changed \cup {cart}
        /\ till'.shown = till.shown
    <3>1. till' = [till EXCEPT !.changed = @ \cup {cart}]  BY <1>2 DEF T!ChangeMethod
    <3>2. till' \in Histories  BY <1>a, <3>1, HistoryMoves
    <3> QED  BY <1>a, <3>1, <3>2 DEF Histories
  <2>2. UNCHANGED <<cart, lastSale, post, sale, used>> /\ checkoutKey' = 0
    BY <1>2 DEF T!ChangeMethod
  <2>3. \A k, c \in Nat : Sent(k, c)' <=> Sent(k, c)  BY <2>2 DEF Sent
  <2>4. SaleTypeOK'  BY <1>0, <2>1, <2>2 DEF SaleTypeOK
  <2>5. Numbers'  BY <1>0, <2>2 DEF Numbers, SaleTypeOK
  <2>6. KeyOfCart'  BY <1>0, <2>1, <2>2, <2>3 DEF KeyOfCart, SaleTypeOK
  <2>7. AnswersTrue'  BY <1>0, <2>1, <2>2 DEF AnswersTrue
  <2> QED  BY <2>4, <2>5, <2>6, <2>7 DEF SaleInv
<1>3. CASE T!Reload
  <2>1. till' \in Histories /\ till'.changed = till.changed
    <3>1. till' = [till EXCEPT !.shown = 0]  BY <1>3 DEF T!Reload
    <3>2. till' \in Histories  BY <1>a, <3>1, HistoryMoves
    <3> QED  BY <1>a, <3>1, <3>2 DEF Histories
  <2> QED  BY <1>3, <1>a, <2>1, NewCart DEF T!Reload
<1>4. ASSUME NEW r \in Posts, T!Checkout(r) PROVE SaleInv'
  <2>1. /\ UNCHANGED <<cart, lastSale, sale, till>> /\ cart # 0
        /\ checkoutKey' \in T!SaleKeys /\ checkoutKey' # 0
        /\ used' \in [carts : Nat, keys : Nat, prints : Nat]
        /\ used'.carts = used.carts /\ used'.keys >= used.keys /\ used'.keys <= MaxKeys
        /\ checkoutKey' <= used'.keys
        /\ checkoutKey # 0 => checkoutKey' = checkoutKey
        /\ checkoutKey = 0 => checkoutKey' = used.keys + 1
    <3>0. /\ UNCHANGED <<cart, lastSale, sale, till>> /\ cart # 0
          /\ checkoutKey \in Nat /\ checkoutKey <= used.keys /\ used.keys <= MaxKeys
          /\ used.carts \in Nat /\ used.keys \in Nat /\ MaxKeys \in Nat
      BY <1>4, <1>0, <1>a, TillAssumption DEF T!Checkout, SaleTypeOK, Numbers
    <3>1. CASE checkoutKey = 0
      <4>1. /\ used.keys < MaxKeys /\ checkoutKey' = used.keys + 1
            /\ used' = [used EXCEPT !.keys = used.keys + 1]
        BY <1>4, <3>1 DEF T!Checkout
      <4>2. /\ used' \in [carts : Nat, keys : Nat, prints : Nat]
            /\ used'.carts = used.carts /\ used'.keys = used.keys + 1
        BY <1>a, <3>0, <4>1
      <4>3. checkoutKey' \in T!SaleKeys  BY <3>0, <4>1 DEF T!SaleKeys
      <4> QED  BY <3>0, <3>1, <4>1, <4>2, <4>3
    <3>2. CASE checkoutKey # 0
      <4>1. checkoutKey' = checkoutKey /\ used' = used  BY <1>4, <3>2 DEF T!Checkout
      <4>2. checkoutKey \in T!SaleKeys  BY <3>0, <3>2 DEF T!SaleKeys
      <4> QED  BY <1>a, <3>0, <3>2, <4>1, <4>2
    <3> QED  BY <3>1, <3>2
  <2>2. post' = [post EXCEPT ![r] = [at |-> "lookup", key |-> checkoutKey', cart |-> cart]]
    BY <1>4 DEF T!Checkout
  <2>3. /\ post' \in [Posts -> TillPosts]
        /\ post'[r] = [at |-> "lookup", key |-> checkoutKey', cart |-> cart]
        /\ \A q \in Posts \ {r} : post'[q] = post[q]
    BY <1>a, <2>1, <2>2 DEF TillPosts, T!SaleKeys
  <2>4. \A k, c \in Nat : Sent(k, c)' => Sent(k, c) \/ (k = checkoutKey' /\ c = cart)
    BY <2>1, <2>3 DEF Sent
  <2>5. \A c \in Nat : Sent(checkoutKey', c) => c = cart
    <3>1. CASE checkoutKey = 0
      <4>1. checkoutKey' \in Nat /\ checkoutKey' > used.keys /\ used.keys \in Nat
        BY <1>a, <2>1, <3>1
      <4>2. \A q \in Posts : post[q].at # "none" => post[q].key \in Nat /\ post[q].key <= used.keys
        BY <1>0 DEF Numbers, T!SaleKeys
      <4>3. \A k \in T!SaleKeys : sale[k] # 0 => k <= used.keys  BY <1>0 DEF Numbers
      <4> QED  BY <4>1, <4>2, <4>3 DEF Sent, T!SaleKeys
    <3>2. CASE checkoutKey # 0  BY <1>0, <2>1, <3>2 DEF KeyOfCart
    <3> QED  BY <3>1, <3>2
  <2>6. \A k \in Nat : Sent(k, cart) /\ k # checkoutKey' => cart \in till.changed
    <3>1. CASE checkoutKey # 0  BY <1>0, <1>a, <2>1, <3>1 DEF KeyOfCart
    <3>2. CASE checkoutKey = 0
      <4>1. \A k \in Nat : Sent(k, cart) => k # 0
        BY <1>0 DEF Sent, T!SaleKeys, Numbers
      <4> QED  BY <1>0, <1>a, <3>2, <4>1 DEF KeyOfCart
    <3> QED  BY <3>1, <3>2
  <2>7. SaleTypeOK'  BY <1>0, <2>1, <2>3 DEF SaleTypeOK, T!SaleKeys
  <2>8. Numbers'
    <3>1. \A q \in Posts : post'[q].at # "none" =>
            /\ post'[q].key \in T!SaleKeys /\ post'[q].key <= used'.keys
            /\ post'[q].cart # 0 /\ post'[q].cart <= used'.carts
      <4> SUFFICES ASSUME NEW q \in Posts, post'[q].at # "none"
                   PROVE  /\ post'[q].key \in T!SaleKeys /\ post'[q].key <= used'.keys
                          /\ post'[q].cart # 0 /\ post'[q].cart <= used'.carts
        OBVIOUS
      <4>1. CASE q = r  BY <1>0, <2>1, <2>3, <4>1 DEF Numbers
      <4>2. CASE q # r
        <5>1. post[q].key <= used.keys /\ post[q].key \in Nat
          BY <1>0, <1>a, <2>3, <4>2 DEF Numbers, TillPosts
        <5>2. post[q].key <= used'.keys  BY <5>1, <2>1, <1>a
        <5> QED  BY <1>0, <2>1, <2>3, <4>2, <5>2 DEF Numbers
      <4> QED  BY <4>1, <4>2
    <3>2. \A k \in T!SaleKeys : sale[k] # 0 => k <= used'.keys /\ sale[k] <= used'.carts
      BY <1>0, <1>a, <2>1 DEF Numbers, T!SaleKeys
    <3> QED  BY <1>0, <2>1, <3>1, <3>2 DEF Numbers
  <2>9. KeyOfCart'
    <3>1. checkoutKey' \in Nat /\ cart' = cart /\ till' = till  BY <2>1 DEF T!SaleKeys
    <3>2. \A k, c, d \in Nat : Sent(k, c)' /\ Sent(k, d)' => c = d
      BY <1>0, <2>4, <2>5, <3>1 DEF KeyOfCart
    <3>3. \A k, l, c \in Nat : Sent(k, c)' /\ Sent(l, c)' /\ k # l => c \in till.changed
      BY <1>0, <2>4, <2>6, <3>1 DEF KeyOfCart
    <3>4. \A k, c \in Nat : k = checkoutKey' /\ Sent(k, c)' => c = cart  BY <2>4, <2>5
    <3>5. \A k, c \in Nat : c = cart /\ Sent(k, c)' /\ k # checkoutKey' => c \in till.changed
      BY <2>4, <2>6
    <3>6. \A c \in Nat : Sent(checkoutKey, c)' => c = cart'  BY <3>4, <3>1
    <3>7. \A k \in Nat : Sent(k, cart)' /\ k # checkoutKey' => cart' \in till'.changed
      BY <3>5, <3>1, <1>a
    <3> QED  BY <2>1, <3>1, <3>2, <3>3, <3>6, <3>7 DEF KeyOfCart
  <2>10. AnswersTrue'  BY <1>0, <2>1, <2>3 DEF AnswersTrue
  <2> QED  BY <2>7, <2>8, <2>9, <2>10 DEF SaleInv
<1>5. ASSUME NEW r \in Posts, T!Lookup(r) PROVE SaleInv'
  <2>1. post[r].at # "none" /\ UNCHANGED <<cart, checkoutKey, lastSale, sale, used, till>>
    BY <1>5 DEF T!Lookup
  <2>2. \/ post' = [post EXCEPT ![r].at = "sold"] /\ sale[post[r].key] # 0
        \/ post' = [post EXCEPT ![r].at = "create"]
    BY <1>5 DEF T!Lookup
  <2>3. \/ post' = [post EXCEPT ![r].at = "sold"] /\ sale[post[r].key] # 0
        \/ \E there \in {"create", "refused"} : post' = [post EXCEPT ![r].at = there]
    BY <2>2
  <2> QED  BY <2>1, <2>3, PostGoes
<1>6. ASSUME NEW r \in Posts, T!Create(r) PROVE SaleInv'
  <2>1. post[r].at = "create" /\ UNCHANGED <<cart, checkoutKey, lastSale, used, till>>
    BY <1>6 DEF T!Create
  <2> DEFINE k == post[r].key
  <2>2. /\ k \in T!SaleKeys /\ k <= used.keys /\ post[r].cart # 0
        /\ post[r].cart <= used.carts /\ post[r].cart \in Nat /\ k \in Nat
    BY <1>0, <1>a, <2>1 DEF Numbers, TillPosts
  <2>3. CASE post' = [post EXCEPT ![r].at = "refused"] /\ sale' = sale
    <3>1. \E there \in {"create", "refused"} : post' = [post EXCEPT ![r].at = there]
      BY <2>3
    <3> QED  BY <2>1, <2>3, <3>1, PostGoes
  <2>4. CASE /\ sale' = [sale EXCEPT ![k] = IF @ = 0 THEN post[r].cart ELSE @]
             /\ post' = [post EXCEPT ![r].at = "sold"]
    <3>1. /\ post' \in [Posts -> TillPosts] /\ \A q \in Posts \ {r} : post'[q] = post[q]
          /\ post'[r].at = "sold" /\ post'[r].key = k /\ post'[r].cart = post[r].cart
      BY <1>a, <2>4 DEF TillPosts
    <3>2. /\ sale' \in [T!SaleKeys -> Nat] /\ \A l \in T!SaleKeys \ {k} : sale'[l] = sale[l]
          /\ sale'[k] = IF sale[k] = 0 THEN post[r].cart ELSE sale[k]
      BY <1>a, <2>2, <2>4
    <3>3. Sent(k, post[r].cart)  BY <2>1 DEF Sent
    <3>4. sale'[k] = post[r].cart
      <4>1. sale[k] # 0 => Sent(k, sale[k]) /\ sale[k] \in Nat  BY <1>a, <2>2 DEF Sent
      <4> QED  BY <1>0, <2>2, <3>2, <3>3, <4>1 DEF KeyOfCart
    <3>5. \A l, c \in Nat : Sent(l, c)' => Sent(l, c)
      BY <2>1, <2>2, <3>1, <3>2, <3>3, <3>4 DEF Sent
    <3>6. SaleTypeOK'  BY <1>0, <2>1, <3>1, <3>2 DEF SaleTypeOK
    <3>7. Numbers'  BY <1>0, <2>1, <2>2, <3>1, <3>2, <3>4 DEF Numbers
    <3>8. KeyOfCart'  BY <1>0, <2>1, <3>5 DEF KeyOfCart, SaleTypeOK
    <3>9. AnswersTrue'
      <4>1. \A q \in Posts : post'[q].at = "sold" => sale'[post'[q].key] = post'[q].cart
        <5> SUFFICES ASSUME NEW q \in Posts, post'[q].at = "sold"
                     PROVE  sale'[post'[q].key] = post'[q].cart
          OBVIOUS
        <5>1. CASE q = r  BY <5>1, <3>1, <3>4
        <5>2. CASE q # r
          <6>1. post[q].key \in T!SaleKeys /\ sale[post[q].key] = post[q].cart
                /\ post[q].cart # 0
            BY <1>0, <3>1, <5>2 DEF AnswersTrue, Numbers
          <6> QED  BY <6>1, <3>1, <3>2, <3>4, <5>2
        <5> QED  BY <5>1, <5>2
      <4>2. lastSale # 0 => sale'[lastSale] = till.shown /\ till.shown # 0
        BY <1>0, <3>2, <3>4 DEF AnswersTrue, Numbers
      <4> QED  BY <2>1, <4>1, <4>2 DEF AnswersTrue
    <3> QED  BY <3>6, <3>7, <3>8, <3>9 DEF SaleInv
  <2> QED  BY <1>6, <2>3, <2>4 DEF T!Create
<1>7. ASSUME NEW r \in Posts, T!Sold(r) PROVE SaleInv'
  <2>1. /\ post[r].at = "sold" /\ post' = [post EXCEPT ![r] = T!NoPost]
        /\ UNCHANGED sale
    BY <1>7 DEF T!Sold
  <2>2. CASE busy # r
    <3>1. UNCHANGED <<cart, checkoutKey, lastSale, used, till>>
      BY <1>7, <2>2 DEF T!Sold
    <3> QED  BY <2>1, <3>1, PostGoes
  <2>3. CASE busy = r
    <3> DEFINE k == post[r].key
               h == [till EXCEPT !.shown = post[r].cart]
    <3>1. /\ k \in T!SaleKeys /\ k # 0 /\ post[r].cart # 0 /\ post[r].cart \in Nat
          /\ sale[k] = post[r].cart
      BY <1>0, <1>a, <2>1 DEF Numbers, TillPosts, T!SaleKeys, AnswersTrue
    <3>2. h \in Histories  BY <1>a, <3>1, HistoryMoves
    <3>3. h.shown = post[r].cart /\ h.changed = till.changed  BY <1>a DEF Histories
    <3> HIDE DEF h
    <3>4. lastSale' = k /\ cart' = 0 /\ checkoutKey' = 0
      BY <1>7, <2>3 DEF T!Sold
    <3>5. \/ "receipt" \in Printouts /\ T!Begins(k, "receipt")
             /\ till' = T!Wanted(h, k, "receipt")
          \/ till' = h /\ used' = used
      BY <1>7, <2>3 DEF T!Sold, h
    <3>6. /\ till' \in Histories /\ till'.shown = post[r].cart /\ till'.changed = till.changed
      <4>1. "receipt" \in Printouts =>
              /\ T!Wanted(h, k, "receipt") \in Histories
              /\ T!Wanted(h, k, "receipt").shown = h.shown
              /\ T!Wanted(h, k, "receipt").changed = h.changed
        BY <3>1, <3>2, WantedKeeps
      <4> QED  BY <3>2, <3>3, <3>5, <4>1
    <3>7. used' \in [carts : Nat, keys : Nat, prints : Nat] /\ used'.carts = used.carts
          /\ used'.keys = used.keys
      BY <1>0, <1>a, <3>5, BeginsUsed
    <3>8. /\ post' \in [Posts -> TillPosts] /\ \A q \in Posts \ {r} : post'[q] = post[q]
          /\ post'[r].at = "none"
      BY <1>a, <2>1 DEF TillPosts, T!NoPost
    <3>9. \A l, c \in Nat : Sent(l, c)' => Sent(l, c)  BY <2>1, <3>8 DEF Sent
    <3>10. \A l \in Nat : ~Sent(l, 0)  BY <1>0 DEF Sent, Numbers
    <3>11. SaleTypeOK'
      BY <1>0, <2>1, <3>1, <3>4, <3>6, <3>7, <3>8 DEF SaleTypeOK, T!SaleKeys
    <3>12. Numbers'
      BY <1>0, <1>a, <2>1, <3>1, <3>4, <3>7, <3>8 DEF Numbers
    <3>13. KeyOfCart'  BY <1>0, <3>4, <3>6, <3>9, <3>10 DEF KeyOfCart
    <3>14. AnswersTrue'  BY <1>0, <2>1, <3>1, <3>4, <3>6, <3>8 DEF AnswersTrue
    <3> QED  BY <3>11, <3>12, <3>13, <3>14 DEF SaleInv
  <2> QED  BY <2>2, <2>3
<1>8. ASSUME NEW r \in Posts, T!Refused(r) PROVE SaleInv'
  <2>1. post[r].at # "none" /\ post' = [post EXCEPT ![r] = T!NoPost]
        /\ UNCHANGED <<cart, checkoutKey, lastSale, sale, used, till>>
    BY <1>8 DEF T!Refused
  <2> QED  BY <2>1, PostGoes
<1>9. ASSUME NEW r \in Posts, T!Lost(r) PROVE SaleInv'
  BY <1>9, <1>a, SaleFrame DEF T!Lost
<1>10. ASSUME NEW d \in Printouts, T!PrintReceipt(d) PROVE SaleInv'
  <2>1. /\ lastSale \in T!SaleKeys /\ T!Begins(lastSale, d) /\ till' = T!Wanted(till, lastSale, d)
        /\ UNCHANGED T!saleVars
    BY <1>10, <1>0 DEF T!PrintReceipt, Numbers
  <2>2. till' \in Histories /\ till'.shown = till.shown /\ till'.changed = till.changed
    <3>1. till \in Histories /\ lastSale \in T!SaleKeys  BY <1>a, <2>1
    <3>2. /\ T!Wanted(till, lastSale, d) \in Histories
          /\ T!Wanted(till, lastSale, d).shown = till.shown
          /\ T!Wanted(till, lastSale, d).changed = till.changed
      BY <3>1, WantedKeeps
    <3> QED  BY <2>1, <3>2
  <2>3. /\ used' \in [carts : Nat, keys : Nat, prints : Nat]
        /\ used'.carts = used.carts /\ used'.keys = used.keys
    BY <1>0, <2>1, BeginsUsed
  <2> QED  BY <2>1, <2>2, <2>3, SaleFrame
<1>11. CASE T!Issue \/ T!Enqueue \/ \E x \in late : T!IssueLate(x)
  BY <1>11, <1>a, SaleFrame DEF T!Issue, T!Enqueue, T!IssueLate
<1>12. CASE T!Wait
  <2>1. UNCHANGED T!saleVars /\ used' = used
        /\ \/ till' = till
           \/ till' = [till EXCEPT !.open = @ \ {T!Current[1]}]
    BY <1>12 DEF T!Wait
  <2>2. till' \in Histories /\ till'.shown = till.shown /\ till'.changed = till.changed
    <3>1. CASE till' = till  BY <1>a, <3>1
    <3>2. CASE till' = [till EXCEPT !.open = @ \ {T!Current[1]}]
      <4>1. till' \in Histories  BY <1>a, <3>2, HistoryMoves
      <4>2. till'.shown = till.shown /\ till'.changed = till.changed
        BY <1>a, <3>2, HistoryFields
      <4> QED  BY <4>1, <4>2
    <3> QED  BY <2>1, <3>1, <3>2
  <2> QED  BY <1>a, <2>1, <2>2, SaleFrame
<1>13. CASE T!Answer
  <2>1. UNCHANGED T!saleVars /\ used' = used
        /\ \/ till' = till
           \/ till' = [till EXCEPT !.owed[T!Current[1]] = @ + 1]
    BY <1>13 DEF T!Answer
  <2>2. till' \in Histories /\ till'.shown = till.shown /\ till'.changed = till.changed
    <3>1. CASE till' = till  BY <1>a, <3>1
    <3>2. CASE till' = [till EXCEPT !.owed[T!Current[1]] = @ + 1]
      <4>1. till' \in Histories  BY <1>a, <3>2, HistoryMoves
      <4>2. till'.shown = till.shown /\ till'.changed = till.changed
        BY <1>a, <3>2, HistoryFields
      <4> QED  BY <4>1, <4>2
    <3> QED  BY <2>1, <3>1, <3>2
  <2> QED  BY <1>a, <2>1, <2>2, SaleFrame
<1>14. ASSUME NEW p \in T!Papers, NEW n \in 1..MaxPrints, T!Agent(p, n) PROVE SaleInv'
  <2>1. PICK out \in {0, 1} : till' = [till EXCEPT !.owed[p] = @ - out]
    BY <1>14 DEF T!Agent
  <2>2. UNCHANGED T!saleVars /\ used' = used  BY <1>14 DEF T!Agent
  <2>3. till' \in Histories  BY <1>a, <2>1, HistoryMoves
  <2>4. till'.shown = till.shown /\ till'.changed = till.changed
    BY <1>a, <2>1, HistoryFields
  <2> QED  BY <1>a, <2>2, <2>3, <2>4, SaleFrame
<1>15. CASE UNCHANGED T!tillVars
  BY <1>15, <1>a, SaleFrame DEF T!tillVars, T!saleVars
<1> QED
  BY <1>1, <1>2, <1>3, <1>4, <1>5, <1>6, <1>7, <1>8, <1>9, <1>10, <1>11, <1>12, <1>13, <1>14,
     <1>15 DEF T!Next

(* A cart is sold once, unless its method of payment was changed after it had    *)
(* been sent, and the till shows the sale of the cart that it sent.              *)
THEOREM SoldOnceHolds == T!Spec => []SoldOnce
<1>1. SaleInv => SoldOnce
  <2> SUFFICES ASSUME SaleInv PROVE SoldOnce  OBVIOUS
  <2>1. SaleTypeOK /\ Numbers /\ KeyOfCart /\ AnswersTrue  BY DEF SaleInv
  <2>2. \A k \in T!SaleKeys : k \in Nat /\ sale[k] \in Nat /\ (sale[k] # 0 => Sent(k, sale[k]))
    BY <2>1 DEF SaleTypeOK, T!SaleKeys, Sent
  <2> QED  BY <2>1, <2>2 DEF SoldOnce, T!SoldOnce, KeyOfCart, AnswersTrue
<1> QED  BY <1>1, SaleInit, SaleStep, PTL DEF T!Spec

-----------------------------------------------------------------------------
(* CashRegister: no more copies of a paper than were asked for.               *)

JobStates == {"none", "pending", "printed", "error", "unknown"}
Stages == {"none", "issue", "send", "wait", "wait again", "ask"}
PrintTypeOK ==
  /\ tillPrint \in [at : Stages, sale : Nat, kind : Printouts \cup {Nobody}, number : Nat]
  /\ printKey \in [Printouts -> Nat]
  /\ late \subseteq T!SaleKeys \X Printouts \X Nat
  /\ issued \in [T!Papers -> Seq(Nat)]
  /\ receiptJob \in [T!Papers \X (1..MaxPrints) -> JobStates]

(* The jobs of a paper that may still print it.                                  *)
Queued(p) == {n \in 1..MaxPrints : receiptJob[<<p, n>>] = "pending"}

(* A paper that was asked for and that the till still prints, or would print     *)
(* again under the same key, may have one more job, unless that key has one.     *)
Printable(p) ==
  \/ lastSale = p[1]
  \/ tillPrint.at # "none" /\ tillPrint.sale = p[1] /\ tillPrint.kind = p[2]
Given(p) ==
  \E n \in 1..Len(issued[p]) :
    issued[p][n] = printKey[p[2]] /\ receiptJob[<<p, n>>] \in {"pending", "printed", "unknown"}
Credit(p) == IF p \in till.open /\ Printable(p) /\ ~Given(p) THEN 1 ELSE 0
Covered == \A p \in T!Papers : till.owed[p] >= Cardinality(Queued(p)) + Credit(p)

(* The print under way is of a paper that was asked for; and of no other sale    *)
(* than the last one if that was asked for.                                      *)
Underway ==
  tillPrint.at # "none" =>
    /\ tillPrint.sale \in T!SaleKeys /\ tillPrint.kind \in Printouts
    /\ T!Current[1] \in till.open
    /\ tillPrint.at # "issue" =>
         /\ tillPrint.number \in 1..Len(issued[T!Current[1]])
         /\ issued[T!Current[1]][tillPrint.number] = printKey[tillPrint.kind]
    /\ \A d \in Printouts : <<lastSale, d>> \in till.open => tillPrint.sale = lastSale
Keyed == \A p \in till.open : Printable(p) => printKey[p[2]] # 0

(* What is being sold was not printed yet.                                       *)
Unprinted ==
  /\ \A p \in till.open : p[1] <= used.keys
  /\ lastSale <= used.keys
  /\ checkoutKey # 0 => lastSale # checkoutKey /\ \A p \in till.open : p[1] # checkoutKey
  /\ \A r \in Posts : busy = r =>
       /\ post[r].at # "none" /\ lastSale # post[r].key
       /\ \A p \in till.open : p[1] # post[r].key

(* A key has one number on a paper, and a number that was not issued has no job. *)
Numbering ==
  \A p \in T!Papers :
    /\ Len(issued[p]) <= MaxPrints
    /\ \A m, n \in 1..Len(issued[p]) : issued[p][m] = issued[p][n] => m = n
    /\ \A n \in 1..MaxPrints : n > Len(issued[p]) => receiptJob[<<p, n>>] = "none"

CopyInv == SaleInv /\ PrintTypeOK /\ Covered /\ Underway /\ Keyed /\ Unprinted /\ Numbering

(* A finite number of jobs is queued: one more with a job that was not, one less *)
(* without one that was.                                                         *)
LEMMA QueueCounted ==
  ASSUME NEW some \in SUBSET (1..MaxPrints)
  PROVE  /\ Cardinality(some) \in Nat
         /\ \A n \in 1..MaxPrints : Cardinality(some \cup {n}) <= Cardinality(some) + 1
         /\ \A n \in some : Cardinality(some \ {n}) = Cardinality(some) - 1
<1>1. IsFiniteSet(1..MaxPrints)  BY FS_Interval, TillAssumption
<1>2. IsFiniteSet(some)  BY <1>1, FS_Subset
<1>3. Cardinality(some) \in Nat  BY <1>2, FS_CardinalityType
<1>4. \A n : Cardinality(some \cup {n}) = IF n \in some THEN Cardinality(some) ELSE Cardinality(some) + 1
  BY <1>2, FS_AddElement
<1>5. \A n : Cardinality(some \ {n}) = IF n \in some THEN Cardinality(some) - 1 ELSE Cardinality(some)
  BY <1>2, FS_RemoveElement
<1> QED  BY <1>3, <1>4, <1>5

(* Nothing is asked for, so nothing is owed.                                  *)
LEMMA CopyInit == T!Init => CopyInv
<1> SUFFICES ASSUME T!Init PROVE CopyInv  OBVIOUS
<1>1. SaleInv  BY SaleInit
<1>2. PrintTypeOK
  BY DEF T!Init, PrintTypeOK, JobStates, Stages, T!NoPrint
<1>3. /\ lastSale = 0 /\ checkoutKey = 0 /\ busy = Nobody /\ tillPrint.at = "none"
      /\ used.keys = 0 /\ till.open = {}
      /\ \A p \in T!Papers : issued[p] = << >> /\ till.owed[p] = 0 /\ p[1] # 0
      /\ \A p \in T!Papers, n \in 1..MaxPrints : receiptJob[<<p, n>>] = "none"
  <2>1. receiptJob = [x \in T!Papers \X (1..MaxPrints) |-> "none"]  BY DEF T!Init
  <2>2. \A p \in T!Papers, n \in 1..MaxPrints : receiptJob[<<p, n>>] = "none"  BY <2>1
  <2> QED  BY <2>2 DEF T!Init, T!NoPrint, T!Papers, T!SaleKeys
<1>4. Covered
  <2> SUFFICES ASSUME NEW p \in T!Papers
               PROVE  till.owed[p] >= Cardinality(Queued(p)) + Credit(p)
    BY DEF Covered
  <2>1. Queued(p) = {}  BY <1>3 DEF Queued
  <2>2. Cardinality(Queued(p)) = 0  BY <2>1, FS_EmptySet
  <2>3. Credit(p) = 0  BY <1>3 DEF Credit
  <2> QED  BY <1>3, <2>2, <2>3
<1>5. Underway /\ Keyed /\ Unprinted  BY <1>3, TillAssumption DEF Underway, Keyed, Unprinted
<1>6. Numbering  BY <1>3, TillAssumption DEF Numbering
<1> QED  BY <1>1, <1>2, <1>4, <1>5, <1>6 DEF CopyInv

(* The till goes on selling: what was not printed yet stays unprinted.           *)
LEMMA UnprintedKept ==
  ASSUME Unprinted, UNCHANGED <<lastSale, checkoutKey, post>>, used'.keys = used.keys,
         till'.open \subseteq till.open, busy' \in {busy, Nobody}
  PROVE  Unprinted'
  BY TillAssumption DEF Unprinted

(* Nothing is printed: the credit of a paper may only end.                       *)
LEMMA SalesMove ==
  ASSUME CopyInv, UNCHANGED <<tillPrint, printKey, late, issued, receiptJob>>,
         till'.open = till.open, till'.owed = till.owed,
         \/ lastSale' = lastSale
         \/ \A p \in till.open : p[1] # lastSale'
  PROVE  PrintTypeOK' /\ Covered' /\ Underway' /\ Keyed' /\ Numbering'
<1>0. /\ SaleTypeOK /\ PrintTypeOK /\ Covered /\ Underway /\ Keyed /\ Numbering
      /\ till.open \subseteq T!Papers
  BY DEF CopyInv, SaleInv, SaleTypeOK, Histories
<1>1. \A p \in till.open : Printable(p)' => Printable(p)  BY DEF Printable
<1>2. \A p \in T!Papers : Queued(p)' = Queued(p) /\ (Given(p)' <=> Given(p))
  BY DEF Queued, Given
<1>3. \A p \in T!Papers : Credit(p)' <= Credit(p)  BY <1>1, <1>2 DEF Credit
<1>4. \A p \in T!Papers : Cardinality(Queued(p)) \in Nat /\ Credit(p) \in Nat /\ Credit(p)' \in Nat
  BY QueueCounted DEF Queued, Credit
<1>5. Covered'
  <2> SUFFICES ASSUME NEW p \in T!Papers
               PROVE  till'.owed[p] >= Cardinality(Queued(p)') + Credit(p)'
    BY DEF Covered
  <2>1. till.owed[p] \in Int  BY <1>0 DEF SaleTypeOK, Histories
  <2> QED  BY <2>1, <1>0, <1>2, <1>3, <1>4 DEF Covered
<1>6. Underway'
  <2>1. T!Current' = T!Current  BY DEF T!Current
  <2>2. \A d \in Printouts : <<lastSale', d>> \in till.open => lastSale' = lastSale  OBVIOUS
  <2> QED  BY <1>0, <2>1, <2>2 DEF Underway
<1>7. Keyed'  BY <1>0, <1>1 DEF Keyed
<1> QED  BY <1>0, <1>5, <1>6, <1>7 DEF PrintTypeOK, Numbering

(* A print begins: its paper is wanted, once, under a key that no other paper    *)
(* depends on.                                                                   *)
LEMMA PrintBegins ==
  ASSUME CopyInv, tillPrint.at = "none", NEW s \in T!SaleKeys, NEW d \in Printouts,
         T!Begins(s, d), NEW h \in Histories, h.open = till.open, h.owed = till.owed,
         till' = T!Wanted(h, s, d), lastSale' = s,
         s = lastSale \/ \A p \in till.open : p[1] # s,
         UNCHANGED <<late, issued, receiptJob>>
  PROVE  PrintTypeOK' /\ Covered' /\ Underway' /\ Keyed' /\ Numbering'
<1>0. /\ SaleTypeOK /\ PrintTypeOK /\ Covered /\ Underway /\ Keyed /\ Numbering
      /\ till.open \subseteq T!Papers /\ till.owed \in [T!Papers -> Int]
      /\ used \in [carts : Nat, keys : Nat, prints : Nat] /\ printKey \in [Printouts -> Nat]
  BY DEF CopyInv, SaleInv, SaleTypeOK, Histories, PrintTypeOK
<1> DEFINE p == <<s, d>>
<1>1. p \in T!Papers /\ p[1] = s /\ p[2] = d  BY DEF T!Papers
<1>2. /\ till'.open = till.open \cup {p}
      /\ till'.owed = IF p \in till.open THEN till.owed ELSE [till.owed EXCEPT ![p] = @ + 1]
  BY WantedType
<1>3. tillPrint' = [at |-> "issue", sale |-> s, kind |-> d, number |-> 0]
  BY DEF T!Begins
<1>4. /\ printKey' \in [Printouts -> Nat] /\ printKey'[d] # 0
      /\ \A e \in Printouts \ {d} : printKey'[e] = printKey[e]
      /\ printKey[d] # 0 => printKey' = printKey
  BY <1>0 DEF T!Begins
<1>5. \A q \in T!Papers : Printable(q)' <=> q[1] = s
  BY <1>3 DEF Printable
<1>6. \A q \in T!Papers \ {p} : q \in till.open /\ Printable(q)'
                               => Printable(q) /\ printKey'[q[2]] = printKey[q[2]]
  <2> SUFFICES ASSUME NEW q \in T!Papers \ {p}, q \in till.open, Printable(q)'
               PROVE  Printable(q) /\ printKey'[q[2]] = printKey[q[2]]
    OBVIOUS
  <2>1. q[1] = s /\ q[2] \in Printouts /\ q = <<q[1], q[2]>>  BY <1>5 DEF T!Papers
  <2>2. q[2] # d  BY <2>1
  <2>3. s = lastSale  BY <2>1
  <2> QED  BY <1>4, <2>1, <2>2, <2>3 DEF Printable
<1>7. p \in till.open => Printable(p) /\ printKey' = printKey
  BY <1>0, <1>1, <1>4 DEF Keyed, Printable
<1>8. \A q \in T!Papers : printKey'[q[2]] = printKey[q[2]] => (Given(q)' <=> Given(q))
  BY DEF Given
<1>9. \A q \in T!Papers \ {p} : Credit(q)' <= Credit(q)
  BY <1>2, <1>6, <1>8 DEF Credit
<1>10. p \in till.open => Credit(p)' <= Credit(p)
  BY <1>1, <1>2, <1>7, <1>8 DEF Credit
<1>11. \A q \in T!Papers : Credit(q) \in {0, 1} /\ Credit(q)' \in {0, 1}  BY DEF Credit
<1>12. \A q \in T!Papers : Queued(q)' = Queued(q) /\ Cardinality(Queued(q)) \in Nat
  BY QueueCounted DEF Queued
<1>13. Covered'
  <2> SUFFICES ASSUME NEW q \in T!Papers
               PROVE  till'.owed[q] >= Cardinality(Queued(q)') + Credit(q)'
    BY DEF Covered
  <2>1. /\ till.owed[q] >= Cardinality(Queued(q)) + Credit(q) /\ till.owed[q] \in Int
        /\ Credit(q) \in {0, 1} /\ Credit(q)' \in {0, 1} /\ Cardinality(Queued(q)) \in Nat
        /\ Queued(q)' = Queued(q)
    BY <1>0, <1>11, <1>12 DEF Covered
  <2>2. CASE q = p /\ p \notin till.open
    <3>1. till'.owed[p] = till.owed[p] + 1  BY <1>0, <1>1, <1>2, <2>2
    <3> QED  BY <2>1, <2>2, <3>1
  <2>3. CASE q # p \/ p \in till.open
    <3>1. till'.owed[q] = till.owed[q]  BY <1>0, <1>2, <2>3
    <3>2. Credit(q)' <= Credit(q)  BY <1>9, <1>10, <2>3
    <3> QED  BY <2>1, <3>1, <3>2
  <2> QED  BY <2>2, <2>3
<1>14. Underway'
  <2>1. T!Current[1]' = p  BY <1>3 DEF T!Current
  <2> QED  BY <1>1, <1>2, <1>3, <2>1 DEF Underway
<1>15. Keyed'
  <2> SUFFICES ASSUME NEW q \in till'.open, Printable(q)' PROVE printKey'[q[2]] # 0
    BY DEF Keyed
  <2>1. CASE q = p  BY <2>1, <1>1, <1>4
  <2>2. CASE q # p  BY <2>2, <1>0, <1>2, <1>6 DEF Keyed
  <2> QED  BY <2>1, <2>2
<1>16. PrintTypeOK'
  <2>1. tillPrint' \in [at : Stages, sale : Nat, kind : Printouts \cup {Nobody}, number : Nat]
    BY <1>3 DEF Stages, T!SaleKeys
  <2> QED  BY <1>0, <1>4, <2>1 DEF PrintTypeOK
<1> QED  BY <1>0, <1>13, <1>14, <1>15, <1>16 DEF Numbering

(* A print ends, or the page is loaded anew: less is printable.                  *)
LEMMA PrintEnds ==
  ASSUME CopyInv, tillPrint' = T!NoPrint, UNCHANGED <<issued, receiptJob>>,
         till'.owed = till.owed, late' \subseteq T!SaleKeys \X Printouts \X Nat,
         lastSale' \in {lastSale, 0}, till'.open \subseteq till.open,
         printKey' \in [Printouts -> Nat],
         \A p \in till'.open : p[1] = lastSale' => printKey'[p[2]] = printKey[p[2]]
  PROVE  PrintTypeOK' /\ Covered' /\ Underway' /\ Keyed' /\ Numbering'
<1>0. /\ SaleTypeOK /\ PrintTypeOK /\ Covered /\ Underway /\ Keyed /\ Numbering
      /\ till.open \subseteq T!Papers /\ till.owed \in [T!Papers -> Int]
  BY DEF CopyInv, SaleInv, SaleTypeOK, Histories
<1>1. tillPrint'.at = "none"  BY DEF T!NoPrint
<1>2. \A p \in till'.open : Printable(p)' => Printable(p) /\ printKey'[p[2]] = printKey[p[2]]
  BY <1>0, <1>1 DEF Printable, T!Papers, T!SaleKeys
<1>3. \A p \in T!Papers : printKey'[p[2]] = printKey[p[2]] => (Given(p)' <=> Given(p))
  BY DEF Given
<1>4. \A p \in T!Papers : Credit(p)' <= Credit(p)  BY <1>2, <1>3 DEF Credit
<1>5. Covered'
  <2> SUFFICES ASSUME NEW p \in T!Papers
               PROVE  till'.owed[p] >= Cardinality(Queued(p)') + Credit(p)'
    BY DEF Covered
  <2>1. Queued(p)' = Queued(p) /\ Cardinality(Queued(p)) \in Nat
    BY QueueCounted DEF Queued
  <2>2. Credit(p) \in {0, 1} /\ Credit(p)' \in {0, 1}  BY DEF Credit
  <2> QED  BY <1>0, <1>4, <2>1, <2>2 DEF Covered
<1>6. Keyed'  BY <1>0, <1>2 DEF Keyed
<1>7. PrintTypeOK'  BY <1>0 DEF PrintTypeOK, T!NoPrint, Stages
<1> QED  BY <1>0, <1>1, <1>5, <1>6, <1>7 DEF Underway, Numbering

(* A request takes the number of its key, or the next one, which has no job.     *)
LEMMA NumberTaken ==
  ASSUME PrintTypeOK, Numbering, NEW p \in T!Papers, NEW key \in Nat,
         Len(issued[p]) < MaxPrints, T!Numbered(p, key), receiptJob' = receiptJob
  PROVE  /\ issued' \in [T!Papers -> Seq(Nat)] /\ Numbering'
         /\ \A q \in T!Papers :
              /\ Len(issued'[q]) >= Len(issued[q])
              /\ \A n \in 1..Len(issued[q]) : issued'[q][n] = issued[q][n]
              /\ \A n \in 1..Len(issued'[q]) :
                   receiptJob[<<q, n>>] # "none" => n \in 1..Len(issued[q])
         /\ \E n \in 1..Len(issued'[p]) : issued'[p][n] = key
<1>0. issued \in [T!Papers -> Seq(Nat)]  BY DEF PrintTypeOK
<1>1. T!Contains(issued[p], key) <=> \E n \in 1..Len(issued[p]) : issued[p][n] = key
  BY <1>0 DEF T!Contains
<1>2. CASE T!Contains(issued[p], key)
  <2>1. issued' = issued  BY <1>2 DEF T!Numbered
  <2> QED  BY <1>0, <1>1, <1>2, <2>1 DEF Numbering
<1>3. CASE ~T!Contains(issued[p], key)
  <2>1. issued' = [issued EXCEPT ![p] = Append(@, key)]  BY <1>3 DEF T!Numbered
  <2>2. /\ issued' \in [T!Papers -> Seq(Nat)] /\ issued'[p] = Append(issued[p], key)
        /\ \A q \in T!Papers \ {p} : issued'[q] = issued[q]
    BY <1>0, <2>1
  <2>3. /\ Len(issued'[p]) = Len(issued[p]) + 1 /\ Len(issued[p]) \in Nat
        /\ \A n \in 1..Len(issued[p]) : issued'[p][n] = issued[p][n]
        /\ issued'[p][Len(issued[p]) + 1] = key
    BY <1>0, <2>2
  <2>4. \A n \in 1..Len(issued[p]) : issued[p][n] # key  BY <1>1, <1>3
  <2>5. Len(issued[p]) + 1 \in 1..MaxPrints /\ Len(issued'[p]) <= MaxPrints
    BY <2>3, TillAssumption
  <2>6. \A m, n \in 1..Len(issued'[p]) : issued'[p][m] = issued'[p][n] => m = n
    <3>1. \A n \in 1..Len(issued'[p]) : n \in 1..Len(issued[p]) \/ n = Len(issued[p]) + 1
      BY <2>3
    <3>2. \A m, n \in 1..Len(issued[p]) : issued'[p][m] = issued'[p][n] => m = n
      BY <2>3 DEF Numbering
    <3>3. \A n \in 1..Len(issued[p]) : issued'[p][n] # key  BY <2>3, <2>4
    <3> QED  BY <2>3, <3>1, <3>2, <3>3
  <2>7. \A n \in 1..MaxPrints : n > Len(issued'[p]) => receiptJob[<<p, n>>] = "none"
    BY <2>3 DEF Numbering
  <2>8. Numbering'  BY <2>2, <2>5, <2>6, <2>7 DEF Numbering
  <2>9. receiptJob[<<p, Len(issued[p]) + 1>>] = "none"  BY <2>3, <2>5 DEF Numbering
  <2>10. \A n \in 1..Len(issued'[p]) : receiptJob[<<p, n>>] # "none" => n \in 1..Len(issued[p])
    BY <2>3, <2>9
  <2>11. \E n \in 1..Len(issued'[p]) : issued'[p][n] = key  BY <2>3
  <2>12. \A q \in T!Papers \ {p} : Len(issued'[q]) >= Len(issued[q])
    BY <1>0, <2>2
  <2>13. \A q \in T!Papers \ {p} :
           /\ \A n \in 1..Len(issued[q]) : issued'[q][n] = issued[q][n]
           /\ \A n \in 1..Len(issued'[q]) :
                receiptJob[<<q, n>>] # "none" => n \in 1..Len(issued[q])
    BY <2>2
  <2>14. Len(issued'[p]) >= Len(issued[p])  BY <2>3
  <2>15. \A q \in T!Papers :
           /\ Len(issued'[q]) >= Len(issued[q])
           /\ \A n \in 1..Len(issued[q]) : issued'[q][n] = issued[q][n]
           /\ \A n \in 1..Len(issued'[q]) :
                receiptJob[<<q, n>>] # "none" => n \in 1..Len(issued[q])
    <3> SUFFICES ASSUME NEW q \in T!Papers
                 PROVE  /\ Len(issued'[q]) >= Len(issued[q])
                        /\ \A n \in 1..Len(issued[q]) : issued'[q][n] = issued[q][n]
                        /\ \A n \in 1..Len(issued'[q]) :
                             receiptJob[<<q, n>>] # "none" => n \in 1..Len(issued[q])
      OBVIOUS
    <3>1. CASE q = p  BY <3>1, <2>3, <2>10, <2>14
    <3>2. CASE q # p  BY <3>2, <2>12, <2>13
    <3> QED  BY <3>1, <3>2
  <2> QED  BY <2>2, <2>8, <2>11, <2>15
<1> QED  BY <1>2, <1>3

(* A number that is taken changes no paper's jobs, and no credit.                *)
LEMMA NumberFrame ==
  ASSUME CopyInv, NEW p \in T!Papers, NEW key \in Nat,
         Len(issued[p]) < MaxPrints, T!Numbered(p, key),
         UNCHANGED <<receiptJob, lastSale, printKey, till>>,
         UNCHANGED <<tillPrint.sale, tillPrint.kind>>,
         (tillPrint'.at = "none") <=> (tillPrint.at = "none")
  PROVE  Covered' /\ Keyed'
<1>0. Covered /\ Keyed /\ PrintTypeOK /\ Numbering  BY DEF CopyInv
<1>1. \A q \in T!Papers : Printable(q)' <=> Printable(q)  BY DEF Printable
<1>2. \A q \in T!Papers : Queued(q)' = Queued(q)  BY DEF Queued
<1>3. \A q \in T!Papers : Given(q)' <=> Given(q)
  <2> SUFFICES ASSUME NEW q \in T!Papers PROVE Given(q)' <=> Given(q)  OBVIOUS
  <2>1. /\ Len(issued'[q]) \in Nat /\ Len(issued[q]) \in Nat /\ Len(issued'[q]) >= Len(issued[q])
        /\ \A n \in 1..Len(issued[q]) : issued'[q][n] = issued[q][n]
        /\ \A n \in 1..Len(issued'[q]) :
             receiptJob[<<q, n>>] # "none" => n \in 1..Len(issued[q])
    BY <1>0, NumberTaken, SMTT(30) DEF PrintTypeOK
  <2> QED  BY <2>1 DEF Given
<1>4. \A q \in T!Papers : Credit(q)' = Credit(q)  BY <1>1, <1>3 DEF Credit
<1>5. Covered'  BY <1>0, <1>2, <1>4 DEF Covered
<1>6. till.open \subseteq T!Papers  BY DEF CopyInv, SaleInv, SaleTypeOK, Histories
<1>7. Keyed'  BY <1>0, <1>1, <1>6 DEF Keyed
<1> QED  BY <1>5, <1>7

(* The last of the numbers of a key, which has one.                              *)
LEMMA LastOfKey ==
  ASSUME NEW s \in Seq(Nat), NEW key \in Nat, NEW n \in 1..Len(s), s[n] = key,
         \A m \in 1..Len(s) : s[m] = key => m = n
  PROVE  T!SelectLastInSeq(s, LAMBDA k : k = key) = n
  BY DEF T!SelectLastInSeq, T!Max

(* The number that the print under way was given has its key.                    *)
LEMMA IssueStep ==
  ASSUME CopyInv, T!Issue
  PROVE  PrintTypeOK' /\ Covered' /\ Underway' /\ Keyed' /\ Numbering'
<1> DEFINE p == <<tillPrint.sale, tillPrint.kind>>
           key == printKey[tillPrint.kind]
<1>0. /\ SaleTypeOK /\ PrintTypeOK /\ Covered /\ Underway /\ Keyed /\ Numbering
      /\ till.open \subseteq T!Papers
  BY DEF CopyInv, SaleInv, SaleTypeOK, Histories
<1>1. /\ p \in T!Papers /\ p \in till.open /\ key \in Nat /\ T!Current[1] = p
      /\ tillPrint.sale \in T!SaleKeys /\ tillPrint.kind \in Printouts
      /\ Len(issued[p]) < MaxPrints
  BY <1>0 DEF T!Issue, Underway, T!Current, T!Papers, PrintTypeOK
<1>2. CASE /\ T!Numbered(p, key) /\ late' = late
           /\ tillPrint' = [tillPrint EXCEPT !.at = "send",
                              !.number = T!SelectLastInSeq(issued'[p], LAMBDA k : k = key)]
           /\ UNCHANGED <<printKey, busy>>
  <2> DEFINE last == T!SelectLastInSeq(issued'[p], LAMBDA k : k = key)
  <2>1. UNCHANGED <<receiptJob, lastSale, printKey, till>>
    BY <1>2 DEF T!Issue, T!saleVars
  <2>2. /\ issued' \in [T!Papers -> Seq(Nat)] /\ Numbering'
        /\ \E n \in 1..Len(issued'[p]) : issued'[p][n] = key
    BY <1>0, <1>1, <1>2, <2>1, NumberTaken
  <2>3. PICK n \in 1..Len(issued'[p]) : issued'[p][n] = key  BY <2>2
  <2>4. \A m \in 1..Len(issued'[p]) : issued'[p][m] = key => m = n
    BY <1>1, <2>2, <2>3 DEF Numbering
  <2>5. last = n
    <3> HIDE DEF p, key
    <3>1. issued'[p] \in Seq(Nat)  BY <1>1, <2>2
    <3>2. T!SelectLastInSeq(issued'[p], LAMBDA k : k = key) = n
      BY <1>1, <2>3, <2>4, <3>1, LastOfKey
    <3> QED  BY <3>2
  <2> HIDE DEF last
  <2>6. last \in Nat  BY <2>2, <2>3, <2>5, <1>1
  <2>7. /\ tillPrint' \in [at : Stages, sale : Nat, kind : Printouts \cup {Nobody}, number : Nat]
        /\ tillPrint'.at = "send" /\ tillPrint'.sale = tillPrint.sale
        /\ tillPrint'.kind = tillPrint.kind /\ tillPrint'.number = last
    <3>1. tillPrint' = [tillPrint EXCEPT !.at = "send", !.number = last]  BY <1>2 DEF last
    <3>2. tillPrint \in [at : Stages, sale : Nat, kind : Printouts \cup {Nobody}, number : Nat]
      BY <1>0 DEF PrintTypeOK
    <3> QED  BY <2>6, <3>1, <3>2 DEF Stages
  <2>8. PrintTypeOK'  BY <1>0, <1>2, <2>1, <2>2, <2>7 DEF PrintTypeOK
  <2>9. tillPrint.at = "issue"  BY DEF T!Issue
  <2>10. Covered' /\ Keyed'
    BY <1>1, <1>2, <2>1, <2>7, <2>9, NumberFrame
  <2>11. Underway'
    <3>1. T!Current[1]' = p  BY <2>7 DEF T!Current
    <3> QED  BY <1>0, <1>1, <2>1, <2>3, <2>5, <2>7, <2>9, <3>1 DEF Underway
  <2> QED  BY <2>2, <2>8, <2>10, <2>11
<1>3. CASE /\ T!Ends(FALSE) /\ late' \in {late, late \cup {<<tillPrint.sale, tillPrint.kind, key>>}}
           /\ issued' = issued
  <2>1. /\ tillPrint' = T!NoPrint /\ printKey' = printKey
        /\ UNCHANGED <<receiptJob, lastSale, till>>
    BY <1>3 DEF T!Issue, T!Ends, T!saleVars
  <2>2. late' \subseteq T!SaleKeys \X Printouts \X Nat
    <3>1. <<tillPrint.sale, tillPrint.kind, key>> \in T!SaleKeys \X Printouts \X Nat  BY <1>1
    <3> HIDE DEF key
    <3> QED  BY <1>0, <1>3, <3>1 DEF PrintTypeOK
  <2>3. printKey' \in [Printouts -> Nat]  BY <1>0, <2>1 DEF PrintTypeOK
  <2> QED  BY <1>3, <2>1, <2>2, <2>3, PrintEnds
<1> QED  BY <1>2, <1>3 DEF T!Issue

(* A request that nobody waits for any more takes its number.                    *)
LEMMA IssueLateStep ==
  ASSUME CopyInv, NEW x \in late, T!IssueLate(x)
  PROVE  PrintTypeOK' /\ Covered' /\ Underway' /\ Keyed' /\ Numbering'
<1> DEFINE p == <<x[1], x[2]>>
<1>0. PrintTypeOK /\ Underway /\ Numbering  BY DEF CopyInv
<1>1. p \in T!Papers /\ x[3] \in Nat  BY <1>0 DEF PrintTypeOK, T!Papers
<1>2. /\ UNCHANGED <<receiptJob, lastSale, printKey, till, tillPrint>> /\ late' \subseteq late
      /\ T!Numbered(p, x[3]) /\ Len(issued[p]) < MaxPrints
  BY DEF T!IssueLate, T!saleVars
<1>3. /\ issued' \in [T!Papers -> Seq(Nat)] /\ Numbering'
      /\ \A q \in T!Papers : Len(issued'[q]) >= Len(issued[q])
                           /\ \A n \in 1..Len(issued[q]) : issued'[q][n] = issued[q][n]
  BY <1>0, <1>1, <1>2, NumberTaken
<1>4. PrintTypeOK'  BY <1>0, <1>2, <1>3 DEF PrintTypeOK
<1>5. Covered' /\ Keyed'  BY <1>1, <1>2, NumberFrame
<1>6. Underway'
  <2>1. T!Current' = T!Current  BY <1>2 DEF T!Current
  <2>2. tillPrint.at # "none" => T!Current[1] \in T!Papers
    BY <1>0 DEF Underway, T!Current, T!Papers
  <2>3. \A q \in T!Papers : Len(issued'[q]) \in Nat /\ Len(issued[q]) \in Nat
    BY <1>0, <1>3 DEF PrintTypeOK
  <2> QED  BY <1>0, <1>2, <1>3, <2>1, <2>2, <2>3 DEF Underway
<1> QED  BY <1>3, <1>4, <1>5, <1>6

(* The jobs of one number change: of the others, and of other papers, nothing.   *)
LEMMA JobSet ==
  ASSUME PrintTypeOK, Numbering, NEW p \in T!Papers, NEW n \in 1..MaxPrints,
         n <= Len(issued[p]), NEW status \in JobStates,
         receiptJob' = [receiptJob EXCEPT ![<<p, n>>] = status], UNCHANGED issued
  PROVE  /\ receiptJob' \in [T!Papers \X (1..MaxPrints) -> JobStates] /\ Numbering'
         /\ \A q \in T!Papers \ {p} : Queued(q)' = Queued(q)
         /\ receiptJob'[<<p, n>>] = status
         /\ \A q \in T!Papers, m \in 1..MaxPrints :
              <<q, m>> # <<p, n>> => receiptJob'[<<q, m>>] = receiptJob[<<q, m>>]
         /\ status = "pending" => Queued(p)' = Queued(p) \cup {n}
         /\ status # "pending" => Queued(p)' = Queued(p) \ {n}
<1>0. receiptJob \in [T!Papers \X (1..MaxPrints) -> JobStates] /\ issued \in [T!Papers -> Seq(Nat)]
  BY DEF PrintTypeOK
<1>1. receiptJob' \in [T!Papers \X (1..MaxPrints) -> JobStates]  BY <1>0
<1>2. receiptJob'[<<p, n>>] = status  BY <1>0
<1>3. \A q \in T!Papers, m \in 1..MaxPrints :
        <<q, m>> # <<p, n>> => receiptJob'[<<q, m>>] = receiptJob[<<q, m>>]
  BY <1>0
<1>4. \A q \in T!Papers \ {p} : Queued(q)' = Queued(q)  BY <1>3 DEF Queued
<1>5. \A m \in 1..MaxPrints : m # n => receiptJob'[<<p, m>>] = receiptJob[<<p, m>>]  BY <1>3
<1>6. status = "pending" => Queued(p)' = Queued(p) \cup {n}  BY <1>2, <1>5 DEF Queued
<1>7. status # "pending" => Queued(p)' = Queued(p) \ {n}  BY <1>2, <1>5 DEF Queued
<1>8. Numbering'
  <2>1. \A q \in T!Papers : Len(issued[q]) \in Nat  BY <1>0
  <2>2. \A q \in T!Papers, m \in 1..MaxPrints :
          m > Len(issued[q]) => <<q, m>> # <<p, n>>  BY <2>1, TillAssumption
  <2> QED  BY <1>3, <2>2 DEF Numbering
<1> QED  BY <1>1, <1>2, <1>3, <1>4, <1>6, <1>7, <1>8

(* A print that goes on is of the same paper, one that ends is of none.          *)
LEMMA PrintMoves ==
  ASSUME NEW p \in [at : Stages, sale : Nat, kind : Printouts \cup {Nobody}, number : Nat]
  PROVE  /\ T!NoPrint \in [at : Stages, sale : Nat, kind : Printouts \cup {Nobody}, number : Nat]
         /\ T!NoPrint.at = "none"
         /\ \A there \in Stages :
              /\ [p EXCEPT !.at = there]
                   \in [at : Stages, sale : Nat, kind : Printouts \cup {Nobody}, number : Nat]
              /\ [p EXCEPT !.at = there].at = there /\ [p EXCEPT !.at = there].sale = p.sale
              /\ [p EXCEPT !.at = there].kind = p.kind
              /\ [p EXCEPT !.at = there].number = p.number
         /\ "wait" \in Stages /\ "wait again" \in Stages /\ "ask" \in Stages
  BY DEF T!NoPrint, Stages

(* What the print under way is of.                                               *)
LEMMA PrintOf ==
  ASSUME CopyInv, tillPrint.at \notin {"none", "issue"}
  PROVE  \E p \in T!Papers, n \in 1..MaxPrints :
           /\ T!Current = <<p, n>> /\ tillPrint.sale = p[1] /\ tillPrint.kind = p[2]
           /\ tillPrint.number = n /\ T!Current[1] = p
           /\ p \in till.open /\ n \in 1..Len(issued[p]) /\ n <= Len(issued[p])
           /\ issued[p][n] = printKey[p[2]]
<1> DEFINE p == <<tillPrint.sale, tillPrint.kind>>
           n == tillPrint.number
<1>0. /\ PrintTypeOK /\ Underway /\ Numbering  BY DEF CopyInv
<1>1. /\ p \in T!Papers /\ p \in till.open /\ p[1] = tillPrint.sale /\ p[2] = tillPrint.kind
      /\ n \in 1..Len(issued[p]) /\ issued[p][n] = printKey[p[2]]
      /\ Len(issued[p]) <= MaxPrints /\ Len(issued[p]) \in Nat
  BY <1>0 DEF Underway, T!Papers, PrintTypeOK, Numbering, T!Current
<1>2. n \in 1..MaxPrints /\ n <= Len(issued[p])  BY <1>1, TillAssumption
<1>3. T!Current = <<p, n>> /\ T!Current[1] = p  BY DEF T!Current
<1> HIDE DEF p, n
<1>4. tillPrint.number = n  BY DEF n
<1> QED  BY <1>1, <1>2, <1>3, <1>4

(* The agent takes the job: a key that had none gives its credit to it.          *)
LEMMA EnqueueStep ==
  ASSUME CopyInv, T!Enqueue
  PROVE  PrintTypeOK' /\ Covered' /\ Underway' /\ Keyed' /\ Numbering'
<1>0. /\ SaleTypeOK /\ PrintTypeOK /\ Covered /\ Underway /\ Keyed /\ Numbering
      /\ till.open \subseteq T!Papers /\ till.owed \in [T!Papers -> Int]
  BY DEF CopyInv, SaleInv, SaleTypeOK, Histories
<1>1. tillPrint.at = "send" /\ UNCHANGED <<issued, lastSale, late, till>>
  BY DEF T!Enqueue, T!saleVars
<1>2. PICK p \in T!Papers, n \in 1..MaxPrints :
        /\ T!Current = <<p, n>> /\ tillPrint.sale = p[1] /\ tillPrint.kind = p[2]
        /\ tillPrint.number = n /\ T!Current[1] = p
        /\ p \in till.open /\ n \in 1..Len(issued[p]) /\ n <= Len(issued[p])
        /\ issued[p][n] = printKey[p[2]]
  BY <1>1, PrintOf
<1>4. Printable(p)  BY <1>1, <1>2 DEF Printable
<1>5. CASE T!Ends(FALSE) /\ receiptJob' = receiptJob
  <2>1. tillPrint' = T!NoPrint /\ printKey' = printKey  BY <1>5 DEF T!Ends
  <2>2. printKey' \in [Printouts -> Nat] /\ late' \subseteq T!SaleKeys \X Printouts \X Nat
    BY <1>0, <1>1, <2>1 DEF PrintTypeOK
  <2> QED  BY <1>1, <1>5, <2>1, <2>2, PrintEnds
<1>6. ASSUME T!SetJob(IF receiptJob[T!Current] \in {"none", "error"} THEN "pending"
                      ELSE receiptJob[T!Current]),
             \/ tillPrint' = [tillPrint EXCEPT !.at = "wait"] /\ UNCHANGED <<printKey, busy>>
             \/ T!Ends(FALSE)
      PROVE  PrintTypeOK' /\ Covered' /\ Underway' /\ Keyed' /\ Numbering'
  <2>1. receiptJob[<<p, n>>] \in JobStates  BY <1>0, <1>2 DEF PrintTypeOK
  <2>2. PICK status \in {"pending", "printed", "unknown"} :
          /\ receiptJob' = [receiptJob EXCEPT ![<<p, n>>] = status]
          /\ receiptJob[<<p, n>>] \in {"none", "error"} => status = "pending"
          /\ receiptJob[<<p, n>>] \notin {"none", "error"} => status = receiptJob[<<p, n>>]
    BY <1>2, <1>6, <2>1 DEF T!SetJob, JobStates
  <2>3. status \in JobStates  BY DEF JobStates
  <2>4. UNCHANGED issued  BY <1>1
  <2>5. receiptJob' = [receiptJob EXCEPT ![<<p, n>>] = status] /\ n <= Len(issued[p])
    BY <1>2, <2>2
  <2>6. /\ receiptJob' \in [T!Papers \X (1..MaxPrints) -> JobStates] /\ Numbering'
        /\ \A q \in T!Papers \ {p} : Queued(q)' = Queued(q)
        /\ receiptJob'[<<p, n>>] = status
        /\ \A q \in T!Papers, m \in 1..MaxPrints :
             <<q, m>> # <<p, n>> => receiptJob'[<<q, m>>] = receiptJob[<<q, m>>]
        /\ status = "pending" => Queued(p)' = Queued(p) \cup {n}
        /\ status # "pending" => Queued(p)' = Queued(p) \ {n}
    BY <1>0, <2>3, <2>4, <2>5, JobSet
  <2>7. printKey' = printKey  BY <1>6 DEF T!Ends
  <2>8. /\ tillPrint' \in [at : Stages, sale : Nat, kind : Printouts \cup {Nobody}, number : Nat]
        /\ \/ /\ tillPrint'.at = "wait" /\ tillPrint'.sale = tillPrint.sale
              /\ tillPrint'.kind = tillPrint.kind /\ tillPrint'.number = tillPrint.number
           \/ tillPrint'.at = "none"
    <3>1. tillPrint \in [at : Stages, sale : Nat, kind : Printouts \cup {Nobody}, number : Nat]
      BY <1>0 DEF PrintTypeOK
    <3>2. CASE tillPrint' = [tillPrint EXCEPT !.at = "wait"]  BY <3>1, <3>2, PrintMoves
    <3>3. CASE T!Ends(FALSE)
      <4>1. tillPrint' = T!NoPrint  BY <3>3 DEF T!Ends
      <4> QED  BY <3>1, <4>1, PrintMoves
    <3> QED  BY <1>6, <3>2, <3>3
  <2>9. \A q \in T!Papers : Printable(q)' => Printable(q)
    BY <1>1, <2>8 DEF Printable
  <2>10. Keyed'  BY <1>0, <1>1, <2>7, <2>9 DEF Keyed
  <2>11. Given(p)'
    <3>1. n \in 1..Len(issued'[p]) /\ issued'[p][n] = printKey'[p[2]]
      BY <1>1, <1>2, <2>7
    <3> QED  BY <2>2, <2>6, <3>1 DEF Given
  <2>12. \A q \in T!Papers \ {p} : Given(q)' <=> Given(q)
    <3>1. \A q \in T!Papers : \A m \in 1..Len(issued[q]) : m \in 1..MaxPrints
      <4>1. \A q \in T!Papers : Len(issued[q]) <= MaxPrints /\ Len(issued[q]) \in Nat
        BY <1>0 DEF Numbering, PrintTypeOK
      <4> QED  BY <4>1, TillAssumption
    <3> QED  BY <1>1, <2>6, <2>7, <3>1 DEF Given
  <2>13. Covered'
    <3> SUFFICES ASSUME NEW q \in T!Papers
                 PROVE  till'.owed[q] >= Cardinality(Queued(q)') + Credit(q)'
      BY DEF Covered
    <3>1. /\ till.owed[q] >= Cardinality(Queued(q)) + Credit(q) /\ till.owed[q] \in Int
          /\ till'.owed = till.owed
      BY <1>0, <1>1 DEF Covered
    <3>2. Credit(q) \in {0, 1} /\ Credit(q)' \in {0, 1}  BY DEF Credit
    <3>3. /\ Cardinality(Queued(q)) \in Nat
          /\ \A m \in 1..MaxPrints : Cardinality(Queued(q) \cup {m}) <= Cardinality(Queued(q)) + 1
      BY QueueCounted DEF Queued
    <3>4. CASE q # p
      <4>1. Credit(q)' <= Credit(q)  BY <1>1, <2>9, <2>12, <3>4 DEF Credit
      <4>2. Queued(q)' = Queued(q)  BY <2>6, <3>4
      <4> QED  BY <3>1, <3>2, <3>3, <4>1, <4>2
    <3>5. CASE q = p
      <4>1. Credit(q)' = 0  BY <2>11, <3>5 DEF Credit
      <4>2. CASE receiptJob[<<p, n>>] \in {"none", "error"}
        <5>1. ~Given(p)
          <6>1. \A m \in 1..Len(issued[p]) : issued[p][m] = printKey[p[2]] => m = n
            BY <1>0, <1>2 DEF Numbering
          <6> QED  BY <4>2, <6>1 DEF Given
        <5>2. Credit(q) = 1  BY <1>2, <1>4, <3>5, <5>1 DEF Credit
        <5>3. Queued(q)' = Queued(q) \cup {n}  BY <2>2, <2>6, <3>5, <4>2
        <5>4. Cardinality(Queued(q)') <= Cardinality(Queued(q)) + 1  BY <3>3, <5>3
        <5>5. Cardinality(Queued(q)') \in Nat  BY QueueCounted DEF Queued
        <5> QED  BY <3>1, <3>3, <4>1, <5>2, <5>4, <5>5
      <4>3. CASE receiptJob[<<p, n>>] \notin {"none", "error"}
        <5>1. Queued(q)' = Queued(q)  BY <2>2, <2>6, <3>5, <4>3 DEF Queued
        <5> QED  BY <3>1, <3>2, <3>3, <4>1, <5>1
      <4> QED  BY <4>2, <4>3
    <3> QED  BY <3>4, <3>5
  <2>14. Underway'
    <3>1. tillPrint'.at # "none" => T!Current' = T!Current  BY <2>8 DEF T!Current
    <3> QED  BY <1>0, <1>1, <2>7, <2>8, <3>1 DEF Underway
  <2>15. PrintTypeOK'  BY <1>0, <1>1, <2>6, <2>7, <2>8 DEF PrintTypeOK
  <2> QED  BY <2>6, <2>10, <2>13, <2>14, <2>15
<1> QED  BY <1>5, <1>6 DEF T!Enqueue

(* A print that is answered: the paper that came out is wanted no more.          *)
LEMMA WaitStep ==
  ASSUME CopyInv, T!Wait
  PROVE  PrintTypeOK' /\ Covered' /\ Underway' /\ Keyed' /\ Numbering'
<1>0. /\ SaleTypeOK /\ PrintTypeOK /\ Covered /\ Underway /\ Keyed /\ Numbering
      /\ till.open \subseteq T!Papers /\ till \in Histories
  BY DEF CopyInv, SaleInv, SaleTypeOK, Histories
<1>1. /\ tillPrint.at \in {"wait", "wait again"}
      /\ UNCHANGED <<issued, receiptJob, lastSale, late>>
  BY DEF T!Wait, T!saleVars
<1>2. PICK p \in T!Papers, n \in 1..MaxPrints :
        /\ T!Current = <<p, n>> /\ tillPrint.sale = p[1] /\ tillPrint.kind = p[2]
        /\ tillPrint.number = n /\ T!Current[1] = p
        /\ p \in till.open /\ n \in 1..Len(issued[p]) /\ n <= Len(issued[p])
        /\ issued[p][n] = printKey[p[2]]
  BY <1>1, PrintOf
<1>3. late' \subseteq T!SaleKeys \X Printouts \X Nat  BY <1>0, <1>1 DEF PrintTypeOK
<1>4. CASE T!Ends(TRUE) /\ till' = [till EXCEPT !.open = @ \ {T!Current[1]}]
  <2>1. till'.open = till.open \ {p} /\ till'.owed = till.owed
    BY <1>0, <1>2, <1>4, HistoryFields
  <2>2. tillPrint' = T!NoPrint /\ printKey' = [printKey EXCEPT ![p[2]] = 0]
    BY <1>2, <1>4 DEF T!Ends
  <2>3. printKey' \in [Printouts -> Nat] /\ \A d \in Printouts : d # p[2] => printKey'[d] = printKey[d]
    BY <1>0, <2>2 DEF PrintTypeOK
  <2>4. \A q \in till'.open : q[1] = lastSale => printKey'[q[2]] = printKey[q[2]]
    <3> SUFFICES ASSUME NEW q \in till.open, q # p, q[1] = lastSale
                 PROVE  printKey'[q[2]] = printKey[q[2]]
      BY <2>1
    <3>1. q \in T!Papers /\ q[2] \in Printouts /\ q = <<q[1], q[2]>> /\ p = <<p[1], p[2]>>
      BY <1>0 DEF T!Papers
    <3>2. tillPrint.sale = lastSale  BY <1>0, <1>1, <3>1 DEF Underway
    <3> QED  BY <1>2, <2>3, <3>1, <3>2
  <2> QED  BY <1>1, <1>3, <2>1, <2>2, <2>3, <2>4, PrintEnds
<1>5. CASE T!Ends(FALSE) /\ till' = till
  <2>1. tillPrint' = T!NoPrint /\ printKey' = printKey  BY <1>5 DEF T!Ends
  <2>2. printKey' \in [Printouts -> Nat]  BY <1>0, <2>1 DEF PrintTypeOK
  <2> QED  BY <1>1, <1>3, <1>5, <2>1, <2>2, PrintEnds
<1>6. CASE /\ tillPrint' = [tillPrint EXCEPT !.at = "ask"]
           /\ UNCHANGED <<printKey, busy, till>>
  <2>1. /\ tillPrint' \in [at : Stages, sale : Nat, kind : Printouts \cup {Nobody}, number : Nat]
        /\ tillPrint'.at = "ask" /\ tillPrint'.sale = tillPrint.sale
        /\ tillPrint'.kind = tillPrint.kind /\ tillPrint'.number = tillPrint.number
    BY <1>0, <1>6, PrintMoves DEF PrintTypeOK
  <2>2. T!Current' = T!Current  BY <2>1 DEF T!Current
  <2>3. \A q \in T!Papers : Queued(q)' = Queued(q) /\ Credit(q)' = Credit(q)
    BY <1>1, <1>6, <2>1 DEF Queued, Credit, Given, Printable
  <2>4. Covered'  BY <1>0, <1>6, <2>3 DEF Covered
  <2>5. Keyed'  BY <1>0, <1>1, <1>6, <2>1 DEF Keyed, Printable
  <2>6. Underway'  BY <1>0, <1>1, <1>6, <2>1, <2>2 DEF Underway
  <2> QED  BY <1>0, <1>1, <1>6, <2>1, <2>4, <2>5, <2>6 DEF PrintTypeOK, Numbering
<1> QED  BY <1>4, <1>5, <1>6 DEF T!Wait

(* A print that is asked for again is owed again.                                *)
LEMMA AnswerStep ==
  ASSUME CopyInv, T!Answer
  PROVE  PrintTypeOK' /\ Covered' /\ Underway' /\ Keyed' /\ Numbering'
<1>0. /\ SaleTypeOK /\ PrintTypeOK /\ Covered /\ Underway /\ Keyed /\ Numbering
      /\ till.open \subseteq T!Papers /\ till \in Histories /\ till.owed \in [T!Papers -> Int]
  BY DEF CopyInv, SaleInv, SaleTypeOK, Histories
<1>1. tillPrint.at = "ask" /\ UNCHANGED <<issued, lastSale, late>>
  BY DEF T!Answer, T!saleVars
<1>2. PICK p \in T!Papers, n \in 1..MaxPrints :
        /\ T!Current = <<p, n>> /\ tillPrint.sale = p[1] /\ tillPrint.kind = p[2]
        /\ tillPrint.number = n /\ T!Current[1] = p
        /\ p \in till.open /\ n \in 1..Len(issued[p]) /\ n <= Len(issued[p])
        /\ issued[p][n] = printKey[p[2]]
  BY <1>1, PrintOf
<1>3. late' \subseteq T!SaleKeys \X Printouts \X Nat  BY <1>0, <1>1 DEF PrintTypeOK
<1>4. CASE T!Ends(FALSE) /\ UNCHANGED <<receiptJob, till>>
  <2>1. tillPrint' = T!NoPrint /\ printKey' = printKey  BY <1>4 DEF T!Ends
  <2>2. printKey' \in [Printouts -> Nat]  BY <1>0, <2>1 DEF PrintTypeOK
  <2> QED  BY <1>1, <1>3, <1>4, <2>1, <2>2, PrintEnds
<1>5. ASSUME T!SetJob("pending"), till' = [till EXCEPT !.owed[T!Current[1]] = @ + 1],
             \/ tillPrint' = [tillPrint EXCEPT !.at = "wait again"] /\ UNCHANGED <<printKey, busy>>
             \/ T!Ends(FALSE)
      PROVE  PrintTypeOK' /\ Covered' /\ Underway' /\ Keyed' /\ Numbering'
  <2>1. till'.open = till.open /\ till'.owed = [till.owed EXCEPT ![p] = @ + 1]
    <3>1. till' = [till EXCEPT !.owed[p] = @ + 1]  BY <1>2, <1>5
    <3> QED  BY <1>0, <3>1, HistoryFields
  <2>2. UNCHANGED issued  BY <1>1
  <2>3. receiptJob' = [receiptJob EXCEPT ![<<p, n>>] = "pending"] /\ n <= Len(issued[p])
        /\ "pending" \in JobStates
    BY <1>2, <1>5 DEF T!SetJob, JobStates
  <2>4. /\ receiptJob' \in [T!Papers \X (1..MaxPrints) -> JobStates] /\ Numbering'
        /\ \A q \in T!Papers \ {p} : Queued(q)' = Queued(q)
        /\ receiptJob'[<<p, n>>] = "pending"
        /\ \A q \in T!Papers, m \in 1..MaxPrints :
             <<q, m>> # <<p, n>> => receiptJob'[<<q, m>>] = receiptJob[<<q, m>>]
        /\ Queued(p)' = Queued(p) \cup {n}
    <3>1. /\ PrintTypeOK /\ Numbering /\ p \in T!Papers /\ n \in 1..MaxPrints
          /\ n <= Len(issued[p]) /\ "pending" \in JobStates
          /\ receiptJob' = [receiptJob EXCEPT ![<<p, n>>] = "pending"] /\ UNCHANGED issued
      BY <1>0, <2>2, <2>3
    <3> QED  BY ONLY <3>1, JobSet
  <2>5. printKey' = printKey  BY <1>5 DEF T!Ends
  <2>6. /\ tillPrint' \in [at : Stages, sale : Nat, kind : Printouts \cup {Nobody}, number : Nat]
        /\ \/ /\ tillPrint'.at = "wait again" /\ tillPrint'.sale = tillPrint.sale
              /\ tillPrint'.kind = tillPrint.kind /\ tillPrint'.number = tillPrint.number
           \/ tillPrint'.at = "none"
    <3>1. tillPrint \in [at : Stages, sale : Nat, kind : Printouts \cup {Nobody}, number : Nat]
      BY <1>0 DEF PrintTypeOK
    <3>2. tillPrint' = [tillPrint EXCEPT !.at = "wait again"] \/ tillPrint' = T!NoPrint
      BY <1>5 DEF T!Ends
    <3>3. CASE tillPrint' = [tillPrint EXCEPT !.at = "wait again"]  BY <3>1, <3>3, PrintMoves
    <3>4. CASE tillPrint' = T!NoPrint  BY <3>1, <3>4, PrintMoves
    <3> QED  BY <3>2, <3>3, <3>4
  <2>7. \A q \in T!Papers : Printable(q)' => Printable(q)
    BY <1>1, <2>6 DEF Printable
  <2>8. \A q \in T!Papers : Given(q) => Given(q)'
    <3>1. \A q \in T!Papers : \A m \in 1..Len(issued[q]) : m \in 1..MaxPrints
      <4>1. \A q \in T!Papers : Len(issued[q]) <= MaxPrints /\ Len(issued[q]) \in Nat
        BY <1>0 DEF Numbering, PrintTypeOK
      <4> QED  BY <4>1, TillAssumption
    <3>2. \A q \in T!Papers, m \in 1..MaxPrints :
            receiptJob[<<q, m>>] \in {"pending", "printed", "unknown"}
            => receiptJob'[<<q, m>>] \in {"pending", "printed", "unknown"}
      BY <2>4
    <3> QED  BY <1>1, <2>5, <3>1, <3>2 DEF Given
  <2>9. \A q \in T!Papers : Credit(q)' <= Credit(q)  BY <2>1, <2>7, <2>8 DEF Credit
  <2>10. Covered'
    <3> SUFFICES ASSUME NEW q \in T!Papers
                 PROVE  till'.owed[q] >= Cardinality(Queued(q)') + Credit(q)'
      BY DEF Covered
    <3>1. till.owed[q] >= Cardinality(Queued(q)) + Credit(q) /\ till.owed[q] \in Int
      BY <1>0 DEF Covered
    <3>2. Credit(q) \in {0, 1} /\ Credit(q)' \in {0, 1}  BY DEF Credit
    <3>3. /\ Cardinality(Queued(q)) \in Nat /\ Cardinality(Queued(q)') \in Nat
          /\ \A m \in 1..MaxPrints : Cardinality(Queued(q) \cup {m}) <= Cardinality(Queued(q)) + 1
      BY QueueCounted DEF Queued
    <3>4. CASE q # p
      <4>1. till'.owed[q] = till.owed[q] /\ Queued(q)' = Queued(q)  BY <1>0, <2>1, <2>4, <3>4
      <4>2. Credit(q)' <= Credit(q)  BY <2>9
      <4> QED  BY <3>1, <3>2, <3>3, <4>1, <4>2
    <3>5. CASE q = p
      <4>1. till'.owed[q] = till.owed[q] + 1 /\ Queued(q)' = Queued(q) \cup {n}
        BY <1>0, <2>1, <2>4, <3>5
      <4>2. Credit(q)' <= Credit(q)  BY <2>9
      <4>3. Cardinality(Queued(q)') <= Cardinality(Queued(q)) + 1  BY <3>3, <4>1
      <4> QED  BY <3>1, <3>2, <3>3, <4>1, <4>2, <4>3
    <3> QED  BY <3>4, <3>5
  <2>11. Underway'
    <3>1. tillPrint'.at # "none" => T!Current' = T!Current  BY <2>6 DEF T!Current
    <3> QED  BY <1>0, <1>1, <2>1, <2>5, <2>6, <3>1 DEF Underway
  <2>12. Keyed'  BY <1>0, <2>1, <2>5, <2>7 DEF Keyed
  <2>13. PrintTypeOK'  BY <1>0, <1>1, <2>4, <2>5, <2>6 DEF PrintTypeOK
  <2> QED  BY <2>4, <2>10, <2>11, <2>12, <2>13
<1> QED  BY <1>4, <1>5 DEF T!Answer

(* The agent tries a job: if a paper came out it was owed.                       *)
LEMMA AgentStep ==
  ASSUME CopyInv, NEW p \in T!Papers, NEW n \in 1..MaxPrints, T!Agent(p, n)
  PROVE  PrintTypeOK' /\ Covered' /\ Underway' /\ Keyed' /\ Numbering'
<1>0. /\ SaleTypeOK /\ PrintTypeOK /\ Covered /\ Underway /\ Keyed /\ Numbering
      /\ till.open \subseteq T!Papers /\ till \in Histories /\ till.owed \in [T!Papers -> Int]
  BY DEF CopyInv, SaleInv, SaleTypeOK, Histories
<1>1. /\ receiptJob[<<p, n>>] = "pending"
      /\ UNCHANGED <<issued, lastSale, late, tillPrint, printKey>>
  BY DEF T!Agent, T!saleVars
<1>2. PICK status \in {"printed", "error", "unknown"}, out \in {0, 1} :
        /\ status = "error" => out = 0
        /\ receiptJob' = [receiptJob EXCEPT ![<<p, n>>] = status]
        /\ till' = [till EXCEPT !.owed[p] = @ - out]
  BY DEF T!Agent
<1>3. till'.open = till.open /\ till'.owed = [till.owed EXCEPT ![p] = @ - out]
  BY <1>0, <1>2, HistoryFields
<1>4. n <= Len(issued[p]) /\ n \in 1..Len(issued[p])
  <2>1. Len(issued[p]) \in Nat  BY <1>0 DEF PrintTypeOK
  <2> QED  BY <1>0, <1>1, <2>1, TillAssumption DEF Numbering
<1>5. /\ UNCHANGED issued /\ status \in JobStates /\ status # "pending"
      /\ receiptJob' = [receiptJob EXCEPT ![<<p, n>>] = status]
  BY <1>1, <1>2 DEF JobStates
<1>6. /\ receiptJob' \in [T!Papers \X (1..MaxPrints) -> JobStates] /\ Numbering'
      /\ \A q \in T!Papers \ {p} : Queued(q)' = Queued(q)
      /\ receiptJob'[<<p, n>>] = status
      /\ \A q \in T!Papers, m \in 1..MaxPrints :
           <<q, m>> # <<p, n>> => receiptJob'[<<q, m>>] = receiptJob[<<q, m>>]
      /\ Queued(p)' = Queued(p) \ {n}
  <2>1. UNCHANGED issued /\ n <= Len(issued[p])  BY <1>4, <1>5
  <2>2. receiptJob' = [receiptJob EXCEPT ![<<p, n>>] = status]  BY <1>5
  <2>3. status \in JobStates  BY <1>5
  <2>4. PrintTypeOK /\ Numbering  BY <1>0
  <2>5. status # "pending" => Queued(p)' = Queued(p) \ {n}
    BY <2>1, <2>2, <2>3, <2>4, JobSet
  <2> QED  BY <2>1, <2>2, <2>3, <2>4, <2>5, <1>5, JobSet
<1>7. \A q \in T!Papers : Printable(q)' <=> Printable(q)  BY <1>1 DEF Printable
<1>8. \A q \in T!Papers : \A m \in 1..Len(issued[q]) : m \in 1..MaxPrints
  <2>1. \A q \in T!Papers : Len(issued[q]) <= MaxPrints /\ Len(issued[q]) \in Nat
    BY <1>0 DEF Numbering, PrintTypeOK
  <2> QED  BY <2>1, TillAssumption
<1>9. \A q \in T!Papers \ {p} : Given(q)' <=> Given(q)  BY <1>1, <1>6, <1>8 DEF Given
<1>10. status # "error" => (Given(p) => Given(p)')
  <2>1. status # "error" => status \in {"pending", "printed", "unknown"}  OBVIOUS
  <2>2. \A m \in 1..MaxPrints : m # n => receiptJob'[<<p, m>>] = receiptJob[<<p, m>>]
    BY <1>6
  <2> QED  BY <1>1, <1>6, <1>8, <2>1, <2>2 DEF Given
<1>11. Covered'
  <2> SUFFICES ASSUME NEW q \in T!Papers
               PROVE  till'.owed[q] >= Cardinality(Queued(q)') + Credit(q)'
    BY DEF Covered
  <2>1. till.owed[q] >= Cardinality(Queued(q)) + Credit(q) /\ till.owed[q] \in Int
    BY <1>0 DEF Covered
  <2>2. Credit(q) \in {0, 1} /\ Credit(q)' \in {0, 1}  BY DEF Credit
  <2>3. /\ Cardinality(Queued(q)) \in Nat /\ Cardinality(Queued(q)') \in Nat
        /\ \A m \in Queued(q) : Cardinality(Queued(q) \ {m}) = Cardinality(Queued(q)) - 1
    BY QueueCounted DEF Queued
  <2>4. CASE q # p
    <3>1. till'.owed[q] = till.owed[q] /\ Queued(q)' = Queued(q)  BY <1>0, <1>3, <1>6, <2>4
    <3>2. Credit(q)' = Credit(q)  BY <1>3, <1>7, <1>9, <2>4 DEF Credit
    <3> QED  BY <2>1, <2>2, <2>3, <3>1, <3>2
  <2>5. CASE q = p
    <3>1. till'.owed[q] = till.owed[q] - out /\ Queued(q)' = Queued(q) \ {n}
      BY <1>0, <1>3, <1>6, <2>5
    <3>2. n \in Queued(q)  BY <1>1, <2>5 DEF Queued
    <3>3. Cardinality(Queued(q)') = Cardinality(Queued(q)) - 1  BY <2>3, <3>1, <3>2
    <3>4. CASE status = "error"
      <4>1. out = 0  BY <1>2, <3>4
      <4> QED  BY <2>1, <2>2, <2>3, <3>1, <3>3, <4>1
    <3>5. CASE status # "error"
      <4>1. Credit(q)' <= Credit(q)  BY <1>3, <1>7, <1>10, <2>5, <3>5 DEF Credit
      <4> QED  BY <2>1, <2>2, <2>3, <3>1, <3>3, <4>1
    <3> QED  BY <3>4, <3>5
  <2> QED  BY <2>4, <2>5
<1>12. Underway'
  <2>1. T!Current' = T!Current  BY <1>1 DEF T!Current
  <2> QED  BY <1>0, <1>1, <1>3, <2>1 DEF Underway
<1>13. Keyed'  BY <1>0, <1>1, <1>3, <1>7 DEF Keyed
<1>14. PrintTypeOK'  BY <1>0, <1>1, <1>6 DEF PrintTypeOK
<1> QED  BY <1>6, <1>11, <1>12, <1>13, <1>14

(* Every step keeps the invariant of the copies.                                 *)
LEMMA CopyStep == CopyInv /\ [T!Next]_(T!tillVars) => CopyInv'
<1> SUFFICES ASSUME CopyInv, [T!Next]_(T!tillVars) PROVE CopyInv'  OBVIOUS
<1>0. /\ SaleInv /\ SaleTypeOK /\ Numbers /\ PrintTypeOK /\ Unprinted
      /\ till \in Histories /\ used \in [carts : Nat, keys : Nat, prints : Nat]
      /\ till.open \subseteq T!Papers /\ post \in [Posts -> TillPosts]
  BY DEF CopyInv, SaleInv, SaleTypeOK, Histories
<1>a. SaleInv'  BY <1>0, SaleStep
<1>b. \A p \in till.open : p[1] # 0  BY <1>0 DEF T!Papers, T!SaleKeys
<1> DEFINE Printing == PrintTypeOK /\ Covered /\ Underway /\ Keyed /\ Numbering
<1>c. ASSUME Printing', Unprinted' PROVE CopyInv'  BY <1>a, <1>c DEF CopyInv
<1>1. CASE T!Edit
  <2>1. /\ lastSale' = 0 /\ checkoutKey' = 0 /\ used'.keys = used.keys
        /\ UNCHANGED <<busy, post, till, tillPrint, printKey, late, issued, receiptJob>>
    BY <1>1, <1>0 DEF T!Edit, T!printVars
  <2>2. Printing'  BY <1>b, <2>1, SalesMove
  <2>3. Unprinted'
    <3>1. \A r \in Posts : post[r].at # "none" => post[r].key # 0
      BY <1>0 DEF Numbers, T!SaleKeys
    <3> QED  BY <1>0, <2>1, <3>1 DEF Unprinted
  <2> QED  BY <2>2, <2>3, <1>c
<1>2. CASE T!ChangeMethod
  <2>1. till' = [till EXCEPT !.changed = @ \cup {cart}]  BY <1>2 DEF T!ChangeMethod
  <2>2. till'.open = till.open /\ till'.owed = till.owed  BY <1>0, <2>1 DEF Histories
  <2>3. /\ checkoutKey' = 0
        /\ UNCHANGED <<lastSale, used, busy, post, tillPrint, printKey, late, issued, receiptJob>>
    BY <1>2 DEF T!ChangeMethod, T!printVars
  <2>4. Printing'  BY <2>2, <2>3, SalesMove
  <2>5. Unprinted'  BY <1>0, <2>2, <2>3 DEF Unprinted
  <2> QED  BY <2>4, <2>5, <1>c
<1>3. CASE T!Reload
  <2>1. till' = [till EXCEPT !.shown = 0]  BY <1>3 DEF T!Reload
  <2>2. till'.open = till.open /\ till'.owed = till.owed  BY <1>0, <2>1 DEF Histories
  <2>3. /\ checkoutKey' = 0 /\ lastSale' = 0 /\ busy' = Nobody /\ tillPrint' = T!NoPrint
        /\ printKey' = [d \in Printouts |-> 0] /\ UNCHANGED <<used, issued, receiptJob>>
    BY <1>3 DEF T!Reload
  <2>4. late' \subseteq T!SaleKeys \X Printouts \X Nat
    <3>1. CASE tillPrint.at = "issue"
      <4>1. /\ tillPrint.sale \in T!SaleKeys /\ tillPrint.kind \in Printouts
            /\ printKey[tillPrint.kind] \in Nat
        BY <1>0, <3>1 DEF CopyInv, Underway, PrintTypeOK
      <4>2. <<tillPrint.sale, tillPrint.kind, printKey[tillPrint.kind]>>
              \in T!SaleKeys \X Printouts \X Nat
        BY <4>1
      <4> QED  BY <1>0, <1>3, <3>1, <4>2 DEF T!Reload, PrintTypeOK
    <3>2. CASE tillPrint.at # "issue"  BY <1>0, <1>3, <3>2 DEF T!Reload, PrintTypeOK
    <3> QED  BY <3>1, <3>2
  <2>5. printKey' \in [Printouts -> Nat]  BY <2>3
  <2>6. Printing'  BY <1>b, <2>2, <2>3, <2>4, <2>5, PrintEnds
  <2>7. Unprinted'  BY <1>0, <2>2, <2>3, TillAssumption DEF Unprinted
  <2> QED  BY <2>6, <2>7, <1>c
<1>4. ASSUME NEW r \in Posts, T!Checkout(r) PROVE CopyInv'
  <2>1. /\ UNCHANGED <<lastSale, till, tillPrint, printKey, late, issued, receiptJob>>
        /\ busy' = r
        /\ post' = [post EXCEPT ![r] = [at |-> "lookup", key |-> checkoutKey', cart |-> cart]]
        /\ checkoutKey' = IF checkoutKey = 0 THEN used.keys + 1 ELSE checkoutKey
        /\ used'.keys = IF checkoutKey = 0 THEN used.keys + 1 ELSE used.keys
    BY <1>4, <1>0 DEF T!Checkout, T!printVars
  <2>2. Printing'  BY <2>1, SalesMove
  <2>3. lastSale # checkoutKey' /\ \A p \in till.open : p[1] # checkoutKey'
    <3>1. CASE checkoutKey # 0  BY <1>0, <2>1, <3>1 DEF Unprinted
    <3>2. CASE checkoutKey = 0
      <4>1. lastSale \in Nat /\ used.keys \in Nat /\ \A p \in till.open : p[1] \in Nat
        BY <1>0 DEF SaleTypeOK, T!Papers, T!SaleKeys
      <4>2. checkoutKey' = used.keys + 1  BY <2>1, <3>2
      <4> HIDE DEF Printing
      <4>3. \A p \in till.open : p[1] <= used.keys  BY <1>0 DEF Unprinted
      <4>4. lastSale <= used.keys  BY <1>0 DEF Unprinted
      <4>5. \A k \in Nat : k <= used.keys => k # used.keys + 1  BY <4>1
      <4> QED  BY <4>1, <4>2, <4>3, <4>4, <4>5
    <3> QED  BY <3>1, <3>2
  <2>4. post'[r].at = "lookup" /\ post'[r].key = checkoutKey'  BY <1>0, <2>1
  <2>5. Unprinted'
    <3>1. used.keys \in Nat /\ lastSale \in Nat /\ \A p \in till.open : p[1] \in Nat
      BY <1>0 DEF SaleTypeOK, T!Papers, T!SaleKeys
    <3>2. lastSale <= used'.keys /\ \A p \in till.open : p[1] <= used'.keys
      <4>1. used'.keys \in {used.keys, used.keys + 1}  BY <2>1
      <4> QED  BY <1>0, <3>1, <4>1 DEF Unprinted
    <3>3. \A q \in Posts : busy' = q => q = r  BY <2>1
    <3> QED  BY <2>1, <2>3, <2>4, <3>2, <3>3 DEF Unprinted
  <2> QED  BY <2>2, <2>5, <1>c
<1>5. ASSUME NEW r \in Posts, T!Lookup(r) \/ T!Create(r) PROVE CopyInv'
  <2>1. /\ UNCHANGED <<lastSale, checkoutKey, busy, used, till, tillPrint, printKey, late,
                       issued, receiptJob>>
        /\ \E there \in {"sold", "create", "refused"} : post' = [post EXCEPT ![r].at = there]
    BY <1>5 DEF T!Lookup, T!Create, T!printVars
  <2>2. Printing'  BY <2>1, SalesMove
  <2>3. \A q \in Posts : post'[q].key = post[q].key /\ (post[q].at # "none" => post'[q].at # "none")
    BY <1>0, <2>1 DEF TillPosts
  <2>4. Unprinted'  BY <1>0, <2>1, <2>3 DEF Unprinted
  <2> QED  BY <2>2, <2>4, <1>c
<1>6. ASSUME NEW r \in Posts, T!Refused(r) PROVE CopyInv'
  <2>1. /\ UNCHANGED <<lastSale, checkoutKey, used, till, tillPrint, printKey, late,
                       issued, receiptJob>>
        /\ busy' = (IF busy = r THEN Nobody ELSE busy)
        /\ post' = [post EXCEPT ![r] = T!NoPost]
    BY <1>6 DEF T!Refused, T!printVars
  <2>2. Printing'  BY <2>1, SalesMove
  <2>3. \A q \in Posts : busy' = q => busy = q /\ post'[q] = post[q]
    BY <1>0, <2>1, TillAssumption
  <2>4. Unprinted'  BY <1>0, <2>1, <2>3 DEF Unprinted
  <2> QED  BY <2>2, <2>4, <1>c
<1>7. ASSUME NEW r \in Posts, T!Lost(r) PROVE CopyInv'
  <2>1. /\ UNCHANGED <<lastSale, checkoutKey, post, used, till, tillPrint, printKey, late,
                       issued, receiptJob>>
        /\ busy' = Nobody
    BY <1>7 DEF T!Lost, T!saleVars, T!printVars
  <2>2. Printing'  BY <2>1, SalesMove
  <2>3. Unprinted'  BY <1>0, <2>1, UnprintedKept
  <2> QED  BY <2>2, <2>3, <1>c
<1>8. ASSUME NEW r \in Posts, T!Sold(r) PROVE CopyInv'
  <2>1. /\ post[r].at = "sold" /\ post' = [post EXCEPT ![r] = T!NoPost]
        /\ UNCHANGED <<late, issued, receiptJob>>
    BY <1>8 DEF T!Sold
  <2>2. CASE busy # r
    <3>1. UNCHANGED <<lastSale, checkoutKey, busy, used, till, tillPrint, printKey>>
      BY <1>8, <2>2 DEF T!Sold
    <3>2. Printing'  BY <2>1, <3>1, SalesMove
    <3>3. \A q \in Posts : busy' = q => busy = q /\ post'[q] = post[q]
      BY <1>0, <2>1, <2>2, <3>1
    <3>4. Unprinted'  BY <1>0, <3>1, <3>3 DEF Unprinted
    <3> QED  BY <3>2, <3>4, <1>c
  <2>3. CASE busy = r
    <3> DEFINE k == post[r].key
               h == [till EXCEPT !.shown = post[r].cart]
    <3>1. /\ k \in T!SaleKeys /\ k <= used.keys /\ post[r].cart \in Nat
          /\ lastSale # k /\ \A p \in till.open : p[1] # k
      BY <1>0, <2>1, <2>3 DEF Numbers, TillPosts, Unprinted
    <3>2. h \in Histories  BY <1>0, <3>1, HistoryMoves
    <3>3. h.open = till.open /\ h.owed = till.owed  BY <1>0 DEF Histories
    <3> HIDE DEF h
    <3>4. lastSale' = k /\ checkoutKey' = 0 /\ busy' \in {"print", Nobody}
      BY <1>8, <2>3 DEF T!Sold
    <3>5. CASE /\ tillPrint.at = "none" /\ "receipt" \in Printouts /\ T!Begins(k, "receipt")
               /\ till' = T!Wanted(h, k, "receipt")
      <4>1. Printing'  BY <2>1, <3>1, <3>2, <3>3, <3>4, <3>5, PrintBegins
      <4>2. till'.open = till.open \cup {<<k, "receipt">>}
        <5>1. T!Wanted(h, k, "receipt").open = h.open \cup {<<k, "receipt">>}
          BY <3>1, <3>2, <3>5, WantedKeeps
        <5> QED  BY <3>3, <3>5, <5>1
      <4>3. used'.keys = used.keys  BY <1>0, <3>5, BeginsUsed
      <4>4. Unprinted'
        BY <1>0, <3>1, <3>4, <4>2, <4>3, TillAssumption DEF Unprinted
      <4> QED  BY <4>1, <4>4, <1>c
    <3>6. CASE till' = h /\ UNCHANGED <<tillPrint, printKey, used>>
      <4>1. till'.open = till.open /\ till'.owed = till.owed /\ \A p \in till.open : p[1] # lastSale'
        BY <3>1, <3>3, <3>4, <3>6
      <4>2. Printing'  BY <2>1, <3>6, <4>1, SalesMove
      <4>3. Unprinted'
        BY <1>0, <3>1, <3>4, <3>6, <4>1, TillAssumption DEF Unprinted
      <4> QED  BY <4>2, <4>3, <1>c
    <3> QED  BY <1>8, <2>3, <3>5, <3>6 DEF T!Sold, h
  <2> QED  BY <2>2, <2>3
<1>9. ASSUME NEW d \in Printouts, T!PrintReceipt(d) PROVE CopyInv'
  <2>1. /\ lastSale \in T!SaleKeys /\ lastSale # 0 /\ tillPrint.at = "none"
        /\ T!Begins(lastSale, d) /\ till' = T!Wanted(till, lastSale, d)
        /\ UNCHANGED <<lastSale, checkoutKey, post, busy, late, issued, receiptJob>>
    BY <1>9, <1>0 DEF T!PrintReceipt, Numbers, T!saleVars
  <2>2. Printing'  BY <1>0, <2>1, PrintBegins
  <2>3. till'.open = till.open \cup {<<lastSale, d>>}
    <3>1. T!Wanted(till, lastSale, d).open = till.open \cup {<<lastSale, d>>}
      <4>1. till \in Histories /\ lastSale \in T!SaleKeys  BY <1>0, <2>1
      <4> QED  BY <4>1, WantedKeeps
    <3> QED  BY <2>1, <3>1
  <2>4. used'.keys = used.keys  BY <1>0, <2>1, BeginsUsed
  <2>5. Unprinted'  BY <1>0, <2>1, <2>3, <2>4 DEF Unprinted
  <2> QED  BY <2>2, <2>5, <1>c
<1>10. ASSUME T!Issue \/ T!Enqueue \/ T!Wait \/ T!Answer \/ (\E x \in late : T!IssueLate(x))
       PROVE  CopyInv'
  <2>1. Printing'  BY <1>10, IssueStep, EnqueueStep, WaitStep, AnswerStep, IssueLateStep
  <2>2. UNCHANGED <<lastSale, checkoutKey, post, used>> /\ busy' \in {busy, Nobody}
    BY <1>10 DEF T!Issue, T!Enqueue, T!Wait, T!Answer, T!IssueLate, T!Ends, T!saleVars
  <2>3. \/ till' = till
        \/ till' = [till EXCEPT !.open = @ \ {T!Current[1]}]
        \/ till' = [till EXCEPT !.owed[T!Current[1]] = @ + 1]
    BY <1>10 DEF T!Issue, T!Enqueue, T!Wait, T!Answer, T!IssueLate
  <2>4. till'.open \subseteq till.open
    <3>1. CASE till' = till  BY <3>1
    <3>2. CASE till' = [till EXCEPT !.open = @ \ {T!Current[1]}]
      <4>1. till'.open = till.open \ {T!Current[1]}  BY <1>0, <3>2, HistoryFields
      <4> QED  BY <4>1
    <3>3. CASE till' = [till EXCEPT !.owed[T!Current[1]] = @ + 1]
      <4>1. till'.open = till.open  BY <1>0, <3>3, HistoryFields
      <4> QED  BY <4>1
    <3> QED  BY <2>3, <3>1, <3>2, <3>3
  <2>5. Unprinted'  BY <1>0, <2>2, <2>4, UnprintedKept
  <2> QED  BY <2>1, <2>5, <1>c
<1>11. ASSUME NEW p \in T!Papers, NEW n \in 1..MaxPrints, T!Agent(p, n) PROVE CopyInv'
  <2>1. Printing'  BY <1>11, AgentStep
  <2>2. UNCHANGED <<lastSale, checkoutKey, post, used, busy>>
    BY <1>11 DEF T!Agent, T!saleVars
  <2>3. PICK out \in {0, 1} : till' = [till EXCEPT !.owed[p] = @ - out]
    BY <1>11 DEF T!Agent
  <2>4. till'.open = till.open  BY <1>0, <2>3, HistoryFields
  <2>5. Unprinted'  BY <1>0, <2>2, <2>4, UnprintedKept
  <2> QED  BY <2>1, <2>5, <1>c
<1>12. CASE UNCHANGED T!tillVars
  <2>1. UNCHANGED <<lastSale, checkoutKey, busy, post, used, till, tillPrint, printKey, late,
                    issued, receiptJob>>
    BY <1>12 DEF T!tillVars
  <2>2. Printing'  BY <2>1, SalesMove
  <2>3. Unprinted'  BY <1>0, <2>1, UnprintedKept
  <2> QED  BY <2>2, <2>3, <1>c
<1> QED
  BY <1>1, <1>2, <1>3, <1>4, <1>5, <1>6, <1>7, <1>8, <1>9, <1>10, <1>11, <1>12 DEF T!Next

(* No paper comes out that nobody asked for: as many copies as the operator      *)
(* asked for, and one more for each time that none had come out.                 *)
THEOREM CopiesAskedHolds == T!Spec => []CopiesAsked
<1>1. CopyInv => CopiesAsked
  <2> SUFFICES ASSUME CopyInv, NEW p \in T!Papers PROVE till.owed[p] >= 0
    BY DEF CopiesAsked, T!CopiesAsked
  <2>1. till.owed[p] >= Cardinality(Queued(p)) + Credit(p) /\ till.owed[p] \in Int
    BY DEF CopyInv, Covered, SaleInv, SaleTypeOK, Histories
  <2>2. Cardinality(Queued(p)) \in Nat /\ Credit(p) \in {0, 1}
    BY QueueCounted DEF Queued, Credit
  <2> QED  BY <2>1, <2>2
<1> QED  BY <1>1, CopyInit, CopyStep, PTL DEF T!Spec

-----------------------------------------------------------------------------
(* SaleAmounts: what the page shows is what is charged and what the sale      *)
(* says. The heart is that each label moves the line away from the sum of the *)
(* labels by half a unit of the scale at most, which is less than half a cent *)
(* in all below the bound.                                                    *)

(* What division gives.                                                          *)
LEMMA Division ==
  ASSUME NEW n \in Nat, NEW d \in Nat \ {0}
  PROVE  n \div d \in Nat /\ d * (n \div d) <= n /\ n < d * (n \div d) + d
OBVIOUS
(* ... is the one number that is so near.                                       *)
LEMMA DivisionIs ==
  ASSUME NEW n \in Nat, NEW d \in Nat \ {0}, NEW q \in Nat, d * q <= n, n < d * q + d
  PROVE  n \div d = q
<1> DEFINE r == n \div d
<1>1. r \in Nat /\ d * r <= n /\ n < d * r + d  BY Division
<1> HIDE DEF r
<1>2. d * r < d * (q + 1) /\ d * q < d * (r + 1)  BY <1>1
<1>3. r <= q /\ q <= r  BY <1>1, <1>2
<1> QED  BY <1>1, <1>3 DEF r

(* Math.round: no more than half a unit away.                                    *)
LEMMA RoundIs ==
  ASSUME NEW n \in Nat, NEW d \in Nat \ {0}
  PROVE  /\ B!Round(n, d) \in Nat
         /\ 2 * (d * B!Round(n, d)) <= 2 * n + d /\ 2 * n < 2 * (d * B!Round(n, d)) + d
<1> DEFINE e == 2 * d
           m == 2 * n + d
           r == m \div e
<1>1. e \in Nat \ {0} /\ m \in Nat  OBVIOUS
<1>2. r \in Nat /\ e * r <= m /\ m < e * r + e
  <2> HIDE DEF e, m
  <2> QED  BY <1>1, Division
<1>3. B!Round(n, d) = r  BY DEF B!Round
<1> HIDE DEF r
<1>4. e * r = 2 * (d * r)  BY <1>2
<1> QED  BY <1>2, <1>3, <1>4

(* ... and what is less than half a unit away is what it gives.                  *)
LEMMA RoundsTo ==
  ASSUME NEW n \in Nat, NEW d \in Nat \ {0}, NEW q \in Nat,
         2 * (d * q) <= 2 * n + d, 2 * n < 2 * (d * q) + d
  PROVE  B!Round(n, d) = q
<1> DEFINE e == 2 * d
           m == 2 * n + d
<1>1. e \in Nat \ {0} /\ m \in Nat  OBVIOUS
<1>2. e * q = 2 * (d * q)  OBVIOUS
<1>3. e * q <= m /\ m < e * q + e  BY <1>2
<1>4. m \div e = q
  <2> HIDE DEF e, m
  <2> QED  BY <1>1, <1>3, DivisionIs
<1> QED  BY <1>4 DEF B!Round

(* A discount that is allowed is no more than what it is taken off.              *)
LEMMA PercentageFits ==
  ASSUME NEW s \in Nat, NEW v \in Nat, v <= 100
  PROVE  B!Round(s * v, 100) \in Nat /\ B!Round(s * v, 100) <= s
<1>1. s * v \in Nat /\ s * v <= s * 100  OBVIOUS
<1>2. B!Round(s * v, 100) = (2 * (s * v) + 100) \div 200  BY DEF B!Round
<1> QED  BY <1>1, <1>2
(* ... nor is a fixed one.                                                       *)
LEMMA FixedFits ==
  ASSUME NEW s \in Nat, NEW v \in Nat, v <= B!FixedLimit(s), admin \in BOOLEAN
  PROVE  v <= s
<1>1. s \div 10 <= s  OBVIOUS
<1> QED  BY <1>1 DEF B!FixedLimit

Baskets == [price : Nat, quantity : Nat, others : Nat, scans : Nat, labels : Nat, weighed : BOOLEAN]
Discounts == [type : {"percentage", "fixed"}, value : Nat]
Asked == [at : {"none", "sent"}, method : {"cash", "card"}, shown : Nat, paid : Nat]
Sales == [at : {"none", "sold"}, method : {"cash", "card"}, shown : Nat, total : Nat, change : Nat]
(* The types, a conjunct at a time.                                              *)
LEMMA AmountTypes ==
  B!TypeOK <=> /\ price \in Prices /\ admin \in BOOLEAN /\ basket \in Baskets
               /\ discount \in Discounts /\ request \in Asked /\ registered \in Sales
BY DEF B!TypeOK, Baskets, Discounts, Asked, Sales

(* Lines and subtotals are numbers.                                              *)
LEMMA LineIs ==
  ASSUME NEW c \in Nat, NEW q \in Nat
  PROVE  B!Line(c, q) \in Nat
<1>1. c * q \in Nat  OBVIOUS
<1> QED  BY <1>1, RoundIs, AmountAssumption DEF B!Line
(* ... and while the price holds, the same on both sides.                        *)
LEMMA SubtotalsAre ==
  ASSUME B!TypeOK
  PROVE  /\ B!Subtotal \in Nat /\ B!ShownSubtotal \in Nat /\ price \in Nat
         /\ price = basket.price => B!Subtotal = B!ShownSubtotal
<1>1. /\ price \in Nat /\ basket.price \in Nat /\ basket.quantity \in Nat /\ basket.others \in Nat
  BY AmountTypes, AmountAssumption DEF Baskets
<1>2. B!Line(price, basket.quantity) \in Nat /\ B!Line(basket.price, basket.quantity) \in Nat
  BY <1>1, LineIs
<1> QED  BY <1>1, <1>2 DEF B!Subtotal, B!ShownSubtotal

(* What the server takes off when it allows it.                                  *)
LEMMA AllowedFits ==
  ASSUME B!TypeOK, B!Allowed
  PROVE  B!Discount \in Nat /\ B!Discount <= B!Subtotal /\ B!Total \in Nat
<1>1. B!Subtotal \in Nat  BY SubtotalsAre
<1>2. discount.type \in {"percentage", "fixed"} /\ discount.value \in Nat /\ admin \in BOOLEAN
  BY AmountTypes DEF Discounts
<1>3. CASE discount.type = "percentage"
  <2>1. discount.value <= 100  BY <1>2, <1>3 DEF B!Allowed, B!PercentageLimit
  <2>2. B!Discount = B!Round(B!Subtotal * discount.value, 100)  BY <1>3 DEF B!Discount
  <2>3. B!Discount \in Nat /\ B!Discount <= B!Subtotal  BY <1>1, <1>2, <2>1, <2>2, PercentageFits
  <2> QED  BY <1>1, <2>3 DEF B!Total
<1>4. CASE discount.type # "percentage"
  <2>1. discount.value <= B!FixedLimit(B!Subtotal)  BY <1>4 DEF B!Allowed
  <2>2. B!Discount = discount.value  BY <1>4 DEF B!Discount
  <2>3. B!Discount \in Nat /\ B!Discount <= B!Subtotal  BY <1>1, <1>2, <2>1, <2>2, FixedFits
  <2> QED  BY <1>1, <2>3 DEF B!Total
<1> QED  BY <1>3, <1>4

(* What the page shows is a number; while price and limits hold, it is what the   *)
(* server computes.                                                              *)
LEMMA ShownIs ==
  ASSUME B!TypeOK
  PROVE  /\ B!ShownTotal \in Nat
         /\ price = basket.price /\ B!Allowed => B!Total = B!ShownTotal
<1>1. B!ShownSubtotal \in Nat /\ (price = basket.price => B!Subtotal = B!ShownSubtotal)  BY SubtotalsAre
<1>2. discount.type \in {"percentage", "fixed"} /\ discount.value \in Nat  BY AmountTypes DEF Discounts
<1>3. B!ShownDiscount \in Nat
  <2>1. B!ShownSubtotal * discount.value \in Nat  BY <1>1, <1>2
  <2>2. B!Round(B!ShownSubtotal * discount.value, 100) \in Nat  BY <2>1, RoundIs
  <2> QED  BY <1>2, <2>2 DEF B!ShownDiscount
<1>4. B!ShownTotal \in Nat  BY <1>1, <1>3 DEF B!ShownTotal
<1>5. ASSUME price = basket.price, B!Allowed  PROVE B!Total = B!ShownTotal
  <2>1. B!Discount \in Nat /\ B!Discount <= B!Subtotal  BY <1>5, AllowedFits
  <2>2. B!Discount = B!ShownDiscount /\ B!Subtotal = B!ShownSubtotal
    BY <1>1, <1>5 DEF B!Discount, B!ShownDiscount
  <2> QED  BY <1>1, <2>1, <2>2 DEF B!Total, B!ShownTotal
<1> QED  BY <1>4, <1>5

(* What is asked for is what the page shows, which nobody changes meanwhile; a    *)
(* card pays that.                                                               *)
SentAsShown ==
  request.at = "sent" =>
    request.shown = B!ShownTotal /\ (request.method # "cash" => request.paid = request.shown)

(* Each label moves the line of labels half a unit of the scale away from their  *)
(* sum at most.                                                                  *)
NearLabels ==
  /\ basket.quantity = 0 => basket.labels = 0
  /\ basket.weighed =>
       /\ 2 * (basket.price * basket.quantity) <= 2 * (basket.labels * Scale) + basket.scans * basket.price
       /\ 2 * (basket.labels * Scale) <= 2 * (basket.price * basket.quantity) + basket.scans * basket.price

(* The inductive invariant *)
AmountInv == B!TypeOK /\ SentAsShown /\ NearLabels /\ B!ChargedAsShown

(* Less than half a cent in all rounds to the labels.                            *)
LEMMA LabelsSum ==
  ASSUME NEW p \in Nat, NEW q \in Nat, NEW l \in Nat, NEW n \in Nat, n * p < Scale,
         2 * (p * q) <= 2 * (l * Scale) + n * p, 2 * (l * Scale) <= 2 * (p * q) + n * p
  PROVE  B!Line(p, q) = l
<1> DEFINE m == p * q
<1>1. m \in Nat /\ n * p \in Nat /\ l * Scale \in Nat /\ Scale * l = l * Scale /\ Scale \in Nat \ {0}
  BY AmountAssumption
<1>2. 2 * m <= 2 * (l * Scale) + n * p /\ 2 * (l * Scale) <= 2 * m + n * p  OBVIOUS
<1> HIDE DEF m
<1>3. 2 * (Scale * l) <= 2 * m + Scale /\ 2 * m < 2 * (Scale * l) + Scale  BY <1>1, <1>2
<1>4. B!Round(m, Scale) = l  BY <1>1, <1>3, RoundsTo
<1> QED  BY <1>4 DEF B!Line, m

(* One label more, read at the price of the line.                                *)
LEMMA LabelAdded ==
  ASSUME NEW p \in Nat, NEW q \in Nat, NEW l \in Nat, NEW n \in Nat, NEW c \in Nat, NEW k \in Nat,
         2 * (p * q) <= 2 * (l * Scale) + n * p, 2 * (l * Scale) <= 2 * (p * q) + n * p,
         2 * (p * k) <= 2 * (c * Scale) + p, 2 * (c * Scale) <= 2 * (p * k) + p
  PROVE  /\ 2 * (p * (q + k)) <= 2 * ((l + c) * Scale) + (n + 1) * p
         /\ 2 * ((l + c) * Scale) <= 2 * (p * (q + k)) + (n + 1) * p
<1>1. p * (q + k) = p * q + p * k /\ (n + 1) * p = n * p + p  OBVIOUS
<1>2. (l + c) * Scale = l * Scale + c * Scale  BY AmountAssumption
<1>3. /\ p * q \in Nat /\ p * k \in Nat /\ n * p \in Nat /\ l * Scale \in Nat /\ c * Scale \in Nat
  BY AmountAssumption
<1> QED  BY <1>1, <1>2, <1>3

(* The quantity of one label.                                                    *)
LEMMA LabelQuantityIs ==
  ASSUME NEW c \in Nat, price \in Nat
  PROVE  /\ B!LabelQuantity(c) \in Nat
         /\ B!LabelQuantity(c) > 0 =>
              /\ 2 * (price * B!LabelQuantity(c)) <= 2 * (c * Scale) + price
              /\ 2 * (c * Scale) <= 2 * (price * B!LabelQuantity(c)) + price
<1>1. CASE price = 0  BY <1>1 DEF B!LabelQuantity
<1>2. CASE price # 0
  <2> DEFINE k == B!Round(c * Scale, price)
  <2>1. c * Scale \in Nat  BY AmountAssumption
  <2>2. k \in Nat /\ 2 * (price * k) <= 2 * (c * Scale) + price /\ 2 * (c * Scale) < 2 * (price * k) + price
    BY <1>2, <2>1, RoundIs
  <2>3. B!LabelQuantity(c) = k  BY <1>2 DEF B!LabelQuantity
  <2> HIDE DEF k
  <2>4. price * k \in Nat  BY <2>2
  <2> QED  BY <2>1, <2>2, <2>3, <2>4
<1> QED  BY <1>1, <1>2

(* The basket is edited; nothing is asked for meanwhile.                         *)
LEMMA EditStep ==
  ASSUME AmountInv, NEW d \in Discounts, B!Edits(d), basket' \in Baskets, NearLabels'
  PROVE  AmountInv'
<1>1. UNCHANGED <<price, admin, request>> /\ registered' = B!NoSale /\ discount' = d /\ request.at = "none"
  BY DEF B!Edits
<1>2. B!NoSale \in Sales /\ B!NoSale.method = "cash"  BY DEF B!NoSale, Sales
<1>3. /\ price' \in Prices /\ admin' \in BOOLEAN /\ discount' \in Discounts /\ request' \in Asked
      /\ registered' \in Sales
  BY <1>1, <1>2, AmountTypes DEF AmountInv
<1>4. B!TypeOK'  BY <1>3 DEF B!TypeOK, Baskets, Discounts, Asked, Sales
<1>5. SentAsShown'  BY <1>1 DEF SentAsShown
<1>6. B!ChargedAsShown'  BY <1>1, <1>2 DEF B!ChargedAsShown
<1> QED  BY <1>4, <1>5, <1>6 DEF AmountInv

(* The steps of the page.                                                        *)
LEMMA PageSteps ==
  ASSUME AmountInv,
         \/ B!ScanLabel \/ B!ChangeQuantity \/ B!RemoveLine \/ B!AddMiscellaneous \/ B!ApplyDiscount
  PROVE  AmountInv'
<1>1. price \in Prices /\ admin \in BOOLEAN /\ basket \in Baskets /\ discount \in Discounts
  BY AmountTypes DEF AmountInv
<1>2. price \in Nat  BY <1>1, AmountAssumption
<1>3. /\ basket.price \in Nat /\ basket.quantity \in Nat /\ basket.others \in Nat /\ basket.scans \in Nat
      /\ basket.labels \in Nat /\ basket.weighed \in BOOLEAN
  BY <1>1 DEF Baskets
<1>4. ASSUME NEW c \in Payloads, NEW k, NEW p, k = B!LabelQuantity(c), k > 0,
             p = IF basket.quantity = 0 THEN price ELSE basket.price, B!Edits(discount),
             basket' = [basket EXCEPT !.price = p, !.quantity = basket.quantity + k,
                                      !.scans = basket.scans + 1, !.labels = basket.labels + c,
                                      !.weighed = basket.weighed /\ p = price]
      PROVE  AmountInv'
  <2>1. c \in Nat  BY AmountAssumption
  <2>2. k \in Nat /\ 2 * (price * k) <= 2 * (c * Scale) + price /\ 2 * (c * Scale) <= 2 * (price * k) + price
    BY <1>2, <1>4, <2>1, LabelQuantityIs
  <2>3. p \in Nat  BY <1>2, <1>3, <1>4
  <2>4. /\ basket'.price = p /\ basket'.quantity = basket.quantity + k /\ basket'.scans = basket.scans + 1
        /\ basket'.labels = basket.labels + c /\ basket'.weighed = (basket.weighed /\ p = price)
        /\ basket'.others = basket.others
    BY <1>1, <1>4 DEF Baskets
  <2>5. basket' \in Baskets
    <3> DEFINE v == basket.weighed /\ p = price
    <3>1. basket' = [basket EXCEPT !.price = p, !.quantity = basket.quantity + k, !.scans = basket.scans + 1,
                                   !.labels = basket.labels + c, !.weighed = v]
      BY <1>4
    <3>2. v \in BOOLEAN  BY <1>3
    <3>3. basket.quantity + k \in Nat /\ basket.scans + 1 \in Nat /\ basket.labels + c \in Nat
      BY <1>3, <2>1, <2>2
    <3> HIDE DEF v
    <3> QED  BY <1>1, <2>3, <3>1, <3>2, <3>3 DEF Baskets
  <2>6. NearLabels'
    <3>1. basket'.quantity # 0  BY <1>3, <1>4, <2>2, <2>4
    <3>2. ASSUME basket.weighed, p = price
          PROVE  /\ 2 * (price * basket.quantity) <= 2 * (basket.labels * Scale) + basket.scans * price
                 /\ 2 * (basket.labels * Scale) <= 2 * (price * basket.quantity) + basket.scans * price
      <4>1. CASE basket.quantity = 0
        <5>1. basket.labels = 0  BY <4>1 DEF AmountInv, NearLabels
        <5>2. price * basket.quantity = 0 /\ basket.labels * Scale = 0 /\ basket.scans * price \in Nat
          BY <1>2, <1>3, <4>1, <5>1, AmountAssumption
        <5> QED  BY <5>2
      <4>2. CASE basket.quantity # 0
        <5>1. basket.price = price  BY <1>4, <3>2, <4>2
        <5> QED  BY <3>2, <5>1 DEF AmountInv, NearLabels
      <4> QED  BY <4>1, <4>2
    <3>3. ASSUME basket.weighed, p = price
          PROVE  /\ 2 * (price * (basket.quantity + k)) <= 2 * ((basket.labels + c) * Scale) + (basket.scans + 1) * price
                 /\ 2 * ((basket.labels + c) * Scale) <= 2 * (price * (basket.quantity + k)) + (basket.scans + 1) * price
      BY <1>2, <1>3, <2>1, <2>2, <3>2, <3>3, LabelAdded
    <3> QED  BY <2>4, <3>1, <3>3 DEF NearLabels
  <2> QED  BY <1>1, <1>4, <2>5, <2>6, EditStep
<1>5. ASSUME NEW q \in Nat, q # 0, B!Edits(discount),
             basket' = [basket EXCEPT !.quantity = q, !.weighed = FALSE]
      PROVE  AmountInv'
  <2>1. basket' \in Baskets /\ basket'.quantity = q /\ basket'.weighed = FALSE  BY <1>1, <1>5 DEF Baskets
  <2>2. NearLabels'  BY <1>5, <2>1 DEF NearLabels
  <2> QED  BY <1>1, <1>5, <2>1, <2>2, EditStep
<1>6. CASE B!RemoveLine
  <2>1. B!Edits(discount) /\ basket' = [B!EmptyCart EXCEPT !.others = basket.others, !.scans = basket.scans]
    BY <1>6 DEF B!RemoveLine
  <2>2. /\ basket' = [price |-> 0, quantity |-> 0, others |-> basket.others, scans |-> basket.scans,
                      labels |-> 0, weighed |-> TRUE]
    BY <2>1 DEF B!EmptyCart
  <2>3. basket' \in Baskets  BY <1>3, <2>2 DEF Baskets
  <2>4. NearLabels'
    <3>1. /\ basket'.price = 0 /\ basket'.quantity = 0 /\ basket'.labels = 0 /\ basket'.scans = basket.scans
      BY <2>2
    <3>2. 0 * Scale = 0 /\ basket.scans * 0 = 0  BY <1>3, AmountAssumption
    <3> QED  BY <3>1, <3>2 DEF NearLabels
  <2> QED  BY <1>1, <2>1, <2>3, <2>4, EditStep
<1>7. ASSUME NEW c \in Others, B!Edits(discount), basket' = [basket EXCEPT !.others = c]
      PROVE  AmountInv'
  <2>1. c \in Nat  BY AmountAssumption
  <2>2. /\ basket' \in Baskets
        /\ basket'.price = basket.price /\ basket'.quantity = basket.quantity /\ basket'.scans = basket.scans
        /\ basket'.labels = basket.labels /\ basket'.weighed = basket.weighed
    BY <1>1, <1>7, <2>1 DEF Baskets
  <2>3. NearLabels'  BY <2>2 DEF AmountInv, NearLabels
  <2> QED  BY <1>1, <1>7, <2>2, <2>3, EditStep
<1>8. ASSUME NEW d, B!Edits(d), basket' = basket,
             \/ d \in [type : {"percentage"}, value : {v \in Percentages : v <= B!PercentageLimit}]
             \/ d \in [type : {"fixed"}, value : {v \in Fixed : v <= B!FixedLimit(B!ShownSubtotal)}]
      PROVE  AmountInv'
  <2>1. d \in Discounts
    <3>1. Percentages \subseteq Nat /\ Fixed \subseteq Nat  BY AmountAssumption
    <3> QED  BY <1>8, <3>1 DEF Discounts
  <2>2. NearLabels'  BY <1>8 DEF AmountInv, NearLabels
  <2> QED  BY <1>1, <1>8, <2>1, <2>2, EditStep
<1> QED
  <2>1. CASE B!ScanLabel
    <3>1. PICK c \in Payloads :
            LET quantity == basket.quantity + B!LabelQuantity(c)
                p == IF basket.quantity = 0 THEN price ELSE basket.price IN
            /\ B!LabelQuantity(c) > 0 /\ quantity <= Stock
            /\ basket' = [basket EXCEPT !.price = p, !.quantity = quantity, !.scans = basket.scans + 1,
                                        !.labels = basket.labels + c, !.weighed = basket.weighed /\ p = price]
      BY <2>1 DEF B!ScanLabel
    <3>2. B!Edits(discount)  BY <2>1 DEF B!ScanLabel
    <3> QED  BY <1>4, <3>1, <3>2
  <2>2. CASE B!ChangeQuantity
    <3>1. PICK q \in {n \in {basket.quantity + Scale, basket.quantity - Scale} : 0 < n /\ n <= Stock} :
            basket' = [basket EXCEPT !.quantity = q, !.weighed = FALSE]
      BY <2>2 DEF B!ChangeQuantity
    <3>2. q \in Nat /\ q # 0  BY <1>3, <3>1, AmountAssumption
    <3> QED  BY <1>5, <2>2, <3>1, <3>2 DEF B!ChangeQuantity
  <2>3. CASE B!AddMiscellaneous  BY <1>7, <2>3 DEF B!AddMiscellaneous
  <2>4. CASE B!ApplyDiscount  BY <1>8, <2>4 DEF B!ApplyDiscount
  <2> QED  BY <1>6, <2>1, <2>2, <2>3, <2>4

(* The page asks for the sale (checkout).                                        *)
LEMMA CheckoutStep ==
  ASSUME AmountInv, B!Checkout
  PROVE  AmountInv'
<1>1. /\ price \in Prices /\ admin \in BOOLEAN /\ basket \in Baskets /\ discount \in Discounts
      /\ registered \in Sales /\ B!ShownTotal \in Nat
  BY AmountTypes, ShownIs DEF AmountInv
<1>2. UNCHANGED <<price, admin, basket, discount, registered>>  BY DEF B!Checkout
<1>3. PICK method \in {"cash", "card"}, more \in Notes :
        /\ method = "card" => more = 0
        /\ request' = [at |-> "sent", method |-> method, shown |-> B!ShownTotal,
                       paid |-> B!ShownTotal + more]
  BY DEF B!Checkout
<1>4. more \in Nat  BY AmountAssumption
<1>5. request' \in Asked  BY <1>1, <1>3, <1>4 DEF Asked
<1>6. B!TypeOK'  BY <1>1, <1>2, <1>5 DEF B!TypeOK, Baskets, Discounts, Asked, Sales
<1>7. B!ShownTotal' = B!ShownTotal
  BY <1>2 DEF B!ShownTotal, B!ShownSubtotal, B!ShownDiscount
<1>8. SentAsShown'  BY <1>1, <1>3, <1>4, <1>7 DEF SentAsShown
<1>9. NearLabels'  BY <1>2 DEF AmountInv, NearLabels
<1>10. B!ChargedAsShown'  BY <1>2 DEF AmountInv, B!ChargedAsShown
<1> QED  BY <1>6, <1>8, <1>9, <1>10 DEF AmountInv

(* The price is edited: what the page shows stays.                               *)
LEMMA EditPriceStep ==
  ASSUME AmountInv, B!EditPrice
  PROVE  AmountInv'
<1>1. price' \in Prices /\ UNCHANGED <<admin, basket, discount, request, registered>>  BY DEF B!EditPrice
<1>2. B!TypeOK'  BY <1>1 DEF AmountInv, B!TypeOK
<1>3. B!ShownTotal' = B!ShownTotal
  BY <1>1 DEF B!ShownTotal, B!ShownSubtotal, B!ShownDiscount
<1>4. SentAsShown'  BY <1>1, <1>3 DEF AmountInv, SentAsShown
<1>5. NearLabels' /\ B!ChargedAsShown'  BY <1>1 DEF AmountInv, NearLabels, B!ChargedAsShown
<1> QED  BY <1>2, <1>4, <1>5 DEF AmountInv

(* The server registers the sale or refuses it (create).                         *)
LEMMA CreateStep ==
  ASSUME AmountInv, B!Create
  PROVE  AmountInv'
<1>1. /\ price \in Prices /\ admin \in BOOLEAN /\ basket \in Baskets /\ discount \in Discounts
      /\ request \in Asked /\ registered \in Sales
  BY AmountTypes DEF AmountInv
<1>2. request.at = "sent" /\ request' = B!NoPost /\ UNCHANGED <<price, admin>>  BY DEF B!Create
<1>3. /\ B!NoPost \in Asked /\ B!NoPost.at = "none" /\ B!NoDiscount \in Discounts
      /\ B!EmptyCart \in Baskets
  BY DEF B!NoPost, Asked, B!NoDiscount, Discounts, B!EmptyCart, Baskets
<1>4. SentAsShown'  BY <1>2, <1>3 DEF SentAsShown
<1>5. CASE B!Allowed /\ B!PaymentAccepted
  <2>1. /\ registered' = [at |-> "sold", method |-> request.method, shown |-> request.shown,
                          total |-> B!Total, change |-> request.paid - B!Total]
        /\ basket' = B!EmptyCart /\ discount' = B!NoDiscount
    BY <1>5 DEF B!Create
  <2>2. B!Total \in Nat  BY <1>5, AllowedFits DEF AmountInv
  <2>3. request.paid \in Nat /\ request.shown \in Nat /\ request.method \in {"cash", "card"}
    BY <1>1 DEF Asked
  <2>4. request.paid >= B!Total /\ (request.method # "cash" => request.paid = B!Total)
    BY <1>5 DEF B!PaymentAccepted
  <2>5. registered' \in Sales  BY <2>1, <2>2, <2>3, <2>4 DEF Sales
  <2>6. B!TypeOK'  BY <1>1, <1>2, <1>3, <2>1, <2>5 DEF B!TypeOK, Baskets, Discounts, Asked, Sales
  <2>7. B!ChargedAsShown'  BY <1>2, <2>1, <2>4 DEF AmountInv, SentAsShown, B!ChargedAsShown
  <2>8. NearLabels'
    <3>1. /\ basket'.price = 0 /\ basket'.quantity = 0 /\ basket'.labels = 0 /\ basket'.scans = 0
      BY <2>1 DEF B!EmptyCart
    <3>2. 0 * Scale = 0  BY AmountAssumption
    <3> QED  BY <3>1, <3>2 DEF NearLabels
  <2> QED  BY <1>4, <2>6, <2>7, <2>8 DEF AmountInv
<1>6. CASE ~(B!Allowed /\ B!PaymentAccepted)
  <2>1. UNCHANGED <<registered, basket, discount>>  BY <1>6 DEF B!Create
  <2>2. B!TypeOK'  BY <1>1, <1>2, <1>3, <2>1 DEF B!TypeOK, Baskets, Discounts, Asked, Sales
  <2>3. NearLabels' /\ B!ChargedAsShown'  BY <2>1 DEF AmountInv, NearLabels, B!ChargedAsShown
  <2> QED  BY <1>4, <2>2, <2>3 DEF AmountInv
<1> QED  BY <1>5, <1>6

(* AmountsAgree: a card is charged what the page showed and the sale says, the    *)
(* page and the server compute the same while the price and the limits hold, and  *)
(* a line of labels is charged as they say below the bound, for every price,      *)
(* label, discount and number of scans.                                          *)
THEOREM AmountsAgreeHolds == B!Spec => [](B!TypeOK /\ AmountsAgree)
<1>1. B!Init => AmountInv
  <2>1. SUFFICES ASSUME B!Init  PROVE AmountInv  OBVIOUS
  <2>2. /\ price \in Prices /\ admin \in BOOLEAN /\ basket = B!EmptyCart /\ discount = B!NoDiscount
        /\ request = B!NoPost /\ registered = B!NoSale
    BY <2>1 DEF B!Init
  <2>3. B!TypeOK
    BY <2>2 DEF B!TypeOK, B!EmptyCart, B!NoDiscount, B!NoPost, B!NoSale
  <2>4. SentAsShown /\ B!ChargedAsShown
    BY <2>2 DEF SentAsShown, B!ChargedAsShown, B!NoPost, B!NoSale
  <2>5. NearLabels
    <3>1. basket.price = 0 /\ basket.quantity = 0 /\ basket.labels = 0 /\ basket.scans = 0
      BY <2>2 DEF B!EmptyCart
    <3>2. 0 * Scale = 0  BY AmountAssumption
    <3> QED  BY <3>1, <3>2 DEF NearLabels
  <2> QED  BY <2>3, <2>4, <2>5 DEF AmountInv
<1>2. AmountInv /\ [B!Next]_B!amountVars => AmountInv'
  <2>1. SUFFICES ASSUME AmountInv, [B!Next]_B!amountVars  PROVE AmountInv'  OBVIOUS
  <2>2. CASE UNCHANGED B!amountVars
    <3>1. UNCHANGED <<price, admin, basket, discount, request, registered>>  BY <2>2 DEF B!amountVars
    <3>2. B!ShownTotal' = B!ShownTotal
      BY <3>1 DEF B!ShownTotal, B!ShownSubtotal, B!ShownDiscount
    <3>3. B!TypeOK'  BY <2>1, <3>1 DEF AmountInv, B!TypeOK
    <3>4. SentAsShown' /\ NearLabels' /\ B!ChargedAsShown'
      BY <2>1, <3>1, <3>2 DEF AmountInv, SentAsShown, NearLabels, B!ChargedAsShown
    <3> QED  BY <3>3, <3>4 DEF AmountInv
  <2>3. CASE B!Next
    BY <2>1, <2>3, PageSteps, CheckoutStep, EditPriceStep, CreateStep DEF B!Next
  <2> QED  BY <2>1, <2>2, <2>3
<1>3. AmountInv => B!TypeOK /\ AmountsAgree
  <2>1. SUFFICES ASSUME AmountInv  PROVE AmountsAgree  BY DEF AmountInv
  <2>2. B!SameArithmetic  BY <2>1, ShownIs DEF AmountInv, SentAsShown, B!SameArithmetic
  <2>3. B!LabelsCharged
    <3>1. SUFFICES ASSUME basket.weighed, basket.scans * basket.price < Scale
                   PROVE  B!Line(basket.price, basket.quantity) = basket.labels
      BY DEF B!LabelsCharged
    <3>2. basket.price \in Nat /\ basket.quantity \in Nat /\ basket.scans \in Nat /\ basket.labels \in Nat
      BY <2>1, AmountTypes DEF AmountInv, Baskets
    <3> QED  BY <2>1, <3>1, <3>2, LabelsSum DEF AmountInv, NearLabels
  <2> QED  BY <2>1, <2>2, <2>3 DEF AmountInv, AmountsAgree, B!AmountsAgree
<1> QED  BY <1>1, <1>2, <1>3, PTL DEF B!Spec

-----------------------------------------------------------------------------
(* Certificates: the bucket agrees with the row. The heart is that an         *)
(* upload's object is its own until it commits, and that nobody removes an    *)
(* object, or says that it is removed, unless a job was queued for it, which  *)
(* never happens to the one that the row names.                               *)

(* The row, a job, a request and a worker's hands.                               *)
CertRow == [path : A!Objects \cup {Nobody}, valid : BOOLEAN, production : BOOLEAN, status : A!Statuses]
CleanupJobs == [state : {"none", "PENDING", "FAILED_RETRYABLE", "FAILED_FINAL", "DELIVERED"}, attempts : Nat]
CertRequests == [at : A!Steps, path : A!Objects \cup {Nobody}, gives : A!Statuses \cup {"none"}]
Cleanings == [at : {"idle", "remove", "removed", "failed"}, path : A!Objects \cup {Nobody}, attempts : Nat]

(* A job was asked for, whatever became of it.                                   *)
Ordered(p) == cleanupJob[p].state # "none"

(* The object of an upload that has not committed is its own.                    *)
Unshared ==
  \A u \in CertUploads : office[u].at \in {"idle", "store", "commit"} =>
    /\ config.path # u /\ ~Ordered(u) /\ u \notin unheard
    /\ \A r \in A!Asking : office[r].path # u
    /\ office[u].at = "commit" => u \in bucket

(* Who removes an object, or will say that it is removed, was told so by a job.  *)
Warranted ==
  /\ \A r \in A!Asking :
       /\ office[r].at \in {"clean", "deliver"} => office[r].path \in A!Objects /\ Ordered(office[r].path)
       /\ office[r].at = "deliver" => office[r].path \notin bucket \ astray
  /\ \A w \in Workers :
       /\ cleaner[w].at # "idle" => cleaner[w].path \in A!Objects /\ Ordered(cleaner[w].path)
       /\ cleaner[w].at = "removed" => cleaner[w].path \notin bucket \ astray

(* Where requests of each kind are, and what they have in hand.                  *)
InHand ==
  \A r \in A!Asking :
    /\ office[r].at \in {"commit", "rollback"} => r \in CertUploads
    /\ office[r].at = "rollback" => r \in unheard \/ config.path # r
    /\ office[r].at = "encrypt" => office[r].path = Old
    /\ office[r].at \in {"open", "encrypt", "accept", "reject"} => office[r].gives # "none"

(* The object that the row names is stored, and no job is out for it.            *)
NamedStays ==
  config.path # Nobody /\ config.path \notin unheard => config.path \in bucket /\ ~Ordered(config.path)

(* What is stored is named, queued or about to be: BucketAgrees, but that an     *)
(* upload which committed is not counted as under way.                           *)
StoredIsKept ==
  \A p \in bucket \ astray :
    \/ p = config.path \/ A!Open(p)
    \/ p \in CertUploads /\ office[p].at \in {"commit", "rollback"} /\ p \notin unheard

(* The inductive invariant *)
CertInv == A!TypeOK /\ Unshared /\ Warranted /\ InHand /\ NamedStays /\ StoredIsKept

(* The types, a conjunct at a time.                                              *)
LEMMA CertTypes ==
  ASSUME A!TypeOK
  PROVE  /\ config \in CertRow /\ bucket \subseteq A!Objects /\ astray \subseteq A!Objects
         /\ unheard \subseteq CertUploads /\ executed \in BOOLEAN /\ confirmed \in BOOLEAN
         /\ cleanupJob \in [A!Objects -> CleanupJobs] /\ office \in [A!Asking -> CertRequests]
         /\ cleaner \in [Workers -> Cleanings]
BY DEF A!TypeOK, CertRow, CleanupJobs, CertRequests, Cleanings

(* ... and back.                                                                 *)
LEMMA CertTyped ==
  ASSUME config' \in CertRow, bucket' \subseteq A!Objects, astray' \subseteq A!Objects,
         unheard' \subseteq CertUploads, executed' \in BOOLEAN, confirmed' \in BOOLEAN,
         cleanupJob' \in [A!Objects -> CleanupJobs], office' \in [A!Asking -> CertRequests],
         cleaner' \in [Workers -> Cleanings]
  PROVE  A!TypeOK'
BY DEF A!TypeOK, CertRow, CleanupJobs, CertRequests, Cleanings

(* The fields of what is written.                                                *)
LEMMA CertRowWritten ==
  ASSUME NEW c \in CertRow
  PROVE  /\ \A v \in BOOLEAN : [c EXCEPT !.valid = v] \in CertRow /\ [c EXCEPT !.valid = v].path = c.path
         /\ \A v \in BOOLEAN : [c EXCEPT !.production = v] \in CertRow /\ [c EXCEPT !.production = v].path = c.path
         /\ \A s \in A!Statuses : [c EXCEPT !.status = s] \in CertRow /\ [c EXCEPT !.status = s].path = c.path
BY DEF CertRow
(* ... of two.                                                                   *)
LEMMA CertRowsWritten ==
  ASSUME NEW c \in CertRow, NEW v \in BOOLEAN, NEW s \in A!Statuses
  PROVE  /\ [c EXCEPT !.valid = v, !.status = s] \in CertRow
         /\ [c EXCEPT !.valid = v, !.status = s].path = c.path
         /\ [c EXCEPT !.production = v, !.status = s] \in CertRow
         /\ [c EXCEPT !.production = v, !.status = s].path = c.path
<1>1. /\ [c EXCEPT !.valid = v, !.status = s] = [[c EXCEPT !.valid = v] EXCEPT !.status = s]
      /\ [c EXCEPT !.production = v, !.status = s] = [[c EXCEPT !.production = v] EXCEPT !.status = s]
  BY DEF CertRow
<1>2. /\ [c EXCEPT !.valid = v] \in CertRow /\ [c EXCEPT !.valid = v].path = c.path
      /\ [c EXCEPT !.production = v] \in CertRow /\ [c EXCEPT !.production = v].path = c.path
  BY CertRowWritten
<1> DEFINE d == [c EXCEPT !.valid = v]
           e == [c EXCEPT !.production = v]
<1>3. /\ d \in CertRow /\ d.path = c.path /\ [c EXCEPT !.valid = v, !.status = s] = [d EXCEPT !.status = s]
      /\ e \in CertRow /\ e.path = c.path /\ [c EXCEPT !.production = v, !.status = s] = [e EXCEPT !.status = s]
  BY <1>1, <1>2
<1> HIDE DEF d, e
<1>4. /\ [d EXCEPT !.status = s] \in CertRow /\ [d EXCEPT !.status = s].path = d.path
      /\ [e EXCEPT !.status = s] \in CertRow /\ [e EXCEPT !.status = s].path = e.path
  BY <1>3, CertRowWritten
<1> QED  BY <1>3, <1>4
(* Where a request stands is written.                                            *)
LEMMA RequestWritten ==
  ASSUME NEW q \in CertRequests, NEW s \in A!Steps
  PROVE  /\ [q EXCEPT !.at = s] \in CertRequests
         /\ [q EXCEPT !.at = s].at = s /\ [q EXCEPT !.at = s].path = q.path /\ [q EXCEPT !.at = s].gives = q.gives
BY DEF CertRequests
(* What a request has in hand is written.                                        *)
LEMMA HandWritten ==
  ASSUME NEW q \in CertRequests, NEW p \in A!Objects \cup {Nobody}
  PROVE  /\ [q EXCEPT !.path = p] \in CertRequests
         /\ [q EXCEPT !.path = p].at = q.at /\ [q EXCEPT !.path = p].path = p
BY DEF CertRequests
(* The state of a job is written.                                                *)
LEMMA JobWritten ==
  ASSUME NEW q \in CleanupJobs, NEW s \in {"PENDING", "DELIVERED"}
  PROVE  [q EXCEPT !.state = s] \in CleanupJobs /\ [q EXCEPT !.state = s].state = s
BY DEF CleanupJobs
(* Where a worker stands is written.                                             *)
LEMMA CleaningWritten ==
  ASSUME NEW q \in Cleanings, NEW s \in {"removed", "failed"}
  PROVE  [q EXCEPT !.at = s] \in Cleanings /\ [q EXCEPT !.at = s].at = s /\ [q EXCEPT !.at = s].path = q.path
BY DEF Cleanings

(* One request moves, one job is written, one worker goes on.                    *)
Reaches(r, there, path) ==
  /\ office' \in [A!Asking -> CertRequests] /\ office'[r].at = there /\ office'[r].path = path
  /\ \A s \in A!Asking \ {r} : office'[s] = office[s]
JobBecomes(p, s) ==
  /\ cleanupJob' \in [A!Objects -> CleanupJobs] /\ cleanupJob'[p].state = s
  /\ \A q \in A!Objects \ {p} : cleanupJob'[q] = cleanupJob[q]
Turns(w, there, path) ==
  /\ cleaner' \in [Workers -> Cleanings] /\ cleaner'[w].at = there /\ cleaner'[w].path = path
  /\ \A v \in Workers \ {w} : cleaner'[v] = cleaner[v]

(* Goes: who is done has nothing in hand.                                        *)
LEMMA CertGoes ==
  ASSUME A!TypeOK, NEW r \in A!Asking, NEW there \in A!Steps, A!Goes(r, there)
  PROVE  /\ Reaches(r, there, IF there = "done" THEN Nobody ELSE office[r].path)
         /\ there # "done" => office'[r].gives = office[r].gives
<1>1. office \in [A!Asking -> CertRequests]  BY CertTypes
<1>2. office[r] \in CertRequests  BY <1>1
<1>3. CASE there = "done"
  <2> DEFINE q == [A!Idle EXCEPT !.at = "done"]
  <2>1. A!Idle \in CertRequests /\ A!Idle.path = Nobody  BY DEF A!Idle, CertRequests, A!Steps
  <2>2. q \in CertRequests /\ q.at = "done" /\ q.path = Nobody
    <3> DEFINE i == A!Idle
    <3>1. i \in CertRequests /\ i.path = Nobody  BY <2>1
    <3>2. "done" \in A!Steps /\ Nobody \in A!Objects \cup {Nobody}  BY DEF A!Steps
    <3> HIDE DEF i
    <3>3. /\ [i EXCEPT !.at = "done"] \in CertRequests /\ [i EXCEPT !.at = "done"].at = "done"
          /\ [i EXCEPT !.at = "done"].path = i.path
      BY <3>1, <3>2, RequestWritten
    <3> QED  BY <3>1, <3>3 DEF i
  <2>3. office' = [office EXCEPT ![r] = q]  BY <1>3 DEF A!Goes
  <2> HIDE DEF q
  <2> QED  BY <1>1, <1>3, <2>2, <2>3 DEF Reaches
<1>4. CASE there # "done"
  <2> DEFINE q == [office[r] EXCEPT !.at = there]
  <2>1. q \in CertRequests /\ q.at = there /\ q.path = office[r].path /\ q.gives = office[r].gives
    BY <1>2, RequestWritten
  <2>2. office' = [office EXCEPT ![r] = q]  BY <1>4 DEF A!Goes
  <2> HIDE DEF q
  <2> QED  BY <1>1, <1>4, <2>1, <2>2 DEF Reaches
<1> QED  BY <1>3, <1>4

(* Read: the object that the row names.                                          *)
LEMMA CertReads ==
  ASSUME A!TypeOK, NEW r \in A!Asking, NEW there \in A!Steps, A!Read(r, there)
  PROVE  Reaches(r, there, config.path) /\ (r \in Checks => office'[r].gives # "none")
<1>1. office \in [A!Asking -> CertRequests] /\ config \in CertRow  BY CertTypes
<1> DEFINE q == [at |-> there, path |-> config.path, gives |-> IF r \in Checks THEN A!Accepted ELSE "none"]
<1>2. A!Accepted \in A!Statuses /\ A!Accepted # "none"  BY DEF A!Accepted, A!Statuses
<1>3. config.path \in A!Objects \cup {Nobody}  BY <1>1 DEF CertRow
<1>4. q \in CertRequests  BY <1>2, <1>3 DEF CertRequests
<1>5. q.at = there /\ q.path = config.path /\ (r \in Checks => q.gives # "none")  BY <1>2
<1>6. office' = [office EXCEPT ![r] = q]  BY DEF A!Read
<1> HIDE DEF q
<1> QED  BY <1>1, <1>4, <1>5, <1>6 DEF Reaches

(* Enqueued, markDelivered.                                                      *)
LEMMA JobGoes ==
  ASSUME A!TypeOK, NEW p \in A!Objects, NEW s \in {"PENDING", "DELIVERED"},
         cleanupJob' = [cleanupJob EXCEPT ![p].state = s]
  PROVE  JobBecomes(p, s)
<1>1. cleanupJob \in [A!Objects -> CleanupJobs]  BY CertTypes
<1> DEFINE q == [cleanupJob[p] EXCEPT !.state = s]
<1>2. q \in CleanupJobs /\ q.state = s  BY <1>1, JobWritten
<1>3. cleanupJob' = [cleanupJob EXCEPT ![p] = q]  OBVIOUS
<1> HIDE DEF q
<1> QED  BY <1>1, <1>2, <1>3 DEF JobBecomes

(* What of a request counts elsewhere: where it is and the object it has in hand. *)
Errands == {"store", "rollback", "remove", "open", "activate", "encrypt", "accept", "reject", "done"}

(* A request reads, waits, gives up or dies: it leaves the row's object, the      *)
(* bucket and the jobs alone.                                                    *)
LEMMA ErrandStep ==
  ASSUME CertInv, A!TypeOK', config'.path = config.path,
         UNCHANGED <<bucket, cleanupJob, cleaner, unheard>>, astray \subseteq astray',
         NEW r \in A!Asking, NEW there \in Errands, NEW path \in {Nobody, office[r].path, config.path},
         Reaches(r, there, path), there = "store" => office[r].at = "idle", there = "encrypt" => path = Old,
         there \in {"open", "encrypt", "accept", "reject"} => office'[r].gives # "none",
         there = "rollback" => office[r].at = "commit" /\ path = office[r].path,
         office[r].at \in {"commit", "rollback"} => there = "rollback" \/ r \in astray' \cup unheard
  PROVE  CertInv'
<1>1. Nobody \notin CertUploads  BY CertificateAssumption
<1>2. CertUploads \subseteq A!Asking  BY DEF A!Asking
<1>3. \A p : Ordered(p)' <=> Ordered(p)  BY DEF Ordered
<1>a. Unshared'  BY <1>1, <1>2, <1>3 DEF CertInv, Unshared, Reaches, Errands
<1>b. Warranted'  BY <1>3 DEF CertInv, Warranted, Reaches, Errands
<1>c. InHand'  BY DEF CertInv, InHand, Unshared, Reaches, Errands
<1>d. NamedStays'  BY <1>3 DEF CertInv, NamedStays
<1>e. StoredIsKept'  BY <1>2 DEF CertInv, StoredIsKept, Reaches, A!Open
<1> QED  BY <1>a, <1>b, <1>c, <1>d, <1>e DEF CertInv

(* The status of production changes, or a worker dies.                           *)
LEMMA CertSame ==
  ASSUME CertInv, A!TypeOK', config'.path = config.path, UNCHANGED <<bucket, cleanupJob, office, astray, unheard>>,
         \/ cleaner' = cleaner
         \/ \E w \in Workers : Turns(w, "idle", Nobody)
  PROVE  CertInv'
<1>3. \A p : Ordered(p)' <=> Ordered(p)  BY DEF Ordered
<1>a. Unshared'  BY <1>3 DEF CertInv, Unshared
<1>b. Warranted'  BY <1>3 DEF CertInv, Warranted, Turns
<1>c. InHand'  BY DEF CertInv, InHand
<1>d. NamedStays'  BY <1>3 DEF CertInv, NamedStays
<1>e. StoredIsKept'  BY DEF CertInv, StoredIsKept, A!Open
<1> QED  BY <1>a, <1>b, <1>c, <1>d, <1>e DEF CertInv

(* An object is stored whose name only its upload knows, which goes on to commit *)
(* it, or goes away and leaves it.                                               *)
LEMMA ObjectStored ==
  ASSUME CertInv, A!TypeOK', NEW u \in CertUploads, office[u].at = "store",
         UNCHANGED <<config, cleanupJob, cleaner, unheard>>, bucket' = bucket \cup {u},
         \/ Reaches(u, "commit", office[u].path) /\ astray' = astray
         \/ Reaches(u, "done", Nobody) /\ astray' = astray \cup {u}
  PROVE  CertInv'
<1>1. Nobody \notin CertUploads  BY CertificateAssumption
<1>2. CertUploads \subseteq A!Asking  BY DEF A!Asking
<1>3. \A p : Ordered(p)' <=> Ordered(p)  BY DEF Ordered
<1>4. /\ config.path # u /\ ~Ordered(u) /\ u \notin unheard /\ \A r \in A!Asking : office[r].path # u
      /\ bucket' \ astray' \subseteq (bucket \ astray) \cup {u}
  BY DEF CertInv, Unshared
<1>a. Unshared'  BY <1>1, <1>2, <1>3 DEF CertInv, Unshared, Reaches
<1>b. Warranted'  BY <1>3, <1>4 DEF CertInv, Warranted, Reaches
<1>c. InHand'  BY DEF CertInv, InHand, Reaches
<1>d. NamedStays'  BY <1>3 DEF CertInv, NamedStays
<1>e. StoredIsKept'  BY <1>2, <1>4 DEF CertInv, StoredIsKept, Reaches, A!Open
<1> QED  BY <1>a, <1>b, <1>c, <1>d, <1>e DEF CertInv

(* What the row named is queued for removal, or nobody knows of it: the one that *)
(* was read is not the one that is replaced.                                     *)
Unnames(named, path) ==
  /\ astray' = astray \cup ({named} \ {path, Nobody})
  /\ \/ path = Nobody /\ cleanupJob' = cleanupJob
     \/ path \in A!Objects /\ JobBecomes(path, "PENDING")
(* ... so that it is one or the other, and no other job is touched.              *)
LEMMA QueuedOrAstray ==
  ASSUME NEW path, NEW named, Unnames(named, path)
  PROVE  /\ named \in {Nobody, path} \cup astray' /\ astray \subseteq astray'
         /\ \A p \in A!Objects : p # path => cleanupJob'[p] = cleanupJob[p]
         /\ path \in A!Objects => cleanupJob'[path].state = "PENDING"
<1>1. Nobody \notin A!Objects  BY CertificateAssumption DEF A!Objects
<1> QED  BY <1>1 DEF Unnames, JobBecomes

(* An upload commits its object in the place of the one that it read.            *)
LEMMA ObjectNamed ==
  ASSUME CertInv, A!TypeOK', NEW u \in CertUploads, office[u].at = "commit",
         UNCHANGED <<bucket, cleaner>>, config'.path = u,
         NEW path \in A!Objects \cup {Nobody}, path = office[u].path, Unnames(config.path, path),
         \/ Reaches(u, "clean", path) /\ path # Nobody /\ unheard' = unheard
         \/ Reaches(u, "done", Nobody) /\ unheard' = unheard
         \/ Reaches(u, "rollback", path) /\ unheard' = unheard \cup {u}
  PROVE  CertInv'
<1>1. Nobody \notin CertUploads /\ Old \notin CertUploads  BY CertificateAssumption
<1>2. CertUploads \subseteq A!Asking /\ CertUploads \subseteq A!Objects  BY DEF A!Asking, A!Objects
<1>0. config.path \in A!Objects \cup {Nobody} /\ bucket \subseteq A!Objects
  BY CertTypes DEF CertInv, CertRow
<1>3. /\ config.path \in {Nobody, path} \cup astray' /\ astray \subseteq astray'
      /\ \A p \in A!Objects : p # path => cleanupJob'[p] = cleanupJob[p]
      /\ path \in A!Objects => cleanupJob'[path].state = "PENDING"
  BY QueuedOrAstray
<1>4. /\ ~Ordered(u) /\ u \notin unheard /\ u \in bucket /\ \A r \in A!Asking : office[r].path # u
  BY DEF CertInv, Unshared
<1>5. ~Ordered(u)' /\ u # path  BY <1>2, <1>3, <1>4 DEF Ordered
<1>7. \A v \in CertUploads \ {u} : office[v].at \in {"idle", "store", "commit"} =>
        v # path /\ ~Ordered(v)'
  BY <1>2, <1>3 DEF CertInv, Unshared, Ordered
<1>8. \A v \in CertUploads \ {u} : office[v].at \in {"idle", "store", "commit"} =>
        \A r \in A!Asking : office'[r].path # v
  BY <1>1, <1>2 DEF CertInv, Unshared, Reaches
<1>a. Unshared'  BY <1>2, <1>7, <1>8 DEF CertInv, Unshared, Reaches
<1>b. Warranted'
  <2>1. \A p \in A!Objects : cleanupJob[p].state # "none" => cleanupJob'[p].state # "none"  BY <1>3
  <2>3. \A w \in Workers :
          /\ cleaner'[w].at # "idle" => cleaner'[w].path \in A!Objects /\ cleanupJob'[cleaner'[w].path].state # "none"
          /\ cleaner'[w].at = "removed" => cleaner'[w].path \notin bucket' \ astray'
    BY <1>3, <2>1 DEF CertInv, Warranted, Ordered
  <2>4. \A r \in A!Asking \ {u} :
          /\ office'[r].at \in {"clean", "deliver"} =>
               office'[r].path \in A!Objects /\ cleanupJob'[office'[r].path].state # "none"
          /\ office'[r].at = "deliver" => office'[r].path \notin bucket' \ astray'
    BY <1>3, <2>1 DEF CertInv, Warranted, Ordered, Reaches
  <2>5. office'[u].at = "clean" => office'[u].path \in A!Objects /\ cleanupJob'[office'[u].path].state # "none"
    BY <1>3 DEF Reaches
  <2>6. office'[u].at # "deliver"  BY DEF Reaches
  <2> QED  BY <2>3, <2>4, <2>5, <2>6 DEF Warranted, Ordered
<1>c. InHand'  BY <1>2 DEF CertInv, InHand, Reaches
<1>d. NamedStays'  BY <1>4, <1>5 DEF NamedStays, Ordered
<1>e. StoredIsKept'
  <2>1. ASSUME NEW p \in bucket' \ astray'
        PROVE  \/ p = config'.path \/ A!Open(p)'
               \/ p \in CertUploads /\ office'[p].at \in {"commit", "rollback"} /\ p \notin unheard'
    <3>1. p \in A!Objects /\ p \in bucket \ astray /\ p # Nobody
      BY <1>0, CertificateAssumption DEF Unnames, A!Objects
    <3>2. CASE p = config.path  BY <1>3, <2>1, <3>1, <3>2 DEF A!Open
    <3>3. CASE A!Open(p)  BY <1>3, <3>1, <3>3 DEF A!Open
    <3>4. CASE p = u  BY <3>4
    <3>5. CASE p # u /\ p \in CertUploads /\ office[p].at \in {"commit", "rollback"} /\ p \notin unheard
      BY <1>2, <3>5 DEF Reaches
    <3> QED  BY <3>1, <3>2, <3>3, <3>4, <3>5 DEF CertInv, StoredIsKept
  <2> QED  BY <2>1 DEF StoredIsKept
<1> QED  BY <1>a, <1>b, <1>c, <1>d, <1>e DEF CertInv

(* A removal commits: the row names nothing any more.                            *)
LEMMA NameRemoved ==
  ASSUME CertInv, A!TypeOK', NEW x \in A!Asking, office[x].at = "remove",
         UNCHANGED <<bucket, cleaner, unheard>>, config'.path = Nobody,
         NEW path \in A!Objects, path = office[x].path, Unnames(config.path, path),
         Reaches(x, "clean", path)
  PROVE  CertInv'
<1>1. CertUploads \subseteq A!Asking /\ CertUploads \subseteq A!Objects  BY DEF A!Asking, A!Objects
<1>2. config.path \in A!Objects \cup {Nobody} /\ bucket \subseteq A!Objects
  BY CertTypes DEF CertInv, CertRow
<1>3. /\ config.path \in {Nobody, path} \cup astray' /\ astray \subseteq astray'
      /\ \A p \in A!Objects : p # path => cleanupJob'[p] = cleanupJob[p]
      /\ cleanupJob'[path].state = "PENDING"
  BY QueuedOrAstray
<1>4. \A p \in A!Objects : cleanupJob[p].state # "none" => cleanupJob'[p].state # "none"  BY <1>3
<1>5. Nobody \notin A!Objects  BY CertificateAssumption DEF A!Objects
<1>a. Unshared'
  <2>1. \A v \in CertUploads : office[v].at \in {"idle", "store", "commit"} =>
          v # path /\ cleanupJob'[v].state = "none"
    BY <1>1, <1>3 DEF CertInv, Unshared, Ordered
  <2>2. \A v \in CertUploads : office[v].at \in {"idle", "store", "commit"} =>
          \A r \in A!Asking : office'[r].path # v
    BY <1>1, <2>1 DEF CertInv, Unshared, Reaches
  <2> QED  BY <1>1, <1>5, <2>1, <2>2 DEF CertInv, Unshared, Reaches, Ordered
<1>b. Warranted'
  <2>1. \A w \in Workers :
          /\ cleaner'[w].at # "idle" => cleaner'[w].path \in A!Objects /\ cleanupJob'[cleaner'[w].path].state # "none"
          /\ cleaner'[w].at = "removed" => cleaner'[w].path \notin bucket' \ astray'
    BY <1>3, <1>4 DEF CertInv, Warranted, Ordered
  <2>2. \A r \in A!Asking \ {x} :
          /\ office'[r].at \in {"clean", "deliver"} =>
               office'[r].path \in A!Objects /\ cleanupJob'[office'[r].path].state # "none"
          /\ office'[r].at = "deliver" => office'[r].path \notin bucket' \ astray'
    BY <1>3, <1>4 DEF CertInv, Warranted, Ordered, Reaches
  <2>3. /\ office'[x].path \in A!Objects /\ cleanupJob'[office'[x].path].state # "none"
        /\ office'[x].at # "deliver"
    BY <1>3 DEF Reaches
  <2> QED  BY <2>1, <2>2, <2>3 DEF Warranted, Ordered
<1>c. InHand'  BY <1>1, <1>5 DEF CertInv, InHand, Reaches
<1>d. NamedStays'  BY DEF NamedStays
<1>e. StoredIsKept'
  <2>1. ASSUME NEW p \in bucket' \ astray'
        PROVE  \/ p = config'.path \/ A!Open(p)'
               \/ p \in CertUploads /\ office'[p].at \in {"commit", "rollback"} /\ p \notin unheard'
    <3>1. p \in A!Objects /\ p \in bucket \ astray /\ p # Nobody
      BY <1>2, <1>5 DEF Unnames
    <3>2. CASE p = config.path  BY <1>3, <2>1, <3>1, <3>2 DEF A!Open
    <3>3. CASE A!Open(p)  BY <1>3, <3>1, <3>3 DEF A!Open
    <3>4. CASE p \in CertUploads /\ office[p].at \in {"commit", "rollback"} /\ p \notin unheard
      BY <1>1, <3>4 DEF Reaches
    <3> QED  BY <3>1, <3>2, <3>3, <3>4 DEF CertInv, StoredIsKept
  <2> QED  BY <2>1 DEF StoredIsKept
<1> QED  BY <1>a, <1>b, <1>c, <1>d, <1>e DEF CertInv

(* A job is written of an object whose upload has ended, that is not there, or   *)
(* so that it is open: by who removed it (Deliver), by the worker (Settle) or by *)
(* an upload that queues what it has just stored (Rollback).                     *)
LEMMA JobSettled ==
  ASSUME CertInv, A!TypeOK', UNCHANGED <<config, bucket, astray, unheard>>,
         NEW p \in A!Objects, NEW s \in {"PENDING", "FAILED_RETRYABLE", "FAILED_FINAL", "DELIVERED"},
         JobBecomes(p, s), s = "DELIVERED" => p \notin bucket \ astray,
         config.path = p => Ordered(p) \/ p \in unheard,
         \A u \in CertUploads : office[u].at \in {"idle", "store", "commit"} => u # p,
         \/ /\ cleaner' = cleaner
            /\ \E r \in A!Asking :
                 /\ office[r].at = "deliver" \/ (office[r].at = "rollback" /\ r = p)
                 /\ (Reaches(r, "clean", p) \/ Reaches(r, "done", Nobody))
         \/ office' = office /\ \E w \in Workers : Turns(w, "idle", Nobody)
  PROVE  CertInv'
<1>1. CertUploads \subseteq A!Asking /\ CertUploads \subseteq A!Objects  BY DEF A!Asking, A!Objects
<1>2. Nobody \notin A!Objects  BY CertificateAssumption DEF A!Objects
<1>3. \A q \in A!Objects : q # p => cleanupJob'[q] = cleanupJob[q]  BY DEF JobBecomes
<1>4. cleanupJob'[p].state = s /\ s # "none"  BY DEF JobBecomes
<1>5. bucket \subseteq A!Objects /\ (config.path = Nobody \/ config.path \in A!Objects)
  BY CertTypes DEF CertInv, CertRow
<1>6. \A q \in A!Objects : cleanupJob[q].state # "none" => cleanupJob'[q].state # "none"  BY <1>3, <1>4
<1>7. /\ \A r \in A!Asking : office'[r] = office[r] \/ office'[r].at \in {"clean", "done"}
      /\ \A r \in A!Asking : office'[r].path \in {office[r].path, p, Nobody}
      /\ \A r \in A!Asking : office'[r].at = "clean" => office'[r] = office[r] \/ office'[r].path = p
      /\ \A r \in A!Asking : office'[r] = office[r] \/ office[r].at = "deliver" \/ (office[r].at = "rollback" /\ r = p)
  <2>1. CASE office' = office  BY <2>1
  <2>2. CASE office' # office
    <3>1. PICK r \in A!Asking : /\ office[r].at = "deliver" \/ (office[r].at = "rollback" /\ r = p)
                               /\ (Reaches(r, "clean", p) \/ Reaches(r, "done", Nobody))
      BY <2>2
    <3>2. \A q \in A!Asking : q # r => office'[q] = office[q]  BY <3>1 DEF Reaches
    <3>3. \/ office'[r].at = "clean" /\ office'[r].path = p
          \/ office'[r].at = "done" /\ office'[r].path = Nobody
      BY <3>1 DEF Reaches
    <3> QED  BY <3>1, <3>2, <3>3
  <2> QED  BY <2>1, <2>2
<1>a. Unshared'
  <2>1. \A u \in CertUploads : office'[u].at \in {"idle", "store", "commit"} =>
          u # p /\ office[u] = office'[u] /\ cleanupJob'[u] = cleanupJob[u]
    BY <1>1, <1>3, <1>7
  <2> QED  BY <1>1, <1>2, <1>7, <2>1 DEF CertInv, Unshared, Ordered
<1>b. Warranted'
  <2>1. \A w \in Workers : cleaner'[w] = cleaner[w] \/ cleaner'[w].at = "idle"  BY DEF Turns
  <2>2. \A w \in Workers :
          /\ cleaner'[w].at # "idle" => cleaner'[w].path \in A!Objects /\ cleanupJob'[cleaner'[w].path].state # "none"
          /\ cleaner'[w].at = "removed" => cleaner'[w].path \notin bucket' \ astray'
    BY <1>6, <2>1 DEF CertInv, Warranted, Ordered
  <2>3. \A r \in A!Asking :
          /\ office'[r].at \in {"clean", "deliver"} =>
               office'[r].path \in A!Objects /\ cleanupJob'[office'[r].path].state # "none"
          /\ office'[r].at = "deliver" => office'[r].path \notin bucket' \ astray'
    BY <1>4, <1>6, <1>7 DEF CertInv, Warranted, Ordered
  <2> QED  BY <2>2, <2>3 DEF Warranted, Ordered
<1>c. InHand'  BY <1>7 DEF CertInv, InHand
<1>d. NamedStays'
  <2>1. config.path # Nobody /\ config.path \notin unheard => config.path # p  BY DEF CertInv, NamedStays
  <2> QED  BY <1>3, <1>5, <2>1 DEF CertInv, NamedStays, Ordered
<1>e. StoredIsKept'
  <2>1. ASSUME NEW q \in bucket \ astray
        PROVE  \/ q = config.path \/ A!Open(q)'
               \/ q \in CertUploads /\ office'[q].at \in {"commit", "rollback"} /\ q \notin unheard
    <3>1. CASE q = p  BY <1>4, <2>1, <3>1 DEF A!Open
    <3>2. CASE q # p /\ A!Open(q)  BY <1>3, <1>5, <3>2 DEF A!Open
    <3>3. CASE q # p /\ q \in CertUploads /\ office[q].at \in {"commit", "rollback"} /\ q \notin unheard
      BY <1>1, <1>7, <3>3
    <3> QED  BY <3>1, <3>2, <3>3 DEF CertInv, StoredIsKept
  <2> QED  BY <2>1 DEF StoredIsKept
<1> QED  BY <1>a, <1>b, <1>c, <1>d, <1>e DEF CertInv

(* The bucket loses an object that a job warrants: by a request, which goes on   *)
(* to say so, or by the worker.                                                  *)
LEMMA ObjectRemoved ==
  ASSUME CertInv, A!TypeOK', UNCHANGED <<config, cleanupJob, astray, unheard>>,
         NEW p \in A!Objects, Ordered(p), bucket' \in {bucket, bucket \ {p}},
         \/ /\ cleaner' = cleaner
            /\ \E r \in A!Asking : office[r].at = "clean" /\ office[r].path = p /\ Reaches(r, "deliver", p)
            /\ bucket' = bucket \ {p}
         \/ /\ office' = office
            /\ \E w \in Workers :
                 /\ cleaner[w].at = "remove"
                 /\ \/ Turns(w, "removed", p) /\ bucket' = bucket \ {p}
                    \/ Turns(w, "failed", p)
  PROVE  CertInv'
<1>1. CertUploads \subseteq A!Asking /\ CertUploads \subseteq A!Objects  BY DEF A!Asking, A!Objects
<1>2. /\ \A r \in A!Asking : office'[r].path = office[r].path
      /\ \A r \in A!Asking :
           \/ office'[r] = office[r]
           \/ /\ office[r].at = "clean" /\ office'[r].at = "deliver"
              /\ office'[r].path = p /\ p \notin bucket'
      /\ \A w \in Workers :
           \/ cleaner'[w] = cleaner[w]
           \/ /\ cleaner'[w].path = p /\ cleaner'[w].at \in {"removed", "failed"}
              /\ cleaner'[w].at = "removed" => p \notin bucket'
  <2>1. CASE cleaner' = cleaner /\ office' # office
    <3>1. PICK r \in A!Asking : office[r].at = "clean" /\ office[r].path = p /\ Reaches(r, "deliver", p)
      BY <2>1
    <3>2. bucket' = bucket \ {p}  BY <2>1
    <3>3. \A s \in A!Asking : s # r => office'[s] = office[s]  BY <3>1 DEF Reaches
    <3>4. office'[r].at = "deliver" /\ office'[r].path = p  BY <3>1 DEF Reaches
    <3> QED  BY <2>1, <3>1, <3>2, <3>3, <3>4
  <2>2. CASE office' = office /\ cleaner' # cleaner
    <3>1. PICK w \in Workers : \/ Turns(w, "removed", p) /\ bucket' = bucket \ {p}
                              \/ Turns(w, "failed", p)
      BY <2>2
    <3>2. \A v \in Workers : v # w => cleaner'[v] = cleaner[v]  BY <3>1 DEF Turns
    <3>3. /\ cleaner'[w].path = p /\ cleaner'[w].at \in {"removed", "failed"}
          /\ cleaner'[w].at = "removed" => p \notin bucket'
      BY <3>1 DEF Turns
    <3> QED  BY <2>2, <3>2, <3>3
  <2>3. CASE office' = office /\ cleaner' = cleaner  BY <2>3
  <2> QED  BY <2>1, <2>2, <2>3
<1>3. cleanupJob[p].state # "none"  BY DEF Ordered
<1>a. Unshared'
  <2>1. \A u \in CertUploads : office'[u].at \in {"idle", "store", "commit"} => office[u] = office'[u] /\ u # p
    BY <1>1, <1>2, <1>3 DEF CertInv, Unshared, Ordered
  <2> QED  BY <1>1, <1>2, <2>1 DEF CertInv, Unshared, Ordered
<1>b. Warranted'  BY <1>2, <1>3 DEF CertInv, Warranted, Ordered
<1>c. InHand'  BY <1>2 DEF CertInv, InHand
<1>d. NamedStays'  BY <1>3 DEF CertInv, NamedStays, Ordered
<1>e. StoredIsKept'
  <2>1. ASSUME NEW q \in bucket' \ astray
        PROVE  \/ q = config.path \/ A!Open(q)'
               \/ q \in CertUploads /\ office'[q].at \in {"commit", "rollback"} /\ q \notin unheard
    <3>1. q \in bucket \ astray  BY <2>1
    <3>2. CASE A!Open(q)  BY <3>2 DEF A!Open
    <3>3. CASE q \in CertUploads /\ office[q].at \in {"commit", "rollback"} /\ q \notin unheard
      BY <1>1, <1>2, <3>3
    <3> QED  BY <3>1, <3>2, <3>3 DEF CertInv, StoredIsKept
  <2> QED  BY <2>1 DEF StoredIsKept
<1> QED  BY <1>a, <1>b, <1>c, <1>d, <1>e DEF CertInv

(* A validation stores the old object again: nobody removes it if it was gone.   *)
LEMMA StoredAgain ==
  ASSUME CertInv, A!TypeOK', UNCHANGED <<config, cleanupJob, cleaner, unheard>>,
         NEW v \in A!Asking, office[v].at = "encrypt", office[v].path = Old, office'[v].gives # "none",
         Reaches(v, "accept", Old), bucket' = bucket \cup {Old}, astray' = astray \cup ({Old} \ bucket)
  PROVE  CertInv'
<1>1. CertUploads \subseteq A!Asking /\ Old \notin CertUploads  BY CertificateAssumption DEF A!Asking
<1>2. bucket' \ astray' \subseteq bucket \ astray /\ bucket \subseteq bucket'  OBVIOUS
<1>a. Unshared'  BY <1>1, <1>2 DEF CertInv, Unshared, Reaches, Ordered
<1>b. Warranted'  BY <1>2 DEF CertInv, Warranted, Reaches, Ordered
<1>c. InHand'  BY DEF CertInv, InHand, Reaches
<1>d. NamedStays'  BY <1>2 DEF CertInv, NamedStays, Ordered
<1>e. StoredIsKept'  BY <1>1, <1>2 DEF CertInv, StoredIsKept, Reaches, A!Open
<1> QED  BY <1>a, <1>b, <1>c, <1>d, <1>e DEF CertInv

(* A worker takes a job that is due.                                             *)
LEMMA JobTaken ==
  ASSUME CertInv, A!TypeOK', UNCHANGED <<config, bucket, cleanupJob, office, astray, unheard>>,
         NEW w \in Workers, NEW p \in A!Objects, Ordered(p), Turns(w, "remove", p)
  PROVE  CertInv'
<1>a. Unshared'  BY DEF CertInv, Unshared, Ordered
<1>b. Warranted'  BY DEF CertInv, Warranted, Turns, Ordered
<1>c. InHand'  BY DEF CertInv, InHand
<1>d. NamedStays'  BY DEF CertInv, NamedStays, Ordered
<1>e. StoredIsKept'  BY DEF CertInv, StoredIsKept, A!Open
<1> QED  BY <1>a, <1>b, <1>c, <1>d, <1>e DEF CertInv

-----------------------------------------------------------------------------
(* The steps of an upload.                                                       *)
LEMMA CertUploadSteps ==
  ASSUME CertInv, NEW u \in CertUploads,
         A!BeginUpload(u) \/ A!Store(u) \/ A!CommitUpload(u) \/ A!Rollback(u)
  PROVE  CertInv'
<1>1. A!TypeOK /\ u \in A!Asking /\ u \in A!Objects  BY DEF CertInv, A!Asking, A!Objects
<1>2. /\ config \in CertRow /\ bucket \subseteq A!Objects /\ astray \subseteq A!Objects
      /\ unheard \subseteq CertUploads /\ executed \in BOOLEAN /\ confirmed \in BOOLEAN
      /\ cleanupJob \in [A!Objects -> CleanupJobs] /\ office \in [A!Asking -> CertRequests]
      /\ cleaner \in [Workers -> Cleanings]
  BY <1>1, CertTypes
<1>3. office[u].path \in A!Objects \cup {Nobody} /\ config.path \in A!Objects \cup {Nobody}
  BY <1>1, <1>2 DEF CertRequests, CertRow
<1>4. CASE A!BeginUpload(u)
  <2>1. A!Read(u, "store") /\ office[u].at = "idle"  BY <1>4 DEF A!BeginUpload, A!Stands
  <2>2. Reaches(u, "store", config.path)  BY <1>1, <2>1, CertReads DEF A!Steps
  <2>3. UNCHANGED <<config, bucket, cleanupJob, executed, cleaner, confirmed, astray, unheard>>
    BY <1>4 DEF A!BeginUpload
  <2>4. A!TypeOK'  BY <1>2, <2>2, <2>3, CertTyped DEF Reaches
  <2> QED  BY <1>1, <2>1, <2>2, <2>3, <2>4, ErrandStep DEF Errands
<1>5. CASE A!Store(u)
  <2>1. office[u].at = "store" /\ UNCHANGED <<config, cleanupJob, executed, cleaner, confirmed, unheard>>
    BY <1>5 DEF A!Store, A!Stands
  <2>2. CASE bucket' = bucket \cup {u} /\ A!Goes(u, "commit") /\ UNCHANGED astray
    <3>1. Reaches(u, "commit", office[u].path)  BY <1>1, <2>2, CertGoes DEF A!Steps
    <3>2. A!TypeOK'  BY <1>1, <1>2, <2>1, <2>2, <3>1, CertTyped DEF Reaches
    <3> QED  BY <2>1, <2>2, <3>1, <3>2, ObjectStored
  <2>3. CASE bucket' = bucket \cup {u} /\ astray' = astray \cup {u} /\ A!Goes(u, "done")
    <3>1. Reaches(u, "done", Nobody)  BY <1>1, <2>3, CertGoes DEF A!Steps
    <3>2. A!TypeOK'  BY <1>1, <1>2, <2>1, <2>3, <3>1, CertTyped DEF Reaches
    <3> QED  BY <2>1, <2>3, <3>1, <3>2, ObjectStored
  <2>4. CASE A!Goes(u, "done") /\ UNCHANGED <<bucket, astray>>
    <3>1. Reaches(u, "done", Nobody)  BY <1>1, <2>4, CertGoes DEF A!Steps
    <3>2. A!TypeOK'  BY <1>1, <1>2, <2>1, <2>4, <3>1, CertTyped DEF Reaches
    <3> QED  BY <1>1, <2>1, <2>4, <3>1, <3>2, ErrandStep DEF Errands
  <2> QED  BY <1>5, <2>2, <2>3, <2>4 DEF A!Store
<1>6. CASE A!CommitUpload(u)
  <2>1. office[u].at = "commit" /\ UNCHANGED <<bucket, executed, cleaner, confirmed>>
    BY <1>6 DEF A!CommitUpload, A!Stands
  <2>2. CASE /\ A!Replace(u)
             /\ \/ A!Goes(u, IF office[u].path = Nobody THEN "done" ELSE "clean") /\ UNCHANGED unheard
                \/ A!Goes(u, "rollback") /\ unheard' = unheard \cup {u}
    <3> DEFINE path == office[u].path
    <3>1. config' \in CertRow /\ config'.path = u  BY <1>1, <2>2 DEF A!Replace, CertRow, A!Statuses
    <3>2. /\ cleanupJob' \in [A!Objects -> CleanupJobs] /\ Unnames(config.path, path)
          /\ astray' \subseteq A!Objects
      <4>1. astray' = astray \cup ({config.path} \ {path, Nobody})  BY <2>2 DEF A!Replace
      <4>2. CASE path = Nobody  BY <1>2, <1>3, <2>2, <4>1, <4>2 DEF A!Replace, Unnames
      <4>3. CASE path # Nobody
        <5>1. path \in A!Objects /\ cleanupJob' = [cleanupJob EXCEPT ![path].state = "PENDING"]
          BY <1>3, <2>2, <4>3 DEF A!Replace, A!Enqueued
        <5>2. JobBecomes(path, "PENDING")  BY <1>1, <5>1, JobGoes
        <5> QED  BY <1>2, <1>3, <4>1, <5>1, <5>2 DEF Unnames, JobBecomes
      <4> QED  BY <4>2, <4>3
    <3>3. CASE A!Goes(u, IF path = Nobody THEN "done" ELSE "clean") /\ UNCHANGED unheard
      <4>1. \/ Reaches(u, "clean", path) /\ path # Nobody
            \/ Reaches(u, "done", Nobody)
        <5>1. CASE path = Nobody  BY <1>1, <3>3, <5>1, CertGoes DEF A!Steps
        <5>2. CASE path # Nobody  BY <1>1, <3>3, <5>2, CertGoes DEF A!Steps
        <5> QED  BY <5>1, <5>2
      <4>2. office' \in [A!Asking -> CertRequests]  BY <4>1 DEF Reaches
      <4>3. A!TypeOK'  BY <1>2, <2>1, <3>1, <3>2, <3>3, <4>2, CertTyped
      <4> QED  BY <1>3, <2>1, <3>1, <3>2, <3>3, <4>1, <4>3, ObjectNamed
    <3>4. CASE A!Goes(u, "rollback") /\ unheard' = unheard \cup {u}
      <4>1. Reaches(u, "rollback", path)  BY <1>1, <3>4, CertGoes DEF A!Steps
      <4>2. office' \in [A!Asking -> CertRequests]  BY <4>1 DEF Reaches
      <4>3. A!TypeOK'  BY <1>2, <2>1, <3>1, <3>2, <3>4, <4>2, CertTyped
      <4> QED  BY <1>3, <2>1, <3>1, <3>2, <3>4, <4>1, <4>3, ObjectNamed
    <3> QED  BY <2>2, <3>3, <3>4
  <2>3. CASE A!Goes(u, "rollback") /\ UNCHANGED <<config, cleanupJob, astray, unheard>>
    <3>1. Reaches(u, "rollback", office[u].path)  BY <1>1, <2>3, CertGoes DEF A!Steps
    <3>2. A!TypeOK'  BY <1>2, <2>1, <2>3, <3>1, CertTyped DEF Reaches
    <3> QED  BY <1>1, <2>1, <2>3, <3>1, <3>2, ErrandStep DEF Errands
  <2> QED  BY <1>6, <2>2, <2>3 DEF A!CommitUpload
<1>7. CASE A!Rollback(u)
  <2>1. /\ office[u].at = "rollback" /\ cleanupJob' = [cleanupJob EXCEPT ![u].state = "PENDING"]
        /\ office' = [office EXCEPT ![u].at = "clean", ![u].path = u]
        /\ UNCHANGED <<config, bucket, executed, cleaner, confirmed, astray, unheard>>
    BY <1>7 DEF A!Rollback, A!Stands, A!Enqueued
  <2>2. JobBecomes(u, "PENDING")  BY <1>1, <2>1, JobGoes
  <2>3. Reaches(u, "clean", u)
    <3> DEFINE q == [office[u] EXCEPT !.at = "clean"]
               s == [q EXCEPT !.path = u]
    <3>0. "clean" \in A!Steps /\ u \in A!Objects \cup {Nobody} /\ office[u] \in CertRequests
      BY <1>1, <1>2 DEF A!Steps
    <3>1. q \in CertRequests /\ q.at = "clean"  BY <3>0, RequestWritten
    <3>2. office' = [office EXCEPT ![u] = s]  BY <1>1, <1>2, <2>1
    <3> HIDE DEF q
    <3>3. s \in CertRequests /\ s.at = q.at /\ s.path = u
      <4>1. /\ [q EXCEPT !.path = u] \in CertRequests /\ [q EXCEPT !.path = u].at = q.at
            /\ [q EXCEPT !.path = u].path = u
        BY <3>0, <3>1, HandWritten
      <4> QED  BY <4>1
    <3> HIDE DEF s
    <3> QED  BY <1>1, <1>2, <3>1, <3>2, <3>3 DEF Reaches
  <2>4. A!TypeOK'  BY <1>2, <2>1, <2>2, <2>3, CertTyped DEF Reaches, JobBecomes
  <2>5. config.path = u => u \in unheard  BY <1>1, <2>1 DEF CertInv, InHand
  <2> QED  BY <1>1, <2>1, <2>2, <2>3, <2>4, <2>5, JobSettled
<1> QED  BY <1>4, <1>5, <1>6, <1>7

(* The steps of a removal, and of whoever removes an object at once.             *)
LEMMA CertRemovalSteps ==
  ASSUME CertInv, NEW r \in CertUploads \cup Withdrawals,
         \/ r \in Withdrawals /\ (A!BeginRemoval(r) \/ A!CommitRemoval(r))
         \/ A!Clean(r) \/ A!Deliver(r)
  PROVE  CertInv'
<1>1. A!TypeOK /\ r \in A!Asking  BY DEF CertInv, A!Asking
<1>2. /\ config \in CertRow /\ bucket \subseteq A!Objects /\ astray \subseteq A!Objects
      /\ unheard \subseteq CertUploads /\ executed \in BOOLEAN /\ confirmed \in BOOLEAN
      /\ cleanupJob \in [A!Objects -> CleanupJobs] /\ office \in [A!Asking -> CertRequests]
      /\ cleaner \in [Workers -> Cleanings]
  BY <1>1, CertTypes
<1>3. office[r].path \in A!Objects \cup {Nobody} /\ config.path \in A!Objects \cup {Nobody}
  BY <1>1, <1>2 DEF CertRequests, CertRow
<1>4. CASE A!BeginRemoval(r)
  <2>1. office[r].at = "idle" /\ UNCHANGED <<config, bucket, cleanupJob, executed, cleaner, confirmed, astray, unheard>>
    BY <1>4 DEF A!BeginRemoval, A!Stands
  <2>2. CASE executed
    <3>1. Reaches(r, "done", Nobody)  BY <1>1, <1>4, <2>2, CertGoes DEF A!BeginRemoval, A!Steps
    <3>2. A!TypeOK'  BY <1>2, <2>1, <3>1, CertTyped DEF Reaches
    <3> QED  BY <1>1, <2>1, <3>1, <3>2, ErrandStep DEF Errands
  <2>3. CASE ~executed
    <3>1. Reaches(r, "remove", config.path)  BY <1>1, <1>4, <2>3, CertReads DEF A!BeginRemoval, A!Steps
    <3>2. A!TypeOK'  BY <1>2, <2>1, <3>1, CertTyped DEF Reaches
    <3> QED  BY <1>1, <2>1, <3>1, <3>2, ErrandStep DEF Errands
  <2> QED  BY <2>2, <2>3
<1>5. CASE A!CommitRemoval(r)
  <2>1. office[r].at = "remove" /\ UNCHANGED <<bucket, cleaner, confirmed, unheard>> /\ executed' \in BOOLEAN
    BY <1>2, <1>5 DEF A!CommitRemoval, A!Stands
  <2>2. CASE A!Goes(r, "done") /\ UNCHANGED <<config, cleanupJob, astray>>
    <3>1. Reaches(r, "done", Nobody)  BY <1>1, <2>2, CertGoes DEF A!Steps
    <3>2. A!TypeOK'  BY <1>2, <2>1, <2>2, <3>1, CertTyped DEF Reaches
    <3> QED  BY <1>1, <2>1, <2>2, <3>1, <3>2, ErrandStep DEF Errands
  <2>3. CASE ~(A!Goes(r, "done") /\ UNCHANGED <<config, cleanupJob, astray>>)
    <3> DEFINE path == office[r].path
    <3>1. /\ path # Nobody /\ A!Goes(r, "clean")
          /\ config' = [path |-> Nobody, valid |-> FALSE, production |-> FALSE, status |-> "pendente"]
          /\ cleanupJob' = [cleanupJob EXCEPT ![path].state = "PENDING"]
          /\ astray' = astray \cup ({config.path} \ {path, Nobody})
      BY <1>5, <2>3 DEF A!CommitRemoval, A!Enqueued
    <3>2. config' \in CertRow /\ config'.path = Nobody  BY <3>1 DEF CertRow, A!Statuses
    <3>3. path \in A!Objects  BY <1>3, <3>1
    <3>4. JobBecomes(path, "PENDING")  BY <1>1, <3>1, <3>3, JobGoes
    <3>5. Reaches(r, "clean", path)  BY <1>1, <3>1, CertGoes DEF A!Steps
    <3>6. Unnames(config.path, path)  BY <3>1, <3>3, <3>4 DEF Unnames
    <3>7. astray' \subseteq A!Objects  BY <1>2, <1>3, <3>1
    <3>8. A!TypeOK'  BY <1>2, <2>1, <3>2, <3>4, <3>5, <3>7, CertTyped DEF Reaches, JobBecomes
    <3> QED  BY <1>1, <2>1, <3>2, <3>3, <3>5, <3>6, <3>8, NameRemoved
  <2> QED  BY <2>2, <2>3
<1>6. CASE A!Clean(r)
  <2>1. office[r].at = "clean" /\ UNCHANGED <<config, cleanupJob, executed, cleaner, confirmed, astray, unheard>>
    BY <1>6 DEF A!Clean, A!Stands
  <2>2. office[r].path \in A!Objects /\ Ordered(office[r].path)  BY <1>1, <2>1 DEF CertInv, Warranted
  <2>3. CASE bucket' = bucket \ {office[r].path} /\ A!Goes(r, "deliver")
    <3>1. Reaches(r, "deliver", office[r].path)  BY <1>1, <2>3, CertGoes DEF A!Steps
    <3>2. A!TypeOK'  BY <1>2, <2>1, <2>3, <3>1, CertTyped DEF Reaches
    <3> QED  BY <1>1, <2>1, <2>2, <2>3, <3>1, <3>2, ObjectRemoved
  <2>4. CASE A!Goes(r, "done") /\ UNCHANGED bucket
    <3>1. Reaches(r, "done", Nobody)  BY <1>1, <2>4, CertGoes DEF A!Steps
    <3>2. A!TypeOK'  BY <1>2, <2>1, <2>4, <3>1, CertTyped DEF Reaches
    <3> QED  BY <1>1, <2>1, <2>4, <3>1, <3>2, ErrandStep DEF Errands
  <2> QED  BY <1>6, <2>3, <2>4 DEF A!Clean
<1>7. CASE A!Deliver(r)
  <2>1. /\ office[r].at = "deliver" /\ A!Goes(r, "done")
        /\ cleanupJob' = [cleanupJob EXCEPT ![office[r].path].state = "DELIVERED"]
        /\ UNCHANGED <<config, bucket, executed, cleaner, confirmed, astray, unheard>>
    BY <1>7 DEF A!Deliver, A!Stands
  <2>2. /\ office[r].path \in A!Objects /\ Ordered(office[r].path)
        /\ office[r].path \notin bucket \ astray
    BY <1>1, <2>1 DEF CertInv, Warranted
  <2>3. Reaches(r, "done", Nobody)  BY <1>1, <2>1, CertGoes DEF A!Steps
  <2>4. JobBecomes(office[r].path, "DELIVERED")  BY <1>1, <2>1, <2>2, JobGoes
  <2>5. A!TypeOK'  BY <1>2, <2>1, <2>3, <2>4, CertTyped DEF Reaches, JobBecomes
  <2>6. \A u \in CertUploads : office[u].at \in {"idle", "store", "commit"} => u # office[r].path
    BY <2>2 DEF CertInv, Unshared
  <2> QED  BY <1>1, <2>1, <2>2, <2>3, <2>4, <2>5, <2>6, JobSettled
<1> QED  BY <1>4, <1>5, <1>6, <1>7

(* The steps of validations and activations.                                     *)
LEMMA CertReviewSteps ==
  ASSUME CertInv,
         \/ \E v \in Checks : \/ A!BeginValidation(v) \/ A!OpenObject(v)
                              \/ A!StoreAgain(v) \/ A!WriteValidation(v)
         \/ \E a \in Activations : A!BeginActivation(a) \/ A!CommitActivation(a)
  PROVE  CertInv'
<1>1. A!TypeOK  BY DEF CertInv
<1>2. /\ config \in CertRow /\ bucket \subseteq A!Objects /\ astray \subseteq A!Objects
      /\ unheard \subseteq CertUploads /\ executed \in BOOLEAN /\ confirmed \in BOOLEAN
      /\ cleanupJob \in [A!Objects -> CleanupJobs] /\ office \in [A!Asking -> CertRequests]
      /\ cleaner \in [Workers -> Cleanings]
  BY <1>1, CertTypes
<1>3. ASSUME NEW v \in Checks, A!BeginValidation(v)  PROVE CertInv'
  <2>1. /\ v \in A!Asking /\ office[v].at = "idle" /\ A!Read(v, "open")
        /\ UNCHANGED <<config, bucket, cleanupJob, executed, cleaner, confirmed, astray, unheard>>
    BY <1>3 DEF A!BeginValidation, A!Stands, A!Asking
  <2>2. Reaches(v, "open", config.path) /\ office'[v].gives # "none"
    BY <1>1, <1>3, <2>1, CertReads DEF A!Steps
  <2>3. A!TypeOK'  BY <1>2, <2>1, <2>2, CertTyped DEF Reaches
  <2> QED  BY <2>1, <2>2, <2>3, ErrandStep DEF Errands
<1>4. ASSUME NEW v \in Checks, A!OpenObject(v)  PROVE CertInv'
  <2>1. /\ v \in A!Asking /\ office[v].at = "open" /\ office[v].gives # "none"
        /\ UNCHANGED <<config, bucket, cleanupJob, executed, cleaner, confirmed, astray, unheard>>
    BY <1>4 DEF A!OpenObject, A!Stands, A!Asking, CertInv, InHand
  <2>2. PICK there \in {"accept", "encrypt", "reject"} :
          A!Goes(v, there) /\ (there = "encrypt" => office[v].path = Old)
    BY <1>4 DEF A!OpenObject
  <2>3. Reaches(v, there, office[v].path) /\ office'[v].gives # "none"
    BY <1>1, <2>1, <2>2, CertGoes DEF A!Steps
  <2>4. A!TypeOK'  BY <1>2, <2>1, <2>3, CertTyped DEF Reaches
  <2> QED  BY <2>1, <2>2, <2>3, <2>4, ErrandStep DEF Errands
<1>5. ASSUME NEW v \in Checks, A!StoreAgain(v)  PROVE CertInv'
  <2>1. /\ v \in A!Asking /\ office[v].at = "encrypt" /\ office[v].gives # "none" /\ office[v].path = Old
        /\ UNCHANGED <<config, cleanupJob, executed, cleaner, confirmed, unheard>>
    BY <1>5 DEF A!StoreAgain, A!Stands, A!Asking, CertInv, InHand
  <2>2. bucket' = bucket \cup {Old} /\ astray' = astray \cup ({Old} \ bucket) /\ A!Goes(v, "accept")
    BY <1>5, <2>1 DEF A!StoreAgain
  <2>3. Reaches(v, "accept", Old) /\ office'[v].gives # "none"
    BY <1>1, <2>1, <2>2, CertGoes DEF A!Steps
  <2>4. bucket' \subseteq A!Objects /\ astray' \subseteq A!Objects  BY <1>2, <2>2 DEF A!Objects
  <2>5. A!TypeOK'  BY <1>2, <2>1, <2>3, <2>4, CertTyped DEF Reaches
  <2> QED  BY <2>1, <2>2, <2>3, <2>5, StoredAgain
<1>6. ASSUME NEW v \in Checks, A!WriteValidation(v)  PROVE CertInv'
  <2>1. /\ v \in A!Asking /\ office[v].at \in {"accept", "encrypt", "reject"} /\ office[v].gives # "none"
        /\ A!Goes(v, "done")
        /\ UNCHANGED <<bucket, cleanupJob, executed, cleaner, confirmed, astray, unheard>>
    BY <1>6 DEF A!WriteValidation, A!Stands, A!Asking, CertInv, InHand
  <2>2. office[v].gives \in A!Statuses  BY <1>2, <2>1 DEF CertRequests
  <2>3. config' \in CertRow /\ config'.path = config.path
    <3>1. \/ config' = [config EXCEPT !.valid = TRUE, !.status = office[v].gives]
          \/ config' = [config EXCEPT !.valid = FALSE, !.status = "pendente"]
      BY <1>6 DEF A!WriteValidation
    <3>2. "pendente" \in A!Statuses  BY DEF A!Statuses
    <3>3. /\ [config EXCEPT !.valid = TRUE, !.status = office[v].gives] \in CertRow
          /\ [config EXCEPT !.valid = TRUE, !.status = office[v].gives].path = config.path
      BY <1>2, <2>2, CertRowsWritten
    <3>4. /\ [config EXCEPT !.valid = FALSE, !.status = "pendente"] \in CertRow
          /\ [config EXCEPT !.valid = FALSE, !.status = "pendente"].path = config.path
      BY <1>2, <3>2, CertRowsWritten
    <3> QED  BY <3>1, <3>3, <3>4
  <2>4. Reaches(v, "done", Nobody)  BY <1>1, <2>1, CertGoes DEF A!Steps
  <2>5. A!TypeOK'  BY <1>2, <2>1, <2>3, <2>4, CertTyped DEF Reaches
  <2> QED  BY <2>1, <2>3, <2>4, <2>5, ErrandStep DEF Errands
<1>7. ASSUME NEW a \in Activations, A!BeginActivation(a)  PROVE CertInv'
  <2>1. /\ a \in A!Asking /\ office[a].at = "idle" /\ A!Read(a, "activate")
        /\ UNCHANGED <<config, bucket, cleanupJob, executed, cleaner, confirmed, astray, unheard>>
    BY <1>7 DEF A!BeginActivation, A!Stands, A!Asking
  <2>2. Reaches(a, "activate", config.path)  BY <1>1, <2>1, CertReads DEF A!Steps
  <2>3. A!TypeOK'  BY <1>2, <2>1, <2>2, CertTyped DEF Reaches
  <2> QED  BY <2>1, <2>2, <2>3, ErrandStep DEF Errands
<1>8. ASSUME NEW a \in Activations, A!CommitActivation(a)  PROVE CertInv'
  <2>1. /\ a \in A!Asking /\ office[a].at = "activate" /\ A!Goes(a, "done")
        /\ UNCHANGED <<bucket, cleanupJob, executed, cleaner, astray, unheard>> /\ confirmed' \in BOOLEAN
        /\ config' = [config EXCEPT !.production = TRUE, !.status = "ativo"]
    BY <1>8 DEF A!CommitActivation, A!Stands, A!Asking
  <2>2. Reaches(a, "done", Nobody)  BY <1>1, <2>1, CertGoes DEF A!Steps
  <2>3. "ativo" \in A!Statuses  BY DEF A!Statuses
  <2>4. config' \in CertRow /\ config'.path = config.path  BY <1>2, <2>1, <2>3, CertRowsWritten
  <2>5. A!TypeOK'  BY <1>2, <2>1, <2>2, <2>4, CertTyped DEF Reaches
  <2> QED  BY <2>1, <2>2, <2>4, <2>5, ErrandStep DEF Errands
<1> QED  BY <1>3, <1>4, <1>5, <1>6, <1>7, <1>8

(* The steps of the cleanup worker.                                              *)
LEMMA CertCleanupSteps ==
  ASSUME CertInv, NEW w \in Workers,
         A!RemoveObject(w) \/ A!Settle(w) \/ \E p \in A!Objects : A!Take(w, p)
  PROVE  CertInv'
<1>1. A!TypeOK  BY DEF CertInv
<1>2. /\ config \in CertRow /\ bucket \subseteq A!Objects /\ astray \subseteq A!Objects
      /\ unheard \subseteq CertUploads /\ executed \in BOOLEAN /\ confirmed \in BOOLEAN
      /\ cleanupJob \in [A!Objects -> CleanupJobs] /\ office \in [A!Asking -> CertRequests]
      /\ cleaner \in [Workers -> Cleanings]
  BY <1>1, CertTypes
<1>3. ASSUME NEW p \in A!Objects, A!Take(w, p)  PROVE CertInv'
  <2> DEFINE q == [at |-> "remove", path |-> p, attempts |-> cleanupJob[p].attempts]
  <2>1. /\ cleanupJob[p].state \in {"PENDING", "FAILED_RETRYABLE"} /\ cleaner' = [cleaner EXCEPT ![w] = q]
        /\ UNCHANGED <<config, bucket, cleanupJob, executed, office, confirmed, astray, unheard>>
    BY <1>3 DEF A!Take
  <2>2. q \in Cleanings /\ q.at = "remove" /\ q.path = p  BY <1>2 DEF Cleanings, CleanupJobs
  <2> HIDE DEF q
  <2>3. Turns(w, "remove", p)  BY <1>2, <2>1, <2>2 DEF Turns
  <2>4. Ordered(p)  BY <2>1 DEF Ordered
  <2>5. A!TypeOK'  BY <1>2, <2>1, <2>3, CertTyped DEF Turns
  <2> QED  BY <2>1, <2>3, <2>4, <2>5, JobTaken
<1>4. CASE A!RemoveObject(w)
  <2> DEFINE p == cleaner[w].path
  <2>1. cleaner[w].at = "remove" /\ UNCHANGED <<config, cleanupJob, executed, office, confirmed, astray, unheard>>
    BY <1>4 DEF A!RemoveObject
  <2>2. p \in A!Objects /\ Ordered(p)  BY <2>1 DEF CertInv, Warranted
  <2>3. PICK s \in {"removed", "failed"} :
          /\ cleaner' = [cleaner EXCEPT ![w].at = s]
          /\ bucket' \in {bucket, bucket \ {p}} /\ (s = "removed" => bucket' = bucket \ {p})
    BY <1>4 DEF A!RemoveObject
  <2>4. Turns(w, s, p)
    <3> DEFINE q == [cleaner[w] EXCEPT !.at = s]
    <3>0. cleaner[w] \in Cleanings  BY <1>2
    <3>1. q \in Cleanings /\ q.at = s /\ q.path = p  BY <3>0, CleaningWritten
    <3>2. cleaner' = [cleaner EXCEPT ![w] = q]  BY <2>3
    <3> HIDE DEF q
    <3> QED  BY <1>2, <3>1, <3>2 DEF Turns
  <2>5. A!TypeOK'  BY <1>2, <2>1, <2>3, <2>4, CertTyped DEF Turns
  <2> QED  BY <2>1, <2>2, <2>3, <2>4, <2>5, ObjectRemoved
<1>5. CASE A!Settle(w)
  <2> DEFINE p == cleaner[w].path
             q == A!Settled(w)
             idle == [at |-> "idle", path |-> Nobody, attempts |-> 0]
  <2>1. /\ cleaner[w].at \in {"removed", "failed"}
        /\ cleanupJob' = [cleanupJob EXCEPT ![p] = q] /\ cleaner' = [cleaner EXCEPT ![w] = idle]
        /\ UNCHANGED <<config, bucket, executed, office, confirmed, astray, unheard>>
    BY <1>5 DEF A!Settle
  <2>2. /\ p \in A!Objects /\ Ordered(p) /\ (cleaner[w].at = "removed" => p \notin bucket \ astray)
    BY <2>1 DEF CertInv, Warranted
  <2>3. cleanupJob[p].attempts \in Nat /\ cleaner[w].attempts \in Nat  BY <1>2, <2>2 DEF CleanupJobs, Cleanings
  <2>4. /\ q \in CleanupJobs /\ q.state \in {"FAILED_RETRYABLE", "FAILED_FINAL", "DELIVERED"}
        /\ q.state = "DELIVERED" => cleaner[w].at = "removed"
    BY <2>3 DEF A!Settled, CleanupJobs
  <2>5. idle \in Cleanings /\ idle.at = "idle" /\ idle.path = Nobody  BY DEF Cleanings
  <2> HIDE DEF q, idle
  <2>6. Turns(w, "idle", Nobody)  BY <1>2, <2>1, <2>5 DEF Turns
  <2>7. JobBecomes(p, q.state)  BY <1>2, <2>1, <2>2, <2>4 DEF JobBecomes
  <2>8. A!TypeOK'  BY <1>2, <2>1, <2>6, <2>7, CertTyped DEF Turns, JobBecomes
  <2>9. \A u \in CertUploads : office[u].at \in {"idle", "store", "commit"} => u # p
    BY <2>2 DEF CertInv, Unshared
  <2> QED  BY <2>1, <2>2, <2>4, <2>6, <2>7, <2>8, <2>9, JobSettled
<1> QED  BY <1>3, <1>4, <1>5

(* The administrator's, and the processes that die.                              *)
LEMMA CertOtherSteps ==
  ASSUME CertInv, A!Suspend \/ A!ReturnToTests \/ A!Crash
  PROVE  CertInv'
<1>1. A!TypeOK  BY DEF CertInv
<1>2. /\ config \in CertRow /\ bucket \subseteq A!Objects /\ astray \subseteq A!Objects
      /\ unheard \subseteq CertUploads /\ executed \in BOOLEAN /\ confirmed \in BOOLEAN
      /\ cleanupJob \in [A!Objects -> CleanupJobs] /\ office \in [A!Asking -> CertRequests]
      /\ cleaner \in [Workers -> Cleanings]
  BY <1>1, CertTypes
<1>3. CASE A!Suspend
  <2>1. /\ config' = [config EXCEPT !.status = "suspenso"] /\ confirmed' \in BOOLEAN
        /\ UNCHANGED <<bucket, cleanupJob, executed, office, cleaner, astray, unheard>>
    BY <1>3 DEF A!Suspend
  <2>2. "suspenso" \in A!Statuses  BY DEF A!Statuses
  <2>3. config' \in CertRow /\ config'.path = config.path  BY <1>2, <2>1, <2>2, CertRowWritten
  <2>4. A!TypeOK'  BY <1>2, <2>1, <2>3, CertTyped
  <2> QED  BY <2>1, <2>3, <2>4, CertSame
<1>4. CASE A!ReturnToTests
  <2>1. /\ config' = [config EXCEPT !.production = FALSE, !.status = "homologacao"]
        /\ UNCHANGED <<bucket, cleanupJob, executed, office, cleaner, confirmed, astray, unheard>>
    BY <1>4 DEF A!ReturnToTests
  <2>2. "homologacao" \in A!Statuses  BY DEF A!Statuses
  <2>3. config' \in CertRow /\ config'.path = config.path  BY <1>2, <2>1, <2>2, CertRowsWritten
  <2>4. A!TypeOK'  BY <1>2, <2>1, <2>3, CertTyped
  <2> QED  BY <2>1, <2>3, <2>4, CertSame
<1>5. ASSUME NEW r \in A!Asking, office[r].at \notin {"idle", "done"}, A!Goes(r, "done"),
             astray' = IF office[r].at \in {"commit", "rollback"} THEN astray \cup ({r} \ unheard) ELSE astray,
             UNCHANGED <<config, bucket, cleanupJob, executed, cleaner, confirmed, unheard>>
      PROVE  CertInv'
  <2>1. Reaches(r, "done", Nobody)  BY <1>1, <1>5, CertGoes DEF A!Steps
  <2>2. office[r].at \in {"commit", "rollback"} => r \in A!Objects  BY DEF CertInv, InHand, A!Objects
  <2>3. astray' \subseteq A!Objects /\ astray \subseteq astray'  BY <1>2, <1>5, <2>2
  <2>4. A!TypeOK'  BY <1>2, <1>5, <2>1, <2>3, CertTyped DEF Reaches
  <2> QED  BY <1>5, <2>1, <2>3, <2>4, ErrandStep DEF Errands
<1>6. ASSUME NEW w \in Workers, UNCHANGED <<config, bucket, cleanupJob, executed, office, confirmed, astray, unheard>>,
             cleaner' = [cleaner EXCEPT ![w] = [at |-> "idle", path |-> Nobody, attempts |-> 0]]
      PROVE  CertInv'
  <2> DEFINE idle == [at |-> "idle", path |-> Nobody, attempts |-> 0]
  <2>1. idle \in Cleanings /\ idle.at = "idle" /\ idle.path = Nobody  BY DEF Cleanings
  <2>2. cleaner' = [cleaner EXCEPT ![w] = idle]  BY <1>6
  <2> HIDE DEF idle
  <2>3. Turns(w, "idle", Nobody)  BY <1>2, <2>1, <2>2 DEF Turns
  <2>4. A!TypeOK'  BY <1>2, <1>6, <2>3, CertTyped DEF Turns
  <2> QED  BY <1>6, <2>3, <2>4, CertSame
<1> QED  BY <1>3, <1>4, <1>5, <1>6 DEF A!Crash

(* BucketAgrees: the certificate that the row names is stored, and what is stored *)
(* and not named will be removed.                                                *)
THEOREM BucketAgreesHolds == A!Spec => [](A!TypeOK /\ BucketAgrees)
<1>1. A!Init => CertInv
  <2>1. SUFFICES ASSUME A!Init  PROVE CertInv  OBVIOUS
  <2>2. /\ config \in CertRow /\ config.path \in {Old, Nobody} /\ bucket = {config.path} \ {Nobody}
        /\ cleanupJob = [p \in A!Objects |-> A!NoJob] /\ office = [r \in A!Asking |-> A!Idle]
        /\ cleaner = [w \in Workers |-> [at |-> "idle", path |-> Nobody, attempts |-> 0]]
        /\ executed = FALSE /\ confirmed = FALSE /\ astray = {} /\ unheard = {}
    <3>1. config \in {[path |-> Old, valid |-> TRUE, production |-> FALSE, status |-> "homologacao"],
                      [path |-> Nobody, valid |-> FALSE, production |-> FALSE, status |-> "pendente"]}
      BY <2>1 DEF A!Init
    <3>2. config \in CertRow /\ config.path \in {Old, Nobody}
      <4>1. Old \in A!Objects /\ "homologacao" \in A!Statuses /\ "pendente" \in A!Statuses
        BY DEF A!Objects, A!Statuses
      <4>2. CASE config = [path |-> Old, valid |-> TRUE, production |-> FALSE, status |-> "homologacao"]
        BY <4>1, <4>2 DEF CertRow
      <4>3. CASE config = [path |-> Nobody, valid |-> FALSE, production |-> FALSE, status |-> "pendente"]
        BY <4>1, <4>3 DEF CertRow
      <4> QED  BY <3>1, <4>2, <4>3
    <3> QED  BY <2>1, <3>2 DEF A!Init
  <2>3. /\ A!NoJob \in CleanupJobs /\ A!NoJob.state = "none"
        /\ A!Idle \in CertRequests /\ A!Idle.at = "idle" /\ A!Idle.path = Nobody
        /\ [at |-> "idle", path |-> Nobody, attempts |-> 0] \in Cleanings
    BY DEF A!NoJob, CleanupJobs, A!Idle, CertRequests, A!Steps, Cleanings
  <2>4. /\ cleanupJob \in [A!Objects -> CleanupJobs] /\ \A p \in A!Objects : ~Ordered(p)
        /\ office \in [A!Asking -> CertRequests]
        /\ \A r \in A!Asking : office[r].at = "idle" /\ office[r].path = Nobody
        /\ cleaner \in [Workers -> Cleanings] /\ \A w \in Workers : cleaner[w].at = "idle"
    BY <2>2, <2>3 DEF Ordered
  <2>5. bucket \subseteq A!Objects /\ bucket \ astray \subseteq {config.path}
    BY <2>2 DEF A!Objects
  <2>6. A!TypeOK  BY <2>2, <2>4, <2>5 DEF A!TypeOK, CertRow, CleanupJobs, CertRequests, Cleanings
  <2>7. Unshared
    <3>1. \A u \in CertUploads : u \in A!Asking /\ u \in A!Objects /\ u # Old /\ u # Nobody
      BY CertificateAssumption DEF A!Asking, A!Objects
    <3> QED  BY <2>2, <2>4, <3>1 DEF Unshared
  <2>8. Warranted /\ InHand  BY <2>4 DEF Warranted, InHand
  <2>9. NamedStays /\ StoredIsKept  BY <2>2, <2>4, <2>5 DEF NamedStays, StoredIsKept, A!Objects
  <2> QED  BY <2>6, <2>7, <2>8, <2>9 DEF CertInv
<1>2. CertInv /\ [A!Next]_A!certificateVars => CertInv'
  <2>1. SUFFICES ASSUME CertInv, [A!Next]_A!certificateVars  PROVE CertInv'  OBVIOUS
  <2>2. CASE UNCHANGED A!certificateVars
    <3>1. UNCHANGED <<config, bucket, cleanupJob, executed, office, cleaner, confirmed, astray, unheard>>
      BY <2>2 DEF A!certificateVars
    <3>2. A!TypeOK'  BY <2>1, <3>1, CertTypes, CertTyped DEF CertInv
    <3> QED  BY <2>1, <3>1, <3>2, CertSame
  <2>3. CASE A!Next
    BY <2>1, <2>3, CertUploadSteps, CertRemovalSteps, CertReviewSteps, CertCleanupSteps, CertOtherSteps
       DEF A!Next
  <2> QED  BY <2>1, <2>2, <2>3
<1>3. CertInv => A!TypeOK /\ BucketAgrees
  BY CertTypes DEF CertInv, CertRow, NamedStays, StoredIsKept, BucketAgrees, A!BucketAgrees
<1> QED  BY <1>1, <1>2, <1>3, PTL DEF A!Spec

=============================================================================

------------------------------- MODULE Uploads -------------------------------
(* Uploads of a tenant and their quota: UploadQuotaService (reservations and  *)
(* counters), StoredFilesService (one row per stored object) and the upload   *)
(* and removal flows of SupabaseStorageService with their callers.  A step is *)
(* what happens between two awaits: one transaction, one call of the bucket.  *)
EXTENDS Integers, FiniteSets, FiniteSetsExt

CONSTANTS Uploads,        \* requests, each with a reservation of its own
          Parts,          \* objects of an upload: full, medium and thumbnail
          Main,           \* the part whose row carries quotaReservationId
          Owner,          \* [Uploads -> user]
          Requested,      \* bytes reserved for an upload, before optimising
          PartSize,       \* bytes an optimised part really has
          Limit,          \* [{"total", "daily", "user"} -> bytes]
          Removers,       \* requests that remove an uploaded file
          MaxDay          \* bound: days the clock moves through

ASSUME QuotaAssumption ==
  /\ Uploads # {} /\ IsFiniteSet(Uploads) /\ MaxDay \in Nat \ {0}
  /\ Main \in Parts /\ IsFiniteSet(Parts)
  /\ Limit \in [{"total", "daily", "user"} -> Nat]
  /\ Requested \in Nat /\ PartSize \in Nat
  /\ Cardinality(Parts) * PartSize <= Requested

VARIABLES today,
          state,          \* [Uploads -> state of the reservation row, or "none"]
          day,            \* [Uploads -> UTC day the reservation was made on]
          reserved, confirmed,   \* [Windows -> bytes], upload_quota_counters
          pc,             \* [Uploads -> where the upload request stands]
          sent,           \* [Uploads -> parts in uploadedPaths]
          pending,        \* [Uploads -> registrations still in flight]
          stored,         \* [Uploads -> parts that are in the bucket]
          activeRows, deletedRows,  \* [Uploads -> parts with an ACTIVE / DELETED row]
          doubled,        \* history: rows subtracted though another had marked them
          attached,       \* uploads whose product image, photo or attachment exists
          check,          \* [Uploads -> what the reconciler knows of a claimed row]
          removal         \* [Removers -> pc, upload and the rows markDeleted read]

quota == <<state, day, reserved, confirmed>>
files == <<stored, activeRows, deletedRows, doubled>>
vars == <<today, quota, pc, sent, pending, files, attached, check, removal>>

ReservationStates ==
  {"RESERVED", "CONFIRMED", "RELEASED", "EXPIRED", "RECONCILIATION_REQUIRED"}
Charged == {"RESERVED", "EXPIRED", "RECONCILIATION_REQUIRED"}

Total == <<"total", "all", 0>>            \* its window starts on day 0 of the epoch
WindowsOf(u, d) == {Total, <<"daily", "all", d>>, <<"user", Owner[u], d>>}
Windows == UNION {WindowsOf(u, d) : u \in Uploads, d \in 1..MaxDay}

Running == {"optimizing", "uploading", "registering", "done", "removing", "marking", "handing"}
Idle == [pc |-> "idle", upload |-> CHOOSE u \in Uploads : TRUE, seen |-> {}]

Init ==
  /\ today = 1
  /\ state = [u \in Uploads |-> "none"] /\ day = [u \in Uploads |-> 1]
  /\ reserved = [w \in Windows |-> 0] /\ confirmed = [w \in Windows |-> 0]
  /\ pc = [u \in Uploads |-> "idle"]
  /\ sent = [u \in Uploads |-> {}] /\ pending = [u \in Uploads |-> {}]
  /\ stored = [u \in Uploads |-> {}]
  /\ activeRows = [u \in Uploads |-> {}] /\ deletedRows = [u \in Uploads |-> {}]
  /\ attached = {}
  /\ check = [u \in Uploads |-> "none"]
  /\ removal = [m \in Removers |-> Idle]
  /\ doubled = 0

Go(u, from, to) == pc[u] = from /\ pc' = [pc EXCEPT ![u] = to]

(* Reservations, counters, requests and rows are what the schema and the      *)
(* code's types say.                                                          *)
TypeOK ==
  /\ today \in 1..MaxDay
  /\ state \in [Uploads -> ReservationStates \cup {"none"}]
  /\ day \in [Uploads -> 1..MaxDay]
  /\ reserved \in [Windows -> Nat] /\ confirmed \in [Windows -> Nat]
  /\ pc \in [Uploads -> Running \cup {"idle", "rejected", "attached", "failed", "crashed"}]
  /\ {sent, pending, stored, activeRows, deletedRows} \subseteq [Uploads -> SUBSET Parts]
  /\ attached \subseteq Uploads
  /\ check \in [Uploads -> {"none", "due", "local", "absent"}]
  /\ removal \in [Removers -> [pc : {"idle", "found", "removed", "read"},
                               upload : Uploads, seen : SUBSET Parts]]
  /\ doubled \in Nat

----------------------------------------------------------------------------
(* The reservation.                                                          *)

Fits(u, w) == confirmed[w] + reserved[w] + Requested <= Limit[w[1]]

(* All counters in one transaction: a counter without room undoes the others *)
(* and the reservation, and the upload is refused with 413.                  *)
Reserve(u) ==
  \/ /\ Go(u, "idle", "optimizing")
     /\ \A w \in WindowsOf(u, today) : Fits(u, w)
     /\ reserved' = [w \in Windows |->
          reserved[w] + IF w \in WindowsOf(u, today) THEN Requested ELSE 0]
     /\ state' = [state EXCEPT ![u] = "RESERVED"]
     /\ day' = [day EXCEPT ![u] = today]
     /\ UNCHANGED <<today, confirmed, sent, pending, files, attached, check, removal>>
  \/ /\ Go(u, "idle", "rejected")
     /\ \E w \in WindowsOf(u, today) : ~Fits(u, w)
     /\ UNCHANGED <<today, quota, sent, pending, files, attached, check, removal>>

(* transition: only a RESERVED or EXPIRED row moves, and the counters with it. *)
Transition(u, target) ==
  IF state[u] \in {"RESERVED", "EXPIRED"}
  THEN /\ state' = [state EXCEPT ![u] = target]
       /\ reserved' = [w \in Windows |->
            reserved[w] - IF w \in WindowsOf(u, day[u]) THEN Requested ELSE 0]
       /\ confirmed' = [w \in Windows |->
            confirmed[w] + IF w \in WindowsOf(u, day[u]) /\ target = "CONFIRMED"
                           THEN Requested ELSE 0]
       /\ day' = day
  ELSE UNCHANGED quota

(* Fault: requireReconciliation updates the row whatever its state            *)
RequireReconciliationAlways(u) ==
  /\ state' = [state EXCEPT ![u] = "RECONCILIATION_REQUIRED"]
  /\ UNCHANGED <<day, reserved, confirmed>>
RequireReconciliation(u) ==
  /\ state' = [state EXCEPT ![u] = IF @ \in {"RESERVED", "EXPIRED"}
                                   THEN "RECONCILIATION_REQUIRED" ELSE @]
  /\ UNCHANGED <<day, reserved, confirmed>>

----------------------------------------------------------------------------
(* The upload.                                                               *)

(* Only an image is optimised, and only that failure releases the bytes.     *)
Optimize(u) ==
  \/ /\ Go(u, "optimizing", "uploading")
     /\ UNCHANGED <<today, quota, sent, pending, files, attached, check, removal>>
  \/ /\ Go(u, "optimizing", "failed") /\ Transition(u, "RELEASED")
     /\ UNCHANGED <<today, sent, pending, files, attached, check, removal>>

(* A part is stored and its URL made; either may fail, and an object whose   *)
(* URL failed is in the bucket but not in uploadedPaths.                     *)
UploadPart(u, p) ==
  /\ pc[u] = "uploading" /\ p \notin sent[u]
  /\ \/ /\ stored' = [stored EXCEPT ![u] = @ \cup {p}]
        /\ sent' = [sent EXCEPT ![u] = @ \cup {p}]
        /\ pc' = [pc EXCEPT ![u] = IF sent[u] \cup {p} = Parts THEN "registering" ELSE @]
        /\ pending' = [pending EXCEPT ![u] = IF sent[u] \cup {p} = Parts THEN Parts ELSE @]
     \/ /\ stored' \in {stored, [stored EXCEPT ![u] = @ \cup {p}]}
        /\ pc' = [pc EXCEPT ![u] = "removing"]
        /\ UNCHANGED <<sent, pending>>
  /\ UNCHANGED <<today, quota, activeRows, deletedRows, doubled, attached, check, removal>>

(* The rows are written concurrently (Promise.all): the first that fails ends *)
(* the upload, and those still in flight land, or not, whenever they do.      *)
RegisterPart(u, p) ==
  /\ p \in pending[u]
  /\ pending' = [pending EXCEPT ![u] = @ \ {p}]
  /\ \/ activeRows' = [activeRows EXCEPT ![u] = @ \cup {p}] /\ pc' = pc
     \/ activeRows' = activeRows
        /\ pc' = [pc EXCEPT ![u] = IF @ = "registering" THEN "removing" ELSE @]
  /\ UNCHANGED <<today, quota, sent, stored, deletedRows, doubled, attached, check, removal>>

(* confirm; its answer may be lost after the commit, or it may not commit.    *)
Confirm(u) ==
  /\ pc[u] = "registering" /\ pending[u] = {}
  /\ \/ Transition(u, "CONFIRMED") /\ \E to \in {"done", "removing"} : pc' = [pc EXCEPT ![u] = to]
     \/ UNCHANGED quota /\ pc' = [pc EXCEPT ![u] = "removing"]
  /\ UNCHANGED <<today, sent, pending, files, attached, check, removal>>

(* The caller records the image; when that fails it removes the objects, and *)
(* the rest is the clean-up below.                                            *)
Attach(u) ==
  \/ /\ Go(u, "done", "attached") /\ attached' = attached \cup {u}
     /\ UNCHANGED <<today, quota, sent, pending, files, check, removal>>
  \/ /\ Go(u, "done", "removing")
     /\ UNCHANGED <<today, quota, sent, pending, files, attached, check, removal>>

----------------------------------------------------------------------------
(* Removal of objects and rows.                                              *)

(* A call of the bucket that fails is ignored.                               *)
RemoveObjects(u, ps) == stored' \in {stored, [stored EXCEPT ![u] = @ \ ps]}

(* markDeleted, its update: the rows still ACTIVE become DELETED, and the     *)
(* total shrinks by the rows that were READ, those included that another      *)
(* request has marked since and has subtracted too (doubled); the table       *)
(* refuses a negative total, and then nothing changes.                        *)
Shrinks(seen) == confirmed[Total] >= Cardinality(seen) * PartSize
MarkDeleted(u, seen) ==
  /\ Shrinks(seen)
  /\ activeRows' = [activeRows EXCEPT ![u] = @ \ seen]
  /\ deletedRows' = [deletedRows EXCEPT ![u] = @ \cup (activeRows[u] \cap seen)]
  /\ confirmed' = [confirmed EXCEPT ![Total] = @ - Cardinality(seen) * PartSize]
  /\ doubled' = doubled + Cardinality(seen \ activeRows[u])

(* The catch of an upload: remove, mark, and hand over to reconciliation.  A  *)
(* refused mark is an error of its own: the reservation stays as it is.       *)
CleanRemove(u) ==
  /\ Go(u, "removing", "marking") /\ RemoveObjects(u, sent[u])
  /\ UNCHANGED <<today, quota, sent, pending, activeRows, deletedRows, doubled,
                 attached, check, removal>>
CleanMark(u) ==
  /\ LET seen == activeRows[u] \cap sent[u] IN
     \/ /\ Go(u, "marking", "handing") /\ MarkDeleted(u, seen)
        /\ UNCHANGED <<state, day, reserved, stored>>
     \/ Go(u, "marking", "failed") /\ ~Shrinks(seen) /\ UNCHANGED <<quota, files>>
  /\ UNCHANGED <<today, sent, pending, attached, check, removal>>
HandOver(u) ==
  /\ Go(u, "handing", "failed") /\ RequireReconciliation(u)
  /\ UNCHANGED <<today, sent, pending, files, attached, check, removal>>

(* A request removes an attached file: it finds it, removes the objects,      *)
(* marks the rows in a transaction that reads before it writes, and deletes   *)
(* the photo last (a product image is deleted first: one request wins).       *)
FindFile(m, u) ==
  /\ removal[m].pc = "idle" /\ u \in attached
  /\ removal' = [removal EXCEPT ![m] = [pc |-> "found", upload |-> u, seen |-> {}]]
  /\ UNCHANGED <<today, quota, pc, sent, pending, files, attached, check>>
RemoveFile(m) ==
  /\ removal[m].pc = "found"
  /\ RemoveObjects(removal[m].upload, Parts)
  /\ removal' = [removal EXCEPT ![m].pc = "removed"]
  /\ UNCHANGED <<today, quota, pc, sent, pending, activeRows, deletedRows, doubled,
                 attached, check>>
ReadRows(m) ==
  /\ removal[m].pc = "removed"
  /\ removal' = [removal EXCEPT ![m].pc = "read",
                                ![m].seen = activeRows[removal[m].upload]]
  /\ UNCHANGED <<today, quota, pc, sent, pending, files, attached, check>>
MarkRows(m) ==
  /\ removal[m].pc = "read"
  /\ \/ MarkDeleted(removal[m].upload, removal[m].seen) /\ UNCHANGED <<state, day, reserved, stored>>
     \/ ~Shrinks(removal[m].seen) /\ UNCHANGED <<quota, files>>
  /\ removal' = [removal EXCEPT ![m] = Idle]
  /\ attached' = IF Shrinks(removal[m].seen)
                 THEN attached \ {removal[m].upload} ELSE attached
  /\ UNCHANGED <<today, pc, sent, pending, check>>

----------------------------------------------------------------------------
(* Expired reservations, replicas that go away, midnight.                    *)

(* claimExpired: fifteen minutes are over, the upload may still be running.  *)
ClaimExpired(u) ==
  /\ state[u] = "RESERVED"
  /\ state' = [state EXCEPT ![u] = "EXPIRED"]
  /\ check' = [check EXCEPT ![u] = "due"]
  /\ UNCHANGED <<today, day, reserved, confirmed, pc, sent, pending, files, attached, removal>>
(* reconcileExpiredBatch asks for the row first and acts afterwards.         *)
FindLocal(u) ==
  /\ check[u] = "due"
  /\ check' = [check EXCEPT ![u] = IF Main \in activeRows[u] THEN "local" ELSE "absent"]
  /\ UNCHANGED <<today, quota, pc, sent, pending, files, attached, removal>>
ReconcileExpired(u) ==
  /\ check[u] \in {"local", "absent"}
  /\ IF check[u] = "local" THEN Transition(u, "CONFIRMED") ELSE RequireReconciliation(u)
  /\ check' = [check EXCEPT ![u] = "none"]
  /\ UNCHANGED <<today, pc, sent, pending, files, attached, removal>>

Crash(u) ==
  /\ pc[u] \in Running
  /\ pc' = [pc EXCEPT ![u] = "crashed"] /\ pending' = [pending EXCEPT ![u] = {}]
  /\ UNCHANGED <<today, quota, sent, files, attached, check, removal>>

Midnight ==
  /\ today < MaxDay /\ today' = today + 1
  /\ UNCHANGED <<quota, pc, sent, pending, files, attached, check, removal>>

Next ==
  \/ \E u \in Uploads :
       \/ Reserve(u) \/ Optimize(u) \/ Confirm(u) \/ Attach(u)
       \/ CleanRemove(u) \/ CleanMark(u) \/ HandOver(u)
       \/ ClaimExpired(u) \/ FindLocal(u) \/ ReconcileExpired(u) \/ Crash(u)
       \/ \E p \in Parts : UploadPart(u, p) \/ RegisterPart(u, p)
       \/ \E m \in Removers : FindFile(m, u)
  \/ \E m \in Removers : RemoveFile(m) \/ ReadRows(m) \/ MarkRows(m)
  \/ Midnight

Spec == Init /\ [][Next]_vars
=============================================================================

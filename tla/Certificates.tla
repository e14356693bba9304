---------------------------- MODULE Certificates ----------------------------
(* The A1 certificate of one branch: CertificateService over the row of         *)
(* company_fiscal_configs, the private bucket and CertificateCleanupService.     *)
(* Every upload makes a path of its own (createPath), so an upload request and   *)
(* its object have one name.  A step is one transaction or one call of the       *)
(* bucket.  Passwords, keys and what a certificate says but for its validity     *)
(* are left out.                                                                 *)
EXTENDS Naturals

CONSTANTS Uploads,      \* requests that upload a certificate, and their objects
          Old,          \* the object of the certificate there was before
          Validations, Removals, Activations,   \* requests; removals share one key
          Workers,      \* replicas that run the cleanup
          MaxAttempts,  \* MAX_ATTEMPTS
          None

Objects == Uploads \cup {Old}

VARIABLES config,       \* what the row says of the certificate and of production
          bucket,       \* objects stored
          job,          \* [Objects -> row of fiscal_certificate_cleanup_jobs]
          executed,     \* the removal's row of administrative_operation_executions
          office,       \* [requests -> where they stand and what they have read]
          cleaner,      \* [Workers -> the job under way]
          confirmed,    \* history: an activation was confirmed since the last suspension
          astray,       \* history: objects nobody will remove, see BucketAgrees
          unheard       \* history: uploads that committed and were told they had not

certificateVars ==
  <<config, bucket, job, executed, office, cleaner, confirmed, astray, unheard>>

Asking == Uploads \cup Validations \cup Removals \cup Activations
Idle == [at |-> "idle", path |-> None, gives |-> "none"]
NoJob == [state |-> "none", attempts |-> 0]
Open(p) == job[p].state \in {"PENDING", "FAILED_RETRYABLE", "FAILED_FINAL"}

Statuses == {"homologacao", "pendente", "suspenso", "ativo"}
Steps == {"idle", "store", "commit", "rollback", "clean", "deliver", "remove", "open",
          "encrypt", "accept", "reject", "activate", "done"}

(* Types                                                                         *)
TypeOK ==
  /\ config \in [path : Objects \cup {None}, valid : BOOLEAN, production : BOOLEAN,
                 status : Statuses]
  /\ bucket \subseteq Objects /\ astray \subseteq Objects /\ unheard \subseteq Uploads
  /\ job \in [Objects -> [state : {"none", "PENDING", "FAILED_RETRYABLE", "FAILED_FINAL",
                                  "DELIVERED"}, attempts : Nat]]
  /\ executed \in BOOLEAN /\ confirmed \in BOOLEAN
  /\ office \in [Asking -> [at : Steps, path : Objects \cup {None},
                            gives : Statuses \cup {"none"}]]
  /\ cleaner \in [Workers -> [at : {"idle", "remove", "removed", "failed"},
                              path : Objects \cup {None}, attempts : Nat]]

(* company_fiscal_configs: production is environment = producao, status is       *)
(* activationStatus, valid is certificateValidationStatus.                       *)
Init ==
  /\ config \in {[path |-> Old, valid |-> TRUE, production |-> FALSE, status |-> "homologacao"],
                 [path |-> None, valid |-> FALSE, production |-> FALSE, status |-> "pendente"]}
  /\ bucket = {config.path} \ {None}
  /\ job = [p \in Objects |-> NoJob]
  /\ executed = FALSE
  /\ office = [r \in Asking |-> Idle]
  /\ cleaner = [w \in Workers |-> [at |-> "idle", path |-> None, attempts |-> 0]]
  /\ confirmed = FALSE /\ astray = {} /\ unheard = {}

Goes(r, at) ==
  office' = [office EXCEPT ![r] = IF at = "done" THEN [Idle EXCEPT !.at = at]
                                  ELSE [@ EXCEPT !.at = at]]
Stands(r, at) == office[r].at = at

(* enqueueInTransaction: an upsert, which opens a job again and keeps its count  *)
Enqueued(p) == [job EXCEPT ![p].state = "PENDING"]

(* findConfig: what a request has read of the row; a validation also what status *)
(* an accepted certificate would give.                                           *)
Accepted ==
  IF config.status = "suspenso" THEN "suspenso"
  ELSE IF config.production THEN "ativo" ELSE "homologacao"
Read(r, at) ==
  office' = [office EXCEPT ![r] = [at |-> at, path |-> config.path,
                                   gives |-> IF r \in Validations THEN Accepted ELSE "none"]]

-----------------------------------------------------------------------------
(* upload: the file parsed and is of the branch's CNPJ; the other ones change    *)
(* nothing.                                                                      *)
BeginUpload(u) ==
  /\ Stands(u, "idle") /\ Read(u, "store")
  /\ UNCHANGED <<config, bucket, job, executed, cleaner, confirmed, astray, unheard>>

(* storage.upload: refused, or stored and not heard of: upload leaves without    *)
(* removing what it may have stored.                                             *)
Store(u) ==
  /\ Stands(u, "store")
  /\ \/ bucket' = bucket \cup {u} /\ Goes(u, "commit") /\ UNCHANGED astray
     \/ bucket' = bucket \cup {u} /\ astray' = astray \cup {u} /\ Goes(u, "done")
     \/ Goes(u, "done") /\ UNCHANGED <<bucket, astray>>
  /\ UNCHANGED <<config, job, executed, cleaner, confirmed, unheard>>

(* Fault: the cleanup of the object replaced is not queued with the commit       *)
ReplaceUnqueued(u) ==
  /\ config' = [path |-> u, valid |-> TRUE, production |-> FALSE, status |-> "homologacao"]
  /\ astray' = astray \cup ({config.path} \ {office[u].path, None})
  /\ UNCHANGED job

(* updateConfigWithAudit of an upload: the row is written as it is found, and    *)
(* the object that was read as the old one is queued for removal.  An object     *)
(* the row has been given meanwhile goes astray.                                 *)
Replace(u) ==
  /\ config' = [path |-> u, valid |-> TRUE, production |-> FALSE, status |-> "homologacao"]
  /\ job' = IF office[u].path = None THEN job ELSE Enqueued(office[u].path)
  /\ astray' = astray \cup ({config.path} \ {office[u].path, None})

CommitUpload(u) ==
  /\ Stands(u, "commit")
  /\ \/ /\ Replace(u) /\ Goes(u, IF office[u].path = None THEN "done" ELSE "clean")
        /\ UNCHANGED unheard
     \/ Replace(u) /\ Goes(u, "rollback") /\ unheard' = unheard \cup {u}
     \/ Goes(u, "rollback") /\ UNCHANGED <<config, job, astray, unheard>>
  /\ UNCHANGED <<bucket, executed, cleaner, confirmed>>

(* cleanupOrQueue: what was just stored is queued, then removed at once.         *)
Rollback(u) ==
  /\ Stands(u, "rollback")
  /\ job' = Enqueued(u)
  /\ office' = [office EXCEPT ![u].at = "clean", ![u].path = u]
  /\ UNCHANGED <<config, bucket, executed, cleaner, confirmed, astray, unheard>>

(* storage.cleanup swallows a failure, after which the worker is left with it.   *)
Clean(r) ==
  /\ Stands(r, "clean")
  /\ \/ bucket' = bucket \ {office[r].path} /\ Goes(r, "deliver")
     \/ Goes(r, "done") /\ UNCHANGED bucket
  /\ UNCHANGED <<config, job, executed, cleaner, confirmed, astray, unheard>>

(* markDelivered *)
Deliver(r) ==
  /\ Stands(r, "deliver") /\ Goes(r, "done")
  /\ job' = [job EXCEPT ![office[r].path].state = "DELIVERED"]
  /\ UNCHANGED <<config, bucket, executed, cleaner, confirmed, astray, unheard>>

-----------------------------------------------------------------------------
(* remove, under adminOperations.execute: a key whose execution is recorded is   *)
(* answered from it.                                                             *)
BeginRemoval(x) ==
  /\ Stands(x, "idle")
  /\ IF executed THEN Goes(x, "done") ELSE Read(x, "remove")
  /\ UNCHANGED <<config, bucket, job, executed, cleaner, confirmed, astray, unheard>>

(* The row is cleared as it is found and the execution recorded; of two that     *)
(* read no execution the second breaks the unique key and undoes everything.     *)
CommitRemoval(x) ==
  /\ Stands(x, "remove")
  /\ \/ executed /\ Goes(x, "done") /\ UNCHANGED <<config, job, executed, astray>>
     \/ /\ ~executed /\ executed' = TRUE
        /\ IF office[x].path = None
           THEN Goes(x, "done") /\ UNCHANGED <<config, job, astray>>
           ELSE /\ config' = [path |-> None, valid |-> FALSE, production |-> FALSE,
                              status |-> "pendente"]
                /\ job' = Enqueued(office[x].path)
                /\ astray' = astray \cup ({config.path} \ {office[x].path, None})
                /\ Goes(x, "clean")
  /\ UNCHANGED <<bucket, cleaner, confirmed, unheard>>

-----------------------------------------------------------------------------
(* validate (and testCommunication, which calls it)                             *)
BeginValidation(v) ==
  /\ Stands(v, "idle") /\ config.path # None /\ Read(v, "open")
  /\ UNCHANGED <<config, bucket, job, executed, cleaner, confirmed, astray, unheard>>

(* The object is downloaded, decrypted and parsed, and may be expired or of      *)
(* another CNPJ; the bucket may also fail.  The old object may be of the time    *)
(* before encryption: it is stored again.                                        *)
OpenObject(v) ==
  /\ Stands(v, "open")
  /\ \/ office[v].path \in bucket /\ Goes(v, "accept")
     \/ office[v].path \in bucket \cap {Old} /\ Goes(v, "encrypt")
     \/ Goes(v, "reject")
  /\ UNCHANGED <<config, bucket, job, executed, cleaner, confirmed, astray, unheard>>

(* storage.upload with upsert: an object removed meanwhile is there again.       *)
StoreAgain(v) ==
  /\ Stands(v, "encrypt") /\ Goes(v, "accept")
  /\ bucket' = bucket \cup {office[v].path}
  /\ astray' = astray \cup ({office[v].path} \ bucket)
  /\ UNCHANGED <<config, job, executed, cleaner, confirmed, unheard>>

WriteValidation(v) ==
  /\ \/ Stands(v, "accept") /\ config' = [config EXCEPT !.valid = TRUE, !.status = office[v].gives]
     \/ (Stands(v, "encrypt") \/ Stands(v, "accept") \/ Stands(v, "reject"))
        /\ config' = [config EXCEPT !.valid = FALSE, !.status = "pendente"]
  /\ Goes(v, "done")
  /\ UNCHANGED <<bucket, job, executed, cleaner, confirmed, astray, unheard>>

-----------------------------------------------------------------------------
(* activateProduction: what it asks of the row is read, the row is written as    *)
(* it is found.                                                                  *)
BeginActivation(a) ==
  /\ Stands(a, "idle") /\ config.path # None /\ config.valid /\ Read(a, "activate")
  /\ UNCHANGED <<config, bucket, job, executed, cleaner, confirmed, astray, unheard>>

CommitActivation(a) ==
  /\ Stands(a, "activate") /\ Goes(a, "done")
  /\ config' = [config EXCEPT !.production = TRUE, !.status = "ativo"]
  /\ confirmed' = TRUE
  /\ UNCHANGED <<bucket, job, executed, cleaner, astray, unheard>>

(* suspend *)
Suspend ==
  /\ config' = [config EXCEPT !.status = "suspenso"] /\ confirmed' = FALSE
  /\ UNCHANGED <<bucket, job, executed, office, cleaner, astray, unheard>>

(* updateCompanyConfig with an environment, which can only be homologacao        *)
ReturnToTests ==
  /\ config' = [config EXCEPT !.production = FALSE, !.status = "homologacao"]
  /\ UNCHANGED <<bucket, job, executed, office, cleaner, confirmed, astray, unheard>>

-----------------------------------------------------------------------------
(* processBatch: a job that is due is taken without a claim.  An object may be    *)
(* removed and the write of its job fail.                                        *)
Take(w, p) ==
  /\ cleaner[w].at = "idle" /\ job[p].state \in {"PENDING", "FAILED_RETRYABLE"}
  /\ cleaner' = [cleaner EXCEPT ![w] = [at |-> "remove", path |-> p,
                                        attempts |-> job[p].attempts]]
  /\ UNCHANGED <<config, bucket, job, executed, office, confirmed, astray, unheard>>

RemoveObject(w) ==
  /\ cleaner[w].at = "remove"
  /\ \/ /\ bucket' = bucket \ {cleaner[w].path}
        /\ cleaner' = [cleaner EXCEPT ![w].at = "removed"]
     \/ /\ bucket' \in {bucket, bucket \ {cleaner[w].path}}
        /\ cleaner' = [cleaner EXCEPT ![w].at = "failed"]
  /\ UNCHANGED <<config, job, executed, office, confirmed, astray, unheard>>

(* What process() writes: by the job's id, whatever its state is by now          *)
Settled(w) ==
  IF cleaner[w].at = "removed" THEN [state |-> "DELIVERED", attempts |-> job[cleaner[w].path].attempts]
  ELSE [state |-> IF cleaner[w].attempts + 1 >= MaxAttempts THEN "FAILED_FINAL"
                  ELSE "FAILED_RETRYABLE",
        attempts |-> cleaner[w].attempts + 1]

Settle(w) ==
  /\ cleaner[w].at \in {"removed", "failed"}
  /\ job' = [job EXCEPT ![cleaner[w].path] = Settled(w)]
  /\ cleaner' = [cleaner EXCEPT ![w] = [at |-> "idle", path |-> None, attempts |-> 0]]
  /\ UNCHANGED <<config, bucket, executed, office, confirmed, astray, unheard>>

(* A process goes away with what it was doing: an object whose upload had not    *)
(* committed goes astray.                                                        *)
Crash ==
  \/ /\ \E r \in Asking :
          /\ office[r].at \notin {"idle", "done"} /\ Goes(r, "done")
          /\ astray' = IF office[r].at \in {"commit", "rollback"} THEN astray \cup ({r} \ unheard)
                       ELSE astray
     /\ UNCHANGED <<config, bucket, job, executed, cleaner, confirmed, unheard>>
  \/ /\ \E w \in Workers :
          /\ cleaner[w].at # "idle"
          /\ cleaner' = [cleaner EXCEPT ![w] = [at |-> "idle", path |-> None, attempts |-> 0]]
     /\ UNCHANGED <<config, bucket, job, executed, office, confirmed, astray, unheard>>

Next ==
  \/ \E u \in Uploads : BeginUpload(u) \/ Store(u) \/ CommitUpload(u) \/ Rollback(u)
  \/ \E x \in Removals : BeginRemoval(x) \/ CommitRemoval(x)
  \/ \E r \in Uploads \cup Removals : Clean(r) \/ Deliver(r)
  \/ \E v \in Validations : BeginValidation(v) \/ OpenObject(v) \/ StoreAgain(v) \/ WriteValidation(v)
  \/ \E a \in Activations : BeginActivation(a) \/ CommitActivation(a)
  \/ Suspend \/ ReturnToTests
  \/ \E w \in Workers : RemoveObject(w) \/ Settle(w) \/ \E p \in Objects : Take(w, p)
  \/ Crash
Spec == Init /\ [][Next]_certificateVars

-----------------------------------------------------------------------------
(* The certificate that the row names is there, and what is stored and not named *)
(* will be removed: an open job says so, or the upload is under way.  Exempt are *)
(* an upload that committed and was told it had not (its own rollback removes    *)
(* what the row names) and the objects astray: of a process that died between    *)
(* the storing and the commit, of an answer of the bucket that was lost, of a    *)
(* row that was given another object between the read and the write of an        *)
(* upload or a removal, and of a validation that stored an object again.         *)
BucketAgrees ==
  /\ config.path \in {None} \cup unheard \cup bucket
  /\ \A p \in bucket \ astray :
       \/ p = config.path \/ Open(p)
       \/ p \in Uploads /\ office[p].at \in {"commit", "rollback"}

(* docs/fiscal-a1-activation.md: "suspenso: ativacao interrompida pelo           *)
(* administrador; o envio em producao e bloqueado" and "ativo: producao ativada  *)
(* apos certificado, CNPJ, validade, provider real e confirmacao do              *)
(* administrador": after a suspension production is active again only by an      *)
(* activation.                                                                   *)
SuspensionHolds == config.status = "ativo" /\ config.production => confirmed
=============================================================================

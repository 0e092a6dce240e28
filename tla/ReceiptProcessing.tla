-------------------------- MODULE ReceiptProcessing --------------------------
(***************************************************************************)
(* Receipts of the Document service, from the upload to the removal of the *)
(* original: the gRPC handlers (service/document.py), the OCR worker and   *)
(* its job queue (worker/ocr.py, repository/job.py) and the retention      *)
(* worker (worker/retention.py), all of src/document/src/delim_document.   *)
(*                                                                         *)
(* One asyncio process runs them all; they interleave at every await, and  *)
(* every statement and every call of the object storage is a step of its   *)
(* own.  A receipt is named by its object key.  Time is abstract.          *)
(***************************************************************************)
EXTENDS Naturals, Sequences, FiniteSets

CONSTANTS
  Receipts,     \* uploads, each with its object_key
  Handlers,     \* other requests being served
  MaxAttempts,  \* worker.max_attempts
  MaxJobs,      \* bound: rows of document_jobs
  MaxFailures     \* bound: crashes, abandoned requests and statements that fail

ASSUME ReceiptAssumption ==
  MaxAttempts \in Nat \ {0} /\ MaxJobs \in Nat /\ MaxFailures \in Nat

VARIABLES
  status,   \* document_receipts.status, "absent" without a row
  purged,   \* receipts with original_purged_at
  originals,   \* originals in the object storage
  result,   \* receipts with a row in document_ocr_results
  jobs,     \* document_jobs, in the order of their ids
  due,      \* pending jobs whose next_attempt_at has come
  upload,   \* upload[r]: what create_receipt does next
  handling,  \* handling[h]: what another handler does next, and to which receipt
  worker,   \* what the OCR worker does next, and with which job
  sweep,    \* receipts the retention pass still has in hand
  swept,    \* the one among them whose original it has just removed
  expired,  \* receipts whose retention_days are over
  failures    \* faults so far

tables  == <<status, purged, originals, result, jobs, due>>
callers == <<upload, handling>>
sweeper == <<sweep, swept>>
receiptVars == <<tables, callers, worker, sweeper, expired, failures>>

JobIds == 1 .. Len(jobs)
NoJob  == 0
Idle   == [at |-> "idle", job |-> NoJob]
Quiet  == [at |-> "idle", receipt |-> "none"]

Job ==
  [receipt : Receipts, attempts : 0 .. MaxAttempts,
   status : {"pending", "processing", "completed", "failed"}]
Handling == {Quiet} \cup [at : {"retry", "remove", "purge"}, receipt : Receipts]
Working  == {"get", "mark", "download", "save", "ready", "complete", "retry", "requeue",
             "fail", "fail_receipt"}

\* Receipts and jobs stay in the states of their enums, a job is never tried more
\* than max_attempts times, and the one worker has a job exactly while it works
\* (document/src/delim_document/worker/ocr.py, repository/job.py).
ReceiptTypeOK ==
  /\ status \in [Receipts -> {"absent", "uploaded", "queued", "processing",
                              "ready", "failed", "deleted"}]
  /\ purged \subseteq Receipts /\ originals \subseteq Receipts
  /\ result \subseteq Receipts /\ expired \subseteq Receipts
  /\ jobs \in Seq(Job) /\ Len(jobs) =< MaxJobs
  /\ due \subseteq JobIds
  /\ upload \in [Receipts -> {"put", "insert", "job", "mark", "undo", "drop", "done"}]
  /\ handling \in [Handlers -> Handling]
  /\ \/ worker \in [at : {"down", "idle"}, job : {NoJob}]
     \/ worker \in [at : Working, job : JobIds]
  /\ sweep \subseteq Receipts /\ swept \subseteq sweep
  /\ \A r, other \in swept : r = other
  /\ failures \in 0 .. MaxFailures

ReceiptInit ==
  /\ status = [r \in Receipts |-> "absent"]
  /\ purged = {} /\ originals = {} /\ result = {}
  /\ jobs = <<>> /\ due = {}
  /\ upload = [r \in Receipts |-> "put"]
  /\ handling = [h \in Handlers |-> Quiet]
  /\ worker = Idle
  /\ sweep = {} /\ swept = {}
  /\ expired = {}
  /\ failures = 0

Up == worker.at # "down"

\* A step is as planned, or it fails: then `next` is what the code does instead.
AsPlanned == UNCHANGED failures
Fault == failures < MaxFailures /\ failures' = failures + 1

-----------------------------------------------------------------------------
(* Statements *)

\* mark_status: WHERE deleted_at IS NULL
MarkStatus(r, new) ==
  status' = IF status[r] = "deleted" THEN status ELSE [status EXCEPT ![r] = new]

\* JobRepository.create: INSERT ... (receipt_id, type, 'pending')
InsertJob(r) ==
  /\ Len(jobs) < MaxJobs
  /\ jobs' = Append(jobs, [receipt |-> r, status |-> "pending", attempts |-> 0])
  /\ due' = due \cup {Len(jobs) + 1}

\* mark_completed, schedule_retry and mark_failed: WHERE id = $1
SetJob(j, new) ==
  /\ jobs' = [jobs EXCEPT ![j].status = new]
  /\ due' = due \ {j}

Active(r) == {j \in JobIds : jobs[j].receipt = r /\ jobs[j].status \in {"pending", "processing"}}

-----------------------------------------------------------------------------
(* create_receipt *)

UploadGoes(r, next) == Up /\ upload' = [upload EXCEPT ![r] = next]

Put(r) ==
  /\ upload[r] = "put"
  /\ \/ UploadGoes(r, "insert") /\ originals' = originals \cup {r} /\ AsPlanned
     \/ UploadGoes(r, "done") /\ originals' \in {originals, originals \cup {r}} /\ Fault
  /\ UNCHANGED <<status, purged, result, jobs, due, handling, worker, sweeper, expired>>

\* A failed INSERT may have been committed; without its answer there is no row to undo.
InsertReceipt(r) ==
  /\ upload[r] = "insert"
  /\ \/ UploadGoes(r, "job") /\ status' = [status EXCEPT ![r] = "uploaded"] /\ AsPlanned
     \/ UploadGoes(r, "drop") /\ status' \in {status, [status EXCEPT ![r] = "uploaded"]} /\ Fault
  /\ UNCHANGED <<purged, originals, result, jobs, due, handling, worker, sweeper, expired>>

CreateJob(r) ==
  /\ upload[r] = "job"
  /\ \/ UploadGoes(r, "mark") /\ InsertJob(r) /\ AsPlanned
     \/ UploadGoes(r, "undo") /\ (InsertJob(r) \/ UNCHANGED <<jobs, due>>) /\ Fault
  /\ UNCHANGED <<status, purged, originals, result, handling, worker, sweeper, expired>>

\* "created receipt disappeared" when the row has been deleted meanwhile.
MarkQueued(r) ==
  /\ upload[r] = "mark"
  /\ \/ /\ UploadGoes(r, IF status[r] = "deleted" THEN "undo" ELSE "done")
        /\ MarkStatus(r, "queued")
        /\ AsPlanned
     \/ /\ UploadGoes(r, "undo")
        /\ MarkStatus(r, "queued") \/ UNCHANGED status
        /\ Fault
  /\ UNCHANGED <<purged, originals, result, jobs, due, handling, worker, sweeper, expired>>

\* Both clean-up calls are made with suppress(Exception).
UndoReceipt(r) ==
  /\ upload[r] = "undo"
  /\ UploadGoes(r, "drop")
  /\ \/ status' = [status EXCEPT ![r] = "deleted"] /\ AsPlanned
     \/ UNCHANGED status /\ Fault
  /\ UNCHANGED <<purged, originals, result, jobs, due, handling, worker, sweeper, expired>>

DropObject(r) ==
  /\ upload[r] = "drop"
  /\ UploadGoes(r, "done")
  /\ \/ originals' = originals \ {r} /\ AsPlanned
     \/ UNCHANGED originals /\ Fault
  /\ UNCHANGED <<status, purged, result, jobs, due, handling, worker, sweeper, expired>>

UploadStep(r) ==
  Put(r) \/ InsertReceipt(r) \/ CreateJob(r) \/ MarkQueued(r) \/ UndoReceipt(r) \/ DropObject(r)

\* The client gives up: CancelledError is no Exception, nothing is undone.
AbandonUpload(r) ==
  /\ upload[r] \notin {"put", "done"}
  /\ UploadGoes(r, "done") /\ Fault
  /\ UNCHANGED <<tables, handling, worker, sweeper, expired>>

-----------------------------------------------------------------------------
(* delete_receipt, delete_receipt_original, retry_receipt_ocr *)

Serve(h, at, r) == Up /\ handling' = [handling EXCEPT ![h] = [at |-> at, receipt |-> r]]
Answer(h) == Up /\ handling' = [handling EXCEPT ![h] = Quiet]

\* soft_delete has no condition on deleted_at: a repeated call goes on.
DeleteReceipt(h, r) ==
  /\ handling[h] = Quiet /\ status[r] # "absent"
  /\ Serve(h, "remove", r)
  /\ status' = [status EXCEPT ![r] = "deleted"]
  /\ UNCHANGED <<purged, originals, result, jobs, due, upload, worker, sweeper, expired, failures>>

DeleteReceiptOriginal(h, r) ==
  /\ handling[h] = Quiet /\ status[r] \notin {"absent", "deleted"} /\ r \notin purged
  /\ Serve(h, "remove", r)
  /\ UNCHANGED <<tables, upload, worker, sweeper, expired, failures>>

RemoveOriginal(h, r) ==
  /\ handling[h] = [at |-> "remove", receipt |-> r]
  /\ \/ Serve(h, "purge", r) /\ originals' = originals \ {r} /\ AsPlanned
     \/ Answer(h) /\ originals' \in {originals, originals \ {r}} /\ Fault
  /\ UNCHANGED <<status, purged, result, jobs, due, upload, worker, sweeper, expired>>

MarkOriginalPurged(h, r) ==
  /\ handling[h] = [at |-> "purge", receipt |-> r]
  /\ Answer(h)
  /\ \/ purged' = purged \cup {r} /\ AsPlanned
     \/ UNCHANGED purged /\ Fault
  /\ UNCHANGED <<status, originals, result, jobs, due, upload, worker, sweeper, expired>>

\* The service checks the receipt it has read ...
RetryReceiptOCR(h, r) ==
  /\ handling[h] = Quiet /\ status[r] = "failed" /\ r \notin purged
  /\ Serve(h, "retry", r)
  /\ UNCHANGED <<tables, upload, worker, sweeper, expired, failures>>

\* Variant: the transaction trusts that check.
RetryUnchecked(r) == status[r] # "deleted"

\* ... and the transaction its status and its jobs again, under the row's lock.
Retryable(r) == status[r] = "failed" /\ Active(r) = {}

CreateRetry(h, r) ==
  /\ handling[h] = [at |-> "retry", receipt |-> r]
  /\ Answer(h)
  /\ IF Retryable(r)
     THEN InsertJob(r) /\ status' = [status EXCEPT ![r] = "queued"]
     ELSE UNCHANGED <<jobs, due, status>>
  /\ UNCHANGED <<purged, originals, result, upload, worker, sweeper, expired, failures>>

HandlerStep(h, r) ==
  \/ DeleteReceipt(h, r) \/ DeleteReceiptOriginal(h, r) \/ RetryReceiptOCR(h, r)
  \/ RemoveOriginal(h, r) \/ MarkOriginalPurged(h, r) \/ CreateRetry(h, r)

AbandonRequest(h) ==
  /\ handling[h] # Quiet
  /\ Answer(h) /\ Fault
  /\ UNCHANGED <<tables, upload, worker, sweeper, expired>>

-----------------------------------------------------------------------------
(* The OCR worker *)

At(step) == worker.at = step
Goes(next) == worker' = [worker EXCEPT !.at = next]
JobDone == worker' = Idle

Mine == jobs[worker.job].receipt

\* Variant: a job that was tried once is left alone.
ClaimableNew(j) == jobs[j].status = "pending" /\ j \in due /\ jobs[j].attempts = 0

\* claim_pending
Claimable(j) ==
  /\ jobs[j].status = "pending" /\ j \in due /\ jobs[j].attempts < MaxAttempts
  /\ status[jobs[j].receipt] # "deleted"

ClaimPending(j) ==
  /\ At("idle") /\ Claimable(j)
  /\ jobs' = [jobs EXCEPT ![j].status = "processing", ![j].attempts = @ + 1]
  /\ due' = due \ {j}
  /\ worker' = [at |-> "get", job |-> j]
  /\ UNCHANGED <<status, purged, originals, result, callers, sweeper, expired, failures>>

\* Any statement of _process may fail, before or after it was committed: the
\* worker goes on with _retry_or_fail.
Next(planned) == \/ Goes(planned) /\ AsPlanned
                 \/ Goes("retry") /\ Fault

GetForProcessing ==
  /\ At("get")
  /\ IF status[Mine] = "deleted" THEN Goes("retry") /\ AsPlanned ELSE Next("mark")
  /\ UNCHANGED <<tables, callers, sweeper, expired>>

MarkReceiptProcessing ==
  /\ At("mark")
  /\ Next("download")
  /\ MarkStatus(Mine, "processing")
  /\ UNCHANGED <<purged, originals, result, jobs, due, callers, sweeper, expired>>

\* The download, then the recognition, which reads nothing shared: a result, an
\* image that cannot be decoded, or an error of the storage or of the OCR.
Recognize ==
  /\ At("download")
  /\ \E next \in {"save", "fail", "retry"} :
       /\ next # "retry" => Mine \in originals
       /\ Goes(next)
  /\ UNCHANGED <<tables, callers, sweeper, expired, failures>>

\* replace_result locks the receipt and refuses a deleted one.
ReplaceResult ==
  /\ At("save")
  /\ IF status[Mine] = "deleted"
     THEN Goes("retry") /\ AsPlanned /\ UNCHANGED result
     ELSE Next("ready") /\ result' = result \cup {Mine}
  /\ UNCHANGED <<status, purged, originals, jobs, due, callers, sweeper, expired>>

MarkReceiptReady ==
  /\ At("ready")
  /\ Next("complete")
  /\ MarkStatus(Mine, "ready")
  /\ UNCHANGED <<purged, originals, result, jobs, due, callers, sweeper, expired>>

MarkCompleted ==
  /\ At("complete")
  /\ SetJob(worker.job, "completed")
  /\ \/ JobDone /\ AsPlanned
     \/ Goes("retry") /\ Fault
  /\ UNCHANGED <<status, purged, originals, result, callers, sweeper, expired>>

RetryOrFail ==
  /\ At("retry")
  /\ IF jobs[worker.job].attempts >= MaxAttempts
     THEN Goes("fail") /\ UNCHANGED <<jobs, due>>
     ELSE Goes("requeue") /\ SetJob(worker.job, "pending")
  /\ UNCHANGED <<status, purged, originals, result, callers, sweeper, expired, failures>>

\* Variant: the receipt of a job that will be retried is shown as failed.
RequeueAsFailed ==
  /\ At("requeue")
  /\ JobDone
  /\ MarkStatus(Mine, "failed")
  /\ UNCHANGED <<purged, originals, result, jobs, due, callers, sweeper, expired, failures>>

RequeueReceipt ==
  /\ At("requeue")
  /\ JobDone
  /\ MarkStatus(Mine, "queued")
  /\ UNCHANGED <<purged, originals, result, jobs, due, callers, sweeper, expired, failures>>

FailJob ==
  /\ At("fail")
  /\ SetJob(worker.job, "failed")
  /\ Goes("fail_receipt")
  /\ UNCHANGED <<status, purged, originals, result, callers, sweeper, expired, failures>>

FailReceipt ==
  /\ At("fail_receipt")
  /\ JobDone
  /\ MarkStatus(Mine, "failed")
  /\ UNCHANGED <<purged, originals, result, jobs, due, callers, sweeper, expired, failures>>

WorkerStep ==
  \/ \E j \in JobIds : ClaimPending(j)
  \/ GetForProcessing \/ MarkReceiptProcessing \/ Recognize \/ ReplaceResult \/ MarkReceiptReady
  \/ MarkCompleted \/ RetryOrFail \/ RequeueReceipt \/ FailJob \/ FailReceipt

\* next_attempt_at of a retried job comes.
Tick(j) ==
  /\ jobs[j].status = "pending" /\ j \notin due
  /\ due' = due \cup {j}
  /\ UNCHANGED <<status, purged, originals, result, jobs, callers, worker, sweeper, expired, failures>>

-----------------------------------------------------------------------------
(* The retention worker *)

\* Variant: only the age counts.
DueExpired == {r \in Receipts : status[r] # "absent" /\ r \notin purged /\ r \in expired}

\* due_receipts.  cleanup_batch_size only puts a receipt off to a later pass.
DueReceipts ==
  {r \in Receipts : /\ status[r] # "absent" /\ r \notin purged
                    /\ status[r] = "deleted" \/ r \in expired}

SweepBegin ==
  /\ Up /\ sweep = {} /\ DueReceipts # {}
  /\ sweep' = DueReceipts
  /\ UNCHANGED <<tables, callers, worker, swept, expired, failures>>

SweepRemove(r) ==
  /\ Up /\ r \in sweep /\ swept = {}
  /\ originals' = originals \ {r}
  /\ swept' = {r}
  /\ UNCHANGED <<status, purged, result, jobs, due, callers, worker, sweep, expired, failures>>

SweepMark(r) ==
  /\ Up /\ r \in swept
  /\ purged' = purged \cup {r}
  /\ sweep' = sweep \ {r} /\ swept' = {}
  /\ UNCHANGED <<status, originals, result, jobs, due, callers, worker, expired, failures>>

\* An error ends the pass; the next one begins it again.
SweepFails ==
  /\ Up /\ sweep # {}
  /\ Fault
  /\ sweep' = {} /\ swept' = {}
  /\ UNCHANGED <<tables, callers, worker, expired>>

SweepStep == SweepBegin \/ \E r \in Receipts : SweepRemove(r) \/ SweepMark(r)

\* retention_days pass after a row was made, whether its original is there or not;
\* its upload is long over by then.
ExpireOriginal(r) ==
  /\ status[r] # "absent" /\ r \notin expired /\ upload[r] = "done"
  /\ expired' = expired \cup {r}
  /\ UNCHANGED <<tables, callers, worker, sweeper, failures>>

-----------------------------------------------------------------------------
(* The process *)

\* It dies; or the worker's task ends with an exception of a statement of
\* _fail or _retry_or_fail and the service stops.  Requests end where they are.
Crash ==
  /\ Up /\ Fault
  /\ worker' = [at |-> "down", job |-> NoJob]
  /\ upload' = [r \in Receipts |-> IF upload[r] = "put" THEN "put" ELSE "done"]
  /\ handling' = [h \in Handlers |-> Quiet]
  /\ sweep' = {} /\ swept' = {}
  /\ UNCHANGED <<tables, expired>>

\* recover_stale, once, before the worker starts: of the jobs left in
\* 'processing', `old` were started more than stale_after_minutes ago.
Start(old) ==
  /\ ~Up
  /\ \A j \in old : jobs[j].status = "processing"
  /\ jobs' = [j \in JobIds |-> IF j \in old THEN [jobs[j] EXCEPT !.status = "pending"] ELSE jobs[j]]
  /\ due' = due \cup old
  /\ worker' = Idle
  /\ UNCHANGED <<status, purged, originals, result, callers, sweeper, expired, failures>>

ReceiptNext ==
  \/ \E r \in Receipts : UploadStep(r) \/ AbandonUpload(r) \/ ExpireOriginal(r)
  \/ \E h \in Handlers : AbandonRequest(h) \/ \E r \in Receipts : HandlerStep(h, r)
  \/ WorkerStep
  \/ \E j \in JobIds : Tick(j)
  \/ SweepStep \/ SweepFails
  \/ Crash
  \/ \E old \in SUBSET JobIds : Start(old)

ReceiptSpec == ReceiptInit /\ [][ReceiptNext]_receiptVars

\* The event loop runs every task that can go on, the process is started again
\* and the time of a postponed job comes.  Nothing makes a client act, but its
\* request, once begun, is served; and retention_days need never be over.
FairReceiptSpec ==
  /\ ReceiptSpec
  /\ \A r \in Receipts : WF_receiptVars(upload[r] # "put" /\ UploadStep(r))
  /\ WF_receiptVars(WorkerStep) /\ WF_receiptVars(SweepStep)
  /\ \A j \in 1 .. MaxJobs : WF_receiptVars(j \in JobIds /\ Tick(j))
  /\ WF_receiptVars(\E old \in SUBSET JobIds : Start(old))

-----------------------------------------------------------------------------
(* Properties *)

\* However retries, the worker and crashes interleave, a receipt has at most
\* one job to do, and none when it is shown as failed: a retry can then be asked for.
OneActiveJob ==
  \A r \in Receipts :
    /\ Cardinality(Active(r)) =< 1
    /\ status[r] = "failed" => Active(r) = {}

\* A receipt that is shown as ready has a result to show (get_ocr_result raises
\* "OCR result is not available" otherwise), one that is shown as failed can be
\* retried, and only an original that is really gone is recorded as purged:
\* retention never looks at it again.
RecordsTellTruth ==
  /\ OneActiveJob
  /\ \A r \in Receipts :
       /\ status[r] = "ready" => r \in result
       /\ r \in purged => r \notin originals

\* Once its upload has been answered, no job is left and the worker has turned
\* to something else, a ready receipt stays ready until it is deleted, whoever
\* asked for a retry before.  (The worker itself may still fail a ready receipt:
\* when mark_completed fails at the last attempt.)  And the worker reads a receipt
\* long before it writes to it: one deleted in between stays deleted and gets no
\* result.
FinishedForGood ==
  [][\A r \in Receipts :
       /\ /\ status[r] = "ready" /\ upload[r] = "done" /\ Active(r) = {}
          /\ worker.job # NoJob => Mine # r
          => status'[r] \in {"ready", "deleted"}
       /\ status[r] = "deleted" => status'[r] = "deleted" /\ (r \in result' => r \in result)
     ]_receiptVars

\* As long as nothing crashes, fails or is abandoned, the queue is emptied again
\* and again, whatever the storage and the OCR answer: every job comes to an end,
\* or its receipt is deleted.
JobsSettle ==
  []<>(\/ failures > 0
       \/ \A j \in JobIds : \/ jobs[j].status \in {"completed", "failed"}
                            \/ status[jobs[j].receipt] = "deleted")

\* The original of a deleted receipt is removed, even when the request that
\* deleted it died half-way: retention takes over, without waiting for the
\* receipt's retention_days (worker/retention.py 1-7).
DeletedIsPurged ==
  \A r \in Receipts : status[r] = "deleted" ~> r \in purged /\ r \notin originals
===============================================================================

---------------------------- MODULE ScanTransactions ----------------------------
(***************************************************************************)
(* The transactions that meet on one scan and its queue rows, statement by *)
(* statement: the cancellation of a scan (cancel_scan), the worker's       *)
(* acknowledgement of it (_acknowledge_cancellation), the loop that fails  *)
(* stale scans (fail_stale_scans), the enqueueing of jobs, the failing of  *)
(* a scan by its job (_fenced_update) and the checkpoint of an upload      *)
(* (_begin_external_effect_sync).  JobQueue takes each of them as one      *)
(* step, a deletion as the two that its commit makes of it; here           *)
(* PostgreSQL's READ COMMITTED is visible: every statement sees what is    *)
(* committed when it starts, only row locks order two transactions, and    *)
(* the server aborts one transaction of a deadlock.                        *)
(***************************************************************************)
EXTENDS FiniteSets

CONSTANTS
    Jobs,        \* the queue rows whose payload names the scan
    LocalJobs,   \* those of type "scan", enqueued by enqueue_local_scan_job
    UploadJobs,  \* those of type "upload"
    Nobody       \* the owner of an unlocked row

Department == "department"
Scan == "scan"

ASSUME JobsAssumption ==
    /\ Department \notin Jobs /\ Scan \notin Jobs
    /\ LocalJobs \subseteq Jobs
    /\ UploadJobs \subseteq Jobs \ LocalJobs

Rows == Jobs \cup {Department, Scan}

\* One transaction of each kind, per job where it is about a job.
CancelTx == <<"cancel", "user">>
TimeoutTx == <<"timeout", "loop">>
Tx == ({"enqueue", "ack"} \X Jobs) \cup ({"fail"} \X LocalJobs)
          \cup ({"checkpoint"} \X UploadJobs) \cup {CancelTx, TimeoutTx}

ASSUME NobodyAssumption == Nobody \notin Tx

VARIABLES
    job,     \* committed status of each row; "cancelling" is a processing row
             \* whose last_error_code is scan_cancel_requested
    scan,    \* committed status of the scan row
    fence,   \* its artifact_cleanup_token is set
    owner,   \* owner[r]: the transaction that holds the lock of row r
    at,      \* at[t]: the statement transaction t is about to execute
    seen     \* seen[t]: the rows its last query of the queue returned

vars == <<job, scan, fence, owner, at, seen>>

Statuses == {"none", "pending", "processing", "cancelling", "cancelled", "done"}
ScanStatuses == {"open", "completed", "failed", "timed_out", "deleted"}
Statements == {"idle", "jobs", "job", "department", "scan", "others", "commit",
               "claim", "authority", "erase", "lock", "recheck", "insert"}

STypeOK ==
    /\ job \in [Jobs -> Statuses]
    /\ scan \in ScanStatuses
    /\ fence \in BOOLEAN
    /\ owner \in [Rows -> Tx \cup {Nobody}]
    /\ at \in [Tx -> Statements]
    /\ seen \in [Tx -> SUBSET Jobs]

Init ==
    /\ job = [j \in Jobs |-> "none"]
    /\ scan = "open"
    /\ fence = FALSE
    /\ owner = [r \in Rows |-> Nobody]
    /\ at = [t \in Tx |-> "idle"]
    /\ seen = [t \in Tx |-> {}]

-------------------------------------------------------------------------------
(* Rows, locks and transactions *)

Active(status) == status \in {"pending", "processing", "cancelling"}
Running(status) == status \in {"processing", "cancelling"}

Free(t, r) == owner[r] \in {t, Nobody}
Locks(t, rows) == owner' = [r \in Rows |-> IF r \in rows THEN t ELSE owner[r]]
Releases(t) == owner' = [r \in Rows |-> IF owner[r] = t THEN Nobody ELSE owner[r]]

Goes(t, statement) == at' = [at EXCEPT ![t] = statement]

\* COMMIT and ROLLBACK give every lock of the transaction back.
Ends(t) ==
    /\ Releases(t)
    /\ Goes(t, "idle")
    /\ seen' = [seen EXCEPT ![t] = {}]

Rollback(t) == Ends(t) /\ UNCHANGED <<job, scan, fence>>

\* SELECT ... FOR UPDATE of one row, then on to another statement.
LockRow(t, r, statement) ==
    /\ Free(t, r)
    /\ Locks(t, {r})
    /\ Goes(t, statement)
    /\ UNCHANGED <<job, scan, fence, seen>>

SetJob(j, status) == job' = [job EXCEPT ![j] = status]

-------------------------------------------------------------------------------
(* delete_for_scan and what its caller does after it *)

\* What transaction t does to the queue rows it has locked: cancel_scan ends a
\* pending row and leaves a request on a processing one, an acknowledgement ends
\* its own row.
Marked(t, j) ==
    IF j \notin seen[t] \/ ~Active(job[j]) THEN job[j]
    ELSE IF t[1] = "ack" \/ job[j] = "pending" THEN "cancelled"
    ELSE "cancelling"
Marks(t) == job' = [j \in Jobs |-> Marked(t, j)]

LocksDepartment(t) ==
    /\ at[t] = "department"
    /\ t[1] \in {"cancel", "ack"}
    /\ LockRow(t, Department, "claim")

\* The scan and its artifacts are fenced and claimed, and that is committed at
\* once, with the caller's changes of the queue: every lock is given back before
\* the files go.  Artifacts that must not go refuse the whole transaction.
ClaimsCleanup(t) ==
    /\ at[t] = "claim"
    /\ Free(t, Scan)
    /\ \/ Rollback(t)
       \/ /\ scan # "deleted"
          /\ Marks(t)
          /\ fence' = TRUE
          /\ Releases(t)
          /\ \E next \in {"authority", "erase"} : Goes(t, next)
          /\ seen' = [seen EXCEPT ![t] = {}]
          /\ UNCHANGED scan

\* With artifacts to remove, their authority is locked again, parents first.
LocksAuthority(t) ==
    /\ at[t] = "authority"
    /\ LockRow(t, Department, "erase")

\* The caller deletes the scan and commits; a scan that is gone meanwhile is an
\* error.
ErasesScan(t) ==
    /\ at[t] = "erase"
    /\ Free(t, Scan)
    /\ \/ scan = "deleted" /\ Rollback(t)
       \/ /\ scan # "deleted"
          /\ scan' = "deleted"
          /\ Ends(t)
          /\ UNCHANGED <<job, fence>>

-------------------------------------------------------------------------------
(* cancel_scan *)

\* The scan is read without a lock and its active rows are selected.
CancelSelects ==
    /\ at[CancelTx] = "idle"
    /\ scan # "deleted"
    /\ seen' = [seen EXCEPT ![CancelTx] = {j \in Jobs : Active(job[j])}]
    /\ Goes(CancelTx, "jobs")
    /\ UNCHANGED <<job, scan, fence, owner>>

StillActive == {j \in seen[CancelTx] : Active(job[j])}

\* Once it has the locks it sees the rows as they are by then.  A processing row
\* leaves the deletion to its worker.
CancelRequests ==
    /\ at[CancelTx] = "jobs"
    /\ \A j \in seen[CancelTx] : Free(CancelTx, j)
    /\ \E j \in StillActive : Running(job[j])
    /\ Marks(CancelTx)
    /\ Ends(CancelTx)
    /\ UNCHANGED <<scan, fence>>

CancelDeletes ==
    /\ at[CancelTx] = "jobs"
    /\ \A j \in seen[CancelTx] : Free(CancelTx, j)
    /\ \A j \in StillActive : ~Running(job[j])
    /\ Locks(CancelTx, StillActive)
    /\ seen' = [seen EXCEPT ![CancelTx] = StillActive]
    /\ Goes(CancelTx, "department")
    /\ UNCHANGED <<job, scan, fence>>

-------------------------------------------------------------------------------
(* _acknowledge_cancellation, by the worker or by reap_stale_jobs *)

AckTx(j) == <<"ack", j>>

\* The handler has returned, or its execution authority is free.
AckBegins(j) ==
    /\ at[AckTx(j)] = "idle"
    /\ job[j] = "cancelling"
    /\ Goes(AckTx(j), "job")
    /\ UNCHANGED <<job, scan, fence, owner, seen>>

AckLocksJob(j) ==
    /\ at[AckTx(j)] = "job"
    /\ Free(AckTx(j), j)
    /\ \/ /\ job[j] = "cancelling"
          /\ Locks(AckTx(j), {j})
          /\ seen' = [seen EXCEPT ![AckTx(j)] = {j}]
          /\ Goes(AckTx(j), "scan")
          /\ UNCHANGED <<job, scan, fence>>
       \/ job[j] # "cancelling" /\ Rollback(AckTx(j))

\* Mutant: the other rows are looked at without the lock of the scan.
AckReadsScan(j) ==
    /\ at[AckTx(j)] = "scan"
    /\ Goes(AckTx(j), IF scan = "deleted" THEN "commit" ELSE "others")
    /\ UNCHANGED <<job, scan, fence, owner, seen>>

\* The scan is locked before the other rows are looked at.
AckLocksScan(j) ==
    /\ at[AckTx(j)] = "scan"
    /\ Free(AckTx(j), Scan)
    /\ IF scan = "deleted"
       THEN Goes(AckTx(j), "commit") /\ UNCHANGED <<job, scan, fence, owner, seen>>
       ELSE LockRow(AckTx(j), Scan, "others")

\* Another processing row of the scan leaves the deletion to its own
\* acknowledgement; pending rows are not looked at.
AckLooksAround(j) ==
    /\ at[AckTx(j)] = "others"
    /\ Goes(AckTx(j), IF \E k \in Jobs \ {j} : Running(job[k]) THEN "commit" ELSE "department")
    /\ UNCHANGED <<job, scan, fence, owner, seen>>

AckCommits(j) ==
    /\ at[AckTx(j)] = "commit"
    /\ Marks(AckTx(j))
    /\ Ends(AckTx(j))
    /\ UNCHANGED <<scan, fence>>

-------------------------------------------------------------------------------
(* fail_stale_scans *)

OwnedByQueue == \E j \in LocalJobs : Active(job[j])

\* The query: an old scan that is still open and has no active scan job, as the
\* statement's snapshot shows it ...
TimeoutSelects ==
    /\ at[TimeoutTx] = "idle"
    /\ scan = "open"
    /\ ~OwnedByQueue
    /\ Goes(TimeoutTx, "lock")
    /\ UNCHANGED <<job, scan, fence, owner, seen>>

\* ... then its row lock: a locked row is skipped, a changed one evaluated again.
TimeoutLocks ==
    /\ at[TimeoutTx] = "lock"
    /\ \/ /\ Free(TimeoutTx, Scan)
          /\ scan = "open"
          /\ LockRow(TimeoutTx, Scan, "recheck")
       \/ /\ ~Free(TimeoutTx, Scan) \/ scan # "open"
          /\ Rollback(TimeoutTx)

\* Mutant: the query is trusted.
TimeoutTrustsQuery ==
    /\ at[TimeoutTx] = "recheck"
    /\ scan' = "timed_out"
    /\ Ends(TimeoutTx)
    /\ UNCHANGED <<job, fence>>

\* Mutant: a scan that is owned again is skipped, and the session is left open.
TimeoutKeepsLock ==
    /\ at[TimeoutTx] = "recheck"
    /\ \/ /\ OwnedByQueue
          /\ Goes(TimeoutTx, "idle")
          /\ UNCHANGED <<job, scan, fence, owner, seen>>
       \/ /\ ~OwnedByQueue
          /\ scan' = "timed_out"
          /\ Ends(TimeoutTx)
          /\ UNCHANGED <<job, fence>>

\* _has_active_queue_owner sees what was committed before the lock.
TimeoutRechecks ==
    /\ at[TimeoutTx] = "recheck"
    /\ \/ OwnedByQueue /\ Rollback(TimeoutTx)
       \/ /\ ~OwnedByQueue
          /\ scan' = "timed_out"
          /\ Ends(TimeoutTx)
          /\ UNCHANGED <<job, fence>>

-------------------------------------------------------------------------------
(* Enqueueing *)

EnqueueTx(j) == <<"enqueue", j>>

\* Mutant: an upload is enqueued under the scan's lock, before the department's.
EnqueueScanFirst(j) ==
    /\ at[EnqueueTx(j)] = "idle"
    /\ job[j] = "none"
    /\ \/ j \in LocalJobs \cup UploadJobs /\ Goes(EnqueueTx(j), "scan")
       \/ /\ j \notin LocalJobs \cup UploadJobs
          /\ scan # "deleted"
          /\ Goes(EnqueueTx(j), "insert")
    /\ UNCHANGED <<job, scan, fence, owner, seen>>

\* A remediation is enqueued against a scan that is only read, a scan job under
\* the scan's lock, an upload under the locks of its artifact's authority.  That
\* order ends with the queue row of the remediation that made the artifact, which
\* is left out: it is locked after the scan, like any other row of the queue.
EnqueueBegins(j) ==
    /\ at[EnqueueTx(j)] = "idle"
    /\ job[j] = "none"
    /\ \/ j \in LocalJobs /\ Goes(EnqueueTx(j), "scan")
       \/ j \in UploadJobs /\ Goes(EnqueueTx(j), "department")
       \/ /\ j \notin LocalJobs \cup UploadJobs
          /\ scan # "deleted"
          /\ Goes(EnqueueTx(j), "insert")
    /\ UNCHANGED <<job, scan, fence, owner, seen>>

EnqueueLocksDepartment(j) ==
    /\ at[EnqueueTx(j)] = "department"
    /\ LockRow(EnqueueTx(j), Department, "scan")

\* enqueue_local_scan_job takes an open scan, whatever its fence; the canonical
\* lock refuses a fenced one.
Enqueueable(j) ==
    IF j \in LocalJobs THEN scan = "open" ELSE scan # "deleted" /\ ~fence

\* Mutant: the scan is looked at without its lock.
EnqueueReadsScan(j) ==
    /\ at[EnqueueTx(j)] = "scan"
    /\ \/ /\ Enqueueable(j)
          /\ Goes(EnqueueTx(j), "insert")
          /\ UNCHANGED <<job, scan, fence, owner, seen>>
       \/ ~Enqueueable(j) /\ Rollback(EnqueueTx(j))

EnqueueLocksScan(j) ==
    /\ at[EnqueueTx(j)] = "scan"
    /\ Free(EnqueueTx(j), Scan)
    /\ \/ Enqueueable(j) /\ LockRow(EnqueueTx(j), Scan, "insert")
       \/ ~Enqueueable(j) /\ Rollback(EnqueueTx(j))

\* The insert waits for the department's row, which its foreign key locks for
\* the moment of the commit.
EnqueueInserts(j) ==
    /\ at[EnqueueTx(j)] = "insert"
    /\ Free(EnqueueTx(j), Department)
    /\ SetJob(j, "pending")
    /\ Ends(EnqueueTx(j))
    /\ UNCHANGED <<scan, fence>>

-------------------------------------------------------------------------------
(* The worker *)

\* claim_batch skips locked rows.
Claims(j) ==
    /\ job[j] = "pending"
    /\ owner[j] = Nobody
    /\ SetJob(j, "processing")
    /\ UNCHANGED <<scan, fence, owner, at, seen>>

\* The fenced commit of a scanner, and the end of a job that does not fail a scan.
CompletesScan(j) ==
    /\ j \in LocalJobs
    /\ job[j] = "processing"
    /\ owner[j] = Nobody /\ owner[Scan] = Nobody
    /\ scan = "open"
    /\ scan' = "completed"
    /\ UNCHANGED <<job, fence, owner, at, seen>>

Finishes(j) ==
    /\ job[j] = "processing"
    /\ owner[j] = Nobody
    /\ j \in LocalJobs => scan # "open"
    /\ SetJob(j, "done")
    /\ UNCHANGED <<scan, fence, owner, at, seen>>

FailTx(j) == <<"fail", j>>

\* Mutant: the row is looked at under its fence, and written later.
FailReadsJob(j) ==
    /\ at[FailTx(j)] = "idle"
    /\ job[j] = "processing"
    /\ owner[j] = Nobody
    /\ Goes(FailTx(j), "scan")
    /\ UNCHANGED <<job, scan, fence, owner, seen>>

\* _fenced_update of a scan job that fails: the row under its active fence, then
\* the scan.
FailUpdatesJob(j) ==
    /\ at[FailTx(j)] = "idle"
    /\ job[j] = "processing"
    /\ owner[j] = Nobody
    /\ LockRow(FailTx(j), j, "scan")

FailUpdatesScan(j) ==
    /\ at[FailTx(j)] = "scan"
    /\ Free(FailTx(j), Scan)
    /\ SetJob(j, "done")
    /\ scan' = IF scan = "open" THEN "failed" ELSE scan
    /\ Ends(FailTx(j))
    /\ UNCHANGED fence

CheckpointTx(j) == <<"checkpoint", j>>

\* The checkpoint of an upload runs in a thread that outlives a cancelled handler.
CheckpointBegins(j) ==
    /\ at[CheckpointTx(j)] = "idle"
    /\ job[j] = "processing"
    /\ scan # "deleted"
    /\ Goes(CheckpointTx(j), "department")
    /\ UNCHANGED <<job, scan, fence, owner, seen>>

CheckpointLocksDepartment(j) ==
    /\ at[CheckpointTx(j)] = "department"
    /\ LockRow(CheckpointTx(j), Department, "scan")

CheckpointLocksScan(j) ==
    /\ at[CheckpointTx(j)] = "scan"
    /\ Free(CheckpointTx(j), Scan)
    /\ \/ scan # "deleted" /\ ~fence /\ LockRow(CheckpointTx(j), Scan, "job")
       \/ (scan = "deleted" \/ fence) /\ Rollback(CheckpointTx(j))

\* The queue row under its active fence, last; granted or not, the locks go.
CheckpointLocksJob(j) ==
    /\ at[CheckpointTx(j)] = "job"
    /\ Free(CheckpointTx(j), j)
    /\ Rollback(CheckpointTx(j))

\* The process dies, a statement fails, or the server aborts the transaction to
\* break a deadlock.
Fails(t) == at[t] # "idle" /\ Rollback(t)

-------------------------------------------------------------------------------
(* The specification *)

CancelStep == CancelSelects \/ CancelRequests \/ CancelDeletes
AckStep(j) ==
    \/ AckBegins(j) \/ AckLocksJob(j) \/ AckLocksScan(j)
    \/ AckLooksAround(j) \/ AckCommits(j)
CleanupStep(t) ==
    LocksDepartment(t) \/ ClaimsCleanup(t) \/ LocksAuthority(t) \/ ErasesScan(t)
TimeoutStep == TimeoutSelects \/ TimeoutLocks \/ TimeoutRechecks
EnqueueStep(j) ==
    \/ EnqueueBegins(j) \/ EnqueueLocksDepartment(j)
    \/ EnqueueLocksScan(j) \/ EnqueueInserts(j)
WorkerStep(j) == Claims(j) \/ CompletesScan(j) \/ Finishes(j)
FailStep(j) == FailUpdatesJob(j) \/ FailUpdatesScan(j)
CheckpointStep(j) ==
    \/ CheckpointBegins(j) \/ CheckpointLocksDepartment(j)
    \/ CheckpointLocksScan(j) \/ CheckpointLocksJob(j)

Next ==
    \/ CancelStep
    \/ TimeoutStep
    \/ \E j \in Jobs : AckStep(j) \/ EnqueueStep(j) \/ WorkerStep(j)
    \/ \E j \in LocalJobs : FailStep(j)
    \/ \E j \in UploadJobs : CheckpointStep(j)
    \/ \E t \in Tx : CleanupStep(t) \/ Fails(t)

Spec == Init /\ [][Next]_vars

-------------------------------------------------------------------------------
(* Properties *)

\* The stale-scan loop never fails a scan that a scan job still owns, whichever of
\* the loop and enqueue_local_scan_job gets the scan's lock first.
TimeoutSparesOwnedScan == scan = "timed_out" => ~OwnedByQueue

\* When every job of a scan has been cancelled and no transaction is under way,
\* the scan is gone, or its cleanup is fenced and can be resumed: two
\* acknowledgements at the same time never leave the deletion to each other.
LastAckCleansUp ==
    (/\ \A t \in Tx : at[t] = "idle"
     /\ \A j \in Jobs : job[j] \in {"none", "cancelled"}
     /\ \E j \in Jobs : job[j] = "cancelled")
    => scan = "deleted" \/ fence

\* A scan is deleted only when none of its jobs is at work.  cancel_scan says so:
\* "The worker stops and reaps its child before acknowledging the queue row or
\* deleting scan results."
NoDeletionUnderWork ==
    [][(scan # "deleted" /\ scan' = "deleted") => \A j \in Jobs : ~Running(job[j])]_vars

\* What was asked of the scan still holds when a job is inserted or an upload gets its
\* checkpoint on the strength of it: no scan job starts for a scan that has ended,
\* and no upload is queued or let go once the deletion has been fenced.
StartsAreSound ==
    /\ \A j \in LocalJobs : at[EnqueueTx(j)] = "insert" => scan = "open"
    /\ \A j \in UploadJobs :
        at[EnqueueTx(j)] = "insert" \/ at[CheckpointTx(j)] = "job"
            => scan # "deleted" /\ ~fence

\* The races over the scan's row go to whoever locks it first: the others look at it
\* again under the lock and let go.
RacesAreDecided == TimeoutSparesOwnedScan /\ StartsAreSound

\* Every transaction takes effect as if it ran alone, at its commit: whatever its
\* statements saw before it, what it did to the scan and to the rows of the queue is
\* one step of AtomicScan.  JobQueue takes each of them as one action, too, and a
\* deletion as two; there a cancellation finds every active row, here only those
\* committed when it looked.
Atomic == INSTANCE AtomicScan
ImplementsAtomic == Atomic!Spec

\* The rows a transaction cannot go on without.
Wants(t) ==
    CASE at[t] = "jobs" -> seen[t]
      [] at[t] = "job" -> {t[2]}
      [] at[t] \in {"department", "authority", "insert"} -> {Department}
      [] at[t] \in {"scan", "claim", "erase"} -> {Scan}
      [] OTHER -> {}
WaitsFor(t, u) == t # u /\ \E r \in Wants(t) : owner[r] = u

\* Transactions wait for each other in a ring only when one of them took the row of
\* the scan or of its job before the department's: the acknowledgement of a
\* cancellation or the enqueueing of a scan job.  The others keep the LOCK_ORDER
\* "Department->User->Credential->Scan->CloudFile->Job->Artifact" among themselves;
\* PostgreSQL aborts one transaction of such a ring.
ChildFirst(t) == t[1] = "ack" \/ (t[1] = "enqueue" /\ t[2] \in LocalJobs)
DeadlockIsChildFirst ==
    \A ring \in SUBSET {t \in Tx : ~ChildFirst(t) /\ \E u \in Tx : WaitsFor(t, u)} :
        ring # {} => \E t \in ring : \A u \in ring : ~WaitsFor(t, u)

\* A lock is held only by a transaction that is under way: no path through these
\* functions ends without a commit or a rollback.
NoLockIsLeft == \A r \in Rows : owner[r] # Nobody => at[owner[r]] # "idle"

LocksAreSound == STypeOK /\ NoLockIsLeft /\ DeadlockIsChildFirst

===============================================================================

------------------------------- MODULE JobQueue -------------------------------
(***************************************************************************)
(* The durable job queue of src/jobs/job_processor.py: rows of the table   *)
(* cloud_job_queue, the workers that claim them under a lease, the task    *)
(* that runs one claim (process_claim), the reaper, and the two API-side   *)
(* writers of the same rows (scan cancellation and the stale-scan loop).   *)
(*                                                                         *)
(* Every action that touches a row is one database transaction; everything *)
(* a worker remembers between two transactions is in the variables of the  *)
(* claim task (pc, runner, result, seen, calling, granted).  The handler   *)
(* is open here: it may return anything at any time.  LocalScan and        *)
(* UploadEffect close it for the two job kinds that act outside the        *)
(* database.                                                               *)
(*                                                                         *)
(* Time is abstracted to its outcomes: a lease may lapse, a handler may    *)
(* outrun its ceiling, and a row that waits for scheduled_for is one that  *)
(* nobody has claimed yet.                                                 *)
(***************************************************************************)
EXTENDS Naturals, FiniteSets

CONSTANTS
    Jobs,           \* row ids
    Workers,        \* worker processes
    Scans,          \* scan ids
    NoWorker,       \* NULL in worker_id
    NoScan,         \* a payload without scan_id
    NoJob,          \* NULL in depends_on_job_id
    ScanOf,         \* the scan_id of each job's payload
    DependsOn,      \* depends_on_job_id
    ScanJobs,       \* jobs of type "scan"
    ChildJobs,      \* jobs that run in a killable child holding authority
    EffectJobs,     \* jobs of type "upload" or "weekly_summary"
    HeldScans,      \* scans whose artifacts delete_for_scan refuses to drop
    MaxRetries,     \* max_retries of every row
    MaxConcurrency, \* claims one worker runs at once
    MaxEnds         \* bound on drains and unclean deaths of workers together

\* attempt_count never exceeds this: a row with max_retries = 0 still runs once.
MaxAttempts == IF MaxRetries = 0 THEN 1 ELSE MaxRetries

\* A claim is a row and the attempt that claimed it.  claim_token is a fresh
\* uuid4 per claim and attempt_count grows with every claim and is never
\* reset, so the attempt number names the token; 0 stands for NULL.
Claims == Jobs \X (1..MaxAttempts)

ASSUME WorkersAssumption == NoWorker \notin Workers
ASSUME ScansAssumption ==
    /\ NoScan \notin Scans
    /\ HeldScans \subseteq Scans
    /\ ScanOf \in [Jobs -> Scans \cup {NoScan}]
ASSUME KindsAssumption ==
    /\ ScanJobs \subseteq Jobs /\ ChildJobs \subseteq Jobs /\ EffectJobs \subseteq Jobs
    /\ EffectJobs \cap ScanJobs = {} /\ EffectJobs \cap ChildJobs = {}
    \* what a child works on has no approved or current artifact yet
    /\ \A j \in ChildJobs : ScanOf[j] \notin HeldScans
ASSUME DependsAssumption ==
    /\ NoJob \notin Jobs
    /\ DependsOn \in [Jobs -> Jobs \cup {NoJob}]
ASSUME BoundsAssumption ==
    MaxRetries \in Nat /\ MaxConcurrency \in Nat \ {0} /\ MaxEnds \in Nat

VARIABLES
    \* the row
    status,     \* "absent" before the insert
    token,      \* claim_token, as the attempt that made it; 0 is NULL
    owner,      \* worker_id
    attempts,   \* attempt_count
    err,        \* last_error_code, to what the code tests
    effect,     \* external_effect_state
    lapsed,     \* lease_expires_at < now
    \* other tables and locks
    scan,       \* status of each scan row, "deleted" when it is gone
    fenced,     \* scans with artifact_cleanup_token: a deletion has begun
    authority,  \* claims whose advisory lock a session holds
    \* the workers and the claim tasks they run
    wstate,
    ends,
    pc,         \* where process_claim is
    runner,     \* the worker that runs it (claim.worker_id)
    result,     \* what the handler returned
    seen,       \* the effect state _finish read
    calling,    \* claims with a begin_external_effect thread in flight
    granted     \* claims whose handler was given an effect token

rowVars    == <<status, token, owner, attempts, err, effect, lapsed>>
scanVars   == <<scan, fenced>>
taskVars   == <<pc, runner, result, seen, calling, granted>>
workerVars == <<wstate, ends>>
vars == <<rowVars, scanVars, authority, workerVars, taskVars>>

Statuses == {"absent", "pending", "processing", "completed", "failed"}
Terminal == {"completed", "failed"}
Active   == {"pending", "processing"}
Effects  == {"none", "requesting", "confirmed", "indeterminate"}
Results  == {"none", "success", "retry", "fatal"}
TaskPcs  == {"none", "claimed", "running", "lost", "timeout", "returned",
             "finishing", "updating", "refused", "done"}

TypeOK ==
    /\ status   \in [Jobs -> Statuses]
    /\ token    \in [Jobs -> 0..MaxAttempts]
    /\ owner    \in [Jobs -> Workers \cup {NoWorker}]
    /\ attempts \in [Jobs -> 0..MaxAttempts]
    /\ err      \in [Jobs -> {"none", "cancel_requested", "cancelled", "error"}]
    /\ effect   \in [Jobs -> Effects]
    /\ lapsed   \in [Jobs -> BOOLEAN]
    /\ scan     \in [Scans -> {"open", "completed", "failed", "deleted"}]
    /\ fenced \subseteq Scans
    /\ authority \subseteq Claims
    /\ wstate   \in [Workers -> {"running", "draining", "stopped", "crashed"}]
    /\ ends  \in 0..MaxEnds
    /\ pc       \in [Claims -> TaskPcs]
    /\ runner   \in [Claims -> Workers \cup {NoWorker}]
    /\ result   \in [Claims -> Results]
    /\ seen     \in [Claims -> Effects]
    /\ calling \subseteq Claims
    /\ granted \subseteq Claims

Init ==
    /\ status   = [j \in Jobs |-> "absent"]
    /\ token    = [j \in Jobs |-> 0]
    /\ owner    = [j \in Jobs |-> NoWorker]
    /\ attempts = [j \in Jobs |-> 0]
    /\ err      = [j \in Jobs |-> "none"]
    /\ effect   = [j \in Jobs |-> "none"]
    /\ lapsed   = [j \in Jobs |-> FALSE]
    /\ scan     = [s \in Scans |-> "open"]
    /\ fenced = {}
    /\ authority = {}
    /\ wstate   = [w \in Workers |-> "running"]
    /\ ends  = 0
    /\ pc       = [c \in Claims |-> "none"]
    /\ runner   = [c \in Claims |-> NoWorker]
    /\ result   = [c \in Claims |-> "none"]
    /\ seen     = [c \in Claims |-> "none"]
    /\ calling = {}
    /\ granted = {}

-------------------------------------------------------------------------------
(* Predicates the transactions share *)

\* Mutant: the fence without the claim token.
FenceWithoutToken(c) ==
    status[c[1]] = "processing" /\ owner[c[1]] \in Workers

\* The row still carries exactly this claim, a cancelled one included.
Fence(c) ==
    /\ status[c[1]] = "processing"
    /\ token[c[1]] = c[2]
    /\ owner[c[1]] = runner[c]

\* Mutant: a finishing update that does not look for a cancellation.
ActiveFenceIgnoresCancel(c) == Fence(c)

\* The claim may still publish effects.
ActiveFence(c) == Fence(c) /\ err[c[1]] # "cancel_requested"

CancellationRequested(c) == Fence(c) /\ err[c[1]] = "cancel_requested"

Inflight(w) == {c \in Claims : runner[c] = w /\ pc[c] \notin {"none", "done"}}

Alive(w) == wstate[w] \in {"running", "draining"}

\* Mutant: the dependency only has to exist.
DependencyExists(j) ==
    DependsOn[j] = NoJob \/ (DependsOn[j] \in Jobs /\ status[DependsOn[j]] # "absent")

DependencyMet(j) ==
    DependsOn[j] = NoJob \/ (DependsOn[j] \in Jobs /\ status[DependsOn[j]] = "completed")

JobsOf(s) == {j \in Jobs : ScanOf[j] = s}

\* Mutant: the acknowledged row counts itself, for want of id != job.id.
OtherProcessingCountsItself(j) ==
    \E k \in JobsOf(ScanOf[j]) : status[k] = "processing"

\* Another row of the same scan is still being processed.
OtherProcessing(j) ==
    \E k \in JobsOf(ScanOf[j]) \ {j} : status[k] = "processing"

\* Mutant: every acknowledgement begins the deletion of its scan.
AckAlwaysDeletes(j) == ScanOf[j] \in Scans /\ scan[ScanOf[j]] # "deleted"

\* The last acknowledgement of a scan begins its deletion, and cannot when
\* delete_for_scan refuses its artifacts: the transaction rolls back.
AckDeletes(j) ==
    ScanOf[j] \in Scans /\ scan[ScanOf[j]] # "deleted" /\ ~OtherProcessing(j)
AckPossible(j) == AckDeletes(j) => ScanOf[j] \notin HeldScans

\* A failed job of type "scan" closes its scan in the same transaction.
CloseScan(j) ==
    IF j \in ScanJobs /\ ScanOf[j] \in Scans /\ scan[ScanOf[j]] = "open"
    THEN [scan EXCEPT ![ScanOf[j]] = "failed"] ELSE scan

\* Mutant: a transition out of processing that forgets the claim columns.
ReleaseKeepsClaim(j, newStatus, newErr) ==
    /\ status' = [status EXCEPT ![j] = newStatus]
    /\ err'    = [err EXCEPT ![j] = newErr]
    /\ UNCHANGED <<token, owner, lapsed, attempts>>

\* _clear_claim_values, together with the row's new status and error.
Release(j, newStatus, newErr) ==
    /\ status' = [status EXCEPT ![j] = newStatus]
    /\ err'    = [err EXCEPT ![j] = newErr]
    /\ token'  = [token EXCEPT ![j] = 0]
    /\ owner'  = [owner EXCEPT ![j] = NoWorker]
    /\ lapsed' = [lapsed EXCEPT ![j] = FALSE]
    /\ UNCHANGED attempts

\* _mark_cancellation_acknowledged up to the commit inside delete_for_scan: the
\* verdict and the fence of the scan's deletion.  The scan itself goes in the
\* transaction after it (DeletionCommits).  The effect state is left as it is.
MarkAcknowledged(j) ==
    /\ AckPossible(j)
    /\ Release(j, "failed", "cancelled")
    /\ fenced' = IF AckDeletes(j) THEN fenced \cup {ScanOf[j]} ELSE fenced
    /\ UNCHANGED <<effect, scan>>

-------------------------------------------------------------------------------
(* Enqueueing and claiming *)

\* enqueue_cloud_job and enqueue_local_scan_job: the dependency must exist,
\* an active row with the same dedupe key (local-scan:<scan>) is returned
\* instead of a second one.  An upload locks its scan row and refuses a fenced
\* one.  A local scan locks it too and needs it open; every caller inserts the
\* scan in the same transaction, so it is the scan's first job and nobody can
\* have fenced the scan before.  The other enqueuers looked at the scan some
\* time ago.
Enqueue(j) ==
    /\ status[j] = "absent"
    /\ DependsOn[j] # NoJob => status[DependsOn[j]] # "absent"
    /\ j \in EffectJobs /\ ScanOf[j] \in Scans =>
        scan[ScanOf[j]] # "deleted" /\ ScanOf[j] \notin fenced
    /\ j \in ChildJobs \cap ScanJobs /\ ScanOf[j] \in Scans =>
        /\ scan[ScanOf[j]] = "open" /\ ScanOf[j] \notin fenced
        /\ \A k \in JobsOf(ScanOf[j]) : status[k] = "absent"
    /\ status' = [status EXCEPT ![j] = "pending"]
    /\ UNCHANGED <<token, owner, attempts, err, effect, lapsed, scanVars, authority,
                   workerVars, taskVars>>

\* claim_batch, for one row of the batch.  A draining worker claims nothing.
\* Rows stay locked to the commit, so a batch is as good as its rows in turn.
Claim(w, j) ==
    /\ wstate[w] = "running"
    /\ Cardinality(Inflight(w)) < MaxConcurrency
    /\ status[j] = "pending"
    /\ DependencyMet(j)
    /\ attempts[j] < MaxAttempts
    /\ LET c == <<j, attempts[j] + 1>> IN
        /\ status'   = [status EXCEPT ![j] = "processing"]
        /\ token'    = [token EXCEPT ![j] = c[2]]
        /\ owner'    = [owner EXCEPT ![j] = w]
        /\ attempts' = [attempts EXCEPT ![j] = c[2]]
        /\ err'      = [err EXCEPT ![j] = "none"]
        /\ lapsed'   = [lapsed EXCEPT ![j] = FALSE]
        /\ pc'       = [pc EXCEPT ![c] = "claimed"]
        /\ runner'   = [runner EXCEPT ![c] = w]
    /\ UNCHANGED <<effect, scanVars, authority, workerVars, result, seen, calling, granted>>

\* Mutant: a failed dependency blocks its child for ever.
NeverFailsBlocked(w, j) == FALSE /\ UNCHANGED vars /\ w \in Workers /\ j \in Jobs

\* _fail_blocked_dependencies, run by every claim_batch before it claims.
FailBlocked(w, j) ==
    /\ wstate[w] = "running"
    /\ status[j] = "pending"
    /\ DependsOn[j] # NoJob
    /\ status[DependsOn[j]] = "failed"
    /\ status' = [status EXCEPT ![j] = "failed"]
    /\ err'    = [err EXCEPT ![j] = "error"]
    /\ UNCHANGED <<token, owner, attempts, effect, lapsed, scanVars, authority,
                   workerVars, taskVars>>

-------------------------------------------------------------------------------
(* process_claim: the task of one claim *)

GoTo(c, p) == pc' = [pc EXCEPT ![c] = p]

\* The first ownership check; the heartbeat task starts with the handler.
StartClaim(c) ==
    /\ pc[c] = "claimed"
    /\ GoTo(c, IF Fence(c) THEN "running" ELSE "done")
    /\ UNCHANGED <<rowVars, scanVars, authority, workerVars, runner, result, seen,
                   calling, granted>>

\* _claim_heartbeat: renew the lease under the fence.  A cancellation it looked
\* for before may have been requested meanwhile, and an expired lease that
\* nobody reaped is renewed too.
HeartbeatRenews(c) ==
    /\ pc[c] \in {"running", "timeout", "returned", "finishing", "updating", "refused"}
    /\ Fence(c)
    /\ lapsed' = [lapsed EXCEPT ![c[1]] = FALSE]
    /\ UNCHANGED <<status, token, owner, attempts, err, effect, scanVars, authority,
                   workerVars, taskVars>>

\* _claim_heartbeat sets ownership_lost: a cancellation was requested, the
\* fence no longer holds, or the database did not answer (it fails closed).
OwnershipLost(c) ==
    /\ pc[c] = "running"
    /\ GoTo(c, "lost")
    /\ UNCHANGED <<rowVars, scanVars, authority, workerVars, runner, result, seen,
                   calling, granted>>

\* asyncio.timeout(max_execution_seconds): the handler task is cancelled.
ExecutionTimeout(c) ==
    /\ pc[c] = "running"
    /\ GoTo(c, "timeout")
    /\ UNCHANGED <<rowVars, scanVars, authority, workerVars, runner, result, seen,
                   calling, granted>>

\* The cancelled handler has returned.  After a lost claim the task only
\* looks for a cancellation to acknowledge; after a timeout it finishes with a
\* retryable failure, without another ownership check.
HandlerTornDown(c) ==
    /\ \/ pc[c] = "lost" /\ GoTo(c, "refused") /\ UNCHANGED result
       \/ /\ pc[c] = "timeout"
          /\ GoTo(c, "finishing")
          /\ result' = [result EXCEPT ![c] = "retry"]
    /\ UNCHANGED <<rowVars, scanVars, authority, workerVars, runner, seen, calling, granted>>

\* The handler returns a typed result.  An indeterminate failure that is
\* retry-safe counts as "retry", one that is not as "fatal".
HandlerReturns(c, r) ==
    /\ pc[c] = "running"
    /\ c \notin calling
    /\ GoTo(c, "returned")
    /\ result' = [result EXCEPT ![c] = r]
    /\ UNCHANGED <<rowVars, scanVars, authority, workerVars, runner, seen, calling, granted>>

\* The handler raises: job_handler_exception, finished without a check.
HandlerRaises(c) ==
    /\ pc[c] = "running"
    /\ c \notin calling
    /\ GoTo(c, "finishing")
    /\ result' = [result EXCEPT ![c] = "retry"]
    /\ UNCHANGED <<rowVars, scanVars, authority, workerVars, runner, seen, calling, granted>>

\* handler_committed and terminal_state_committed: the child of a Brightspace
\* remediation ends its row by its own commit (_commit_terminal_outcome), fenced
\* like FencedFinish, which stands for it.  What its task does after that meets a
\* row without a claim and changes nothing.
HandlerFinishes(c, r) ==
    /\ pc[c] = "running"
    /\ c \in authority
    /\ c[1] \in ChildJobs \ ScanJobs
    /\ GoTo(c, "updating")
    /\ result' = [result EXCEPT ![c] = r]
    /\ UNCHANGED <<rowVars, scanVars, authority, workerVars, runner, seen, calling, granted>>

\* The handler raises LostJobOwnership from a checkpoint of its own.
HandlerAbandons(c) ==
    /\ pc[c] = "running"
    /\ c \notin calling
    /\ GoTo(c, "refused")
    /\ UNCHANGED <<rowVars, scanVars, authority, workerVars, runner, result, seen,
                   calling, granted>>

\* context.assert_owned() after the handler.  Its two reads are one step: a
\* claim that lost its fence never regains it.
AssertOwned(c) ==
    /\ pc[c] = "returned"
    /\ GoTo(c, IF ActiveFence(c) THEN "finishing" ELSE "refused")
    /\ UNCHANGED <<rowVars, scanVars, authority, workerVars, runner, result, seen,
                   calling, granted>>

\* _finish, first transaction: _external_effect_state under the active fence.
ReadEffect(c) ==
    /\ pc[c] = "finishing"
    /\ GoTo(c, "updating")
    /\ seen' = [seen EXCEPT ![c] =
                 IF c[1] \in EffectJobs /\ ActiveFence(c) THEN effect[c[1]] ELSE "none"]
    /\ UNCHANGED <<rowVars, scanVars, authority, workerVars, runner, result, calling, granted>>

\* Mutant: the handler's own verdict is stored as the row's status.
FinishStatusRaw(c) == result[c]

\* Mutant: one retry too many.
FinishStatusExtraRetry(c) ==
    CASE result[c] = "success" -> "completed"
      [] result[c] = "retry" /\ c[2] <= MaxRetries -> "pending"
      [] OTHER -> "failed"

\* _finish_values: the row's next status ...
FinishStatus(c) ==
    CASE result[c] = "success" /\ seen[c] # "indeterminate" -> "completed"
      [] result[c] = "retry" /\ seen[c] = "none" /\ c[2] < MaxRetries -> "pending"
      [] OTHER -> "failed"

\* Mutant: a failure withdraws the announced effect.
FinishEffectForgets(c) ==
    IF result[c] = "success" /\ seen[c] # "none" THEN "confirmed" ELSE "none"

\* Mutant: every finish confirms the announced effect.
FinishEffectConfirms(c) ==
    IF seen[c] = "none" THEN effect[c[1]] ELSE "confirmed"

\* ... and its next effect state.  No handler reports external_effect_not_applied,
\* the one result that would withdraw an announced effect.
FinishEffect(c) ==
    CASE seen[c] = "none" -> effect[c[1]]
      [] seen[c] = "confirmed" -> "confirmed"
      [] result[c] = "success" /\ seen[c] = "requesting" -> "confirmed"
      [] OTHER -> "indeterminate"

\* _finish, second transaction: _fenced_update under the active fence.  When it
\* is refused the task goes on to look for a cancellation to acknowledge.
FencedFinish(c) ==
    /\ pc[c] = "updating"
    /\ IF ActiveFence(c)
       THEN /\ Release(c[1], FinishStatus(c),
                       IF FinishStatus(c) = "completed" THEN "none" ELSE "error")
            /\ effect' = [effect EXCEPT ![c[1]] = FinishEffect(c)]
            /\ scan' = IF FinishStatus(c) = "failed" THEN CloseScan(c[1]) ELSE scan
            /\ UNCHANGED fenced
            /\ GoTo(c, "done")
       ELSE GoTo(c, "refused") /\ UNCHANGED <<rowVars, scanVars>>
    /\ UNCHANGED <<authority, workerVars, runner, result, seen, calling, granted>>

\* _acknowledge_cancellation, or return False and leave the row to the reaper.
\* A refused deletion raises out of the task, which also leaves the row.
Acknowledge(c) ==
    /\ pc[c] = "refused"
    /\ GoTo(c, "done")
    /\ IF CancellationRequested(c) /\ AckPossible(c[1])
       THEN MarkAcknowledged(c[1])
       ELSE UNCHANGED <<rowVars, scanVars>>
    /\ UNCHANGED <<authority, workerVars, runner, result, seen, calling, granted>>

-------------------------------------------------------------------------------
(* The external-effect checkpoint: a thread that outlives a cancelled await *)

BeginEffectCall(c) ==
    /\ pc[c] = "running"
    /\ c[1] \in EffectJobs
    /\ c \notin calling
    /\ calling' = calling \cup {c}
    /\ UNCHANGED <<rowVars, scanVars, authority, workerVars, pc, runner, result, seen, granted>>

\* _begin_external_effect_sync.  "requesting" is handed out again with the same
\* token, any later state is refused, and so is an upload whose authority no
\* longer stands.  A handler that is still there learns of the outcome; the
\* commit itself needs only the fence.
HandlerThere(c) == pc[c] \in {"running", "lost", "timeout"}
BeginEffectCommit(c, authorized) ==
    /\ c \in calling
    /\ calling' = calling \ {c}
    /\ IF ActiveFence(c) /\ authorized /\ effect[c[1]] \in {"none", "requesting"}
       THEN /\ effect' = [effect EXCEPT ![c[1]] = "requesting"]
            /\ granted' = IF HandlerThere(c) THEN granted \cup {c} ELSE granted
            /\ UNCHANGED pc
       ELSE /\ pc' = IF pc[c] = "running" THEN [pc EXCEPT ![c] = "refused"] ELSE pc
            /\ UNCHANGED <<effect, granted>>
    /\ UNCHANGED <<status, token, owner, attempts, err, lapsed, scanVars, authority,
                   workerVars, runner, result, seen>>

-------------------------------------------------------------------------------
(* The child's side of a claim, as the queue sees it *)

\* A session advisory lock on (job, token).
TakeAuthority(c) ==
    /\ c[1] \in ChildJobs
    /\ pc[c] # "none"
    /\ authority' = authority \cup {c}
    /\ UNCHANGED <<rowVars, scanVars, workerVars, taskVars>>

DropAuthority(c) ==
    /\ c \in authority
    /\ authority' = authority \ {c}
    /\ UNCHANGED <<rowVars, scanVars, workerVars, taskVars>>

\* A commit of the child, fenced by before_commit with the row locked.
ChildCommitsScan(c, outcome) ==
    /\ c \in authority
    /\ ScanOf[c[1]] \in Scans
    /\ scan[ScanOf[c[1]]] = "open"
    /\ ActiveFence(c)
    /\ scan' = [scan EXCEPT ![ScanOf[c[1]]] = outcome]
    /\ UNCHANGED <<rowVars, fenced, authority, workerVars, taskVars>>

-------------------------------------------------------------------------------
(* Recovery *)

\* Mutant: recovery does not ask whether the child is dead.
NoRecoveryLock(j) == j \in Jobs

\* try_acquire_recovery_lock, on the claim the candidate row carries.
RecoveryLock(j) == j \in ChildJobs => <<j, token[j]>> \notin authority

\* Mutant: only a confirmed effect keeps an expired row out of the queue.
EffectConfirmed(j) == effect[j] = "confirmed"

\* The expired row's effect may have happened.
EffectStarted(j) == effect[j] \in {"requesting", "indeterminate", "confirmed"}

\* reap_stale_jobs, for one candidate.  A child job needs the advisory lock of
\* its expired claim, which proves the child dead; a cancelled row without a
\* child is left to its owner; a row whose effect may have happened is closed.
Reap(w, j) ==
    /\ Alive(w)
    /\ status[j] = "processing"
    /\ lapsed[j]
    /\ RecoveryLock(j)
    /\ \/ /\ err[j] = "cancel_requested"
          /\ j \in ChildJobs
          /\ MarkAcknowledged(j)
       \/ /\ err[j] # "cancel_requested"
          /\ EffectStarted(j)
          /\ Release(j, "failed", "error")
          /\ effect' = [effect EXCEPT ![j] =
                         IF @ = "confirmed" THEN "confirmed" ELSE "indeterminate"]
          /\ UNCHANGED scanVars
       \/ /\ err[j] # "cancel_requested"
          /\ ~EffectStarted(j)
          /\ attempts[j] >= MaxRetries
          /\ Release(j, "failed", "error")
          /\ scan' = CloseScan(j)
          /\ UNCHANGED <<effect, fenced>>
       \/ /\ err[j] # "cancel_requested"
          /\ ~EffectStarted(j)
          /\ attempts[j] < MaxRetries
          /\ Release(j, "pending", "error")
          /\ UNCHANGED <<effect, scanVars>>
    /\ UNCHANGED <<authority, workerVars, taskVars>>

\* Mutant: cancellation fails every row of the scan that is not processing.
CancelScanEveryRow(s) ==
    /\ scan[s] # "deleted"
    /\ status' = [j \in Jobs |-> IF j \in JobsOf(s) /\ status[j] # "processing"
                                 THEN "failed" ELSE status[j]]
    /\ UNCHANGED <<token, owner, attempts, err, effect, lapsed, scanVars, authority,
                   workerVars, taskVars>>

\* Mutant: the deletion begins while the scan's jobs are still asked to stop.
CancelScanDeletesAtOnce(s) ==
    /\ scan[s] # "deleted"
    /\ err' = [j \in Jobs |-> IF j \in JobsOf(s) /\ status[j] = "processing"
                              THEN "cancel_requested" ELSE err[j]]
    /\ fenced' = fenced \cup {s}
    /\ UNCHANGED <<status, token, owner, attempts, effect, lapsed, scan, authority,
                   workerVars, taskVars>>

\* DELETE /scans/{id}: every pending row of the scan fails at once, every
\* processing row is asked to stop, and only without one does the deletion of the
\* scan begin, with the commit inside delete_for_scan.  Whoever finds the scan
\* fenced and still there may ask again.
CancelScan(s) ==
    /\ scan[s] # "deleted"
    /\ LET processing == {j \in JobsOf(s) : status[j] = "processing"}
           pending    == {j \in JobsOf(s) : status[j] = "pending"}
       IN /\ processing # {} \/ s \notin HeldScans
          /\ status' = [j \in Jobs |-> IF j \in pending THEN "failed" ELSE status[j]]
          /\ err' = [j \in Jobs |-> IF j \in processing THEN "cancel_requested"
                                    ELSE IF j \in pending THEN "cancelled" ELSE err[j]]
          /\ fenced' = IF processing = {} THEN fenced \cup {s} ELSE fenced
    /\ UNCHANGED <<token, owner, attempts, effect, lapsed, scan, authority, workerVars,
                   taskVars>>

\* The transaction after the one that fenced the scan deletes its row.  It looks at
\* no job any more, and a process that dies between the two never takes it.
DeletionCommits(s) ==
    /\ s \in fenced
    /\ scan[s] # "deleted"
    /\ scan' = [scan EXCEPT ![s] = "deleted"]
    /\ UNCHANGED <<rowVars, fenced, authority, workerVars, taskVars>>

\* Mutant: the stale scans are those of finished jobs, not those without a job.
FailStaleScanOfEndedJob(s) ==
    /\ scan[s] = "open"
    /\ \E j \in JobsOf(s) \cap ScanJobs : status[j] \in Terminal
    /\ scan' = [scan EXCEPT ![s] = "failed"]
    /\ UNCHANGED <<rowVars, fenced, authority, workerVars, taskVars>>

\* fail_stale_scans: an open scan that no active scan job owns.
FailStaleScan(s) ==
    /\ scan[s] = "open"
    /\ \A j \in JobsOf(s) \cap ScanJobs : status[j] \notin Active
    /\ scan' = [scan EXCEPT ![s] = "failed"]
    /\ UNCHANGED <<rowVars, fenced, authority, workerVars, taskVars>>

-------------------------------------------------------------------------------
(* Time and the worker processes *)

LeaseLapses(j) ==
    /\ status[j] = "processing"
    /\ ~lapsed[j]
    /\ lapsed' = [lapsed EXCEPT ![j] = TRUE]
    /\ UNCHANGED <<status, token, owner, attempts, err, effect, scanVars, authority,
                   workerVars, taskVars>>

RequestDrain(w) ==
    /\ wstate[w] = "running"
    /\ ends < MaxEnds
    /\ ends' = ends + 1
    /\ wstate' = [wstate EXCEPT ![w] = "draining"]
    /\ UNCHANGED <<rowVars, scanVars, authority, taskVars>>

\* The loop of start() ends when a draining worker has nothing in flight.
StopDrained(w) ==
    /\ wstate[w] = "draining"
    /\ Inflight(w) = {}
    /\ wstate' = [wstate EXCEPT ![w] = "stopped"]
    /\ UNCHANGED <<rowVars, scanVars, authority, ends, taskVars>>

\* An unclean death takes the worker's tasks and threads with it, and nothing
\* else: the rows, and a child's advisory lock, stay.
Crash(w) ==
    /\ Alive(w)
    /\ ends < MaxEnds
    /\ ends' = ends + 1
    /\ wstate' = [wstate EXCEPT ![w] = "crashed"]
    /\ pc' = [c \in Claims |-> IF c \in Inflight(w) THEN "done" ELSE pc[c]]
    /\ calling' = {c \in calling : runner[c] # w}
    /\ UNCHANGED <<rowVars, scanVars, authority, runner, result, seen, granted>>

\* A new process of the same service.
Restart(w) ==
    /\ wstate[w] \in {"stopped", "crashed"}
    /\ wstate' = [wstate EXCEPT ![w] = "running"]
    /\ UNCHANGED <<rowVars, scanVars, authority, ends, taskVars>>

-------------------------------------------------------------------------------
(* The specification *)

TaskStep(c) ==
    StartClaim(c) \/ AssertOwned(c) \/ ReadEffect(c) \/ FencedFinish(c) \/ Acknowledge(c)

\* Everything but what a handler does.
QueueStep ==
    \/ \E j \in Jobs : Enqueue(j) \/ LeaseLapses(j)
    \/ \E w \in Workers, j \in Jobs : Claim(w, j) \/ FailBlocked(w, j) \/ Reap(w, j)
    \/ \E c \in Claims :
        TaskStep(c) \/ HeartbeatRenews(c) \/ OwnershipLost(c) \/ ExecutionTimeout(c)
    \/ \E s \in Scans : CancelScan(s) \/ DeletionCommits(s) \/ FailStaleScan(s)
    \/ \E w \in Workers : RequestDrain(w) \/ StopDrained(w) \/ Crash(w) \/ Restart(w)

\* What a handler, its threads and its child may do to the queue.
HandlerStep(c) ==
    \/ HandlerTornDown(c) \/ HandlerRaises(c) \/ HandlerAbandons(c)
    \/ \E r \in Results \ {"none"} : HandlerReturns(c, r)
    \/ \E r \in {"success", "fatal"} : HandlerFinishes(c, r)
    \/ BeginEffectCall(c)
    \/ \E authorized \in BOOLEAN : BeginEffectCommit(c, authorized)
    \/ TakeAuthority(c) \/ DropAuthority(c)
    \/ \E outcome \in {"completed", "failed"} : ChildCommitsScan(c, outcome)

Next == QueueStep \/ \E c \in Claims : HandlerStep(c)

Spec == Init /\ [][Next]_vars

\* What the code's scheduling gives: a task that can move moves; the handler's
\* ceiling fires; the heartbeat notices a lost claim; a lease nobody renews
\* lapses; live workers reap and claim; a dead worker is restarted by its
\* supervisor; the stale-scan loop runs.
Renewing(j) == \E c \in Claims :
    c[1] = j /\ Fence(c) /\ pc[c] \notin {"none", "claimed", "lost", "done"}
LeaseLapsesUnrenewed(j) == ~Renewing(j) /\ LeaseLapses(j)
NoticesLoss(c) == ~ActiveFence(c) /\ OwnershipLost(c)
QueueFairness ==
    /\ \A c \in Claims :
        /\ WF_vars(TaskStep(c))
        /\ WF_vars(NoticesLoss(c))
        /\ WF_vars(ExecutionTimeout(c))
    /\ \A j \in Jobs :
        /\ WF_vars(LeaseLapsesUnrenewed(j))
        /\ WF_vars(\E w \in Workers : Reap(w, j))
        /\ WF_vars(\E w \in Workers : Claim(w, j))
        /\ WF_vars(\E w \in Workers : FailBlocked(w, j))
    /\ \A s \in Scans : WF_vars(FailStaleScan(s))
    /\ \A w \in Workers : WF_vars(StopDrained(w)) /\ WF_vars(Restart(w))

\* The open handler ends once it is cancelled; a child's lock is released when
\* it ends or is killed, and as a claim has one child that locks once, no child
\* locks for ever just when the reaper looks (the strong fairness).
FairSpec ==
    Spec /\ QueueFairness
    /\ \A c \in Claims : WF_vars(HandlerTornDown(c)) /\ WF_vars(DropAuthority(c))
    /\ \A j \in ChildJobs : SF_vars(\E w \in Workers : Reap(w, j))

-------------------------------------------------------------------------------
(* Properties *)

\* The CHECK constraint ck_cloud_job_queue_claim_state, and what makes a token
\* worth comparing: a row carries a claim exactly while it is processing, and
\* the claim it carries is the one of its latest attempt.
ClaimState ==
    \A j \in Jobs :
        IF status[j] = "processing"
        THEN token[j] = attempts[j] /\ token[j] # 0 /\ owner[j] = runner[<<j, token[j]>>]
        ELSE token[j] = 0 /\ owner[j] = NoWorker /\ ~lapsed[j]

\* A completed job was completed by its latest attempt: no task whose claim was
\* taken over ever writes its own verdict over the newer claim.
VerdictOfLastAttempt ==
    \A j \in Jobs : status[j] = "completed" => result[<<j, attempts[j]>>] = "success"

\* However attempts end (a failure, a timeout, a dead worker, a lapsed lease), a
\* row goes back to pending only while its retry budget lasts, so claim_batch
\* never starts attempt max_retries + 1.
PendingHasAttempts ==
    \A j \in Jobs : status[j] = "pending" => attempts[j] < MaxAttempts

\* What a row says of its attempts: whose claim it carries, whose verdict it
\* keeps, and whether it may be claimed again.
ClaimsAreSound == ClaimState /\ VerdictOfLastAttempt /\ PendingHasAttempts

\* A job that depends on another runs, and succeeds, only after that one has
\* completed, and that verdict is never taken back while it runs.
DependencyOrder ==
    \A j \in Jobs :
        (DependsOn[j] # NoJob /\ status[j] \in {"processing", "completed"})
            => status[DependsOn[j]] = "completed"

\* What a row promises to everyone who claims it: at most MaxAttempts claims, and
\* only the success of the latest, while it is held, completes the job.
ClaimPhase == [j \in Jobs |->
    CASE status[j] = "processing" -> "held"
      [] status[j] \in Terminal -> "closed"
      [] OTHER -> "open"]
Successes == [j \in Jobs |-> {n \in 1..MaxAttempts : result[<<j, n>>] = "success"}]
CompletedBy == [j \in Jobs |-> IF status[j] = "completed" THEN attempts[j] ELSE 0]
Fencing == INSTANCE FencedClaims
             WITH Items <- Jobs, MaxGrants <- MaxAttempts, phase <- ClaimPhase,
                  grants <- attempts, done <- Successes, verdict <- CompletedBy
QueueFences == Fencing!Spec

\* Once a cancellation is requested of a running job it owns the terminal
\* transition: the job never completes, is never retried and never fails for
\* another reason.
CancelWins ==
    [][\A j \in Jobs :
        (status[j] = "processing" /\ err[j] = "cancel_requested") =>
            \/ status'[j] = "processing" /\ err'[j] = "cancel_requested"
            \/ status'[j] = "failed" /\ err'[j] = "cancelled"]_vars

\* Completed and failed are final, with the effect verdict they were reached
\* with, whatever late tasks, threads, reapers and cancellations still do.
TerminalStays ==
    [][\A j \in Jobs :
        status[j] \in Terminal => status'[j] = status[j] /\ effect'[j] = effect[j]]_vars

\* What a row was told to end with, and what it ended with, nobody replaces.
VerdictsStand == CancelWins /\ TerminalStays

\* Every enqueued job reaches a verdict, through crashes, drains, timeouts,
\* lost heartbeats and failed dependencies: none stays pending or processing for
\* ever (and only a job that was never enqueued stays absent).
EveryJobSettles ==
    \A j \in Jobs : []<>(status[j] \in Terminal \cup {"absent"})

\* What docs/deployment/self-hosting.md promises of recovery, for a claim that
\* was asked to stop: the expired claim of a cancelled job is recovered too.
CancelledJobSettles ==
    \A j \in Jobs : err[j] = "cancel_requested" ~> status[j] \in Terminal

===============================================================================

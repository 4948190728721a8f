----------------------------- MODULE CanvasWriteback -----------------------------
(***************************************************************************)
(* The write-back of one approved artifact to Canvas, and what becomes of  *)
(* an upload whose outcome is unknown.  Requests for the same file run in  *)
(* several API processes (write_back_file); each holds the locks of the    *)
(* artifact's graph while it uploads.  An ambiguous upload is recorded in  *)
(* a log row, in a transaction of its own, with a queued job that observes *)
(* Canvas (CanvasReconciliationService.handle_job) under a lease of the    *)
(* log; a periodic backfill enqueues the job again when it is lost.        *)
(***************************************************************************)
EXTENDS Naturals

CONSTANTS
    Requests,     \* calls of write_back_file for the file, each with an upload
    Handlers,     \* executions of the reconciliation handler, one at a time each
    Nobody,
    MaxAttempts,  \* max_attempts of CanvasReconciliationService
    MaxFaults     \* bound on crashes, lost connections and lost claims

ASSUME WritebackAssumption ==
    /\ Nobody \notin Requests \cup Handlers
    /\ MaxAttempts \in Nat \ {0}
    /\ MaxFaults \in Nat

VARIABLES
    pc,        \* what each request is about to do
    graph,     \* the request that holds the locks of the artifact's graph
    remote,    \* the copy each upload makes in Canvas: an upload that was not answered
               \* stays "unknown", nobody ever learns whether it arrived
    named,     \* the uploads whose answer gave the id of the Canvas file
    usable,    \* the artifact is approved, current and has not expired
    written,   \* the upload its written_back_at and provider_result are about
    status,    \* writeback_status of the cloud file
    log,       \* reconciliation_status of the log row of each upload
    tries,     \* its reconciliation_attempt_count, up to MaxAttempts
    lease,     \* the handler whose token it carries
    lapsed,    \* reconciliation_lease_expires_at has passed
    job,       \* status of its active queue row, if there is one
    owner,     \* the handler that owns that row's claim
    hpc,       \* what each handler is about to do
    task,      \* the log it works on
    seen,      \* the outcome it observed
    faults     \* faults so far

api == <<pc, graph, remote, named>>
artifact == <<usable, written, status>>
logs == <<log, tries, lease, lapsed>>
queue == <<job, owner>>
handling == <<hpc, task, seen>>
vars == <<api, artifact, logs, queue, handling, faults>>

WTypeOK ==
    /\ pc \in [Requests -> {"idle", "sending", "answered", "persist", "done"}]
    /\ graph \in Requests \cup {Nobody}
    /\ remote \in [Requests -> {"none", "unknown", "landed", "changed"}]
    /\ named \in [Requests -> BOOLEAN]
    /\ usable \in BOOLEAN
    /\ written \in Requests \cup {Nobody}
    /\ status \in {"approved", "written_back", "reconciliation_failed"}
    /\ log \in [Requests -> {"none", "required", "committed", "reconciled",
                             "failed_manual", "manual_required"}]
    /\ tries \in [Requests -> 0..MaxAttempts]
    /\ lease \in [Requests -> Handlers \cup {Nobody}]
    /\ lapsed \in [Requests -> BOOLEAN]
    /\ job \in [Requests -> {"none", "pending", "processing"}]
    /\ owner \in [Requests -> Handlers \cup {Nobody}]
    /\ hpc \in [Handlers -> {"idle", "claimed", "leased", "observed", "asserted"}]
    /\ task \in [Handlers -> Requests \cup {Nobody}]
    /\ seen \in [Handlers -> {"nothing", "confirmed", "absent", "indeterminate"}]
    /\ faults \in 0..MaxFaults

\* A reviewer has approved the artifact.
Init ==
    /\ pc = [r \in Requests |-> "idle"]
    /\ graph = Nobody
    /\ remote = [r \in Requests |-> "none"]
    /\ named = [r \in Requests |-> FALSE]
    /\ usable = TRUE
    /\ written = Nobody
    /\ status = "approved"
    /\ log = [r \in Requests |-> "none"]
    /\ tries = [r \in Requests |-> 0]
    /\ lease = [r \in Requests |-> Nobody]
    /\ lapsed = [r \in Requests |-> FALSE]
    /\ job = [r \in Requests |-> "none"]
    /\ owner = [r \in Requests |-> Nobody]
    /\ hpc = [h \in Handlers |-> "idle"]
    /\ task = [h \in Handlers |-> Nobody]
    /\ seen = [h \in Handlers |-> "nothing"]
    /\ faults = 0

Fault == faults < MaxFaults /\ faults' = faults + 1

Unresolved == \E r \in Requests : log[r] = "required"

-------------------------------------------------------------------------------
(* write_back_file *)

Goes(r, next) == pc' = [pc EXCEPT ![r] = next]
Unlocks(r) == graph' = IF graph = r THEN Nobody ELSE graph

SendsUnasked(r) ==
    /\ pc[r] = "idle"
    /\ graph = Nobody
    /\ usable
    /\ status = "approved"
    /\ graph' = r
    /\ Goes(r, "sending")
    /\ remote' = [remote EXCEPT ![r] = "unknown"]
    /\ UNCHANGED <<named, artifact, logs, queue, handling, faults>>

\* The checks under the locks, then the upload, whose locks are kept meanwhile.
Sends(r) ==
    /\ pc[r] = "idle"
    /\ graph = Nobody
    /\ usable
    /\ ~Unresolved
    /\ status = "approved"
    /\ graph' = r
    /\ Goes(r, "sending")
    /\ remote' = [remote EXCEPT ![r] = "unknown"]
    /\ UNCHANGED <<named, artifact, logs, queue, handling, faults>>

\* Canvas answers with the new file.
Answered(r) ==
    /\ pc[r] = "sending"
    /\ remote[r] = "unknown"
    /\ Goes(r, "answered")
    /\ remote' = [remote EXCEPT ![r] = "landed"]
    /\ named' = [named EXCEPT ![r] = TRUE]
    /\ UNCHANGED <<graph, artifact, logs, queue, handling, faults>>

\* It rejects the upload for certain, before or after the body.
Rejected(r) ==
    /\ pc[r] = "sending"
    /\ Unlocks(r)
    /\ Goes(r, "done")
    /\ remote' = [remote EXCEPT ![r] = "none"]
    /\ UNCHANGED <<named, artifact, logs, queue, handling, faults>>

\* No certain answer: the transaction and its locks are gone before the record.
Ambiguous(r) ==
    /\ pc[r] = "sending"
    /\ Unlocks(r)
    /\ Goes(r, "persist")
    /\ UNCHANGED <<remote, named, artifact, logs, queue, handling, faults>>

\* The receipt, the artifact and the log, in one commit.
Commits(r) ==
    /\ pc[r] = "answered"
    /\ graph = r
    /\ usable
    /\ written = Nobody
    /\ Unlocks(r)
    /\ Goes(r, "done")
    /\ written' = r
    /\ status' = "written_back"
    /\ log' = [log EXCEPT ![r] = "committed"]
    /\ UNCHANGED <<remote, named, usable, tries, lease, lapsed, queue,
                   handling, faults>>

\* That commit fails: the record of the ambiguity names the Canvas file.
CommitFails(r) ==
    /\ pc[r] = "answered"
    /\ graph = r
    /\ usable
    /\ written = Nobody
    /\ Fault
    /\ Unlocks(r)
    /\ Goes(r, "persist")
    /\ UNCHANGED <<remote, named, artifact, logs, queue, handling>>

\* mark_written raises, outside the try of the commit: nothing is recorded.
MarkRaises(r) ==
    /\ pc[r] = "answered"
    /\ graph # r \/ ~usable \/ written # Nobody
    /\ Unlocks(r)
    /\ Goes(r, "done")
    /\ UNCHANGED <<remote, named, artifact, logs, queue, handling, faults>>

\* _persist_file_reconciliation: the row and its job.  Its foreign keys lock the
\* artifact and the cloud file, so it waits for a request that uploads them.
Persists(r) ==
    /\ pc[r] = "persist"
    /\ graph = Nobody
    /\ Goes(r, "done")
    /\ log' = [log EXCEPT ![r] = "required"]
    /\ job' = [job EXCEPT ![r] = "pending"]
    /\ UNCHANGED <<graph, remote, named, artifact, tries, lease, lapsed,
                   owner, handling, faults>>

\* The process dies, or the record cannot be written.
RequestDies(r) ==
    /\ pc[r] \in {"sending", "answered", "persist"}
    /\ Fault
    /\ Unlocks(r)
    /\ Goes(r, "done")
    /\ UNCHANGED <<remote, named, artifact, logs, queue, handling>>

\* The database drops the connection; the upload does not notice.
ConnectionLost(r) ==
    /\ graph = r
    /\ Fault
    /\ graph' = Nobody
    /\ UNCHANGED <<pc, remote, named, artifact, logs, queue, handling>>

RequestStep(r) ==
    \/ Sends(r) \/ Answered(r) \/ Rejected(r) \/ Ambiguous(r) \/ Commits(r)
    \/ CommitFails(r) \/ MarkRaises(r) \/ Persists(r) \/ RequestDies(r)
    \/ ConnectionLost(r)

-------------------------------------------------------------------------------
(* Canvas, the clock and the reviewer *)

\* A teacher replaces the content of the copy.
Edited(r) ==
    /\ remote[r] = "landed"
    /\ remote' = [remote EXCEPT ![r] = "changed"]
    /\ UNCHANGED <<pc, graph, named, artifact, logs, queue, handling, faults>>

\* The artifact expires, or its approval is no longer current.
Lapses ==
    /\ usable
    /\ usable' = FALSE
    /\ UNCHANGED <<api, written, status, logs, queue, handling, faults>>

\* approve_content of an approved artifact sets the status of the file again.
Reapproves ==
    /\ graph = Nobody
    /\ usable
    /\ status # "approved"
    /\ status' = "approved"
    /\ UNCHANGED <<api, usable, written, logs, queue, handling, faults>>

LeaseLapses(r) ==
    /\ lease[r] # Nobody
    /\ ~lapsed[r]
    /\ lapsed' = [lapsed EXCEPT ![r] = TRUE]
    /\ UNCHANGED <<api, artifact, log, tries, lease, queue, handling, faults>>

-------------------------------------------------------------------------------
(* The queue, as far as the handler sees it, and backfill *)

Claims(h, r) ==
    /\ hpc[h] = "idle"
    /\ job[r] = "pending"
    /\ job' = [job EXCEPT ![r] = "processing"]
    /\ owner' = [owner EXCEPT ![r] = h]
    /\ hpc' = [hpc EXCEPT ![h] = "claimed"]
    /\ task' = [task EXCEPT ![h] = r]
    /\ UNCHANGED <<api, artifact, logs, seen, faults>>

\* A claim is reaped: its handler is dead, or looks dead.  The row is retried, or
\* has no retry left.
Reaps(r) ==
    /\ job[r] = "processing"
    /\ \/ task[owner[r]] # r /\ UNCHANGED faults
       \/ Fault
    /\ \E next \in {"pending", "none"} : job' = [job EXCEPT ![r] = next]
    /\ owner' = [owner EXCEPT ![r] = Nobody]
    /\ UNCHANGED <<api, artifact, logs, handling>>

Due(r) == log[r] = "required" /\ (lease[r] = Nobody \/ lapsed[r])

Backfill(r) ==
    /\ Due(r)
    /\ job[r] = "none"
    /\ job' = [job EXCEPT ![r] = "pending"]
    /\ UNCHANGED <<api, artifact, logs, owner, handling, faults>>

-------------------------------------------------------------------------------
(* handle_job *)

\* The handler is over; the row it still owns is completed, or retried while it has
\* retries.
Returns(h, ends) ==
    LET r == task[h] IN
    /\ hpc' = [hpc EXCEPT ![h] = "idle"]
    /\ task' = [task EXCEPT ![h] = Nobody]
    /\ seen' = [seen EXCEPT ![h] = "nothing"]
    /\ IF owner[r] = h
       THEN /\ \E next \in ends : job' = [job EXCEPT ![r] = next]
            /\ owner' = [owner EXCEPT ![r] = Nobody]
       ELSE UNCHANGED queue

Completed == {"none"}
Retried == {"pending", "none"}

At(h, next) == hpc' = [hpc EXCEPT ![h] = next] /\ UNCHANGED <<task, queue>>

\* The lease of another handler is not asked about.
TakesLease(h) ==
    LET r == task[h] IN
    /\ hpc[h] = "claimed"
    /\ log[r] = "required"
    /\ tries' = [tries EXCEPT ![r] = IF @ = MaxAttempts THEN @ ELSE @ + 1]
    /\ lease' = [lease EXCEPT ![r] = h]
    /\ lapsed' = [lapsed EXCEPT ![r] = FALSE]
    /\ At(h, "leased")
    /\ UNCHANGED <<api, artifact, log, seen, faults>>

NothingToDo(h) ==
    /\ hpc[h] = "claimed"
    /\ log[task[h]] # "required"
    /\ Returns(h, Completed)
    /\ UNCHANGED <<api, artifact, logs, faults>>

\* observe_exact: only the file Canvas named can be found, its bytes are hashed,
\* and an error of any kind tells nothing.
Observable(r) ==
    {"indeterminate"}
        \cup {o \in {"confirmed"} : named[r] /\ remote[r] = "landed"}
        \cup {o \in {"absent"} : named[r] /\ remote[r] = "changed"}

Observes(h) ==
    /\ hpc[h] = "leased"
    /\ \E o \in Observable(task[h]) : seen' = [seen EXCEPT ![h] = o]
    /\ At(h, "observed")
    /\ UNCHANGED <<api, artifact, logs, faults>>

AssertsOwned(h) ==
    /\ hpc[h] = "observed"
    /\ owner[task[h]] = h
    /\ At(h, "asserted")
    /\ UNCHANGED <<api, artifact, logs, seen, faults>>

NotOwned(h) ==
    /\ hpc[h] = "observed"
    /\ owner[task[h]] # h
    /\ Returns(h, Completed)
    /\ UNCHANGED <<api, artifact, logs, faults>>

MayAlways(h) == TRUE

\* The log is locked again: it must still be open, under this handler's token.
MayResolve(h) == log[task[h]] = "required" /\ lease[task[h]] = h

LeaseLost(h) ==
    /\ hpc[h] = "asserted"
    /\ ~MayResolve(h)
    /\ Returns(h, Retried)
    /\ UNCHANGED <<api, artifact, logs, faults>>

\* The end of log r: how, and what the cloud file shows.
Ends(r, how, shows) ==
    /\ log' = [log EXCEPT ![r] = how]
    /\ lease' = [lease EXCEPT ![r] = Nobody]
    /\ lapsed' = [lapsed EXCEPT ![r] = FALSE]
    /\ status' = shows
    /\ UNCHANGED tries

Confirms(h) ==
    LET r == task[h] IN
    /\ seen[h] = "confirmed"
    /\ usable
    /\ written \in {Nobody, r}
    /\ graph = Nobody
    /\ written' = r
    /\ Ends(r, "reconciled", "written_back")
    /\ Returns(h, Completed)

\* mark_written raises: the lease stays until it lapses, whatever the attempts.
ConfirmRaises(h) ==
    /\ seen[h] = "confirmed"
    /\ ~usable \/ written \notin {Nobody, task[h]}
    /\ Returns(h, Retried)
    /\ UNCHANGED <<written, status, logs>>

FindsNone(h) ==
    /\ seen[h] = "absent"
    /\ graph = Nobody
    /\ Ends(task[h], "failed_manual", "reconciliation_failed")
    /\ Returns(h, Completed)
    /\ UNCHANGED written

GivesUp(h) ==
    /\ seen[h] = "indeterminate"
    /\ tries[task[h]] = MaxAttempts
    /\ graph = Nobody
    /\ Ends(task[h], "manual_required", "reconciliation_failed")
    /\ Returns(h, Completed)
    /\ UNCHANGED written

TriesAgain(h) ==
    LET r == task[h] IN
    /\ seen[h] = "indeterminate"
    /\ tries[r] < MaxAttempts
    /\ lease' = [lease EXCEPT ![r] = Nobody]
    /\ lapsed' = [lapsed EXCEPT ![r] = FALSE]
    /\ Returns(h, Retried)
    /\ UNCHANGED <<written, status, log, tries>>

Resolves(h) ==
    /\ hpc[h] = "asserted"
    /\ MayResolve(h)
    /\ \/ Confirms(h) \/ ConfirmRaises(h) \/ FindsNone(h) \/ GivesUp(h) \/ TriesAgain(h)
    /\ UNCHANGED <<api, usable, faults>>

HandlerDies(h) ==
    /\ hpc[h] # "idle"
    /\ Fault
    /\ hpc' = [hpc EXCEPT ![h] = "idle"]
    /\ task' = [task EXCEPT ![h] = Nobody]
    /\ seen' = [seen EXCEPT ![h] = "nothing"]
    /\ UNCHANGED <<api, artifact, logs, queue>>

HandlerStep(h) ==
    \/ TakesLease(h) \/ NothingToDo(h) \/ Observes(h) \/ AssertsOwned(h) \/ NotOwned(h)
    \/ LeaseLost(h) \/ Resolves(h)

-------------------------------------------------------------------------------
Next ==
    \/ \E r \in Requests : RequestStep(r) \/ Edited(r) \/ LeaseLapses(r)
                           \/ Reaps(r) \/ Backfill(r)
    \/ \E h \in Handlers : HandlerStep(h) \/ HandlerDies(h)
                           \/ \E r \in Requests : Claims(h, r)
    \/ Lapses
    \/ Reapproves

Spec == Init /\ [][Next]_vars

\* Clocks run, workers run their handlers, reap lost claims and run the periodic
\* maintenance; the queue serves its rows in turn, so no row is passed over forever.
Fairness ==
    /\ \A h \in Handlers : WF_vars(HandlerStep(h))
    /\ \A r \in Requests :
         /\ WF_vars(LeaseLapses(r))
         /\ WF_vars(Reaps(r) /\ UNCHANGED faults)
         /\ WF_vars(Backfill(r))
         /\ SF_vars(\E h \in Handlers : Claims(h, r))

FairSpec == Spec /\ Fairness

-------------------------------------------------------------------------------
(* Properties *)

\* The artifact is marked as written for the one upload whose log says so, and that
\* upload reached Canvas; no answer that arrives late undoes it.
WrittenByOneUpload ==
    \A r \in Requests :
        /\ log[r] \in {"committed", "reconciled"} <=> written = r
        /\ written = r => remote[r] \in {"landed", "changed"}

\* No request holds the artifact to upload it while the outcome of an earlier upload
\* is recorded as unknown, although that record is written after its locks are gone.
NoUploadBesideAmbiguity == graph # Nobody => ~Unresolved

WritebackConsistent == WTypeOK /\ WrittenByOneUpload /\ NoUploadBesideAmbiguity

\* What is known of an upload is never taken back: a log that was closed, by the
\* request, by the observation of one handler or by giving up, is closed for good,
\* and a late handler or request neither reopens it nor moves the artifact's mark.
ResolutionStands ==
    [][/\ \A r \in Requests : log[r] \notin {"none", "required"} => log'[r] = log[r]
       /\ written # Nobody => written' = written]_vars


===============================================================================

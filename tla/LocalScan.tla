------------------------------- MODULE LocalScan -------------------------------
(***************************************************************************)
(* The queue with the handler of local scans closed: the worker's task     *)
(* (handle_local_scan_job) runs the scanner in a child process             *)
(* (local_scan_subprocess) that takes a PostgreSQL advisory lock for its   *)
(* claim before it looks at the row, and whose commits are fenced          *)
(* (execution_authority).  A child outlives neither its handler nor, on    *)
(* Linux, its worker, but the latter takes a while: until the parent-death *)
(* signal arrives an orphan keeps scanning.                                *)
(***************************************************************************)
EXTENDS JobQueue

VARIABLE child    \* the scanner process of each claim

lvars == <<vars, child>>

LocalJobs == ChildJobs \cap ScanJobs

ASSUME LocalAssumption ==
    ChildJobs = LocalJobs /\ \A j \in LocalJobs : ScanOf[j] \in Scans

ChildStates == {"none", "started", "locked", "working", "finished", "released", "exited"}
ChildAlive(c) == child[c] \in {"started", "locked", "working", "finished", "released"}
ChildGone(c)  == child[c] \in {"none", "exited"}

LTypeOK == TypeOK /\ child \in [Claims -> ChildStates]

LInit == Init /\ child = [c \in Claims |-> "none"]

SetChild(c, state) == child' = [child EXCEPT ![c] = state]

-------------------------------------------------------------------------------
(* The parent: handle_local_scan_job *)

\* The scan is still open and assert_owned() passed: start the one child of
\* this claim.
SpawnChild(c) ==
    /\ pc[c] = "running"
    /\ c[1] \in LocalJobs
    /\ child[c] = "none"
    /\ scan[ScanOf[c[1]]] = "open"
    /\ ActiveFence(c)
    /\ SetChild(c, "started")
    /\ UNCHANGED vars

\* Mutant: the verdict is the child's exit, not the scan row.
ScanVerdictsFromExit(c) == IF child[c] = "exited" THEN {"success"} ELSE {"fatal"}

\* The handler's verdict is read back from the scan row, never from the child:
\* a completed scan is a success, also when an earlier attempt completed it, a
\* failed one is final.  A scan that is still open, or gone, after the child ended
\* is worth another attempt; before the child, a missing scan or an input that
\* does not validate is final, and any other error is not.
ScanVerdicts(c) ==
    CASE scan[ScanOf[c[1]]] = "completed" -> {"success"}
      [] scan[ScanOf[c[1]]] = "failed" -> {"fatal"}
      [] scan[ScanOf[c[1]]] \in {"open", "deleted"} /\ child[c] = "exited" -> {"retry"}
      [] scan[ScanOf[c[1]]] = "deleted" /\ child[c] # "exited" -> {"fatal"}
      [] OTHER -> {"retry", "fatal"}

ParentReturns(c) ==
    /\ c[1] \in LocalJobs
    /\ ChildGone(c)
    /\ \E r \in ScanVerdicts(c) : HandlerReturns(c, r)
    /\ UNCHANGED child

\* LostJobOwnership from one of its two checkpoints, or a database error.
ParentRaises(c) ==
    /\ c[1] \in LocalJobs
    /\ ChildGone(c)
    /\ HandlerAbandons(c) \/ HandlerRaises(c)
    /\ UNCHANGED child

\* Mutant: the cancelled handler does not wait for its process group.
ParentTornDownAtOnce(c) ==
    /\ c[1] \in LocalJobs
    /\ HandlerTornDown(c)
    /\ UNCHANGED child

\* _run_process: a cancelled handler kills its process group and waits for it.
ParentTornDown(c) ==
    /\ c[1] \in LocalJobs
    /\ ChildGone(c)
    /\ HandlerTornDown(c)
    /\ UNCHANGED child

-------------------------------------------------------------------------------
(* The child: _execute_request *)

ChildLocks(c) ==
    /\ child[c] = "started"
    /\ TakeAuthority(c)
    /\ SetChild(c, "locked")

\* Mutant: the child trusts the claim it was started with.
ChildChecksNothing(c) ==
    /\ child[c] = "locked"
    /\ SetChild(c, "working")
    /\ UNCHANGED vars

\* claim_is_current, read with the lock held.
ChildChecks(c) ==
    /\ child[c] = "locked"
    /\ SetChild(c, IF ActiveFence(c) THEN "working" ELSE "exited")
    /\ UNCHANGED vars

\* Mutant: a commit without the before_commit fence.
ChildCommitsUnfenced(c, outcome) ==
    /\ child[c] = "working"
    /\ scan' = [scan EXCEPT ![ScanOf[c[1]]] = outcome]
    /\ SetChild(c, "finished")
    /\ UNCHANGED <<rowVars, fenced, authority, workerVars, taskVars>>

\* The scanner's final commit, fenced by before_commit.
ChildCommits(c, outcome) ==
    /\ child[c] = "working"
    /\ ChildCommitsScan(c, outcome)
    /\ SetChild(c, "finished")

\* The finally of _execute_request: whatever came of its work, the child gives the
\* lock back and has only its response left to write.
ChildReleases(c) ==
    /\ child[c] \in {"locked", "working", "finished"}
    /\ DropAuthority(c)
    /\ SetChild(c, "released")

\* The process ends: by itself, on an exception (a refused commit is one),
\* killed by its parent, or by the signal of its parent's death.
ChildEnds(c) ==
    /\ ChildAlive(c)
    /\ SetChild(c, "exited")
    /\ UNCHANGED vars

\* The server releases the lock of a closed or dead connection.
ServerReleases(c) ==
    /\ child[c] = "exited"
    /\ DropAuthority(c)
    /\ UNCHANGED child

-------------------------------------------------------------------------------
(* The specification *)

ParentStep(c) == ParentReturns(c) \/ ParentRaises(c) \/ ParentTornDown(c)
ChildStep(c) ==
    \/ ChildLocks(c) \/ ChildChecks(c) \/ ChildReleases(c) \/ ChildEnds(c)
    \/ ServerReleases(c)
    \/ \E outcome \in {"completed", "failed"} : ChildCommits(c, outcome)

\* Jobs of the other kinds keep the open handler.
OtherHandlerStep(c) == c[1] \notin LocalJobs /\ HandlerStep(c) /\ UNCHANGED child

LNext ==
    \/ QueueStep /\ UNCHANGED child
    \/ \E c \in Claims :
        SpawnChild(c) \/ ParentStep(c) \/ ChildStep(c) \/ OtherHandlerStep(c)

LSpec == LInit /\ [][LNext]_lvars

\* A cancelled handler's child is killed, an orphan gets its parent-death
\* signal, and the server notices a dead connection.
MustEnd(c) == pc[c] \in {"lost", "timeout", "done"} /\ ChildEnds(c)
LFairSpec ==
    /\ LSpec
    /\ QueueFairness
    /\ \A c \in Claims :
        WF_lvars(ParentTornDown(c)) /\ WF_lvars(MustEnd(c)) /\ WF_lvars(ServerReleases(c))

-------------------------------------------------------------------------------
(* Properties *)

\* A child past its check is the child of the claim its row still carries: the
\* row can be neither finished, recovered, nor claimed again under it.
LiveChildOwnsRow ==
    \A c \in Claims :
        child[c] \in {"working", "finished"} =>
            status[c[1]] = "processing" /\ token[c[1]] = c[2]

\* Two attempts of one job never scan at the same time, whatever leases, crashes
\* and recoveries came between them.
ChildExclusion ==
    \A c, d \in Claims :
        (c[1] = d[1] /\ c # d) => ~(child[c] = "working" /\ child[d] = "working")

\* The children of one job and its row agree: at most one scans, and it is the one
\* of the claim the row carries.
OneLiveChild == LiveChildOwnsRow /\ ChildExclusion

\* A scan row is never deleted under a child that is scanning it.
NoDeletionUnderChild ==
    \A c \in Claims :
        child[c] = "working" => scan[ScanOf[c[1]]] # "deleted"

\* A job never reports success without a scan that completed.
CompletedJobHasScan ==
    \A j \in LocalJobs :
        status[j] = "completed" => scan[ScanOf[j]] \in {"completed", "deleted"}

\* docs/deployment/self-hosting.md: a cancellation "is acknowledged only after
\* the child has stopped or its dead connection has released that authority": of
\* a child that still works, or could begin to, none is.
AckAfterChildDeath ==
    [][\A c \in Claims :
        (err[c[1]] = "cancel_requested" /\ err'[c[1]] = "cancelled"
            /\ token[c[1]] = c[2]) => child[c] \notin {"locked", "working", "finished"}]_lvars

\* From the fence of a scan's deletion on no scan job of it is queued or running,
\* whichever of the API, the tasks and the reapers began the deletion, and however
\* many rows of the scan they had to stop first.
FencedScanIdle ==
    \A j \in LocalJobs : ScanOf[j] \in fenced => status[j] \notin Active

\* A cancelled local scan ends with its job, or its deletion has begun and waits for
\* somebody to ask for it again: no scan stays for ever as it is beside a job of it
\* that has been asked to stop or was stopped.
CancelledScanGoes ==
    \A j \in LocalJobs :
        []<>(err[j] \in {"cancel_requested", "cancelled"} =>
                scan[ScanOf[j]] = "deleted" \/ ScanOf[j] \in fenced)

\* No scan stays open for ever (and none is opened again).
ScanSettles == \A s \in Scans : []<>(scan[s] # "open")

\* Everything the parent and its child do is something the queue allows an open
\* handler: Spec is the specification of JobQueue.
ImplementsQueue == Spec

===============================================================================

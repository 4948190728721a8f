--------------------------- MODULE LocalScan_proofs ---------------------------
(***************************************************************************)
(* Proofs about LocalScan: that it implements the queue, so that every     *)
(* theorem about JobQueue holds of it too, and that the advisory lock      *)
(* makes a child and the row it works for inseparable.                     *)
(*                                                                         *)
(* The argument: a child past its first lock holds it while it works       *)
(* (LockHeld), the parent does not finish before its child is dead         *)
(* (ParentOutlivesChild), and a claim only leaves its row by its own task  *)
(* or under the recovery lock (ClaimEnds): so no row changes hands under   *)
(* a child that checked it.  A deletion begins with the last job of its    *)
(* scan because the request to stop reaches all of them at once            *)
(* (CancelReachesAll): no deletion begins under a child either.            *)
(***************************************************************************)
EXTENDS LocalScan, JobQueue_proofs

\* Only local scans have children.
ChildIsLocal == \A c \in Claims : child[c] # "none" => c[1] \in LocalJobs

\* A child holds the lock of its claim from ChildLocks to the end of its work.
LockHeld ==
    \A c \in Claims : child[c] \in {"locked", "working", "finished"} => c \in authority

\* The end of a task comes after the end of its child.
LatePcs == {"returned", "finishing", "updating", "refused"}
ParentOutlivesChild ==
    \A c \in Claims : (c[1] \in LocalJobs /\ pc[c] \in LatePcs) => ChildGone(c)

\* A child belongs to an attempt that was made.
NoChildBeforeClaim ==
    \A c \in Claims : child[c] # "none" => c[2] <= attempts[c[1]]

\* Where one job of a scan is asked to stop, no local job of it waits in the queue
\* and those that run are asked to stop, too.
CancelReachesAll ==
    \A i \in Jobs : \A j \in LocalJobs :
        (status[i] = "processing" /\ err[i] = "cancel_requested" /\ ScanOf[i] = ScanOf[j])
            => /\ status[j] # "pending"
               /\ status[j] = "processing" => err[j] = "cancel_requested"

\* A scan that is gone was fenced first.
DeletedIsFenced == \A s \in Scans : scan[s] = "deleted" => s \in fenced

\* A success was read from the scan row, which keeps its verdict.
SuccessHasScan ==
    \A c \in Claims :
        (c[1] \in LocalJobs /\ result[c] = "success")
            => scan[ScanOf[c[1]]] \in {"completed", "deleted"}

LInv ==
    /\ Inv
    /\ child \in [Claims -> ChildStates]
    /\ ChildIsLocal
    /\ LockHeld
    /\ ParentOutlivesChild
    /\ NoChildBeforeClaim
    /\ LiveChildOwnsRow
    /\ CancelReachesAll
    /\ FencedScanIdle
    /\ DeletedIsFenced
    /\ SuccessHasScan

-------------------------------------------------------------------------------
(* LocalScan implements the queue *)

LEMMA VerdictType == \A c \in Claims : ScanVerdicts(c) \subseteq Results \ {"none"}
BY DEF ScanVerdicts, Results

LEMMA StepRefines == [LNext]_lvars => [Next]_vars
<1> SUFFICES ASSUME [LNext]_lvars PROVE [Next]_vars
  OBVIOUS
<1>1. CASE QueueStep
  BY <1>1 DEF Next
<1>2. ASSUME NEW c \in Claims, SpawnChild(c) PROVE [Next]_vars
  BY <1>2 DEF SpawnChild
<1>3. ASSUME NEW c \in Claims, ParentStep(c) PROVE [Next]_vars
  <2>1. CASE ParentReturns(c)
    BY <2>1, VerdictType DEF ParentReturns, Next, HandlerStep
  <2>2. CASE ParentRaises(c)
    BY <2>2 DEF ParentRaises, Next, HandlerStep
  <2>3. CASE ParentTornDown(c)
    BY <2>3 DEF ParentTornDown, Next, HandlerStep
  <2> QED
    BY <1>3, <2>1, <2>2, <2>3 DEF ParentStep
<1>4. ASSUME NEW c \in Claims, ChildStep(c) PROVE [Next]_vars
  <2>1. CASE ChildLocks(c)
    BY <2>1 DEF ChildLocks, Next, HandlerStep
  <2>2. CASE ChildChecks(c) \/ ChildEnds(c)
    BY <2>2 DEF ChildChecks, ChildEnds
  <2>3. CASE ServerReleases(c) \/ ChildReleases(c)
    BY <2>3 DEF ServerReleases, ChildReleases, Next, HandlerStep
  <2>4. ASSUME NEW o \in {"completed", "failed"}, ChildCommits(c, o) PROVE [Next]_vars
    BY <2>4 DEF ChildCommits, Next, HandlerStep
  <2> QED
    BY <1>4, <2>1, <2>2, <2>3, <2>4 DEF ChildStep
<1>5. ASSUME NEW c \in Claims, OtherHandlerStep(c) PROVE [Next]_vars
  BY <1>5 DEF OtherHandlerStep, Next
<1>6. CASE UNCHANGED lvars
  BY <1>6 DEF lvars
<1> QED
  BY <1>1, <1>2, <1>3, <1>4, <1>5, <1>6 DEF LNext

\* Closing the handler of local scans adds no behaviour to the queue.
THEOREM LocalScanImplementsQueue == LSpec => ImplementsQueue
<1>1. LInit => Init
  BY DEF LInit
<1> QED
  BY <1>1, StepRefines, PTL DEF LSpec, Spec, ImplementsQueue

\* The rows of a queue with local scans keep what FencedClaims promises, too.
THEOREM LocalScanFences == LSpec => QueueFences
BY LocalScanImplementsQueue, QueueFencesHolds, PTL DEF ImplementsQueue

-------------------------------------------------------------------------------
(* What a step does to a child, its lock and its parent *)

LEMMA ChildMoves ==
    ASSUME child \in [Claims -> ChildStates], [LNext]_lvars, NEW c \in Claims
    PROVE  child'[c] = child[c] \/ SpawnChild(c) \/ ChildStep(c)
<1>1. ASSUME NEW d \in Claims, SpawnChild(d) \/ ChildStep(d), d # c
      PROVE child'[c] = child[c]
  BY <1>1 DEF SpawnChild, ChildStep, ChildLocks, ChildChecks, ChildCommits, ChildEnds,
       ChildReleases, ServerReleases, SetChild
<1>2. ASSUME NEW d \in Claims, ParentStep(d) \/ OtherHandlerStep(d)
      PROVE child' = child
  BY <1>2 DEF ParentStep, ParentReturns, ParentRaises, ParentTornDown, OtherHandlerStep
<1>3. CASE QueueStep /\ UNCHANGED child
  BY <1>3
<1>4. CASE UNCHANGED lvars
  BY <1>4 DEF lvars
<1> QED
  BY <1>1, <1>2, <1>3, <1>4 DEF LNext

LEMMA ChildType ==
    child \in [Claims -> ChildStates] /\ [LNext]_lvars => child' \in [Claims -> ChildStates]
<1> SUFFICES ASSUME child \in [Claims -> ChildStates], [LNext]_lvars
             PROVE  child' \in [Claims -> ChildStates]
  OBVIOUS
<1>1. ASSUME NEW d \in Claims, SpawnChild(d) \/ ChildStep(d)
      PROVE child' \in [Claims -> ChildStates]
  BY <1>1 DEF SpawnChild, ChildStep, ChildLocks, ChildChecks, ChildCommits, ChildEnds,
       ChildReleases, ServerReleases, SetChild, ChildStates
<1>2. ASSUME NEW d \in Claims, ParentStep(d) \/ OtherHandlerStep(d)
      PROVE child' = child
  BY <1>2 DEF ParentStep, ParentReturns, ParentRaises, ParentTornDown, OtherHandlerStep
<1>3. CASE UNCHANGED lvars
  BY <1>3 DEF lvars
<1> QED
  BY <1>1, <1>2, <1>3 DEF LNext

\* The queue itself takes and releases no lock.
LEMMA QueueKeepsLocks == QueueStep => authority' = authority
<1> SUFFICES ASSUME QueueStep PROVE authority' = authority
  OBVIOUS
<1>1. ASSUME NEW j \in Jobs, Enqueue(j) \/ LeaseLapses(j) PROVE authority' = authority
  BY <1>1 DEF Enqueue, LeaseLapses
<1>2. ASSUME NEW w \in Workers, NEW j \in Jobs, Claim(w, j) \/ FailBlocked(w, j) \/ Reap(w, j)
      PROVE authority' = authority
  BY <1>2 DEF Claim, FailBlocked, Reap
<1>3. ASSUME NEW c \in Claims, TaskStep(c) PROVE authority' = authority
  BY <1>3 DEF TaskStep, StartClaim, AssertOwned, ReadEffect, FencedFinish, Acknowledge
<1>4. ASSUME NEW c \in Claims,
             HeartbeatRenews(c) \/ OwnershipLost(c) \/ ExecutionTimeout(c)
      PROVE authority' = authority
  BY <1>4 DEF HeartbeatRenews, OwnershipLost, ExecutionTimeout
<1>5. ASSUME NEW s \in Scans, CancelScan(s) \/ DeletionCommits(s) \/ FailStaleScan(s)
      PROVE authority' = authority
  BY <1>5 DEF CancelScan, DeletionCommits, FailStaleScan
<1>6. ASSUME NEW w \in Workers,
             RequestDrain(w) \/ StopDrained(w) \/ Crash(w) \/ Restart(w)
      PROVE authority' = authority
  BY <1>6 DEF RequestDrain, StopDrained, Crash, Restart
<1> QED
  BY <1>1, <1>2, <1>3, <1>4, <1>5, <1>6 DEF QueueStep

\* A lock outlives everything but its child's own release and its child's end.
LEMMA LockKept ==
    ASSUME [LNext]_lvars, NEW c \in authority, c[1] \in LocalJobs,
           child[c] # "exited", ~ChildReleases(c)
    PROVE  c \in authority'
<1>1. CASE QueueStep
  BY <1>1, QueueKeepsLocks
<1>2. ASSUME NEW d \in Claims, SpawnChild(d) \/ ParentStep(d) PROVE authority' = authority
  BY <1>2 DEF SpawnChild, ParentStep, ParentReturns, ParentRaises, ParentTornDown,
       HandlerReturns, HandlerAbandons, HandlerRaises, HandlerTornDown, vars
<1>3. ASSUME NEW d \in Claims, ChildStep(d) PROVE c \in authority'
  BY <1>3 DEF ChildStep, ChildLocks, ChildChecks, ChildCommits, ChildEnds,
       ChildReleases, ServerReleases,
       TakeAuthority, DropAuthority, ChildCommitsScan, vars
<1>4. ASSUME NEW d \in Claims, OtherHandlerStep(d) PROVE c \in authority'
  BY <1>4 DEF OtherHandlerStep, HandlerStep, HandlerTornDown, HandlerRaises, HandlerAbandons,
       HandlerReturns, HandlerFinishes, BeginEffectCall, BeginEffectCommit,
       TakeAuthority, DropAuthority,
       ChildCommitsScan
<1>5. CASE UNCHANGED lvars
  BY <1>5 DEF lvars, vars
<1> QED
  BY <1>1, <1>2, <1>3, <1>4, <1>5 DEF LNext

\* A local scan's task comes to its end from its end, or over a child that is gone.
LEMMA LateMoves ==
    ASSUME TypeOK, [LNext]_lvars, NEW c \in Claims, c[1] \in LocalJobs, pc'[c] \in LatePcs
    PROVE  pc[c] \in LatePcs \/ (ChildGone(c) /\ child' = child)
<1> USE DEF LatePcs
<1>1. CASE QueueStep
  <2> USE DEF taskVars
  <2>1. ASSUME NEW j \in Jobs, Enqueue(j) \/ LeaseLapses(j) PROVE pc' = pc
    BY <2>1 DEF Enqueue, LeaseLapses
  <2>2. ASSUME NEW w \in Workers, NEW j \in Jobs, FailBlocked(w, j) \/ Reap(w, j) PROVE pc' = pc
    BY <2>2 DEF FailBlocked, Reap
  <2>3. ASSUME NEW w \in Workers, NEW j \in Jobs, Claim(w, j) PROVE pc[c] \in LatePcs
    BY <2>3 DEF TypeOK, Claim
  <2>4. ASSUME NEW d \in Claims, TaskStep(d) PROVE pc[c] \in LatePcs
    BY <2>4 DEF TypeOK, TaskStep, StartClaim, AssertOwned, ReadEffect, FencedFinish,
         Acknowledge, GoTo
  <2>5. ASSUME NEW d \in Claims,
               HeartbeatRenews(d) \/ OwnershipLost(d) \/ ExecutionTimeout(d)
        PROVE pc[c] \in LatePcs
    BY <2>5 DEF TypeOK, HeartbeatRenews, OwnershipLost, ExecutionTimeout, GoTo
  <2>6. ASSUME NEW s \in Scans, CancelScan(s) \/ DeletionCommits(s) \/ FailStaleScan(s)
        PROVE pc' = pc
    BY <2>6 DEF CancelScan, DeletionCommits, FailStaleScan
  <2>7. ASSUME NEW w \in Workers,
               RequestDrain(w) \/ StopDrained(w) \/ Crash(w) \/ Restart(w)
        PROVE pc[c] \in LatePcs
    BY <2>7 DEF TypeOK, RequestDrain, StopDrained, Crash, Restart
  <2> QED
    BY <1>1, <2>1, <2>2, <2>3, <2>4, <2>5, <2>6, <2>7 DEF QueueStep
<1>2. ASSUME NEW d \in Claims, SpawnChild(d) \/ ChildStep(d) PROVE pc' = pc
  BY <1>2 DEF SpawnChild, ChildStep, ChildLocks, ChildChecks, ChildCommits, ChildEnds,
       ChildReleases, ServerReleases, TakeAuthority, DropAuthority,
       ChildCommitsScan, vars, taskVars
<1>3. ASSUME NEW d \in Claims, ParentStep(d)
      PROVE pc[c] \in LatePcs \/ (ChildGone(c) /\ child' = child)
  <2>1. CASE d = c
    BY <1>3, <2>1 DEF ParentStep, ParentReturns, ParentRaises, ParentTornDown
  <2>2. CASE d # c
    BY <1>3, <2>2 DEF TypeOK, ParentStep, ParentReturns, ParentRaises, ParentTornDown,
         HandlerReturns, HandlerAbandons, HandlerRaises, HandlerTornDown, GoTo
  <2> QED
    BY <2>1, <2>2
<1>4. ASSUME NEW d \in Claims, OtherHandlerStep(d) PROVE pc'[c] = pc[c]
  <2>1. d # c
    BY <1>4 DEF OtherHandlerStep
  <2> QED
    BY <1>4, <2>1 DEF TypeOK, OtherHandlerStep, HandlerStep, HandlerTornDown, HandlerRaises,
         HandlerAbandons, HandlerReturns, HandlerFinishes, BeginEffectCall,
         BeginEffectCommit, TakeAuthority,
         DropAuthority, ChildCommitsScan, GoTo, taskVars
<1>5. CASE UNCHANGED lvars
  BY <1>5 DEF lvars, vars, taskVars
<1> QED
  BY <1>1, <1>2, <1>3, <1>4, <1>5 DEF LNext

\* A completed or deleted scan stays completed or deleted.
LEMMA ScanVerdictKept ==
    ASSUME TypeOK, [Next]_vars, NEW s \in Scans, scan[s] \in {"completed", "deleted"}
    PROVE  scan'[s] \in {"completed", "deleted"}
<1> USE DEF rowVars, scanVars
<1>1. ASSUME NEW j \in Jobs, Enqueue(j) \/ LeaseLapses(j) PROVE scan' = scan
  BY <1>1 DEF Enqueue, LeaseLapses
<1>2. ASSUME NEW w \in Workers, NEW j \in Jobs, Claim(w, j) \/ FailBlocked(w, j)
      PROVE scan' = scan
  BY <1>2 DEF Claim, FailBlocked
<1>3. ASSUME NEW j \in Jobs, MarkAcknowledged(j) PROVE scan'[s] \in {"completed", "deleted"}
  BY <1>3 DEF TypeOK, MarkAcknowledged
<1>4. ASSUME NEW j \in Jobs, scan' = CloseScan(j) PROVE scan'[s] \in {"completed", "deleted"}
  BY <1>4 DEF TypeOK, CloseScan
<1>5. ASSUME NEW w \in Workers, NEW j \in Jobs, Reap(w, j)
      PROVE scan'[s] \in {"completed", "deleted"}
  BY <1>3, <1>4, <1>5 DEF Reap
<1>6. ASSUME NEW c \in Claims, TaskStep(c) PROVE scan'[s] \in {"completed", "deleted"}
  <2>1. CASE FencedFinish(c)
    <3>1. scan' = scan \/ scan' = CloseScan(c[1])
      BY <2>1 DEF FencedFinish
    <3> QED
      BY <3>1, <1>4, ClaimParts
  <2>2. CASE Acknowledge(c)
    BY <2>2, <1>3, ClaimParts DEF Acknowledge
  <2>3. CASE StartClaim(c) \/ AssertOwned(c) \/ ReadEffect(c)
    BY <2>3 DEF StartClaim, AssertOwned, ReadEffect
  <2> QED
    BY <1>6, <2>1, <2>2, <2>3 DEF TaskStep
<1>7. ASSUME NEW c \in Claims,
             HeartbeatRenews(c) \/ OwnershipLost(c) \/ ExecutionTimeout(c)
      PROVE scan' = scan
  BY <1>7 DEF HeartbeatRenews, OwnershipLost, ExecutionTimeout
<1>8. ASSUME NEW t \in Scans, CancelScan(t) \/ DeletionCommits(t) \/ FailStaleScan(t)
      PROVE scan'[s] \in {"completed", "deleted"}
  BY <1>8 DEF TypeOK, CancelScan, DeletionCommits, FailStaleScan
<1>9. ASSUME NEW w \in Workers,
             RequestDrain(w) \/ StopDrained(w) \/ Crash(w) \/ Restart(w)
      PROVE scan' = scan
  BY <1>9 DEF RequestDrain, StopDrained, Crash, Restart
<1>10. ASSUME NEW c \in Claims, HandlerStep(c) PROVE scan'[s] \in {"completed", "deleted"}
  BY <1>10 DEF TypeOK, HandlerStep, HandlerTornDown, HandlerRaises, HandlerAbandons,
       HandlerReturns, HandlerFinishes, BeginEffectCall, BeginEffectCommit,
       TakeAuthority, DropAuthority,
       ChildCommitsScan
<1>11. CASE UNCHANGED vars
  BY <1>11 DEF vars
<1> QED
  BY <1>1, <1>2, <1>5, <1>6, <1>7, <1>8, <1>9, <1>10, <1>11 DEF Next, QueueStep

\* A success of a local scan's task is new only when its parent just read it.
LEMMA SuccessMoves ==
    ASSUME TypeOK, [LNext]_lvars, NEW c \in Claims, c[1] \in LocalJobs,
           result'[c] = "success", result[c] # "success"
    PROVE  "success" \in ScanVerdicts(c) /\ scan' = scan
<1>1. CASE QueueStep
  <2> USE DEF taskVars
  <2>1. ASSUME NEW j \in Jobs, Enqueue(j) \/ LeaseLapses(j) PROVE result' = result
    BY <2>1 DEF Enqueue, LeaseLapses
  <2>2. ASSUME NEW w \in Workers, NEW j \in Jobs,
               Claim(w, j) \/ FailBlocked(w, j) \/ Reap(w, j)
        PROVE result' = result
    BY <2>2 DEF Claim, FailBlocked, Reap
  <2>3. ASSUME NEW d \in Claims, TaskStep(d) PROVE result' = result
    BY <2>3 DEF TaskStep, StartClaim, AssertOwned, ReadEffect, FencedFinish, Acknowledge
  <2>4. ASSUME NEW d \in Claims,
               HeartbeatRenews(d) \/ OwnershipLost(d) \/ ExecutionTimeout(d)
        PROVE result' = result
    BY <2>4 DEF HeartbeatRenews, OwnershipLost, ExecutionTimeout
  <2>5. ASSUME NEW s \in Scans, CancelScan(s) \/ DeletionCommits(s) \/ FailStaleScan(s)
        PROVE result' = result
    BY <2>5 DEF CancelScan, DeletionCommits, FailStaleScan
  <2>6. ASSUME NEW w \in Workers,
               RequestDrain(w) \/ StopDrained(w) \/ Crash(w) \/ Restart(w)
        PROVE result' = result
    BY <2>6 DEF RequestDrain, StopDrained, Crash, Restart
  <2> QED
    BY <1>1, <2>1, <2>2, <2>3, <2>4, <2>5, <2>6 DEF QueueStep
<1>2. ASSUME NEW d \in Claims, SpawnChild(d) \/ ChildStep(d) PROVE result' = result
  BY <1>2 DEF SpawnChild, ChildStep, ChildLocks, ChildChecks, ChildCommits, ChildEnds,
       ChildReleases, ServerReleases, TakeAuthority, DropAuthority,
       ChildCommitsScan, vars, taskVars
<1>3. ASSUME NEW d \in Claims, ParentStep(d)
      PROVE "success" \in ScanVerdicts(c) /\ scan' = scan
  <2>1. CASE ParentReturns(d)
    <3>1. PICK r \in ScanVerdicts(d) : HandlerReturns(d, r)
      BY <2>1 DEF ParentReturns
    <3>2. d = c /\ r = "success"
      BY <3>1 DEF TypeOK, HandlerReturns
    <3> QED
      BY <3>1, <3>2 DEF HandlerReturns, scanVars
  <2>2. CASE ParentRaises(d) \/ ParentTornDown(d)
    BY <2>2 DEF TypeOK, ParentRaises, ParentTornDown, HandlerRaises, HandlerAbandons,
         HandlerTornDown
  <2> QED
    BY <1>3, <2>1, <2>2 DEF ParentStep
<1>4. ASSUME NEW d \in Claims, OtherHandlerStep(d) PROVE result'[c] = result[c]
  <2>1. d # c
    BY <1>4 DEF OtherHandlerStep
  <2> QED
    BY <1>4, <2>1 DEF TypeOK, OtherHandlerStep, HandlerStep, HandlerTornDown, HandlerRaises,
         HandlerAbandons, HandlerReturns, HandlerFinishes, BeginEffectCall,
         BeginEffectCommit, TakeAuthority,
         DropAuthority, ChildCommitsScan, taskVars
<1>5. CASE UNCHANGED lvars
  BY <1>5 DEF lvars, vars, taskVars
<1> QED
  BY <1>1, <1>2, <1>3, <1>4, <1>5 DEF LNext

-------------------------------------------------------------------------------
(* The inductive invariant *)

LEMMA LInvInit == LInit => LInv
<1> SUFFICES ASSUME LInit PROVE LInv
  OBVIOUS
<1>1. Init /\ child = [c \in Claims |-> "none"] /\ result = [c \in Claims |-> "none"]
  BY DEF LInit, Init
<1>2. Inv
  BY <1>1, InvInit
<1> QED
  BY <1>1, <1>2 DEF LInv, Init, ChildStates, ChildIsLocal, LockHeld, ParentOutlivesChild,
     ChildGone, ChildAlive, NoChildBeforeClaim, LiveChildOwnsRow, CancelReachesAll,
     FencedScanIdle, DeletedIsFenced, SuccessHasScan, Active

LEMMA LInvStep == LInv /\ [LNext]_lvars => LInv'
<1> SUFFICES ASSUME LInv, [LNext]_lvars PROVE LInv'
  OBVIOUS
<1>1. [Next]_vars /\ Inv /\ TypeOK /\ ClaimState /\ child \in [Claims -> ChildStates]
  BY StepRefines DEF LInv, Inv
<1>2. Inv' /\ child' \in [Claims -> ChildStates]
  BY <1>1, InvStep, ChildType
<1>3. \A c \in Claims : child'[c] = child[c] \/ SpawnChild(c) \/ ChildStep(c)
  BY <1>1, ChildMoves
<1>4. \A c \in Claims : SpawnChild(c) \/ ChildStep(c) => c[1] \in LocalJobs
  <2>1. ASSUME NEW c \in Claims, ChildStep(c), child[c] # "none" PROVE c[1] \in LocalJobs
    BY <2>1 DEF LInv, ChildIsLocal
  <2>2. ASSUME NEW c \in Claims, ChildStep(c) PROVE child[c] # "none"
    BY <2>2 DEF ChildStep, ChildLocks, ChildChecks, ChildCommits, ChildEnds,
       ChildReleases, ServerReleases,
         ChildAlive
  <2> QED
    BY <2>1, <2>2 DEF SpawnChild
<1>5. ChildIsLocal'
  BY <1>3, <1>4 DEF LInv, ChildIsLocal
<1>6. LockHeld'
  <2> SUFFICES ASSUME NEW c \in Claims, child'[c] \in {"locked", "working", "finished"}
               PROVE  c \in authority'
    BY DEF LockHeld
  <2>1. CASE child[c] \in {"locked", "working", "finished"}
    <3>1. ~ChildReleases(c)
      BY <1>1 DEF ChildReleases, SetChild
    <3> QED
      BY <2>1, <3>1, LockKept DEF LInv, LockHeld, ChildIsLocal
  <2>2. CASE child[c] \notin {"locked", "working", "finished"}
    <3>1. SpawnChild(c) \/ ChildStep(c)
      BY <1>3, <2>2
    <3>2. ChildLocks(c)
      BY <1>1, <2>2, <3>1 DEF SpawnChild, ChildStep, ChildLocks, ChildChecks, ChildCommits,
         ChildEnds, ChildReleases, ServerReleases, ChildAlive, SetChild
    <3> QED
      BY <3>2 DEF ChildLocks, TakeAuthority
  <2> QED
    BY <2>1, <2>2
<1>7. ParentOutlivesChild'
  <2> SUFFICES ASSUME NEW c \in Claims, c[1] \in LocalJobs, pc'[c] \in LatePcs
               PROVE  child'[c] \in {"none", "exited"}
    BY DEF ParentOutlivesChild, ChildGone
  <2>1. CASE pc[c] \in LatePcs
    <3>1. child[c] \in {"none", "exited"}
      BY <2>1 DEF LInv, ParentOutlivesChild, ChildGone
    <3>2. ~SpawnChild(c)
      BY <2>1 DEF SpawnChild, LatePcs
    <3>3. ChildStep(c) => child'[c] = child[c]
      BY <1>1, <3>1 DEF ChildStep, ChildLocks, ChildChecks, ChildCommits, ChildEnds,
         ChildReleases, ServerReleases, ChildAlive, SetChild
    <3> QED
      BY <1>3, <3>1, <3>2, <3>3
  <2>2. CASE pc[c] \notin LatePcs
    BY <1>1, <2>2, LateMoves DEF ChildGone
  <2> QED
    BY <2>1, <2>2
<1>8. NoChildBeforeClaim'
  <2> SUFFICES ASSUME NEW c \in Claims, child'[c] # "none"
               PROVE  c[2] <= attempts'[c[1]]
    BY DEF NoChildBeforeClaim
  <2>1. /\ c[1] \in Jobs /\ c[2] \in Nat /\ attempts[c[1]] \in Nat
        /\ attempts'[c[1]] >= attempts[c[1]]
    <3>1. c[1] \in Jobs /\ c[2] \in Nat
      BY ClaimParts
    <3>2. attempts[c[1]] \in Nat
      BY <1>1, <3>1, MaxAttemptsPositive DEF TypeOK
    <3>3. RowMove(c[1])
      BY <1>1, <3>1, RowMoves
    <3>4. attempts'[c[1]] = attempts[c[1]] \/ attempts'[c[1]] = attempts[c[1]] + 1
      BY <3>3 DEF RowMove
    <3> QED
      BY <3>1, <3>2, <3>4
  <2>2. CASE child[c] # "none"
    BY <2>1, <2>2, <1>2, MaxAttemptsPositive DEF LInv, NoChildBeforeClaim, Inv, TypeOK
  <2>3. CASE child[c] = "none"
    <3>1. SpawnChild(c)
      BY <1>3, <2>3 DEF ChildStep, ChildLocks, ChildChecks, ChildCommits, ChildEnds,
         ChildReleases, ServerReleases, ChildAlive
    <3>2. token[c[1]] = c[2] /\ status[c[1]] = "processing" /\ attempts' = attempts
      BY <3>1 DEF SpawnChild, ActiveFence, Fence, vars, rowVars
    <3> QED
      BY <1>1, <2>1, <3>2 DEF ClaimState
  <2> QED
    BY <2>2, <2>3
<1>9. LiveChildOwnsRow'
  <2> SUFFICES ASSUME NEW c \in Claims, child'[c] \in {"working", "finished"}
               PROVE  status'[c[1]] = "processing" /\ token'[c[1]] = c[2]
    BY DEF LiveChildOwnsRow
  <2>1. c[1] \in Jobs /\ c = <<c[1], c[2]>>
    BY ClaimParts
  <2>2. CASE child[c] \in {"working", "finished"}
    <3>1. status[c[1]] = "processing" /\ token[c[1]] = c[2]
      BY <2>2 DEF LInv, LiveChildOwnsRow
    <3>2. c[1] \in LocalJobs /\ c \in authority
      BY <2>2 DEF LInv, ChildIsLocal, LockHeld
    <3>3. ~RecoveryLock(c[1])
      BY <2>1, <3>1, <3>2 DEF RecoveryLock, LocalJobs
    <3>4. pc[c] \notin LatePcs
      BY <2>2, <3>2 DEF LInv, ParentOutlivesChild, ChildGone
    <3> QED
      BY <1>1, <2>1, <3>1, <3>3, <3>4, ClaimEnds DEF LatePcs
  <2>3. CASE child[c] \notin {"working", "finished"}
    <3>1. ChildChecks(c)
      BY <1>1, <1>3, <2>3 DEF SpawnChild, ChildStep, ChildLocks, ChildChecks, ChildCommits,
         ChildEnds, ChildReleases, ServerReleases, SetChild
    <3>2. ActiveFence(c) /\ UNCHANGED vars
      BY <1>1, <2>3, <3>1 DEF ChildChecks, SetChild
    <3> QED
      BY <3>2 DEF ActiveFence, Fence, vars, rowVars
  <2> QED
    BY <2>2, <2>3
<1>10. CancelReachesAll'
  <2> SUFFICES ASSUME NEW i \in Jobs, NEW j \in LocalJobs, ScanOf[i] = ScanOf[j],
                      status'[i] = "processing", err'[i] = "cancel_requested"
               PROVE  /\ status'[j] # "pending"
                      /\ status'[j] = "processing" => err'[j] = "cancel_requested"
    BY DEF CancelReachesAll
  <2>1. j \in Jobs /\ ScanOf[j] \in Scans /\ i \in JobsOf(ScanOf[j])
    BY KindsAssumption, LocalAssumption DEF LocalJobs, JobsOf
  <2>2. CASE status[i] = "processing" /\ err[i] = "cancel_requested"
    <3>1. /\ status[j] # "pending"
          /\ status[j] = "processing" => err[j] = "cancel_requested"
      BY <2>2 DEF LInv, CancelReachesAll
    <3>2. ~Enqueue(j)
      BY <2>1, <2>2 DEF Enqueue, LocalJobs
    <3>3. CASE status[j] = "processing"
      BY <1>1, <2>1, <3>1, <3>3, CancelOwnsRow DEF CancelledMove
    <3>4. CASE status[j] # "processing"
      <4>1. status'[j] \notin Active
        BY <1>1, <2>1, <3>1, <3>2, <3>4, ActiveMoves DEF Active
      <4> QED
        BY <4>1 DEF Active
    <3> QED
      BY <3>3, <3>4
  <2>3. CASE ~(status[i] = "processing" /\ err[i] = "cancel_requested")
    <3>1. CancelScan(ScanOf[j])
      BY <1>1, <2>3, CancelMoves
    <3> QED
      BY <1>1, <2>1, <3>1 DEF TypeOK, CancelScan, JobsOf
  <2> QED
    BY <2>2, <2>3
<1>12. FenceMove
  BY <1>1, FenceMoves
<1>13. FencedScanIdle'
  <2> SUFFICES ASSUME NEW j \in LocalJobs, ScanOf[j] \in fenced'
               PROVE  status'[j] \notin Active
    BY DEF FencedScanIdle
  <2>1. j \in Jobs /\ ScanOf[j] \in Scans /\ j \in JobsOf(ScanOf[j])
    BY KindsAssumption, LocalAssumption DEF LocalJobs, JobsOf
  <2>2. CASE ScanOf[j] \in fenced
    <3>1. status[j] \notin Active /\ ~Enqueue(j)
      BY <2>1, <2>2 DEF LInv, FencedScanIdle, Enqueue, LocalJobs
    <3> QED
      BY <1>1, <2>1, <3>1, ActiveMoves
  <2>3. ASSUME NEW k \in Jobs, MarkAcknowledged(k), status[k] = "processing",
               err[k] = "cancel_requested", ScanOf[j] \notin fenced
        PROVE  status'[j] \notin Active
    <3>1. AckDeletes(k) /\ ScanOf[k] = ScanOf[j] /\ Release(k, "failed", "cancelled")
      BY <2>3 DEF MarkAcknowledged
    <3>2. status[j] # "pending"
      BY <2>3, <3>1 DEF LInv, CancelReachesAll
    <3>3. j = k \/ status[j] # "processing"
      BY <2>1, <3>1 DEF AckDeletes, OtherProcessing
    <3> QED
      BY <1>1, <2>1, <3>1, <3>2, <3>3, ReleaseRow DEF Active
  <2>4. ASSUME NEW s \in Scans, CancelScan(s), ScanOf[j] \notin fenced
        PROVE  status'[j] \notin Active
    <3>1. s = ScanOf[j] /\ \A k \in JobsOf(s) : status[k] # "processing"
      BY <2>4 DEF CancelScan
    <3> QED
      BY <1>1, <2>1, <2>4, <3>1 DEF TypeOK, CancelScan, Active
  <2> QED
    BY <1>12, <2>2, <2>3, <2>4 DEF FenceMove
<1>14. DeletedIsFenced'
  <2>1. CASE fenced' = fenced
            /\ \A s \in Scans : scan'[s] = "deleted" => scan[s] = "deleted" \/ s \in fenced
    BY <2>1 DEF LInv, DeletedIsFenced
  <2>2. CASE scan' = scan /\ fenced \subseteq fenced'
    BY <2>2 DEF LInv, DeletedIsFenced
  <2>3. ASSUME NEW k \in Jobs, MarkAcknowledged(k)
        PROVE  scan' = scan /\ fenced \subseteq fenced'
    BY <2>3 DEF MarkAcknowledged
  <2>4. ASSUME NEW s \in Scans, CancelScan(s) PROVE scan' = scan /\ fenced \subseteq fenced'
    BY <2>4 DEF CancelScan
  <2> QED
    BY <1>12, <2>1, <2>2, <2>3, <2>4 DEF FenceMove
<1>11. SuccessHasScan'
  <2> SUFFICES ASSUME NEW c \in Claims, c[1] \in LocalJobs, result'[c] = "success"
               PROVE  scan'[ScanOf[c[1]]] \in {"completed", "deleted"}
    BY DEF SuccessHasScan
  <2>1. ScanOf[c[1]] \in Scans
    BY LocalAssumption
  <2>2. CASE result[c] = "success"
    BY <1>1, <2>1, <2>2, ScanVerdictKept DEF LInv, SuccessHasScan
  <2>3. CASE result[c] # "success"
    <3>1. "success" \in ScanVerdicts(c) /\ scan' = scan
      BY <1>1, <2>3, SuccessMoves
    <3> QED
      BY <3>1 DEF ScanVerdicts
  <2> QED
    BY <2>2, <2>3
<1> QED
  BY <1>2, <1>5, <1>6, <1>7, <1>8, <1>9, <1>10, <1>11, <1>13, <1>14 DEF LInv

LEMMA LInvHolds == LSpec => []LInv
BY LInvInit, LInvStep, PTL DEF LSpec

-------------------------------------------------------------------------------
(* The theorems *)

\* The variables of the queue and the states of the children keep their types.
THEOREM LocalTypeCorrect == LSpec => []LTypeOK
<1>1. LInv => LTypeOK
  BY DEF LInv, Inv, LTypeOK
<1> QED
  BY <1>1, LInvHolds, PTL

\* A child past its check is the child of the claim its row still carries, so no
\* row is finished, recovered or claimed again under it.
THEOREM LiveChildOwnsRowHolds == LSpec => []LiveChildOwnsRow
<1>1. LInv => LiveChildOwnsRow
  BY DEF LInv
<1> QED
  BY <1>1, LInvHolds, PTL

\* Two attempts of one job never scan at the same time.
THEOREM ChildExclusionHolds == LSpec => []ChildExclusion
<1>1. LInv => ChildExclusion
  <2> SUFFICES ASSUME LInv, NEW c \in Claims, NEW d \in Claims, c[1] = d[1],
                      child[c] = "working", child[d] = "working"
               PROVE  c = d
    BY DEF ChildExclusion
  <2>1. c[2] = d[2]
    BY DEF LInv, LiveChildOwnsRow
  <2> QED
    BY <2>1, ClaimParts
<1> QED
  BY <1>1, LInvHolds, PTL

\* One child of a job at most scans, that of the claim the row carries.
THEOREM OneLiveChildHolds == LSpec => []OneLiveChild
BY LiveChildOwnsRowHolds, ChildExclusionHolds, PTL DEF OneLiveChild

\* From the fence of its deletion on a scan has no local scan job queued or running.
THEOREM FencedScanIdleHolds == LSpec => []FencedScanIdle
<1>1. LInv => FencedScanIdle
  BY DEF LInv
<1> QED
  BY <1>1, LInvHolds, PTL

\* A scan row is never deleted under a child that is scanning it.
THEOREM NoDeletionUnderChildHolds == LSpec => []NoDeletionUnderChild
<1>1. LInv => NoDeletionUnderChild
  <2> SUFFICES ASSUME LInv, NEW c \in Claims, child[c] = "working"
               PROVE  scan[ScanOf[c[1]]] # "deleted"
    BY DEF NoDeletionUnderChild
  <2>1. c[1] \in LocalJobs /\ ScanOf[c[1]] \in Scans /\ status[c[1]] = "processing"
    BY LocalAssumption DEF LInv, ChildIsLocal, LiveChildOwnsRow
  <2>2. ScanOf[c[1]] \notin fenced
    BY <2>1 DEF LInv, FencedScanIdle, Active
  <2> QED
    BY <2>1, <2>2 DEF LInv, DeletedIsFenced
<1> QED
  BY <1>1, LInvHolds, PTL

\* A job never reports success without a scan that completed.
THEOREM CompletedJobHasScanHolds == LSpec => []CompletedJobHasScan
<1>1. LInv => CompletedJobHasScan
  <2> SUFFICES ASSUME LInv, NEW j \in LocalJobs, status[j] = "completed"
               PROVE  scan[ScanOf[j]] \in {"completed", "deleted"}
    BY DEF CompletedJobHasScan
  <2>1. j \in Jobs
    BY KindsAssumption DEF LocalJobs
  <2>2. attempts[j] \in 1..MaxAttempts /\ result[<<j, attempts[j]>>] = "success"
    BY <2>1 DEF LInv, Inv, VerdictSettled
  <2> QED
    BY <2>1, <2>2, ClaimParts DEF LInv, SuccessHasScan
<1> QED
  BY <1>1, LInvHolds, PTL

\* A cancellation is acknowledged only after the child has stopped or its dead
\* connection has released the lock.
THEOREM AckAfterChildDeathHolds == LSpec => AckAfterChildDeath
<1>1. LInv /\ [LNext]_lvars =>
        [\A c \in Claims :
            (err[c[1]] = "cancel_requested" /\ err'[c[1]] = "cancelled"
                /\ token[c[1]] = c[2]) => child[c] \notin {"locked", "working", "finished"}]_lvars
  <2> SUFFICES ASSUME LInv, [LNext]_lvars, NEW c \in Claims,
                      err[c[1]] = "cancel_requested", err'[c[1]] = "cancelled",
                      token[c[1]] = c[2]
               PROVE  child[c] \notin {"locked", "working", "finished"}
    OBVIOUS
  <2>1. /\ [Next]_vars /\ TypeOK /\ ClaimState /\ child[c] \in ChildStates
        /\ c[1] \in Jobs /\ c[2] \in 1..MaxAttempts /\ c = <<c[1], c[2]>>
    BY StepRefines, ClaimParts DEF LInv, Inv
  <2>2. status[c[1]] = "processing"
    BY <2>1 DEF ClaimState
  <2>3. status'[c[1]] = "failed"
    BY <2>1, <2>2, CancelOwnsRow DEF CancelledMove
  <2>4. pc[c] \in {"updating", "refused"} \/ RecoveryLock(c[1])
    BY <2>1, <2>2, <2>3, ClaimEnds
  <2>5. child[c] \in {"locked", "working", "finished"} =>
            c[1] \in LocalJobs /\ c \in authority
    BY DEF LInv, ChildIsLocal, LockHeld
  <2>6. child[c] \in {"locked", "working", "finished"} => ~RecoveryLock(c[1])
    BY <2>1, <2>5 DEF RecoveryLock, LocalJobs
  <2>7. child[c] \in {"locked", "working", "finished"} => pc[c] \notin LatePcs
    BY <2>5 DEF LInv, ParentOutlivesChild, ChildGone
  <2> QED
    BY <2>1, <2>4, <2>6, <2>7 DEF ChildStates, LatePcs
<1> QED
  BY <1>1, LInvHolds, PTL DEF LSpec, AckAfterChildDeath
===============================================================================

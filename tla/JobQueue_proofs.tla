---------------------------- MODULE JobQueue_proofs ----------------------------
(***************************************************************************)
(* Proofs about JobQueue for every set of jobs, workers and scans, every   *)
(* dependency relation and every bound.                                    *)
(*                                                                         *)
(* The inductive invariant Inv joins the row's shape (TypeOK, ClaimState)  *)
(* to what the tasks remember (VerdictSettled): a task is only ever        *)
(* refused because the row no longer carries its attempt number, so the    *)
(* attempt number has to be pinned down before anything else can be.       *)
(***************************************************************************)
EXTENDS JobQueue, TLAPS

\* A row that was not inserted yet was not attempted either.
AbsentUntouched == \A j \in Jobs : status[j] = "absent" => attempts[j] = 0

\* The attempt that completed a job is over, so nothing changes its result.
VerdictSettled ==
    \A j \in Jobs :
        status[j] = "completed" =>
            /\ attempts[j] \in 1..MaxAttempts
            /\ result[<<j, attempts[j]>>] = "success"
            /\ pc[<<j, attempts[j]>>] = "done"

Inv ==
    /\ TypeOK
    /\ ClaimState
    /\ AbsentUntouched
    /\ PendingHasAttempts
    /\ VerdictSettled
    /\ DependencyOrder

\* A step of a task or of a worker process that leaves every row alone, and
\* every task that is over.
Bookkeeping ==
    /\ UNCHANGED <<rowVars, runner>>
    /\ \A c \in Claims : pc[c] = "done" => pc'[c] = "done" /\ result'[c] = result[c]

-------------------------------------------------------------------------------
(* Lemmas about the operators *)

LEMMA MaxAttemptsPositive == MaxAttempts \in Nat /\ MaxAttempts >= 1 /\ MaxRetries <= MaxAttempts
BY BoundsAssumption DEF MaxAttempts

\* A claim is a row and an attempt number in range.
LEMMA ClaimParts ==
    /\ \A c \in Claims : c[1] \in Jobs /\ c[2] \in 1..MaxAttempts /\ c = <<c[1], c[2]>>
    /\ \A j \in Jobs : \A n \in 1..MaxAttempts : <<j, n>> \in Claims
BY DEF Claims

\* The claim that claim_batch makes is one the bound allows.
LEMMA ClaimIsNext ==
    ASSUME TypeOK, NEW w \in Workers, NEW j \in Jobs, Claim(w, j)
    PROVE  attempts[j] + 1 \in 1..MaxAttempts /\ <<j, attempts[j] + 1>> \in Claims
<1>1. attempts[j] \in 0..MaxAttempts
  BY DEF TypeOK
<1>2. attempts[j] < MaxAttempts
  BY DEF Claim
<1>3. attempts[j] + 1 \in 1..MaxAttempts
  BY <1>1, <1>2, MaxAttemptsPositive
<1> QED
  BY <1>3, ClaimParts

LEMMA ReleaseType ==
    ASSUME TypeOK, NEW j \in Jobs, NEW s \in Statuses,
           NEW e \in {"none", "cancel_requested", "cancelled", "error"},
           Release(j, s, e)
    PROVE  /\ status' \in [Jobs -> Statuses]
           /\ token' \in [Jobs -> 0..MaxAttempts]
           /\ owner' \in [Jobs -> Workers \cup {NoWorker}]
           /\ attempts' \in [Jobs -> 0..MaxAttempts]
           /\ err' \in [Jobs -> {"none", "cancel_requested", "cancelled", "error"}]
           /\ lapsed' \in [Jobs -> BOOLEAN]
BY MaxAttemptsPositive DEF TypeOK, Release

LEMMA CloseScanType ==
    ASSUME TypeOK, NEW j \in Jobs
    PROVE  CloseScan(j) \in [Scans -> {"open", "completed", "failed", "deleted"}]
BY DEF TypeOK, CloseScan

LEMMA MarkAcknowledgedType ==
    ASSUME TypeOK, NEW j \in Jobs, MarkAcknowledged(j)
    PROVE  /\ Release(j, "failed", "cancelled")
           /\ scan' = scan /\ effect' = effect
           /\ fenced' \subseteq Scans
BY DEF TypeOK, MarkAcknowledged, AckDeletes

\* _finish_values never stores the handler's own verdict.
LEMMA FinishType ==
    ASSUME TypeOK, NEW c \in Claims
    PROVE  /\ FinishStatus(c) \in {"pending", "completed", "failed"}
           /\ FinishEffect(c) \in Effects
<1>1. FinishStatus(c) \in {"pending", "completed", "failed"}
  BY DEF FinishStatus
<1>2. effect[c[1]] \in Effects
  BY ClaimParts DEF TypeOK
<1>3. FinishEffect(c) \in Effects
  BY <1>2 DEF FinishEffect, Effects
<1> QED
  BY <1>1, <1>3

-------------------------------------------------------------------------------
(* Type correctness *)

LEMMA TypeInit == Init => TypeOK
BY MaxAttemptsPositive, BoundsAssumption
   DEF Init, TypeOK, Statuses, Effects, Results, TaskPcs

LEMMA TypeStep == TypeOK /\ [Next]_vars => TypeOK'
<1> SUFFICES ASSUME TypeOK, [Next]_vars PROVE TypeOK'
  OBVIOUS
<1> USE MaxAttemptsPositive, ClaimParts
<1> USE DEF rowVars, scanVars, taskVars, workerVars
<1>1. ASSUME NEW j \in Jobs, Enqueue(j) PROVE TypeOK'
  BY <1>1 DEF TypeOK, Enqueue, Statuses
<1>2. ASSUME NEW j \in Jobs, LeaseLapses(j) PROVE TypeOK'
  BY <1>2 DEF TypeOK, LeaseLapses
<1>3. ASSUME NEW w \in Workers, NEW j \in Jobs, Claim(w, j) PROVE TypeOK'
  <2> DEFINE c == <<j, attempts[j] + 1>>
  <2>1. attempts[j] + 1 \in 1..MaxAttempts /\ c \in Claims
    BY <1>3, ClaimIsNext
  <2> QED
    BY <1>3, <2>1 DEF TypeOK, Claim, Statuses, TaskPcs
<1>4. ASSUME NEW w \in Workers, NEW j \in Jobs, FailBlocked(w, j) PROVE TypeOK'
  BY <1>4 DEF TypeOK, FailBlocked, Statuses
<1>5. ASSUME NEW w \in Workers, NEW j \in Jobs, Reap(w, j) PROVE TypeOK'
  <2> USE <1>5, ReleaseType DEF Reap, Statuses
  <2>1. CASE MarkAcknowledged(j)
    BY <2>1, MarkAcknowledgedType DEF TypeOK
  <2>2. CASE /\ Release(j, "failed", "error")
             /\ effect' = [effect EXCEPT ![j] =
                            IF @ = "confirmed" THEN "confirmed" ELSE "indeterminate"]
             /\ UNCHANGED scanVars
    BY <2>2 DEF TypeOK, Effects
  <2>3. CASE /\ Release(j, "failed", "error") /\ scan' = CloseScan(j)
             /\ UNCHANGED <<effect, fenced>>
    BY <2>3, CloseScanType DEF TypeOK
  <2>4. CASE Release(j, "pending", "error") /\ UNCHANGED <<effect, scanVars>>
    BY <2>4 DEF TypeOK
  <2> QED
    BY <2>1, <2>2, <2>3, <2>4
<1>6. ASSUME NEW c \in Claims, TaskStep(c) PROVE TypeOK'
  <2>1. CASE StartClaim(c)
    BY <2>1 DEF TypeOK, StartClaim, GoTo, TaskPcs
  <2>2. CASE AssertOwned(c)
    BY <2>2 DEF TypeOK, AssertOwned, GoTo, TaskPcs
  <2>3. CASE ReadEffect(c)
    BY <2>3 DEF TypeOK, ReadEffect, GoTo, TaskPcs, Effects
  <2>4. CASE FencedFinish(c)
    <3>1. CASE ActiveFence(c)
      <4>1. Release(c[1], FinishStatus(c),
                    IF FinishStatus(c) = "completed" THEN "none" ELSE "error")
        BY <2>4, <3>1 DEF FencedFinish
      <4>2. FinishStatus(c) \in Statuses /\ FinishEffect(c) \in Effects
        BY FinishType DEF Statuses
      <4>3. scan' \in [Scans -> {"open", "completed", "failed", "deleted"}] /\ fenced' = fenced
        BY <2>4, <3>1, CloseScanType DEF FencedFinish, TypeOK
      <4>4. UNCHANGED <<authority, workerVars, runner, result, seen, calling, granted>>
        BY <2>4 DEF FencedFinish
      <4>5. effect' \in [Jobs -> Effects] /\ pc' \in [Claims -> TaskPcs]
        BY <2>4, <3>1, <4>2 DEF TypeOK, FencedFinish, GoTo, TaskPcs
      <4>6. /\ status' \in [Jobs -> Statuses]
            /\ token' \in [Jobs -> 0..MaxAttempts]
            /\ owner' \in [Jobs -> Workers \cup {NoWorker}]
            /\ attempts' \in [Jobs -> 0..MaxAttempts]
            /\ err' \in [Jobs -> {"none", "cancel_requested", "cancelled", "error"}]
            /\ lapsed' \in [Jobs -> BOOLEAN]
        <5>1. CASE FinishStatus(c) = "completed"
          BY <4>1, <4>2, <5>1, ReleaseType
        <5>2. CASE FinishStatus(c) # "completed"
          BY <4>1, <4>2, <5>2, ReleaseType
        <5> QED
          BY <5>1, <5>2
      <4> QED
        BY <4>3, <4>4, <4>5, <4>6 DEF TypeOK
    <3>2. CASE ~ActiveFence(c)
      BY <2>4, <3>2 DEF TypeOK, FencedFinish, GoTo, TaskPcs
    <3> QED
      BY <3>1, <3>2
  <2>5. CASE Acknowledge(c)
    <3>1. CASE MarkAcknowledged(c[1])
      BY <2>5, <3>1, MarkAcknowledgedType, ReleaseType
         DEF TypeOK, Acknowledge, GoTo, TaskPcs, Statuses
    <3>2. CASE UNCHANGED <<rowVars, scanVars>>
      BY <2>5, <3>2 DEF TypeOK, Acknowledge, GoTo, TaskPcs
    <3> QED
      BY <2>5, <3>1, <3>2 DEF Acknowledge
  <2> QED
    BY <1>6, <2>1, <2>2, <2>3, <2>4, <2>5 DEF TaskStep
<1>7. ASSUME NEW c \in Claims,
             HeartbeatRenews(c) \/ OwnershipLost(c) \/ ExecutionTimeout(c)
      PROVE TypeOK'
  BY <1>7 DEF TypeOK, HeartbeatRenews, OwnershipLost, ExecutionTimeout, GoTo, TaskPcs
<1>8. ASSUME NEW s \in Scans, CancelScan(s) \/ DeletionCommits(s) \/ FailStaleScan(s)
      PROVE TypeOK'
  <2>1. CASE CancelScan(s)
    BY <2>1 DEF TypeOK, CancelScan, Statuses
  <2>2. CASE FailStaleScan(s)
    BY <2>2 DEF TypeOK, FailStaleScan
  <2>3. CASE DeletionCommits(s)
    BY <2>3 DEF TypeOK, DeletionCommits
  <2> QED
    BY <1>8, <2>1, <2>2, <2>3
<1>9. ASSUME NEW w \in Workers,
             RequestDrain(w) \/ StopDrained(w) \/ Crash(w) \/ Restart(w)
      PROVE TypeOK'
  <2>1. CASE RequestDrain(w)
    BY <2>1, BoundsAssumption DEF TypeOK, RequestDrain
  <2>2. CASE StopDrained(w)
    BY <2>2 DEF TypeOK, StopDrained
  <2>3. CASE Crash(w)
    BY <2>3, BoundsAssumption DEF TypeOK, Crash, TaskPcs
  <2>4. CASE Restart(w)
    BY <2>4 DEF TypeOK, Restart
  <2> QED
    BY <1>9, <2>1, <2>2, <2>3, <2>4
<1>10. ASSUME NEW c \in Claims, HandlerStep(c) PROVE TypeOK'
  <2>1. CASE HandlerTornDown(c)
    BY <2>1 DEF TypeOK, HandlerTornDown, GoTo, TaskPcs, Results
  <2>2. CASE HandlerRaises(c) \/ HandlerAbandons(c)
    <3>1. CASE HandlerRaises(c)
      BY <3>1 DEF TypeOK, HandlerRaises, GoTo, TaskPcs, Results
    <3>2. CASE HandlerAbandons(c)
      BY <3>2 DEF TypeOK, HandlerAbandons, GoTo, TaskPcs, Results
    <3> QED
      BY <2>2, <3>1, <3>2
  <2>3. ASSUME NEW r \in Results \ {"none"}, HandlerReturns(c, r) PROVE TypeOK'
    BY <2>3 DEF TypeOK, HandlerReturns, GoTo, TaskPcs
  <2>4. CASE BeginEffectCall(c)
    BY <2>4 DEF TypeOK, BeginEffectCall
  <2>5. ASSUME NEW a \in BOOLEAN, BeginEffectCommit(c, a) PROVE TypeOK'
    <3>1. CASE effect' = [effect EXCEPT ![c[1]] = "requesting"] /\ UNCHANGED pc
      BY <2>5, <3>1 DEF TypeOK, BeginEffectCommit, Effects
    <3>2. CASE /\ pc' = IF pc[c] = "running" THEN [pc EXCEPT ![c] = "refused"] ELSE pc
               /\ UNCHANGED <<effect, granted>>
      BY <2>5, <3>2 DEF TypeOK, BeginEffectCommit, TaskPcs
    <3> QED
      BY <2>5, <3>1, <3>2 DEF BeginEffectCommit
  <2>6. CASE TakeAuthority(c) \/ DropAuthority(c)
    BY <2>6 DEF TypeOK, TakeAuthority, DropAuthority
  <2>7. ASSUME NEW o \in {"completed", "failed"}, ChildCommitsScan(c, o) PROVE TypeOK'
    BY <2>7 DEF TypeOK, ChildCommitsScan
  <2>8. ASSUME NEW r \in {"success", "fatal"}, HandlerFinishes(c, r) PROVE TypeOK'
    BY <2>8 DEF TypeOK, HandlerFinishes, GoTo, TaskPcs, Results
  <2> QED
    BY <1>10, <2>1, <2>2, <2>3, <2>4, <2>5, <2>6, <2>7, <2>8 DEF HandlerStep
<1>11. CASE UNCHANGED vars
  BY <1>11 DEF TypeOK, vars
<1> QED
  BY <1>1, <1>2, <1>3, <1>4, <1>5, <1>6, <1>7, <1>8, <1>9, <1>10, <1>11
     DEF Next, QueueStep

\* The variables always have their types: in particular no attempt number leaves
\* its range and no handler verdict ends up as a row's status.
THEOREM TypeCorrect == Spec => []TypeOK
BY TypeInit, TypeStep, PTL DEF Spec

-------------------------------------------------------------------------------
(* The kinds of steps *)

\* Every step is bookkeeping, or one of the few that write a row.
LEMMA StepKinds ==
    ASSUME TypeOK, [Next]_vars
    PROVE  \/ Bookkeeping
           \/ \E j \in Jobs : Enqueue(j) \/ LeaseLapses(j)
           \/ \E w \in Workers, j \in Jobs : Claim(w, j) \/ FailBlocked(w, j) \/ Reap(w, j)
           \/ \E c \in Claims : FencedFinish(c) \/ Acknowledge(c) \/ HeartbeatRenews(c)
           \/ \E c \in Claims, a \in BOOLEAN : BeginEffectCommit(c, a)
           \/ \E s \in Scans : CancelScan(s)
<1> USE DEF Bookkeeping
<1>1. ASSUME NEW c \in Claims,
             StartClaim(c) \/ AssertOwned(c) \/ ReadEffect(c) \/ OwnershipLost(c)
                \/ ExecutionTimeout(c)
      PROVE Bookkeeping
  BY <1>1 DEF TypeOK, StartClaim, AssertOwned, ReadEffect, OwnershipLost, ExecutionTimeout, GoTo
<1>2. ASSUME NEW s \in Scans, DeletionCommits(s) \/ FailStaleScan(s) PROVE Bookkeeping
  BY <1>2 DEF DeletionCommits, FailStaleScan, taskVars
<1>3. ASSUME NEW w \in Workers,
             RequestDrain(w) \/ StopDrained(w) \/ Crash(w) \/ Restart(w)
      PROVE Bookkeeping
  BY <1>3 DEF RequestDrain, StopDrained, Crash, Restart, taskVars, Inflight
<1>4. ASSUME NEW c \in Claims, HandlerStep(c),
             ~ \E a \in BOOLEAN : BeginEffectCommit(c, a)
      PROVE Bookkeeping
  <2>1. CASE HandlerTornDown(c) \/ HandlerRaises(c) \/ HandlerAbandons(c)
    BY <2>1 DEF TypeOK, HandlerTornDown, HandlerRaises, HandlerAbandons, GoTo
  <2>2. ASSUME NEW r \in Results \ {"none"}, HandlerReturns(c, r) PROVE Bookkeeping
    BY <2>2 DEF TypeOK, HandlerReturns, GoTo
  <2>3. CASE BeginEffectCall(c)
    BY <2>3 DEF BeginEffectCall
  <2>4. CASE TakeAuthority(c) \/ DropAuthority(c)
    BY <2>4 DEF TakeAuthority, DropAuthority, taskVars
  <2>5. ASSUME NEW o \in {"completed", "failed"}, ChildCommitsScan(c, o) PROVE Bookkeeping
    BY <2>5 DEF ChildCommitsScan, taskVars
  <2>6. ASSUME NEW r \in {"success", "fatal"}, HandlerFinishes(c, r) PROVE Bookkeeping
    BY <2>6 DEF TypeOK, HandlerFinishes, GoTo
  <2> QED
    BY <1>4, <2>1, <2>2, <2>3, <2>4, <2>5, <2>6 DEF HandlerStep
<1>5. CASE UNCHANGED vars
  BY <1>5 DEF vars, taskVars
<1> QED
  BY <1>1, <1>2, <1>3, <1>4, <1>5 DEF Next, QueueStep, TaskStep

-------------------------------------------------------------------------------
(* Claims *)

LEMMA ReleaseClaimState ==
    ASSUME TypeOK, ClaimState, NEW j \in Jobs, NEW s \in Statuses \ {"processing"},
           NEW e, Release(j, s, e), runner' = runner
    PROVE  ClaimState'
BY DEF TypeOK, ClaimState, Release

LEMMA ClaimStateStep == TypeOK /\ ClaimState /\ [Next]_vars => ClaimState'
<1> SUFFICES ASSUME TypeOK, ClaimState, [Next]_vars PROVE ClaimState'
  OBVIOUS
<1> USE MaxAttemptsPositive, ClaimParts
<1>1. CASE Bookkeeping
  BY <1>1 DEF ClaimState, Bookkeeping, rowVars
<1>2. ASSUME NEW j \in Jobs, Enqueue(j) \/ LeaseLapses(j) PROVE ClaimState'
  <2> USE DEF taskVars
  <2>1. UNCHANGED <<token, owner, attempts, runner>>
    BY <1>2 DEF Enqueue, LeaseLapses
  <2>2. ASSUME NEW k \in Jobs, status[k] = "processing"
        PROVE  status'[k] = "processing"
    BY <1>2, <2>2 DEF TypeOK, Enqueue, LeaseLapses
  <2>3. ASSUME NEW k \in Jobs, status[k] # "processing"
        PROVE  status'[k] # "processing" /\ lapsed'[k] = lapsed[k]
    BY <1>2, <2>3 DEF TypeOK, Enqueue, LeaseLapses
  <2> QED
    BY <2>1, <2>2, <2>3 DEF ClaimState
<1>3. ASSUME NEW w \in Workers, NEW j \in Jobs, Claim(w, j) PROVE ClaimState'
  <2> DEFINE c == <<j, attempts[j] + 1>>
  <2>1. attempts[j] + 1 \in 1..MaxAttempts /\ c \in Claims
    BY <1>3, ClaimIsNext
  <2>2. /\ status'[j] = "processing" /\ token'[j] = attempts'[j] /\ token'[j] # 0
        /\ owner'[j] = runner'[<<j, token'[j]>>]
    <3>1. /\ status'[j] = "processing" /\ token'[j] = c[2] /\ attempts'[j] = c[2]
          /\ owner'[j] = w
      BY <1>3 DEF TypeOK, Claim
    <3>2. runner'[c] = w /\ c = <<j, c[2]>> /\ c[2] # 0
      BY <1>3, <2>1 DEF TypeOK, Claim
    <3> QED
      BY <3>1, <3>2
  <2>3. ASSUME NEW k \in Jobs, k # j
        PROVE  /\ status'[k] = status[k] /\ token'[k] = token[k] /\ owner'[k] = owner[k]
               /\ attempts'[k] = attempts[k] /\ lapsed'[k] = lapsed[k]
               /\ runner'[<<k, token[k]>>] = runner[<<k, token[k]>>]
    <3>1. <<k, token[k]>> # c
      BY <2>3
    <3> QED
      BY <1>3, <2>3, <3>1, <2>1 DEF TypeOK, Claim
  <2> SUFFICES ASSUME NEW k \in Jobs
               PROVE  IF status'[k] = "processing"
                      THEN /\ token'[k] = attempts'[k] /\ token'[k] # 0
                           /\ owner'[k] = runner'[<<k, token'[k]>>]
                      ELSE token'[k] = 0 /\ owner'[k] = NoWorker /\ ~lapsed'[k]
    BY DEF ClaimState
  <2>4. CASE k = j
    <3>1. status'[k] = "processing"
      BY <2>2, <2>4
    <3> QED
      BY <2>2, <2>4, <3>1
  <2>5. CASE k # j
    <3>1. IF status[k] = "processing"
          THEN token[k] = attempts[k] /\ token[k] # 0 /\ owner[k] = runner[<<k, token[k]>>]
          ELSE token[k] = 0 /\ owner[k] = NoWorker /\ ~lapsed[k]
      BY DEF ClaimState
    <3>2. /\ status'[k] = status[k] /\ token'[k] = token[k] /\ owner'[k] = owner[k]
          /\ attempts'[k] = attempts[k] /\ lapsed'[k] = lapsed[k]
          /\ runner'[<<k, token[k]>>] = runner[<<k, token[k]>>]
      BY <2>3, <2>5
    <3>3. CASE status[k] = "processing"
      BY <3>1, <3>2, <3>3
    <3>4. CASE status[k] # "processing"
      BY <3>1, <3>2, <3>4
    <3> QED
      BY <3>3, <3>4
  <2> QED
    BY <2>4, <2>5
<1>4. ASSUME NEW w \in Workers, NEW j \in Jobs, FailBlocked(w, j) PROVE ClaimState'
  BY <1>4 DEF TypeOK, ClaimState, FailBlocked, taskVars
<1>5. ASSUME NEW w \in Workers, NEW j \in Jobs, Reap(w, j) PROVE ClaimState'
  <2>1. runner' = runner
    BY <1>5 DEF Reap, taskVars
  <2>2. Release(j, "failed", "cancelled") \/ Release(j, "failed", "error")
        \/ Release(j, "pending", "error")
    BY <1>5 DEF Reap, MarkAcknowledged
  <2> QED
    BY <2>1, <2>2, ReleaseClaimState DEF Statuses
<1>6. ASSUME NEW c \in Claims, FencedFinish(c) PROVE ClaimState'
  <2>1. CASE ActiveFence(c)
    <3>1. runner' = runner /\ \E e : Release(c[1], FinishStatus(c), e)
      BY <1>6, <2>1 DEF FencedFinish
    <3>2. FinishStatus(c) \in Statuses \ {"processing"}
      BY FinishType DEF Statuses
    <3> QED
      BY <3>1, <3>2, ReleaseClaimState
  <2>2. CASE ~ActiveFence(c)
    BY <1>6, <2>2 DEF ClaimState, FencedFinish, rowVars
  <2> QED
    BY <2>1, <2>2
<1>7. ASSUME NEW c \in Claims, Acknowledge(c) PROVE ClaimState'
  <2>1. CASE MarkAcknowledged(c[1])
    BY <1>7, <2>1, ReleaseClaimState DEF Acknowledge, MarkAcknowledged, Statuses
  <2>2. CASE UNCHANGED rowVars
    BY <1>7, <2>2 DEF ClaimState, Acknowledge, rowVars
  <2> QED
    BY <1>7, <2>1, <2>2 DEF Acknowledge
<1>8. ASSUME NEW c \in Claims, HeartbeatRenews(c) PROVE ClaimState'
  BY <1>8 DEF TypeOK, ClaimState, HeartbeatRenews, taskVars
<1>9. ASSUME NEW c \in Claims, NEW a \in BOOLEAN, BeginEffectCommit(c, a) PROVE ClaimState'
  BY <1>9 DEF ClaimState, BeginEffectCommit
<1>10. ASSUME NEW s \in Scans, CancelScan(s) PROVE ClaimState'
  BY <1>10 DEF TypeOK, ClaimState, CancelScan, taskVars
<1> QED
  BY <1>1, <1>2, <1>3, <1>4, <1>5, <1>6, <1>7, <1>8, <1>9, <1>10, StepKinds

\* A row carries a claim exactly while it is processing, and the claim is that of
\* its latest attempt: the fence of every older task is down for good.
THEOREM ClaimStateHolds == Spec => []ClaimState
<1>1. Init => TypeOK /\ ClaimState
  BY TypeInit DEF Init, ClaimState
<1>2. (TypeOK /\ ClaimState) /\ [Next]_vars => (TypeOK /\ ClaimState)'
  BY TypeStep, ClaimStateStep
<1> QED
  BY <1>1, <1>2, PTL DEF Spec

-------------------------------------------------------------------------------
(* The moves of a row *)

\* All a step may do to the status and the attempt count of row k.
RowMove(k) ==
    \/ status'[k] = status[k] /\ attempts'[k] = attempts[k]
    \/ status[k] = "absent" /\ status'[k] = "pending" /\ attempts'[k] = attempts[k]
    \/ /\ status[k] = "pending" /\ status'[k] = "processing"
       /\ attempts[k] < MaxAttempts /\ attempts'[k] = attempts[k] + 1
       /\ DependencyMet(k)
    \/ /\ status[k] \in Active /\ status'[k] = "failed"
       /\ attempts'[k] = attempts[k]
    \/ /\ status[k] = "processing" /\ status'[k] = "pending"
       /\ attempts'[k] = attempts[k] /\ attempts[k] < MaxRetries
    \/ /\ status[k] = "processing" /\ status'[k] = "completed"
       /\ attempts'[k] = attempts[k] /\ attempts[k] \in 1..MaxAttempts
       /\ result'[<<k, attempts[k]>>] = "success"
       /\ pc'[<<k, attempts[k]>>] = "done"

LEMMA ReleaseRow ==
    ASSUME TypeOK, NEW j \in Jobs, NEW s, NEW e, Release(j, s, e)
    PROVE  /\ status'[j] = s
           /\ attempts' = attempts
           /\ \A k \in Jobs \ {j} : status'[k] = status[k] /\ err'[k] = err[k]
           /\ err'[j] = e
BY DEF TypeOK, Release

LEMMA ReleaseMove ==
    ASSUME TypeOK, NEW j \in Jobs, NEW e, status[j] = "processing",
           \/ Release(j, "failed", e)
           \/ Release(j, "pending", e) /\ attempts[j] < MaxRetries
    PROVE  \A k \in Jobs : RowMove(k)
BY ReleaseRow DEF RowMove, Active

LEMMA RowMoves ==
    ASSUME TypeOK, ClaimState, [Next]_vars
    PROVE  \A k \in Jobs : RowMove(k)
<1> USE DEF taskVars, rowVars
<1>1. CASE Bookkeeping
  BY <1>1 DEF RowMove, Bookkeeping
<1>2. ASSUME NEW j \in Jobs, Enqueue(j) PROVE \A k \in Jobs : RowMove(k)
  BY <1>2 DEF TypeOK, RowMove, Enqueue
<1>3. ASSUME NEW j \in Jobs, LeaseLapses(j) PROVE \A k \in Jobs : RowMove(k)
  BY <1>3 DEF RowMove, LeaseLapses
<1>4. ASSUME NEW w \in Workers, NEW j \in Jobs, Claim(w, j)
      PROVE  \A k \in Jobs : RowMove(k)
  BY <1>4 DEF TypeOK, RowMove, Claim
<1>5. ASSUME NEW w \in Workers, NEW j \in Jobs, FailBlocked(w, j)
      PROVE  \A k \in Jobs : RowMove(k)
  BY <1>5 DEF TypeOK, RowMove, FailBlocked, Active
<1>6. ASSUME NEW w \in Workers, NEW j \in Jobs, Reap(w, j)
      PROVE  \A k \in Jobs : RowMove(k)
  <2>1. status[j] = "processing"
    BY <1>6 DEF Reap
  <2>2. \/ Release(j, "failed", "cancelled") \/ Release(j, "failed", "error")
        \/ Release(j, "pending", "error") /\ attempts[j] < MaxRetries
    BY <1>6 DEF Reap, MarkAcknowledged
  <2> QED
    BY <2>1, <2>2, ReleaseMove
<1>7. ASSUME NEW c \in Claims, FencedFinish(c) PROVE \A k \in Jobs : RowMove(k)
  <2>1. CASE ActiveFence(c)
    <3> DEFINE e == IF FinishStatus(c) = "completed" THEN "none" ELSE "error"
    <3>1. c[1] \in Jobs /\ c[2] \in 1..MaxAttempts /\ c = <<c[1], c[2]>>
      BY ClaimParts
    <3>2. /\ status[c[1]] = "processing" /\ attempts[c[1]] = c[2]
          /\ Release(c[1], FinishStatus(c), e)
          /\ result' = result /\ pc' = [pc EXCEPT ![c] = "done"]
      BY <1>7, <2>1, <3>1 DEF FencedFinish, ActiveFence, Fence, ClaimState, GoTo
    <3>3. CASE FinishStatus(c) = "failed"
      BY <3>1, <3>2, <3>3, ReleaseMove
    <3>4. CASE FinishStatus(c) = "pending"
      <4>1. c[2] < MaxRetries
        BY <3>4 DEF FinishStatus
      <4> QED
        BY <3>1, <3>2, <3>4, <4>1, ReleaseMove
    <3>5. CASE FinishStatus(c) = "completed"
      <4>1. result[c] = "success"
        BY <3>5 DEF FinishStatus
      <4>2. RowMove(c[1])
        BY <3>1, <3>2, <3>5, <4>1, ReleaseRow DEF RowMove, TypeOK
      <4>3. \A k \in Jobs \ {c[1]} : RowMove(k)
        BY <3>1, <3>2, ReleaseRow DEF RowMove
      <4> QED
        BY <4>2, <4>3
    <3> QED
      BY <3>3, <3>4, <3>5, FinishType
  <2>2. CASE ~ActiveFence(c)
    BY <1>7, <2>2 DEF RowMove, FencedFinish
  <2> QED
    BY <2>1, <2>2
<1>8. ASSUME NEW c \in Claims, Acknowledge(c) PROVE \A k \in Jobs : RowMove(k)
  <2>1. CASE CancellationRequested(c) /\ AckPossible(c[1])
    <3>1. status[c[1]] = "processing" /\ Release(c[1], "failed", "cancelled")
      BY <1>8, <2>1 DEF Acknowledge, MarkAcknowledged, CancellationRequested, Fence
    <3> QED
      BY <3>1, ClaimParts, ReleaseMove
  <2>2. CASE ~(CancellationRequested(c) /\ AckPossible(c[1]))
    BY <1>8, <2>2 DEF RowMove, Acknowledge
  <2> QED
    BY <2>1, <2>2
<1>9. ASSUME NEW c \in Claims, HeartbeatRenews(c) PROVE \A k \in Jobs : RowMove(k)
  BY <1>9 DEF RowMove, HeartbeatRenews
<1>10. ASSUME NEW c \in Claims, NEW a \in BOOLEAN, BeginEffectCommit(c, a)
       PROVE  \A k \in Jobs : RowMove(k)
  BY <1>10 DEF RowMove, BeginEffectCommit
<1>11. ASSUME NEW s \in Scans, CancelScan(s) PROVE \A k \in Jobs : RowMove(k)
  BY <1>11 DEF TypeOK, RowMove, CancelScan, Active
<1> QED
  BY <1>1, <1>2, <1>3, <1>4, <1>5, <1>6, <1>7, <1>8, <1>9, <1>10, <1>11, StepKinds

\* A task that is over stays over, with the result it had; a new claim of its row
\* is a claim of its own.
LEMMA DoneStays ==
    ASSUME TypeOK, [Next]_vars, NEW c \in Claims,
           pc[c] = "done", c[2] <= attempts[c[1]]
    PROVE  pc'[c] = "done" /\ result'[c] = result[c]
<1> USE DEF taskVars
<1>1. CASE Bookkeeping
  BY <1>1 DEF Bookkeeping
<1>2. ASSUME NEW w \in Workers, NEW j \in Jobs, Claim(w, j)
      PROVE  pc'[c] = "done" /\ result'[c] = result[c]
  <2>1. c # <<j, attempts[j] + 1>>
    BY ClaimParts, MaxAttemptsPositive DEF TypeOK
  <2> QED
    BY <1>2, <2>1 DEF TypeOK, Claim
<1>3. ASSUME NEW d \in Claims,
             FencedFinish(d) \/ Acknowledge(d) \/ HeartbeatRenews(d)
                \/ \E a \in BOOLEAN : BeginEffectCommit(d, a)
      PROVE  pc'[c] = "done" /\ result'[c] = result[c]
  BY <1>3 DEF TypeOK, FencedFinish, Acknowledge, HeartbeatRenews, BeginEffectCommit, GoTo
<1>4. ASSUME NEW w \in Workers, NEW j \in Jobs, FailBlocked(w, j) \/ Reap(w, j)
      PROVE  pc'[c] = "done" /\ result'[c] = result[c]
  BY <1>4 DEF FailBlocked, Reap
<1>5. ASSUME NEW j \in Jobs, Enqueue(j) \/ LeaseLapses(j)
      PROVE  pc'[c] = "done" /\ result'[c] = result[c]
  BY <1>5 DEF Enqueue, LeaseLapses
<1>6. ASSUME NEW s \in Scans, CancelScan(s)
      PROVE  pc'[c] = "done" /\ result'[c] = result[c]
  BY <1>6 DEF CancelScan
<1> QED
  BY <1>1, <1>2, <1>3, <1>4, <1>5, <1>6, StepKinds

-------------------------------------------------------------------------------
(* The inductive invariant *)

LEMMA InvInit == Init => Inv
BY TypeInit, MaxAttemptsPositive
   DEF Init, Inv, ClaimState, AbsentUntouched, PendingHasAttempts, VerdictSettled,
       DependencyOrder

LEMMA InvStep == Inv /\ [Next]_vars => Inv'
<1> SUFFICES ASSUME Inv, [Next]_vars PROVE Inv'
  OBVIOUS
<1>1. TypeOK /\ ClaimState
  BY DEF Inv
<1>2. \A k \in Jobs : RowMove(k)
  BY <1>1, RowMoves
<1>3. TypeOK' /\ ClaimState'
  BY <1>1, TypeStep, ClaimStateStep
<1>4. AbsentUntouched'
  BY <1>2 DEF Inv, AbsentUntouched, RowMove
<1>5. PendingHasAttempts'
  <2> SUFFICES ASSUME NEW k \in Jobs, status'[k] = "pending"
               PROVE  attempts'[k] < MaxAttempts
    BY DEF PendingHasAttempts, MaxAttempts
  <2>1. attempts[k] \in Nat
    BY <1>1, MaxAttemptsPositive DEF TypeOK
  <2>2. CASE status[k] = "pending"
    <3>1. attempts'[k] = attempts[k]
      BY <1>2, <2>2 DEF RowMove
    <3> QED
      BY <2>2, <3>1 DEF Inv, PendingHasAttempts
  <2>3. CASE status[k] = "absent"
    <3>1. attempts'[k] = 0
      BY <1>2, <2>3 DEF Inv, AbsentUntouched, RowMove
    <3> QED
      BY <3>1, MaxAttemptsPositive
  <2>4. CASE status[k] \notin {"pending", "absent"}
    <3>1. attempts'[k] = attempts[k] /\ attempts[k] < MaxRetries
      BY <1>2, <2>4 DEF RowMove
    <3> QED
      BY <2>1, <3>1, MaxAttemptsPositive, BoundsAssumption
  <2> QED
    BY <2>2, <2>3, <2>4
<1>6. VerdictSettled'
  <2> SUFFICES ASSUME NEW k \in Jobs, status'[k] = "completed"
               PROVE  /\ attempts'[k] \in 1..MaxAttempts
                      /\ result'[<<k, attempts'[k]>>] = "success"
                      /\ pc'[<<k, attempts'[k]>>] = "done"
    BY DEF VerdictSettled
  <2>1. CASE status[k] = "completed"
    <3>1. /\ attempts'[k] = attempts[k] /\ attempts[k] \in 1..MaxAttempts
          /\ result[<<k, attempts[k]>>] = "success" /\ pc[<<k, attempts[k]>>] = "done"
      BY <1>2, <2>1 DEF Inv, VerdictSettled, RowMove, Active
    <3>2. pc'[<<k, attempts[k]>>] = "done" /\ result'[<<k, attempts[k]>>] = "success"
      BY <1>1, <3>1, ClaimParts, DoneStays, MaxAttemptsPositive
    <3> QED
      BY <3>1, <3>2
  <2>2. CASE status[k] # "completed"
    BY <1>2, <2>2 DEF RowMove
  <2> QED
    BY <2>1, <2>2
<1>7. DependencyOrder'
  <2> SUFFICES ASSUME NEW k \in Jobs, DependsOn[k] # NoJob,
                      status'[k] \in {"processing", "completed"}
               PROVE  status'[DependsOn[k]] = "completed"
    BY DEF DependencyOrder
  <2>1. DependsOn[k] \in Jobs
    BY DependsAssumption
  <2>2. status[DependsOn[k]] = "completed"
    <3>1. CASE status[k] \in {"processing", "completed"}
      BY <3>1 DEF Inv, DependencyOrder
    <3>2. CASE status[k] \notin {"processing", "completed"}
      BY <1>2, <3>2 DEF RowMove, DependencyMet
    <3> QED
      BY <3>1, <3>2
  <2> QED
    BY <1>2, <2>1, <2>2 DEF RowMove, Active
<1> QED
  BY <1>3, <1>4, <1>5, <1>6, <1>7 DEF Inv

LEMMA InvHolds == Spec => []Inv
BY InvInit, InvStep, PTL DEF Spec

\* No task whose claim was taken over ever completes the job: the verdict of a
\* completed job is that of its latest attempt.
THEOREM VerdictOfLastAttemptHolds == Spec => []VerdictOfLastAttempt
<1>1. Inv => VerdictOfLastAttempt
  BY DEF Inv, VerdictSettled, VerdictOfLastAttempt
<1> QED
  BY <1>1, InvHolds, PTL

\* A row waits in the queue only while its retry budget lasts.
THEOREM PendingHasAttemptsHolds == Spec => []PendingHasAttempts
<1>1. Inv => PendingHasAttempts
  BY DEF Inv
<1> QED
  BY <1>1, InvHolds, PTL

\* The row's claim is its latest attempt's, so is its verdict, and it waits in the
\* queue only with attempts left.
THEOREM ClaimsAreSoundHolds == Spec => []ClaimsAreSound
BY ClaimStateHolds, VerdictOfLastAttemptHolds, PendingHasAttemptsHolds, PTL DEF ClaimsAreSound

\* A dependent job runs only over a completed dependency, however long the chain.
THEOREM DependencyOrderHolds == Spec => []DependencyOrder
<1>1. Inv => DependencyOrder
  BY DEF Inv
<1> QED
  BY <1>1, InvHolds, PTL

-------------------------------------------------------------------------------
(* What a step may never do *)

\* Only the fence holder and the reaper write an effect state, both of a row that
\* is still processing.
LEMMA EffectStays ==
    ASSUME TypeOK, [Next]_vars, NEW k \in Jobs, status[k] \in Terminal
    PROVE  effect'[k] = effect[k]
<1> USE DEF Terminal, rowVars
<1>1. CASE Bookkeeping
  BY <1>1 DEF Bookkeeping
<1>2. ASSUME NEW j \in Jobs, Enqueue(j) \/ LeaseLapses(j) PROVE effect' = effect
  BY <1>2 DEF Enqueue, LeaseLapses
<1>3. ASSUME NEW w \in Workers, NEW j \in Jobs, Claim(w, j) \/ FailBlocked(w, j)
      PROVE  effect' = effect
  BY <1>3 DEF Claim, FailBlocked
<1>4. ASSUME NEW w \in Workers, NEW j \in Jobs, Reap(w, j) PROVE effect'[k] = effect[k]
  <2>1. k # j
    BY <1>4 DEF Reap
  <2> QED
    BY <1>4, <2>1 DEF Reap, MarkAcknowledged, TypeOK
<1>5. ASSUME NEW c \in Claims, FencedFinish(c) PROVE effect'[k] = effect[k]
  <2>1. ActiveFence(c) => k # c[1]
    BY DEF ActiveFence, Fence
  <2> QED
    BY <1>5, <2>1 DEF FencedFinish, TypeOK
<1>6. ASSUME NEW c \in Claims, Acknowledge(c) \/ HeartbeatRenews(c) PROVE effect' = effect
  BY <1>6 DEF Acknowledge, HeartbeatRenews, MarkAcknowledged
<1>7. ASSUME NEW c \in Claims, NEW a \in BOOLEAN, BeginEffectCommit(c, a)
      PROVE  effect'[k] = effect[k]
  <2>1. ActiveFence(c) => k # c[1]
    BY DEF ActiveFence, Fence
  <2> QED
    BY <1>7, <2>1 DEF BeginEffectCommit, TypeOK
<1>8. ASSUME NEW s \in Scans, CancelScan(s) PROVE effect' = effect
  BY <1>8 DEF CancelScan
<1> QED
  BY <1>1, <1>2, <1>3, <1>4, <1>5, <1>6, <1>7, <1>8, StepKinds

\* Completed and failed are final, with the effect verdict they were reached with.
THEOREM TerminalStaysHolds == Spec => TerminalStays
<1>1. Inv /\ [Next]_vars =>
        [\A j \in Jobs :
            status[j] \in Terminal => status'[j] = status[j] /\ effect'[j] = effect[j]]_vars
  <2> SUFFICES ASSUME Inv, [Next]_vars, NEW j \in Jobs, status[j] \in Terminal
               PROVE  status'[j] = status[j] /\ effect'[j] = effect[j]
    OBVIOUS
  <2>1. TypeOK /\ ClaimState
    BY DEF Inv
  <2>2. RowMove(j)
    BY <2>1, RowMoves
  <2>3. status'[j] = status[j]
    BY <2>2 DEF RowMove, Terminal, Active
  <2> QED
    BY <2>1, <2>3, EffectStays
<1> QED
  BY <1>1, InvHolds, PTL DEF Spec, TerminalStays

\* How a cancellation that was requested can end for row k.
CancelledMove(k) ==
    \/ status'[k] = "processing" /\ err'[k] = "cancel_requested"
    \/ status'[k] = "failed" /\ err'[k] = "cancelled"

LEMMA CancelOwnsRow ==
    ASSUME TypeOK, [Next]_vars, NEW k \in Jobs,
           status[k] = "processing", err[k] = "cancel_requested"
    PROVE  CancelledMove(k)
<1> USE DEF CancelledMove, rowVars
<1>1. CASE Bookkeeping
  BY <1>1 DEF Bookkeeping
<1>2. ASSUME NEW j \in Jobs, Enqueue(j) \/ LeaseLapses(j) PROVE CancelledMove(k)
  BY <1>2 DEF TypeOK, Enqueue, LeaseLapses
<1>3. ASSUME NEW w \in Workers, NEW j \in Jobs, Claim(w, j) \/ FailBlocked(w, j)
      PROVE  CancelledMove(k)
  <2>1. k # j
    BY <1>3 DEF Claim, FailBlocked
  <2> QED
    BY <1>3, <2>1 DEF TypeOK, Claim, FailBlocked
<1>4. ASSUME NEW w \in Workers, NEW j \in Jobs, Reap(w, j) PROVE CancelledMove(k)
  <2>1. CASE k = j
    <3>1. Release(k, "failed", "cancelled")
      BY <1>4, <2>1 DEF Reap, MarkAcknowledged
    <3> QED
      BY <3>1, ReleaseRow
  <2>2. CASE k # j
    <3>1. \E s, e : Release(j, s, e)
      BY <1>4 DEF Reap, MarkAcknowledged
    <3> QED
      BY <2>2, <3>1, ReleaseRow
  <2> QED
    BY <2>1, <2>2
<1>5. ASSUME NEW c \in Claims, FencedFinish(c) PROVE CancelledMove(k)
  <2>1. CASE ActiveFence(c)
    <3>1. k # c[1] /\ c[1] \in Jobs
      BY <2>1, ClaimParts DEF ActiveFence
    <3>2. \E s, e : Release(c[1], s, e)
      BY <1>5, <2>1 DEF FencedFinish
    <3> QED
      BY <3>1, <3>2, ReleaseRow
  <2>2. CASE ~ActiveFence(c)
    BY <1>5, <2>2 DEF FencedFinish
  <2> QED
    BY <2>1, <2>2
<1>6. ASSUME NEW c \in Claims, Acknowledge(c) PROVE CancelledMove(k)
  <2>1. CASE CancellationRequested(c) /\ AckPossible(c[1])
    <3>1. c[1] \in Jobs /\ Release(c[1], "failed", "cancelled")
      BY <1>6, <2>1, ClaimParts DEF Acknowledge, MarkAcknowledged
    <3> QED
      BY <3>1, ReleaseRow
  <2>2. CASE ~(CancellationRequested(c) /\ AckPossible(c[1]))
    BY <1>6, <2>2 DEF Acknowledge
  <2> QED
    BY <2>1, <2>2
<1>7. ASSUME NEW c \in Claims, HeartbeatRenews(c) PROVE CancelledMove(k)
  BY <1>7 DEF HeartbeatRenews
<1>8. ASSUME NEW c \in Claims, NEW a \in BOOLEAN, BeginEffectCommit(c, a)
      PROVE  CancelledMove(k)
  BY <1>8 DEF BeginEffectCommit
<1>9. ASSUME NEW s \in Scans, CancelScan(s) PROVE CancelledMove(k)
  BY <1>9 DEF TypeOK, CancelScan
<1> QED
  BY <1>1, <1>2, <1>3, <1>4, <1>5, <1>6, <1>7, <1>8, <1>9, StepKinds

\* Once asked for, a cancellation owns the terminal transition of a running job.
THEOREM CancelWinsHolds == Spec => CancelWins
<1>1. Inv /\ [Next]_vars =>
        [\A j \in Jobs :
            (status[j] = "processing" /\ err[j] = "cancel_requested") =>
                \/ status'[j] = "processing" /\ err'[j] = "cancel_requested"
                \/ status'[j] = "failed" /\ err'[j] = "cancelled"]_vars
  BY CancelOwnsRow DEF Inv, CancelledMove
<1> QED
  BY <1>1, InvHolds, PTL DEF Spec, CancelWins

\* A request to stop and a verdict both stand, whatever late tasks, threads and
\* reapers do.
THEOREM VerdictsStandHolds == Spec => VerdictsStand
BY CancelWinsHolds, TerminalStaysHolds, PTL DEF VerdictsStand

-------------------------------------------------------------------------------
(* Who ends a claim *)

\* A claim is born only with a new attempt.
LEMMA ClaimIsKept ==
    ASSUME Inv, [Next]_vars, NEW c \in Claims, c[2] <= attempts[c[1]],
           status'[c[1]] = "processing", token'[c[1]] = c[2]
    PROVE  status[c[1]] = "processing" /\ token[c[1]] = c[2]
<1>1. TypeOK /\ ClaimState /\ TypeOK' /\ ClaimState'
  BY InvStep DEF Inv
<1>2. RowMove(c[1]) /\ c[1] \in Jobs /\ c[2] \in Nat /\ attempts[c[1]] \in Nat
  BY <1>1, RowMoves, ClaimParts, MaxAttemptsPositive DEF TypeOK
<1>3. attempts'[c[1]] = c[2]
  BY <1>1, <1>2 DEF ClaimState
<1>4. status[c[1]] = "processing" /\ attempts[c[1]] = c[2]
  BY <1>2, <1>3 DEF RowMove
<1> QED
  BY <1>1, <1>2, <1>4 DEF ClaimState

\* Only the task of the claim itself, at its end, or the reaper under the recovery
\* lock takes a claim off its row.
LEMMA ClaimEnds ==
    ASSUME TypeOK, [Next]_vars, NEW j \in Jobs, status[j] = "processing",
           ~ (status'[j] = "processing" /\ token'[j] = token[j])
    PROVE  pc[<<j, token[j]>>] \in {"updating", "refused"} \/ RecoveryLock(j)
<1> USE DEF rowVars
<1>1. ~Bookkeeping
  BY DEF Bookkeeping
<1>2. ASSUME NEW k \in Jobs, Enqueue(k) \/ LeaseLapses(k) PROVE FALSE
  BY <1>2 DEF TypeOK, Enqueue, LeaseLapses
<1>3. ASSUME NEW w \in Workers, NEW k \in Jobs, Claim(w, k) \/ FailBlocked(w, k) PROVE FALSE
  <2>1. k # j
    BY <1>3 DEF Claim, FailBlocked
  <2> QED
    BY <1>3, <2>1 DEF TypeOK, Claim, FailBlocked
<1>4. ASSUME NEW w \in Workers, NEW k \in Jobs, Reap(w, k) PROVE RecoveryLock(j)
  <2>1. CASE k = j
    BY <1>4, <2>1 DEF Reap
  <2>2. CASE k # j
    <3>1. \E s, e : Release(k, s, e)
      BY <1>4 DEF Reap, MarkAcknowledged
    <3> QED
      BY <2>2, <3>1 DEF TypeOK, Release
  <2> QED
    BY <2>1, <2>2
<1>5. ASSUME NEW c \in Claims, FencedFinish(c) \/ Acknowledge(c)
      PROVE  pc[<<j, token[j]>>] \in {"updating", "refused"}
  <2>1. c[1] \in Jobs /\ c = <<c[1], c[2]>>
    BY ClaimParts
  <2>2. /\ Fence(c)
        /\ \E s, e : Release(c[1], s, e)
    BY <1>5 DEF FencedFinish, Acknowledge, MarkAcknowledged, ActiveFence, CancellationRequested
  <2>3. c[1] = j
    BY <2>1, <2>2 DEF TypeOK, Release
  <2>4. token[j] = c[2]
    BY <2>2, <2>3 DEF Fence
  <2>5. c = <<j, token[j]>>
    BY <2>1, <2>3, <2>4
  <2> QED
    BY <1>5, <2>5 DEF FencedFinish, Acknowledge
<1>6. ASSUME NEW c \in Claims, HeartbeatRenews(c) PROVE FALSE
  BY <1>6 DEF HeartbeatRenews
<1>7. ASSUME NEW c \in Claims, NEW a \in BOOLEAN, BeginEffectCommit(c, a) PROVE FALSE
  BY <1>7 DEF BeginEffectCommit
<1>8. ASSUME NEW s \in Scans, CancelScan(s) PROVE FALSE
  BY <1>8 DEF TypeOK, CancelScan
<1> QED
  BY <1>1, <1>2, <1>3, <1>4, <1>5, <1>6, <1>7, <1>8, StepKinds

-------------------------------------------------------------------------------
(* Who begins a deletion, who asks a job to stop, who activates a row *)

\* A fence stays, a scan goes only behind its fence, and only the acknowledgement of
\* a cancelled job and the API set one.
FenceMove ==
    \/ /\ fenced' = fenced
       /\ \A s \in Scans : scan'[s] = "deleted" => scan[s] = "deleted" \/ s \in fenced
    \/ \E k \in Jobs :
        MarkAcknowledged(k) /\ status[k] = "processing" /\ err[k] = "cancel_requested"
    \/ \E s \in Scans : CancelScan(s)

LEMMA FenceMoves ==
    ASSUME TypeOK, [Next]_vars
    PROVE  FenceMove
<1> USE DEF scanVars
<1>1. CASE UNCHANGED scanVars
  BY <1>1 DEF FenceMove
<1>2. ASSUME NEW j \in Jobs, scan' = CloseScan(j), fenced' = fenced PROVE FenceMove
  BY <1>2 DEF TypeOK, CloseScan, FenceMove
<1>3. ASSUME NEW k \in Jobs, Enqueue(k) \/ LeaseLapses(k) PROVE UNCHANGED scanVars
  BY <1>3 DEF Enqueue, LeaseLapses
<1>4. ASSUME NEW w \in Workers, NEW k \in Jobs, Claim(w, k) \/ FailBlocked(w, k)
      PROVE  UNCHANGED scanVars
  BY <1>4 DEF Claim, FailBlocked
<1>5. ASSUME NEW w \in Workers, NEW k \in Jobs, Reap(w, k) PROVE FenceMove
  <2>1. CASE MarkAcknowledged(k) /\ err[k] = "cancel_requested"
    BY <1>5, <2>1 DEF Reap, FenceMove
  <2>2. CASE UNCHANGED scanVars \/ (scan' = CloseScan(k) /\ fenced' = fenced)
    BY <1>1, <1>2, <2>2
  <2> QED
    BY <1>5, <2>1, <2>2 DEF Reap
<1>6. ASSUME NEW c \in Claims, TaskStep(c) PROVE FenceMove
  <2>1. CASE FencedFinish(c)
    <3>1. UNCHANGED scanVars \/ (scan' = CloseScan(c[1]) /\ fenced' = fenced)
      BY <2>1 DEF FencedFinish
    <3> QED
      BY <1>1, <1>2, <3>1, ClaimParts
  <2>2. CASE Acknowledge(c)
    <3>1. CASE CancellationRequested(c) /\ AckPossible(c[1])
      BY <2>2, <3>1, ClaimParts DEF Acknowledge, CancellationRequested, Fence, FenceMove
    <3>2. CASE ~(CancellationRequested(c) /\ AckPossible(c[1]))
      BY <1>1, <2>2, <3>2 DEF Acknowledge
    <3> QED
      BY <3>1, <3>2
  <2>3. CASE StartClaim(c) \/ AssertOwned(c) \/ ReadEffect(c)
    BY <1>1, <2>3 DEF StartClaim, AssertOwned, ReadEffect
  <2> QED
    BY <1>6, <2>1, <2>2, <2>3 DEF TaskStep
<1>7. ASSUME NEW c \in Claims,
             HeartbeatRenews(c) \/ OwnershipLost(c) \/ ExecutionTimeout(c)
      PROVE UNCHANGED scanVars
  BY <1>7 DEF HeartbeatRenews, OwnershipLost, ExecutionTimeout
<1>8. ASSUME NEW s \in Scans, CancelScan(s) \/ DeletionCommits(s) \/ FailStaleScan(s)
      PROVE FenceMove
  BY <1>8 DEF TypeOK, DeletionCommits, FailStaleScan, FenceMove
<1>9. ASSUME NEW w \in Workers,
             RequestDrain(w) \/ StopDrained(w) \/ Crash(w) \/ Restart(w)
      PROVE UNCHANGED scanVars
  BY <1>9 DEF RequestDrain, StopDrained, Crash, Restart
<1>10. ASSUME NEW c \in Claims, HandlerStep(c) PROVE FenceMove
  <2>1. ASSUME NEW o \in {"completed", "failed"}, ChildCommitsScan(c, o) PROVE FenceMove
    BY <2>1 DEF TypeOK, ChildCommitsScan, FenceMove
  <2>2. CASE ~ \E o \in {"completed", "failed"} : ChildCommitsScan(c, o)
    BY <1>1, <1>10, <2>2
       DEF HandlerStep, HandlerTornDown, HandlerRaises, HandlerAbandons, HandlerReturns,
           HandlerFinishes, BeginEffectCall, BeginEffectCommit, TakeAuthority, DropAuthority
  <2> QED
    BY <2>1, <2>2
<1>11. CASE UNCHANGED vars
  BY <1>1, <1>11 DEF vars
<1> QED
  BY <1>1, <1>3, <1>4, <1>5, <1>6, <1>7, <1>8, <1>9, <1>10, <1>11 DEF Next, QueueStep

\* Only the API asks a running job to stop.
LEMMA CancelMoves ==
    ASSUME TypeOK, ClaimState, [Next]_vars, NEW k \in Jobs,
           status'[k] = "processing", err'[k] = "cancel_requested",
           ~ (status[k] = "processing" /\ err[k] = "cancel_requested")
    PROVE  \E s \in Scans : CancelScan(s) /\ ScanOf[k] = s /\ status[k] = "processing"
<1> USE DEF rowVars
<1>1. ~Bookkeeping
  BY DEF Bookkeeping
<1>2. ASSUME NEW j \in Jobs, Enqueue(j) \/ LeaseLapses(j) PROVE FALSE
  BY <1>2 DEF TypeOK, Enqueue, LeaseLapses
<1>3. ASSUME NEW w \in Workers, NEW j \in Jobs, Claim(w, j) \/ FailBlocked(w, j) PROVE FALSE
  BY <1>3 DEF TypeOK, Claim, FailBlocked
<1>4. ASSUME NEW j \in Jobs, NEW s \in Statuses \ {"processing"}, NEW e, Release(j, s, e)
      PROVE  FALSE
  BY <1>4, ReleaseRow
<1>5. ASSUME NEW w \in Workers, NEW j \in Jobs, Reap(w, j) PROVE FALSE
  <2>1. \/ Release(j, "failed", "cancelled") \/ Release(j, "failed", "error")
        \/ Release(j, "pending", "error")
    BY <1>5 DEF Reap, MarkAcknowledged
  <2> QED
    BY <1>4, <2>1 DEF Statuses
<1>6. ASSUME NEW c \in Claims, FencedFinish(c) PROVE FALSE
  <2>1. UNCHANGED rowVars \/ \E e : Release(c[1], FinishStatus(c), e)
    BY <1>6 DEF FencedFinish
  <2>2. FinishStatus(c) \in Statuses \ {"processing"} /\ c[1] \in Jobs
    BY FinishType, ClaimParts DEF Statuses
  <2> QED
    BY <1>4, <2>1, <2>2
<1>7. ASSUME NEW c \in Claims, Acknowledge(c) PROVE FALSE
  <2>1. UNCHANGED rowVars \/ Release(c[1], "failed", "cancelled")
    BY <1>7 DEF Acknowledge, MarkAcknowledged
  <2> QED
    BY <1>4, <2>1, ClaimParts DEF Statuses
<1>8. ASSUME NEW c \in Claims, HeartbeatRenews(c) PROVE FALSE
  BY <1>8 DEF HeartbeatRenews
<1>9. ASSUME NEW c \in Claims, NEW a \in BOOLEAN, BeginEffectCommit(c, a) PROVE FALSE
  BY <1>9 DEF BeginEffectCommit
<1>10. ASSUME NEW s \in Scans, CancelScan(s)
       PROVE  ScanOf[k] = s /\ status[k] = "processing"
  BY <1>10 DEF TypeOK, CancelScan, JobsOf
<1> QED
  BY <1>1, <1>2, <1>3, <1>5, <1>6, <1>7, <1>8, <1>9, <1>10, StepKinds

\* A row becomes active only by its insert.
LEMMA ActiveMoves ==
    ASSUME TypeOK, ClaimState, [Next]_vars, NEW k \in Jobs,
           status[k] \notin Active, status'[k] \in Active
    PROVE  Enqueue(k)
<1> USE DEF rowVars, Active
<1>1. status[k] = "absent" /\ status'[k] = "pending"
  BY RowMoves DEF RowMove
<1>2. ~Bookkeeping
  BY <1>1 DEF Bookkeeping
<1>3. ASSUME NEW j \in Jobs, Enqueue(j) \/ LeaseLapses(j) PROVE Enqueue(k)
  BY <1>1, <1>3 DEF TypeOK, Enqueue, LeaseLapses
<1>4. ASSUME NEW w \in Workers, NEW j \in Jobs, Claim(w, j) \/ FailBlocked(w, j) PROVE FALSE
  BY <1>1, <1>4 DEF TypeOK, Claim, FailBlocked
<1>5. ASSUME NEW j \in Jobs, NEW s, NEW e, Release(j, s, e), status[j] = "processing"
      PROVE  FALSE
  BY <1>1, <1>5, ReleaseRow
<1>6. ASSUME NEW w \in Workers, NEW j \in Jobs, Reap(w, j) PROVE FALSE
  BY <1>5, <1>6 DEF Reap, MarkAcknowledged
<1>7. ASSUME NEW c \in Claims, FencedFinish(c) \/ Acknowledge(c) PROVE FALSE
  <2>1. UNCHANGED rowVars \/ (Fence(c) /\ \E s, e : Release(c[1], s, e))
    BY <1>7 DEF FencedFinish, Acknowledge, MarkAcknowledged, ActiveFence,
       CancellationRequested
  <2> QED
    BY <1>1, <1>5, <2>1, ClaimParts DEF Fence
<1>8. ASSUME NEW c \in Claims, HeartbeatRenews(c) PROVE FALSE
  BY <1>1, <1>8 DEF HeartbeatRenews
<1>9. ASSUME NEW c \in Claims, NEW a \in BOOLEAN, BeginEffectCommit(c, a) PROVE FALSE
  BY <1>1, <1>9 DEF BeginEffectCommit
<1>10. ASSUME NEW s \in Scans, CancelScan(s) PROVE FALSE
  BY <1>1, <1>10 DEF TypeOK, CancelScan
<1> QED
  BY <1>2, <1>3, <1>4, <1>6, <1>7, <1>8, <1>9, <1>10, StepKinds

-------------------------------------------------------------------------------
(* The refinement of FencedClaims *)

EarlyPcs == {"claimed", "running", "lost", "timeout"}

\* All a step may do to the task of claim c: start it with its row's next attempt,
\* move it on with the result it has, or end its handler beside an untouched row.
TaskMove(c) ==
    \/ pc'[c] = pc[c] /\ result'[c] = result[c]
    \/ /\ c[2] = attempts[c[1]] + 1 /\ attempts'[c[1]] = c[2]
       /\ pc'[c] = "claimed" /\ result'[c] = result[c]
    \/ /\ pc[c] # "none" /\ pc'[c] # "none"
       /\ pc'[c] \in EarlyPcs => pc[c] \in EarlyPcs
       /\ result'[c] = result[c]
    \/ /\ pc[c] \in EarlyPcs /\ pc'[c] \notin EarlyPcs \cup {"none"}
       /\ UNCHANGED rowVars
       /\ \A d \in Claims \ {c} : result'[d] = result[d]

LEMMA TaskMoves ==
    ASSUME TypeOK, [Next]_vars
    PROVE  \A c \in Claims : TaskMove(c)
<1> USE DEF taskVars, EarlyPcs
<1>1. ASSUME NEW d \in Claims,
             StartClaim(d) \/ AssertOwned(d) \/ ReadEffect(d) \/ OwnershipLost(d)
                \/ ExecutionTimeout(d) \/ HandlerAbandons(d)
      PROVE  \A c \in Claims : TaskMove(c)
  BY <1>1 DEF TypeOK, TaskMove, StartClaim, AssertOwned, ReadEffect, OwnershipLost,
              ExecutionTimeout, HandlerAbandons, GoTo
<1>2. ASSUME NEW d \in Claims, FencedFinish(d) \/ Acknowledge(d)
      PROVE  \A c \in Claims : TaskMove(c)
  BY <1>2 DEF TypeOK, TaskMove, FencedFinish, Acknowledge, GoTo
<1>3. ASSUME NEW d \in Claims, HandlerTornDown(d) \/ HandlerRaises(d)
      PROVE  \A c \in Claims : TaskMove(c)
  BY <1>3 DEF TypeOK, TaskMove, HandlerTornDown, HandlerRaises, GoTo
<1>4. ASSUME NEW d \in Claims, NEW r \in Results, HandlerReturns(d, r)
      PROVE  \A c \in Claims : TaskMove(c)
  BY <1>4 DEF TypeOK, TaskMove, HandlerReturns, GoTo
<1>4a. ASSUME NEW d \in Claims, NEW r \in Results, HandlerFinishes(d, r)
      PROVE  \A c \in Claims : TaskMove(c)
  BY <1>4a DEF TypeOK, TaskMove, HandlerFinishes, GoTo
<1>5. ASSUME NEW d \in Claims, NEW a \in BOOLEAN, BeginEffectCommit(d, a)
      PROVE  \A c \in Claims : TaskMove(c)
  BY <1>5 DEF TypeOK, TaskMove, BeginEffectCommit
<1>6. ASSUME NEW w \in Workers, NEW j \in Jobs, Claim(w, j)
      PROVE  \A c \in Claims : TaskMove(c)
  <2>1. <<j, attempts[j] + 1>> \in Claims
    BY <1>6, ClaimIsNext
  <2> QED
    BY <1>6, <2>1, ClaimParts DEF TypeOK, TaskMove, Claim
<1>7. ASSUME NEW w \in Workers, Crash(w)
      PROVE  \A c \in Claims : TaskMove(c)
  BY <1>7 DEF TypeOK, TaskMove, Crash, Inflight
<1>8. CASE UNCHANGED <<pc, result>>
  BY <1>8 DEF TaskMove
<1>9. ASSUME NEW d \in Claims,
             HeartbeatRenews(d) \/ BeginEffectCall(d) \/ TakeAuthority(d) \/ DropAuthority(d)
                \/ \E o \in {"completed", "failed"} : ChildCommitsScan(d, o)
      PROVE  UNCHANGED <<pc, result>>
  BY <1>9 DEF HeartbeatRenews, BeginEffectCall, TakeAuthority, DropAuthority, ChildCommitsScan
<1>10. ASSUME NEW j \in Jobs,
              Enqueue(j) \/ LeaseLapses(j) \/ \E w \in Workers : FailBlocked(w, j) \/ Reap(w, j)
       PROVE  UNCHANGED <<pc, result>>
  BY <1>10 DEF Enqueue, LeaseLapses, FailBlocked, Reap
<1>11. ASSUME NEW s \in Scans, CancelScan(s) \/ DeletionCommits(s) \/ FailStaleScan(s)
       PROVE  UNCHANGED <<pc, result>>
  BY <1>11 DEF CancelScan, DeletionCommits, FailStaleScan
<1>12. ASSUME NEW w \in Workers, RequestDrain(w) \/ StopDrained(w) \/ Restart(w)
       PROVE  UNCHANGED <<pc, result>>
  BY <1>12 DEF RequestDrain, StopDrained, Restart
<1>13. UNCHANGED vars => UNCHANGED <<pc, result>>
  BY DEF vars
<1>14. CASE QueueStep
  BY <1>1, <1>2, <1>6, <1>7, <1>8, <1>9, <1>10, <1>11, <1>12, <1>14 DEF QueueStep, TaskStep
<1>15. ASSUME NEW d \in Claims, HandlerStep(d) PROVE \A c \in Claims : TaskMove(c)
  BY <1>1, <1>3, <1>4, <1>4a, <1>5, <1>8, <1>9, <1>15 DEF HandlerStep, Results
<1> QED
  BY <1>8, <1>13, <1>14, <1>15 DEF Next

\* Only a claim that was made has a task, and only a task whose handler ended has
\* a result.
FencingInv ==
    \A c \in Claims :
        /\ pc[c] # "none" => c[2] <= attempts[c[1]]
        /\ result[c] # "none" => pc[c] \notin EarlyPcs \cup {"none"}

LEMMA FencingInvStep ==
    ASSUME Inv, FencingInv, [Next]_vars
    PROVE  FencingInv'
<1> SUFFICES ASSUME NEW c \in Claims
             PROVE  /\ pc'[c] # "none" => c[2] <= attempts'[c[1]]
                    /\ result'[c] # "none" => pc'[c] \notin EarlyPcs \cup {"none"}
  BY DEF FencingInv
<1>1. c[1] \in Jobs /\ c[2] \in 1..MaxAttempts /\ TaskMove(c) /\ RowMove(c[1])
  BY ClaimParts, TaskMoves, RowMoves DEF Inv
<1>2. attempts[c[1]] \in Nat
  BY <1>1, MaxAttemptsPositive DEF Inv, TypeOK
<1>3. attempts'[c[1]] = attempts[c[1]] \/ attempts'[c[1]] = attempts[c[1]] + 1
  BY <1>1 DEF RowMove
<1>4. attempts'[c[1]] \in Nat /\ attempts[c[1]] <= attempts'[c[1]] /\ c[2] \in Nat
  BY <1>1, <1>2, <1>3
<1> QED
  BY <1>1, <1>2, <1>4 DEF TaskMove, FencingInv, EarlyPcs

LEMMA FencingInvHolds == Spec => [](Inv /\ FencingInv)
<1>1. Init => FencingInv
  BY DEF Init, FencingInv
<1>2. Inv /\ FencingInv /\ [Next]_vars => FencingInv'
  BY FencingInvStep
<1> QED
  BY <1>1, <1>2, InvHolds, PTL DEF Spec

\* What the mapping makes of a row.
LEMMA FencingValues ==
    ASSUME NEW j \in Jobs
    PROVE  /\ ClaimPhase[j] = CASE status[j] = "processing" -> "held"
                                [] status[j] \in Terminal -> "closed"
                                [] OTHER -> "open"
           /\ Successes[j] = {n \in 1..MaxAttempts : result[<<j, n>>] = "success"}
           /\ CompletedBy[j] = IF status[j] = "completed" THEN attempts[j] ELSE 0
BY DEF ClaimPhase, Successes, CompletedBy

LEMMA FencingTypes == TypeOK => Fencing!FTypeOK
<1> SUFFICES ASSUME TypeOK PROVE Fencing!FTypeOK
  OBVIOUS
<1>1. ClaimPhase \in [Jobs -> Fencing!Phases]
  BY DEF ClaimPhase, Fencing!Phases
<1>2. attempts \in [Jobs -> 0..MaxAttempts]
  BY DEF TypeOK
<1>3. Successes \in [Jobs -> SUBSET (1..MaxAttempts)]
  BY DEF Successes
<1>4. CompletedBy \in [Jobs -> 0..MaxAttempts]
  BY <1>2, MaxAttemptsPositive DEF CompletedBy
<1> QED
  BY <1>1, <1>2, <1>3, <1>4 DEF Fencing!FTypeOK

LEMMA FencingInit == Init => Fencing!Init
<1> SUFFICES ASSUME Init PROVE Fencing!Init
  OBVIOUS
<1>1. ClaimPhase = [j \in Jobs |-> "open"]
  BY DEF Init, ClaimPhase, Terminal
<1>2. Successes = [j \in Jobs |-> {}]
  BY ClaimParts DEF Init, Successes
<1>3. CompletedBy = [j \in Jobs |-> 0]
  BY DEF Init, CompletedBy
<1> QED
  BY <1>1, <1>2, <1>3 DEF Fencing!Init, Init

\* While a handler ends, its row stands still; its success may be a new one.
LEMMA HandlerEndFences ==
    ASSUME Inv, FencingInv, NEW c \in Claims, NEW j \in Jobs,
           pc[c] \in EarlyPcs, UNCHANGED rowVars,
           \A d \in Claims \ {c} : result'[d] = result[d]
    PROVE  Fencing!Moves(j) \/ Fencing!Kept(j)
<1>1. /\ c[1] \in Jobs /\ c[2] \in 1..MaxAttempts /\ c = <<c[1], c[2]>>
      /\ \A n \in 1..MaxAttempts : <<j, n>> \in Claims
  BY ClaimParts
<1>2. result[c] = "none" /\ c[2] \in 1..attempts[c[1]]
  BY <1>1, MaxAttemptsPositive DEF FencingInv, EarlyPcs, Inv, TypeOK
<1>3. UNCHANGED <<ClaimPhase[j], attempts[j], CompletedBy[j]>>
  BY DEF ClaimPhase, CompletedBy, rowVars
<1>4. CASE c[1] = j /\ result'[c] = "success"
  <2>1. Successes'[j] = Successes[j] \cup {c[2]}
    BY <1>1, <1>2, <1>4 DEF Successes
  <2> QED
    BY <1>2, <1>3, <1>4, <2>1 DEF Fencing!Moves, Fencing!Works
<1>5. CASE ~(c[1] = j /\ result'[c] = "success")
  <2>1. Successes'[j] = Successes[j]
    BY <1>1, <1>2, <1>5 DEF Successes
  <2> QED
    BY <1>3, <2>1 DEF Fencing!Kept
<1> QED
  BY <1>4, <1>5

\* Where no result changes, a move of a row is a move of the mapped one.
LEMMA RowMoveFences ==
    ASSUME Inv, NEW j \in Jobs, RowMove(j), status'[j] \in Statuses,
           \A c \in Claims : result'[c] = result[c]
    PROVE  Fencing!Moves(j) \/ Fencing!Kept(j)
<1>1. Successes'[j] = Successes[j]
  BY ClaimParts DEF Successes
<1>2. /\ ClaimPhase'[j] = CASE status'[j] = "processing" -> "held"
                            [] status'[j] \in Terminal -> "closed"
                            [] OTHER -> "open"
      /\ CompletedBy'[j] = IF status'[j] = "completed" THEN attempts'[j] ELSE 0
  BY DEF ClaimPhase, CompletedBy
<1>3. attempts[j] \in 0..MaxAttempts /\ status[j] \in Statuses
  BY DEF Inv, TypeOK
<1>4. CASE UNCHANGED <<status[j], attempts[j]>>
  BY <1>1, <1>2, <1>4, FencingValues DEF Fencing!Kept
<1>5. CASE status[j] = "absent" /\ status'[j] = "pending" /\ attempts'[j] = attempts[j]
  BY <1>1, <1>2, <1>5, FencingValues DEF Fencing!Kept, Terminal
<1>6. CASE /\ status[j] = "pending" /\ status'[j] = "processing"
           /\ attempts[j] < MaxAttempts /\ attempts'[j] = attempts[j] + 1
  <2>1. Fencing!Grants(j)
    BY <1>1, <1>2, <1>6, FencingValues DEF Fencing!Grants, Terminal
  <2> QED
    BY <2>1 DEF Fencing!Moves
<1>7. CASE status[j] \in Active /\ status'[j] = "failed" /\ attempts'[j] = attempts[j]
  <2>1. Fencing!Closes(j)
    BY <1>1, <1>2, <1>7, FencingValues DEF Fencing!Closes, Terminal, Active
  <2> QED
    BY <2>1 DEF Fencing!Moves
<1>8. CASE /\ status[j] = "processing" /\ status'[j] = "pending"
           /\ attempts'[j] = attempts[j] /\ attempts[j] < MaxRetries
  <2>1. attempts[j] < MaxAttempts
    BY <1>3, <1>8, MaxAttemptsPositive, BoundsAssumption
  <2>2. Fencing!GivesBack(j)
    BY <1>1, <1>2, <1>8, <2>1, FencingValues DEF Fencing!GivesBack, Terminal
  <2> QED
    BY <2>2 DEF Fencing!Moves
<1>9. CASE /\ status[j] = "processing" /\ status'[j] = "completed"
           /\ attempts'[j] = attempts[j] /\ attempts[j] \in 1..MaxAttempts
           /\ result'[<<j, attempts[j]>>] = "success"
  <2>1. attempts[j] \in Successes[j]
    BY <1>9, ClaimParts, FencingValues
  <2>2. Fencing!Publishes(j)
    BY <1>1, <1>2, <1>9, <2>1, FencingValues DEF Fencing!Publishes, Terminal
  <2> QED
    BY <2>2 DEF Fencing!Moves
<1> QED
  BY <1>4, <1>5, <1>6, <1>7, <1>8, <1>9 DEF RowMove

LEMMA FencingStep ==
    Inv /\ FencingInv /\ [Next]_vars
        => [Fencing!Next]_<<ClaimPhase, attempts, Successes, CompletedBy>>
<1> SUFFICES ASSUME Inv, FencingInv, [Next]_vars
             PROVE  Fencing!Next
  OBVIOUS
<1>1. TypeOK' /\ Fencing!FTypeOK'
  <2>1. TypeOK'
    BY TypeStep DEF Inv
  <2>2. (TypeOK => Fencing!FTypeOK)'
    BY FencingTypes, PTL
  <2> QED
    BY <2>1, <2>2
<1>2. ASSUME NEW j \in Jobs PROVE Fencing!Moves(j) \/ Fencing!Kept(j)
  <2>1. (\A c \in Claims : TaskMove(c)) /\ RowMove(j)
    BY TaskMoves, RowMoves DEF Inv
  <2>2. CASE \A c \in Claims : result'[c] = result[c]
    BY <1>1, <2>1, <2>2, RowMoveFences DEF TypeOK
  <2>3. CASE ~ \A c \in Claims : result'[c] = result[c]
    BY <2>1, <2>3, HandlerEndFences DEF TaskMove
  <2> QED
    BY <2>2, <2>3
<1> QED
  BY <1>1, <1>2 DEF Fencing!Next

\* Every row of the queue keeps what FencedClaims promises: whichever tasks, reapers
\* and cancellations race, at most MaxAttempts claims of it are granted and only the
\* success of the latest completes it.
THEOREM QueueFencesHolds == Spec => QueueFences
BY FencingInit, FencingStep, FencingInvHolds, PTL DEF Spec, QueueFences, Fencing!Spec
===============================================================================

-------------------------- MODULE UploadEffect_proofs --------------------------
(***************************************************************************)
(* Proofs about UploadEffect for every set of jobs, artifacts and workers  *)
(* and every retry budget: that it implements the queue, that an artifact  *)
(* is written at most once, and that it keeps AtMostOnceEffect.            *)
(*                                                                         *)
(* The argument: an effect that was announced stays announced, and of the  *)
(* jobs of one artifact at most one announces (OneEffect).  A claim that   *)
(* was granted its effect is the last claim of its row (LastGrant): the    *)
(* row never goes back to pending, because whoever could put it there      *)
(* reads the effect state under the row's fence first.  So the one granted *)
(* claim is the only sender of its job (SentOnce).                         *)
(***************************************************************************)
EXTENDS UploadEffect, JobQueue_proofs

\* What _finish read is announced.
SeenIsAnnounced == \A c \in Claims : seen[c] # "none" => effect[c[1]] # "none"

\* A granted claim is its row's last, and the finish it still fences knows of the
\* effect.
LastGrant ==
    \A c \in granted :
        /\ c[2] = attempts[c[1]]
        /\ effect[c[1]] # "none"
        /\ status[c[1]] \notin {"absent", "pending"}
        /\ pc[c] = "updating" /\ ActiveFence(c) => seen[c] # "none"

\* A request is granted, a success is recorded, a record is written.
Requested ==
    \A c \in Claims :
        /\ request[c] # "none" => c \in granted
        /\ result[c] = "success" => request[c] = "recorded"
        /\ request[c] = "recorded" => written[ArtifactOf[c[1]]]

\* What a job sent is the request of its latest claim.
SentOnce ==
    \A j \in Jobs :
        sent[j] = IF attempts[j] \in 1..MaxAttempts /\ request[<<j, attempts[j]>>] # "none"
                  THEN 1 ELSE 0

\* A confirmed effect, and one that a finish read as confirmed, was sent.
ConfirmedWasSent ==
    /\ \A j \in Jobs : effect[j] = "confirmed" => sent[j] = 1
    /\ \A c \in Claims : seen[c] = "confirmed" => sent[c[1]] = 1

\* Of the jobs of one artifact at most one ever announces an effect.
OneEffect ==
    \A j, k \in Jobs :
        (j # k /\ ArtifactOf[j] = ArtifactOf[k]) => effect[j] = "none" \/ effect[k] = "none"

UTypes == request \in [Claims -> Requests] /\ written \in [Artifacts -> BOOLEAN]
          /\ sent \in [Jobs -> Nat]

UInv ==
    /\ Inv
    /\ UTypes
    /\ SeenIsAnnounced
    /\ LastGrant
    /\ Requested
    /\ SentOnce
    /\ OneEffect
    /\ ConfirmedWasSent
    /\ CompletedUploadIsWritten

-------------------------------------------------------------------------------
(* UploadEffect implements the queue *)

LEMMA VerdictTypes == \A c \in Claims : Verdicts(c) \subseteq Results \ {"none"}
BY DEF Verdicts, Results

LEMMA UStepRefines == [UNext]_uvars => [Next]_vars
<1> SUFFICES ASSUME [UNext]_uvars PROVE [Next]_vars
  OBVIOUS
<1>1. ASSUME NEW j \in Jobs, QueueUpload(j) PROVE Next
  BY <1>1 DEF QueueUpload, Next, QueueStep
<1>2. CASE QueueSide
  BY <1>2 DEF QueueSide, Next, QueueStep
<1>3. ASSUME NEW c \in Claims, UploadStep(c) PROVE [Next]_vars
  <2>1. CASE FailsEarly(c)
    <3>1. \A r \in {"retry", "fatal"} : r \in Results \ {"none"}
      BY DEF Results
    <3> QED
      BY <2>1, <3>1 DEF FailsEarly, Next, HandlerStep
  <2>2. CASE AsksForEffect(c)
    BY <2>2 DEF AsksForEffect, Next, HandlerStep
  <2>3. CASE EffectThread(c)
    <3>1. PICK b \in BOOLEAN : BeginEffectCommit(c, b /\ AuthorityStands(c))
      BY <2>3 DEF EffectThread
    <3>2. (b /\ AuthorityStands(c)) \in BOOLEAN
      BY DEF AuthorityStands
    <3> QED
      BY <3>1, <3>2 DEF Next, HandlerStep
  <2>4. CASE Sends(c) \/ ChecksOwnership(c) \/ CommitsReceipt(c)
    BY <2>4 DEF Sends, ChecksOwnership, CommitsReceipt
  <2>5. CASE UploadReturns(c)
    BY <2>5, VerdictTypes DEF UploadReturns, Next, HandlerStep
  <2>6. CASE UploadTornDown(c)
    BY <2>6 DEF UploadTornDown, Next, HandlerStep
  <2> QED
    BY <1>3, <2>1, <2>2, <2>3, <2>4, <2>5, <2>6 DEF UploadStep
<1>4. CASE UNCHANGED uvars
  BY <1>4 DEF uvars
<1> QED
  BY <1>1, <1>2, <1>3, <1>4 DEF UNext

\* Every step is one of the queue, or one of the request alone.
RequestStep(c) == Sends(c) \/ ChecksOwnership(c) \/ CommitsReceipt(c)
LEMMA UStepKinds ==
    ASSUME [UNext]_uvars
    PROVE  \/ UNCHANGED <<request, sent, written>>
           \/ \E c \in Claims : RequestStep(c) /\ UNCHANGED vars
<1>1. ASSUME NEW j \in Jobs, QueueUpload(j) PROVE UNCHANGED <<request, sent, written>>
  BY <1>1 DEF QueueUpload
<1>2. CASE QueueSide
  BY <1>2 DEF QueueSide
<1>3. ASSUME NEW c \in Claims, UploadStep(c), ~RequestStep(c)
      PROVE  UNCHANGED <<request, sent, written>>
  BY <1>3 DEF UploadStep, RequestStep, FailsEarly, AsksForEffect, EffectThread,
       UploadReturns, UploadTornDown
<1>4. ASSUME NEW c \in Claims, RequestStep(c) PROVE UNCHANGED vars
  BY <1>4 DEF RequestStep, Sends, ChecksOwnership, CommitsReceipt
<1>5. CASE UNCHANGED uvars
  BY <1>5 DEF uvars
<1> QED
  BY <1>1, <1>2, <1>3, <1>4, <1>5 DEF UNext

-------------------------------------------------------------------------------
(* What a step does to an effect *)

LEMMA FinishAnnounces ==
    ASSUME NEW c \in Claims, effect[c[1]] # "none" PROVE FinishEffect(c) # "none"
BY DEF FinishEffect

\* An announced effect stays announced.
LEMMA EffectGrows ==
    ASSUME TypeOK, [Next]_vars, NEW k \in Jobs, effect[k] # "none"
    PROVE  effect'[k] # "none"
<1> USE DEF rowVars
<1>1. CASE Bookkeeping
  BY <1>1 DEF Bookkeeping
<1>2. ASSUME NEW j \in Jobs, Enqueue(j) \/ LeaseLapses(j) PROVE effect' = effect
  BY <1>2 DEF Enqueue, LeaseLapses
<1>3. ASSUME NEW w \in Workers, NEW j \in Jobs, Claim(w, j) \/ FailBlocked(w, j)
      PROVE  effect' = effect
  BY <1>3 DEF Claim, FailBlocked
<1>4. ASSUME NEW w \in Workers, NEW j \in Jobs, Reap(w, j) PROVE effect'[k] # "none"
  BY <1>4 DEF Reap, MarkAcknowledged, TypeOK
<1>5. ASSUME NEW c \in Claims, FencedFinish(c) PROVE effect'[k] # "none"
  BY <1>5, FinishAnnounces DEF FencedFinish, TypeOK
<1>6. ASSUME NEW c \in Claims, Acknowledge(c) \/ HeartbeatRenews(c) PROVE effect' = effect
  BY <1>6 DEF Acknowledge, HeartbeatRenews, MarkAcknowledged
<1>7. ASSUME NEW c \in Claims, NEW a \in BOOLEAN, BeginEffectCommit(c, a)
      PROVE  effect'[k] # "none"
  BY <1>7 DEF BeginEffectCommit, TypeOK
<1>8. ASSUME NEW s \in Scans, CancelScan(s) PROVE effect' = effect
  BY <1>8 DEF CancelScan
<1> QED
  BY <1>1, <1>2, <1>3, <1>4, <1>5, <1>6, <1>7, <1>8, StepKinds

\* Only the checkpoint announces one.
LEMMA EffectStarts ==
    ASSUME TypeOK, SeenIsAnnounced, [Next]_vars, NEW k \in Jobs,
           effect[k] = "none", effect'[k] # "none"
    PROVE  \E c \in Claims, a \in BOOLEAN : BeginEffectCommit(c, a)
<1> USE DEF rowVars
<1>1. CASE Bookkeeping
  BY <1>1 DEF Bookkeeping
<1>2. ASSUME NEW j \in Jobs, Enqueue(j) \/ LeaseLapses(j) PROVE FALSE
  BY <1>2 DEF Enqueue, LeaseLapses
<1>3. ASSUME NEW w \in Workers, NEW j \in Jobs, Claim(w, j) \/ FailBlocked(w, j)
      PROVE  FALSE
  BY <1>3 DEF Claim, FailBlocked
<1>4. ASSUME NEW w \in Workers, NEW j \in Jobs, Reap(w, j) PROVE FALSE
  <2>1. EffectStarted(j) => j # k
    BY DEF EffectStarted
  <2> QED
    BY <1>4, <2>1 DEF Reap, MarkAcknowledged, TypeOK
<1>5. ASSUME NEW c \in Claims, FencedFinish(c) PROVE FALSE
  <2>1. c[1] = k => seen[c] = "none"
    BY DEF SeenIsAnnounced
  <2>2. c[1] = k => FinishEffect(c) = "none"
    BY <2>1 DEF FinishEffect
  <2>3. effect' = effect \/ effect' = [effect EXCEPT ![c[1]] = FinishEffect(c)]
    BY <1>5 DEF FencedFinish
  <2> QED
    BY <2>2, <2>3 DEF TypeOK
<1>6. ASSUME NEW c \in Claims, Acknowledge(c) \/ HeartbeatRenews(c) PROVE FALSE
  BY <1>6 DEF Acknowledge, HeartbeatRenews, MarkAcknowledged
<1>8. ASSUME NEW s \in Scans, CancelScan(s) PROVE FALSE
  BY <1>8 DEF CancelScan
<1> QED
  BY <1>1, <1>2, <1>3, <1>4, <1>5, <1>6, <1>8, StepKinds

\* ... and in UploadEffect it announces under the authority of the artifact.
LEMMA UploadAnnounces ==
    ASSUME TypeOK, SeenIsAnnounced, [UNext]_uvars, NEW k \in Jobs,
           effect[k] = "none", effect'[k] # "none"
    PROVE  /\ \A j \in Jobs \ {k} : effect'[j] = effect[j]
           /\ \A j \in Jobs \ {k} : ArtifactOf[j] = ArtifactOf[k] => effect[j] = "none"
<1> USE DEF rowVars
<1>1. CASE QueueSide
  <2>1. ~ \E c \in Claims, a \in BOOLEAN : BeginEffectCommit(c, a)
    <3> SUFFICES ASSUME NEW c \in Claims, NEW a \in BOOLEAN, BeginEffectCommit(c, a)
                 PROVE  FALSE
      OBVIOUS
    <3>1. calling' # calling /\ calling' \subseteq calling /\ runner' = runner
          /\ UNCHANGED <<status, token, owner, attempts, err, lapsed, scanVars, authority,
                         workerVars>>
      BY DEF BeginEffectCommit
    <3>2. effect' # effect
      OBVIOUS
    <3>3. \A j \in Jobs : ~LeaseLapses(j)
      BY <3>2 DEF LeaseLapses
    <3>4. \A w \in Workers, j \in Jobs : ~Claim(w, j) /\ ~FailBlocked(w, j) /\ ~Reap(w, j)
      BY <3>1, <3>2 DEF Claim, FailBlocked, Reap, taskVars
    <3>5. \A d \in Claims : ~TaskStep(d) /\ ~HeartbeatRenews(d) /\ ~OwnershipLost(d)
                                /\ ~ExecutionTimeout(d)
      BY <3>1, <3>2 DEF TaskStep, StartClaim, AssertOwned, ReadEffect, FencedFinish,
           Acknowledge, HeartbeatRenews, OwnershipLost, ExecutionTimeout, taskVars
    <3>6. \A t \in Scans : ~CancelScan(t) /\ ~DeletionCommits(t) /\ ~FailStaleScan(t)
      BY <3>2 DEF CancelScan, DeletionCommits, FailStaleScan
    <3>7. \A w \in Workers : ~RequestDrain(w) /\ ~StopDrained(w) /\ ~Crash(w) /\ ~Restart(w)
      BY <3>2 DEF RequestDrain, StopDrained, Crash, Restart
    <3> QED
      BY <1>1, <3>3, <3>4, <3>5, <3>6, <3>7 DEF QueueSide
  <2> QED
    BY <2>1, UStepRefines, EffectStarts
<1>2. ASSUME NEW c \in Claims, EffectThread(c)
      PROVE  /\ \A j \in Jobs \ {k} : effect'[j] = effect[j]
             /\ \A j \in Jobs \ {k} : ArtifactOf[j] = ArtifactOf[k] => effect[j] = "none"
  <2>1. PICK b \in BOOLEAN : BeginEffectCommit(c, b /\ AuthorityStands(c))
    BY <1>2 DEF EffectThread
  <2>2. AuthorityStands(c) /\ effect' = [effect EXCEPT ![c[1]] = "requesting"]
    BY <2>1 DEF BeginEffectCommit
  <2>3. c[1] \in Jobs /\ c[1] = k
    BY <2>2, ClaimParts DEF TypeOK
  <2> QED
    BY <2>2, <2>3 DEF TypeOK, AuthorityStands, UploadsOf
<1>3. ASSUME NEW c \in Claims, UploadStep(c), ~EffectThread(c) PROVE effect' = effect
  BY <1>3 DEF UploadStep, FailsEarly, AsksForEffect, Sends, ChecksOwnership,
       CommitsReceipt, UploadReturns, UploadTornDown, HandlerReturns, HandlerAbandons,
       HandlerTornDown, BeginEffectCall, vars
<1>4. ASSUME NEW j \in Jobs, QueueUpload(j) PROVE effect' = effect
  BY <1>4 DEF QueueUpload, Enqueue
<1>5. CASE UNCHANGED uvars
  BY <1>5 DEF uvars, vars
<1> QED
  BY <1>1, <1>2, <1>3, <1>4, <1>5 DEF UNext

-------------------------------------------------------------------------------
(* What a step does to a task *)

\* Every job is an upload, so none has a child that could end its row.
LEMMA NoChildren == ChildJobs = {}
BY ArtifactsAssumption, KindsAssumption

\* What _finish reads, and how a task comes to its update.
LEMMA SeenMoves ==
    ASSUME TypeOK, [Next]_vars, NEW c \in Claims
    PROVE  \/ seen'[c] = seen[c] /\ (pc'[c] = "updating" => pc[c] = "updating")
           \/ ReadEffect(c)
<1> USE DEF TypeOK, GoTo
<1>1. ASSUME NEW d \in Claims, TaskStep(d)
      PROVE  \/ seen'[c] = seen[c] /\ (pc'[c] = "updating" => pc[c] = "updating")
             \/ ReadEffect(c)
  <2>1. CASE StartClaim(d) \/ AssertOwned(d) \/ FencedFinish(d) \/ Acknowledge(d)
    BY <2>1 DEF StartClaim, AssertOwned, FencedFinish, Acknowledge
  <2>2. CASE ReadEffect(d)
    BY <2>2 DEF ReadEffect
  <2> QED
    BY <1>1, <2>1, <2>2 DEF TaskStep
<1>2. ASSUME NEW d \in Claims,
             HeartbeatRenews(d) \/ OwnershipLost(d) \/ ExecutionTimeout(d)
      PROVE  seen'[c] = seen[c] /\ (pc'[c] = "updating" => pc[c] = "updating")
  BY <1>2 DEF HeartbeatRenews, OwnershipLost, ExecutionTimeout, taskVars
<1>3. ASSUME NEW j \in Jobs, Enqueue(j) \/ LeaseLapses(j)
      PROVE  seen'[c] = seen[c] /\ (pc'[c] = "updating" => pc[c] = "updating")
  BY <1>3 DEF Enqueue, LeaseLapses, taskVars
<1>4. ASSUME NEW w \in Workers, NEW j \in Jobs, Claim(w, j) \/ FailBlocked(w, j) \/ Reap(w, j)
      PROVE  seen'[c] = seen[c] /\ (pc'[c] = "updating" => pc[c] = "updating")
  BY <1>4 DEF Claim, FailBlocked, Reap, taskVars
<1>5. ASSUME NEW s \in Scans,
             CancelScan(s) \/ DeletionCommits(s) \/ FailStaleScan(s)
      PROVE  seen'[c] = seen[c] /\ (pc'[c] = "updating" => pc[c] = "updating")
  BY <1>5 DEF CancelScan, DeletionCommits, FailStaleScan, taskVars
<1>6. ASSUME NEW w \in Workers, RequestDrain(w) \/ StopDrained(w) \/ Crash(w) \/ Restart(w)
      PROVE  seen'[c] = seen[c] /\ (pc'[c] = "updating" => pc[c] = "updating")
  BY <1>6 DEF RequestDrain, StopDrained, Crash, Restart, taskVars
<1>7. ASSUME NEW d \in Claims, HandlerStep(d)
      PROVE  seen'[c] = seen[c] /\ (pc'[c] = "updating" => pc[c] = "updating")
  BY <1>7, NoChildren
     DEF HandlerStep, HandlerTornDown, HandlerRaises, HandlerAbandons, HandlerReturns,
         HandlerFinishes, BeginEffectCall, BeginEffectCommit, TakeAuthority, DropAuthority,
         ChildCommitsScan, taskVars
<1>8. CASE UNCHANGED vars
  BY <1>8 DEF vars, taskVars
<1> QED
  BY <1>1, <1>2, <1>3, <1>4, <1>5, <1>6, <1>7, <1>8 DEF Next, QueueStep

\* A claim is granted its effect under its fence, while its handler is there.
LEMMA GrantedMoves ==
    ASSUME TypeOK, [Next]_vars, NEW c \in Claims
    PROVE  \/ c \in granted' <=> c \in granted
           \/ /\ c \in granted' /\ ActiveFence(c) /\ HandlerThere(c)
              /\ effect'[c[1]] = "requesting"
              /\ UNCHANGED <<status, attempts, pc, seen>>
<1> USE DEF TypeOK, GoTo
<1>1. ASSUME NEW d \in Claims, NEW a \in BOOLEAN, BeginEffectCommit(d, a)
      PROVE  \/ c \in granted' <=> c \in granted
             \/ /\ c \in granted' /\ ActiveFence(c) /\ HandlerThere(c)
                /\ effect'[c[1]] = "requesting"
                /\ UNCHANGED <<status, attempts, pc, seen>>
  BY <1>1, ClaimParts DEF BeginEffectCommit
<1>2. ASSUME NEW d \in Claims, HandlerStep(d), ~ \E a \in BOOLEAN : BeginEffectCommit(d, a)
      PROVE  granted' = granted
  BY <1>2 DEF HandlerStep, HandlerTornDown, HandlerRaises, HandlerAbandons, HandlerReturns,
       HandlerFinishes, BeginEffectCall, TakeAuthority, DropAuthority, ChildCommitsScan, taskVars
<1>3. ASSUME NEW d \in Claims, TaskStep(d) PROVE granted' = granted
  BY <1>3 DEF TaskStep, StartClaim, AssertOwned, ReadEffect, FencedFinish, Acknowledge
<1>4. ASSUME NEW d \in Claims,
             HeartbeatRenews(d) \/ OwnershipLost(d) \/ ExecutionTimeout(d)
      PROVE  granted' = granted
  BY <1>4 DEF HeartbeatRenews, OwnershipLost, ExecutionTimeout, taskVars
<1>5. ASSUME NEW j \in Jobs, Enqueue(j) \/ LeaseLapses(j) PROVE granted' = granted
  BY <1>5 DEF Enqueue, LeaseLapses, taskVars
<1>6. ASSUME NEW w \in Workers, NEW j \in Jobs, Claim(w, j) \/ FailBlocked(w, j) \/ Reap(w, j)
      PROVE  granted' = granted
  BY <1>6 DEF Claim, FailBlocked, Reap, taskVars
<1>7. ASSUME NEW s \in Scans, CancelScan(s) \/ DeletionCommits(s) \/ FailStaleScan(s) PROVE granted' = granted
  BY <1>7 DEF CancelScan, DeletionCommits, FailStaleScan, taskVars
<1>8. ASSUME NEW w \in Workers, RequestDrain(w) \/ StopDrained(w) \/ Crash(w) \/ Restart(w)
      PROVE  granted' = granted
  BY <1>8 DEF RequestDrain, StopDrained, Crash, Restart, taskVars
<1>9. CASE UNCHANGED vars
  BY <1>9 DEF vars, taskVars
<1> QED
  BY <1>1, <1>2, <1>3, <1>4, <1>5, <1>6, <1>7, <1>8, <1>9 DEF Next, QueueStep

\* An active fence was active before: nobody gives a claim its row back.
LEMMA FenceNotRegained ==
    ASSUME Inv, [Next]_vars, NEW c \in Claims, c[2] <= attempts[c[1]], ActiveFence(c)'
    PROVE  Fence(c) /\ err[c[1]] # "cancel_requested"
<1>1. TypeOK /\ ClaimState /\ c[1] \in Jobs /\ c = <<c[1], c[2]>>
  BY ClaimParts DEF Inv
<1>2. status'[c[1]] = "processing" /\ token'[c[1]] = c[2] /\ err'[c[1]] # "cancel_requested"
  BY DEF ActiveFence, Fence
<1>3. status[c[1]] = "processing" /\ token[c[1]] = c[2]
  BY <1>2, ClaimIsKept
<1>4. Fence(c)
  BY <1>1, <1>3 DEF Fence, ClaimState
<1>5. err[c[1]] # "cancel_requested"
  <2> SUFFICES ASSUME err[c[1]] = "cancel_requested" PROVE FALSE
    OBVIOUS
  <2>1. CancelledMove(c[1])
    BY <1>1, <1>3, CancelOwnsRow
  <2> QED
    BY <1>2, <2>1 DEF CancelledMove
<1> QED
  BY <1>4, <1>5

\* A processing row goes back to pending, or is completed, only by the finish of
\* the claim it carries, or, to pending and without an effect, by the reaper.
EndedBy(c, s) ==
    /\ pc[c] = "updating" /\ ActiveFence(c) /\ FinishStatus(c) = s
    /\ effect'[c[1]] = FinishEffect(c)
LEMMA RowEnds ==
    ASSUME TypeOK, [Next]_vars, NEW k \in Jobs, status[k] = "processing",
           status'[k] \in {"pending", "completed"}
    PROVE  \/ \E c \in Claims : c[1] = k /\ EndedBy(c, status'[k])
           \/ status'[k] = "pending" /\ effect[k] = "none"
<1> USE DEF rowVars
<1>1. CASE Bookkeeping
  BY <1>1 DEF Bookkeeping
<1>2. ASSUME NEW j \in Jobs, Enqueue(j) \/ LeaseLapses(j) PROVE FALSE
  BY <1>2 DEF Enqueue, LeaseLapses, TypeOK
<1>3. ASSUME NEW w \in Workers, NEW j \in Jobs, Claim(w, j) \/ FailBlocked(w, j)
      PROVE  FALSE
  BY <1>3 DEF Claim, FailBlocked, TypeOK
<1>4. ASSUME NEW w \in Workers, NEW j \in Jobs, Reap(w, j)
      PROVE  status'[k] = "pending" /\ effect[k] = "none"
  <2>1. CASE \E e : Release(j, "failed", e)
    BY <2>1, ReleaseRow
  <2>2. CASE Release(j, "pending", "error") /\ ~EffectStarted(j)
    <3>1. j = k /\ status'[k] = "pending"
      BY <2>2, ReleaseRow
    <3>2. effect[k] \in Effects
      BY DEF TypeOK
    <3> QED
      BY <2>2, <3>1, <3>2 DEF EffectStarted, Effects
  <2> QED
    BY <1>4, <2>1, <2>2 DEF Reap, MarkAcknowledged
<1>5. ASSUME NEW c \in Claims, FencedFinish(c) PROVE c[1] = k /\ EndedBy(c, status'[k])
  <2>1. ActiveFence(c) /\ pc[c] = "updating"
    BY <1>5 DEF FencedFinish
  <2>2. PICK e : Release(c[1], FinishStatus(c), e)
    BY <1>5, <2>1 DEF FencedFinish
  <2>3. c[1] = k /\ status'[k] = FinishStatus(c)
    BY <2>2, ReleaseRow, ClaimParts
  <2>4. effect'[c[1]] = FinishEffect(c)
    BY <1>5, <2>1, ClaimParts DEF FencedFinish, TypeOK
  <2> QED
    BY <2>1, <2>3, <2>4 DEF EndedBy
<1>6. ASSUME NEW c \in Claims, Acknowledge(c) PROVE FALSE
  <2>1. CASE Release(c[1], "failed", "cancelled")
    BY <2>1, ReleaseRow, ClaimParts
  <2>2. CASE UNCHANGED status
    BY <2>2
  <2> QED
    BY <1>6, <2>1, <2>2 DEF Acknowledge, MarkAcknowledged
<1>7. ASSUME NEW c \in Claims, HeartbeatRenews(c) PROVE FALSE
  BY <1>7 DEF HeartbeatRenews
<1>8. ASSUME NEW c \in Claims, NEW a \in BOOLEAN, BeginEffectCommit(c, a) PROVE FALSE
  BY <1>8 DEF BeginEffectCommit
<1>9. ASSUME NEW s \in Scans, CancelScan(s) PROVE FALSE
  BY <1>9 DEF CancelScan, TypeOK
<1> QED
  BY <1>1, <1>2, <1>3, <1>4, <1>5, <1>6, <1>7, <1>8, <1>9, StepKinds

\* Only an upload whose receipt is recorded returns a success.
LEMMA SuccessIsRecorded ==
    ASSUME TypeOK, [UNext]_uvars, NEW c \in Claims, result'[c] = "success"
    PROVE  result[c] = "success" \/ request[c] = "recorded"
<1> USE DEF TypeOK, GoTo
<1>1. ASSUME NEW j \in Jobs, QueueUpload(j) PROVE result' = result
  BY <1>1 DEF QueueUpload, Enqueue, taskVars
<1>2. CASE QueueSide
  <2>1. ASSUME NEW j \in Jobs, LeaseLapses(j) PROVE result' = result
    BY <2>1 DEF LeaseLapses, taskVars
  <2>2. ASSUME NEW w \in Workers, NEW j \in Jobs, Claim(w, j) \/ FailBlocked(w, j) \/ Reap(w, j)
        PROVE  result' = result
    BY <2>2 DEF Claim, FailBlocked, Reap, taskVars
  <2>3. ASSUME NEW d \in Claims,
               TaskStep(d) \/ HeartbeatRenews(d) \/ OwnershipLost(d) \/ ExecutionTimeout(d)
        PROVE  result' = result
    BY <2>3 DEF TaskStep, StartClaim, AssertOwned, ReadEffect, FencedFinish, Acknowledge,
         HeartbeatRenews, OwnershipLost, ExecutionTimeout, taskVars
  <2>4. ASSUME NEW s \in Scans, CancelScan(s) \/ DeletionCommits(s) \/ FailStaleScan(s) PROVE result' = result
    BY <2>4 DEF CancelScan, DeletionCommits, FailStaleScan, taskVars
  <2>5. ASSUME NEW w \in Workers, RequestDrain(w) \/ StopDrained(w) \/ Crash(w) \/ Restart(w)
        PROVE  result' = result
    BY <2>5 DEF RequestDrain, StopDrained, Crash, Restart, taskVars
  <2> QED
    BY <1>2, <2>1, <2>2, <2>3, <2>4, <2>5 DEF QueueSide
<1>3. ASSUME NEW d \in Claims, UploadStep(d)
      PROVE  result[c] = "success" \/ request[c] = "recorded"
  <2>1. CASE FailsEarly(d) \/ UploadTornDown(d)
    BY <2>1 DEF FailsEarly, UploadTornDown, HandlerReturns, HandlerAbandons, HandlerTornDown
  <2>2. CASE AsksForEffect(d)
    BY <2>2 DEF AsksForEffect, BeginEffectCall
  <2>3. CASE EffectThread(d)
    BY <2>3 DEF EffectThread, BeginEffectCommit
  <2>4. CASE RequestStep(d)
    BY <2>4 DEF RequestStep, Sends, ChecksOwnership, CommitsReceipt, vars, taskVars
  <2>5. CASE UploadReturns(d)
    <3>1. CASE \E r \in Verdicts(d) : HandlerReturns(d, r)
      <4>1. PICK r \in Verdicts(d) : result' = [result EXCEPT ![d] = r]
        BY <3>1 DEF HandlerReturns
      <4>2. r = "success" => request[d] = "recorded"
        BY <4>1 DEF Verdicts
      <4> QED
        BY <4>1, <4>2
    <3>2. CASE HandlerAbandons(d)
      BY <3>2 DEF HandlerAbandons
    <3> QED
      BY <2>5, <3>1, <3>2 DEF UploadReturns
  <2> QED
    BY <1>3, <2>1, <2>2, <2>3, <2>4, <2>5 DEF UploadStep, RequestStep
<1>4. CASE UNCHANGED uvars
  BY <1>4 DEF uvars, vars, taskVars
<1> QED
  BY <1>1, <1>2, <1>3, <1>4 DEF UNext

\* An effect is confirmed by a finish that read it confirmed, or that brings a
\* success.
LEMMA ConfirmedBy ==
    ASSUME TypeOK, [Next]_vars, NEW k \in Jobs, effect'[k] = "confirmed"
    PROVE  \/ effect[k] = "confirmed"
           \/ \E c \in Claims :
                c[1] = k /\ (seen[c] = "confirmed" \/ result[c] = "success")
                    /\ ActiveFence(c) /\ seen[c] # "none"
<1> USE DEF rowVars
<1>1. CASE Bookkeeping
  BY <1>1 DEF Bookkeeping
<1>2. ASSUME NEW j \in Jobs, Enqueue(j) \/ LeaseLapses(j) PROVE effect' = effect
  BY <1>2 DEF Enqueue, LeaseLapses
<1>3. ASSUME NEW w \in Workers, NEW j \in Jobs, Claim(w, j) \/ FailBlocked(w, j)
      PROVE  effect' = effect
  BY <1>3 DEF Claim, FailBlocked
<1>4. ASSUME NEW w \in Workers, NEW j \in Jobs, Reap(w, j) PROVE effect[k] = "confirmed"
  BY <1>4 DEF Reap, MarkAcknowledged, TypeOK
<1>5. ASSUME NEW c \in Claims, FencedFinish(c), effect[k] # "confirmed"
      PROVE  /\ c[1] = k /\ (seen[c] = "confirmed" \/ result[c] = "success")
             /\ ActiveFence(c) /\ seen[c] # "none"
  <2>1. ActiveFence(c) /\ effect' = [effect EXCEPT ![c[1]] = FinishEffect(c)]
    BY <1>5 DEF FencedFinish
  <2>2. c[1] = k /\ FinishEffect(c) = "confirmed"
    BY <1>5, <2>1 DEF TypeOK
  <2>3. seen[c] # "none"
    BY <1>5, <2>2 DEF FinishEffect
  <2>4. seen[c] = "confirmed" \/ result[c] = "success"
    BY <2>2, <2>3 DEF FinishEffect
  <2> QED
    BY <2>1, <2>2, <2>3, <2>4
<1>6. ASSUME NEW c \in Claims, Acknowledge(c) \/ HeartbeatRenews(c) PROVE effect' = effect
  BY <1>6 DEF Acknowledge, HeartbeatRenews, MarkAcknowledged
<1>7. ASSUME NEW c \in Claims, NEW a \in BOOLEAN, BeginEffectCommit(c, a)
      PROVE  effect[k] = "confirmed"
  BY <1>7 DEF BeginEffectCommit, TypeOK
<1>8. ASSUME NEW s \in Scans, CancelScan(s) PROVE effect' = effect
  BY <1>8 DEF CancelScan
<1> QED
  BY <1>1, <1>2, <1>3, <1>4, <1>5, <1>6, <1>7, <1>8, StepKinds

-------------------------------------------------------------------------------
(* The inductive invariant *)

LEMMA UInvInit == UInit => UInv
<1> SUFFICES ASSUME UInit PROVE UInv
  OBVIOUS
<1>1. Init
  BY DEF UInit
<1>2. Inv
  BY <1>1, InvInit
<1>3. UTypes
  BY DEF UInit, UTypes, Requests
<1>4. SeenIsAnnounced
  BY <1>1 DEF Init, SeenIsAnnounced
<1>5. LastGrant
  BY <1>1 DEF Init, LastGrant
<1>6. Requested
  BY <1>1 DEF UInit, Init, Requested
<1>7. SentOnce
  BY <1>1 DEF UInit, Init, SentOnce
<1>8. OneEffect
  BY <1>1 DEF Init, OneEffect
<1>9. CompletedUploadIsWritten
  BY <1>1 DEF Init, CompletedUploadIsWritten
<1>10. ConfirmedWasSent
  BY <1>1 DEF Init, ConfirmedWasSent
<1> QED
  BY <1>2, <1>3, <1>4, <1>5, <1>6, <1>7, <1>8, <1>9, <1>10 DEF UInv

\* A step of a request: the queue does not move, and the job that sends has not
\* sent before.
LEMMA URequestStep ==
    ASSUME UInv, NEW c \in Claims, RequestStep(c), UNCHANGED vars
    PROVE  UTypes' /\ Requested' /\ SentOnce' /\ CompletedUploadIsWritten'
<1> USE DEF RequestStep, vars, rowVars, taskVars
<1>1. /\ UTypes /\ Requested /\ SentOnce /\ LastGrant /\ CompletedUploadIsWritten
      /\ c[1] \in Jobs /\ c[2] \in 1..MaxAttempts /\ c = <<c[1], c[2]>>
  BY ClaimParts DEF UInv
<1>2. ArtifactOf[c[1]] \in Artifacts
  BY <1>1, ArtifactsAssumption
<1>3. UTypes'
  <2>1. request' \in [Claims -> Requests]
    BY <1>1 DEF UTypes, Requests, Sends, ChecksOwnership, CommitsReceipt
  <2>2. written' \in [Artifacts -> BOOLEAN]
    BY <1>1, <1>2 DEF UTypes, Sends, ChecksOwnership, CommitsReceipt
  <2>3. sent' = sent \/ sent' = [sent EXCEPT ![c[1]] = @ + 1]
    BY DEF Sends, ChecksOwnership, CommitsReceipt
  <2>4. sent[c[1]] + 1 \in Nat
    BY <1>1 DEF UTypes
  <2>5. sent' \in [Jobs -> Nat]
    BY <1>1, <2>3, <2>4 DEF UTypes
  <2> QED
    BY <2>1, <2>2, <2>5 DEF UTypes
<1>4. Requested'
  <2>1. CASE Sends(c)
    BY <1>1, <2>1 DEF Requested, Sends, UTypes
  <2>2. CASE ChecksOwnership(c)
    BY <1>1, <2>2 DEF Requested, ChecksOwnership, UTypes
  <2>3. CASE CommitsReceipt(c)
    BY <1>1, <1>2, <2>3 DEF Requested, CommitsReceipt, UTypes
  <2> QED
    BY <2>1, <2>2, <2>3
<1>5. SentOnce'
  <2> SUFFICES ASSUME NEW j \in Jobs
               PROVE  sent'[j] = IF attempts[j] \in 1..MaxAttempts
                                    /\ request'[<<j, attempts[j]>>] # "none"
                                 THEN 1 ELSE 0
    BY DEF SentOnce
  <2>1. CASE Sends(c)
    <3>1. c[2] = attempts[c[1]] /\ sent[c[1]] = 0
      BY <1>1, <2>1 DEF LastGrant, SentOnce, Sends
    <3>2. CASE j = c[1]
      <4>1. sent'[j] = 1
        BY <1>1, <2>1, <3>1, <3>2 DEF UTypes, Sends
      <4>2. request'[c] # "none"
        BY <1>1, <2>1 DEF UTypes, Sends
      <4> QED
        BY <1>1, <3>1, <3>2, <4>1, <4>2
    <3>3. CASE j # c[1]
      <4>1. sent'[j] = sent[j] /\ request'[<<j, attempts[j]>>] = request[<<j, attempts[j]>>]
        BY <1>1, <2>1, <3>3 DEF UTypes, Sends
      <4> QED
        BY <1>1, <4>1 DEF SentOnce
    <3> QED
      BY <3>2, <3>3
  <2>2. CASE ChecksOwnership(c) \/ CommitsReceipt(c)
    <3>1. sent' = sent
      BY <2>2 DEF ChecksOwnership, CommitsReceipt
    <3>2. \A d \in Claims : request'[d] # "none" <=> request[d] # "none"
      BY <1>1, <2>2 DEF UTypes, ChecksOwnership, CommitsReceipt
    <3>3. attempts[j] \in 1..MaxAttempts => <<j, attempts[j]>> \in Claims
      BY ClaimParts
    <3> QED
      BY <1>1, <3>1, <3>2, <3>3 DEF SentOnce
  <2> QED
    BY <2>1, <2>2
<1>6. CompletedUploadIsWritten'
  <2> SUFFICES ASSUME NEW j \in Jobs, status[j] = "completed"
               PROVE  sent'[j] = 1 /\ effect[j] = "confirmed" /\ written'[ArtifactOf[j]]
    BY DEF CompletedUploadIsWritten
  <2>1. sent[j] = 1 /\ effect[j] = "confirmed" /\ written[ArtifactOf[j]]
    BY <1>1 DEF CompletedUploadIsWritten
  <2>2. written'[ArtifactOf[j]]
    BY <1>1, <2>1, ArtifactsAssumption
       DEF UTypes, Sends, ChecksOwnership, CommitsReceipt
  <2>3. sent'[j] = 1
    <3>1. sent'[j] \in {0, 1}
      BY <1>5 DEF SentOnce
    <3>2. sent'[j] = sent[j] \/ sent'[j] = sent[j] + 1
      BY <1>1 DEF UTypes, Sends, ChecksOwnership, CommitsReceipt
    <3> QED
      BY <2>1, <3>1, <3>2
  <2> QED
    BY <2>1, <2>2, <2>3
<1> QED
  BY <1>3, <1>4, <1>5, <1>6

\* A granted claim stays the last of its row.
LEMMA LastGrantStep ==
    ASSUME UInv, [Next]_vars, NEW c \in granted'
    PROVE  /\ c \in Claims
           /\ c[2] = attempts'[c[1]]
           /\ effect'[c[1]] # "none"
           /\ status'[c[1]] \notin {"absent", "pending"}
           /\ pc'[c] = "updating" /\ ActiveFence(c)' => seen'[c] # "none"
<1>1. /\ Inv /\ TypeOK /\ ClaimState /\ LastGrant /\ SeenIsAnnounced /\ TypeOK'
      /\ \A k \in Jobs : RowMove(k)
  BY InvStep, RowMoves DEF UInv, Inv
<1>2. c \in Claims
  BY <1>1 DEF TypeOK
<1>3. c[1] \in Jobs /\ c[2] \in 1..MaxAttempts /\ c = <<c[1], c[2]>>
  BY <1>2, ClaimParts
<1>4. CASE /\ ActiveFence(c) /\ HandlerThere(c) /\ effect'[c[1]] = "requesting"
           /\ UNCHANGED <<status, attempts, pc, seen>>
  <2>1. status[c[1]] = "processing" /\ attempts[c[1]] = c[2]
    BY <1>1, <1>3, <1>4 DEF ActiveFence, Fence, ClaimState
  <2> QED
    BY <1>2, <1>4, <2>1 DEF HandlerThere
<1>5. CASE c \in granted
  <2>1. /\ c[2] = attempts[c[1]] /\ effect[c[1]] # "none"
        /\ status[c[1]] \notin {"absent", "pending"}
        /\ pc[c] = "updating" /\ ActiveFence(c) => seen[c] # "none"
    BY <1>1, <1>5 DEF LastGrant
  <2>2. attempts'[c[1]] = attempts[c[1]]
    BY <1>1, <1>3, <2>1 DEF RowMove
  <2>3. effect'[c[1]] # "none"
    BY <1>1, <1>3, <2>1, EffectGrows
  <2>4. status'[c[1]] # "absent"
    BY <1>1, <1>3, <2>1 DEF RowMove
  <2>5. status'[c[1]] # "pending"
    <3> SUFFICES ASSUME status'[c[1]] = "pending" PROVE FALSE
      OBVIOUS
    <3>1. status[c[1]] = "processing"
      BY <1>1, <1>3, <2>1 DEF RowMove, Active
    <3>2. PICK d \in Claims : d[1] = c[1] /\ EndedBy(d, "pending")
      BY <1>1, <1>3, <2>1, <3>1, RowEnds
    <3>3. d[2] = attempts[c[1]]
      BY <1>1, <1>3, <3>1, <3>2 DEF EndedBy, ActiveFence, Fence, ClaimState
    <3>4. d = c
      BY <1>3, <2>1, <3>2, <3>3, ClaimParts
    <3>5. seen[c] # "none"
      BY <2>1, <3>2, <3>4 DEF EndedBy
    <3>6. FinishStatus(c) # "pending"
      BY <3>5 DEF FinishStatus
    <3> QED
      BY <3>2, <3>4, <3>6 DEF EndedBy
  <2>6. ASSUME pc'[c] = "updating", ActiveFence(c)' PROVE seen'[c] # "none"
    <3>1. c[2] <= attempts[c[1]]
      BY <1>3, <2>1
    <3>2. Fence(c) /\ err[c[1]] # "cancel_requested"
      BY <1>1, <1>2, <2>6, <3>1, FenceNotRegained
    <3>3. ActiveFence(c)
      BY <3>2 DEF ActiveFence
    <3>4. CASE ReadEffect(c)
      <4>1. c[1] \in EffectJobs
        BY <1>3, ArtifactsAssumption
      <4> QED
        BY <1>1, <1>2, <2>1, <3>3, <3>4, <4>1 DEF ReadEffect, TypeOK
    <3>5. CASE seen'[c] = seen[c] /\ (pc'[c] = "updating" => pc[c] = "updating")
      BY <2>1, <2>6, <3>3, <3>5
    <3> QED
      BY <1>1, <1>2, <3>4, <3>5, SeenMoves
  <2> QED
    BY <1>2, <2>1, <2>2, <2>3, <2>4, <2>5, <2>6
<1> QED
  BY <1>1, <1>2, <1>4, <1>5, GrantedMoves

LEMMA GrantedGrows ==
    ASSUME TypeOK, [Next]_vars PROVE granted \subseteq granted'
<1> SUFFICES ASSUME NEW c \in granted PROVE c \in granted'
  OBVIOUS
<1>1. c \in Claims
  BY DEF TypeOK
<1> QED
  BY <1>1, GrantedMoves

\* A step of the queue, with every request where it was.
LEMMA UQueueStep ==
    ASSUME UInv, [UNext]_uvars, UNCHANGED <<request, sent, written>>
    PROVE  UTypes' /\ Requested' /\ SentOnce' /\ CompletedUploadIsWritten'
<1>1. /\ Inv /\ TypeOK /\ ClaimState /\ VerdictSettled
      /\ UTypes /\ Requested /\ SentOnce /\ LastGrant /\ CompletedUploadIsWritten
  BY DEF UInv, Inv
<1>2. [Next]_vars
  BY UStepRefines
<1>3. TypeOK' /\ (\A k \in Jobs : RowMove(k)) /\ granted \subseteq granted'
  BY <1>1, <1>2, InvStep, RowMoves, GrantedGrows DEF Inv
<1>4. UTypes'
  BY <1>1 DEF UTypes
<1>5. Requested'
  BY <1>1, <1>3, SuccessIsRecorded DEF Requested
<1>6. SentOnce'
  <2> SUFFICES ASSUME NEW j \in Jobs
               PROVE  sent[j] = IF attempts'[j] \in 1..MaxAttempts
                                   /\ request[<<j, attempts'[j]>>] # "none"
                                THEN 1 ELSE 0
    BY DEF SentOnce
  <2>1. CASE attempts'[j] = attempts[j]
    BY <1>1, <2>1 DEF SentOnce
  <2>2. CASE attempts'[j] # attempts[j]
    <3>0. attempts[j] \in 0..MaxAttempts
      BY <1>1 DEF TypeOK
    <3>1. status[j] = "pending" /\ attempts'[j] = attempts[j] + 1
      BY <1>3, <2>2 DEF RowMove
    <3>2. \A n \in 1..MaxAttempts : request[<<j, n>>] = "none"
      <4> SUFFICES ASSUME NEW n \in 1..MaxAttempts, request[<<j, n>>] # "none" PROVE FALSE
        OBVIOUS
      <4>1. <<j, n>> \in granted
        BY <1>1, ClaimParts DEF Requested
      <4> QED
        BY <1>1, <3>1, <4>1 DEF LastGrant
    <3>3. sent[j] = 0
      BY <1>1, <3>2 DEF SentOnce
    <3>4. attempts'[j] \in 1..MaxAttempts => request[<<j, attempts'[j]>>] = "none"
      BY <3>2
    <3> QED
      BY <3>3, <3>4
  <2> QED
    BY <2>1, <2>2
<1>7. CompletedUploadIsWritten'
  <2> SUFFICES ASSUME NEW j \in Jobs, status'[j] = "completed"
               PROVE  sent[j] = 1 /\ effect'[j] = "confirmed" /\ written[ArtifactOf[j]]
    BY DEF CompletedUploadIsWritten
  <2>1. CASE status[j] = "completed"
    <3>1. effect'[j] = effect[j]
      BY <1>1, <1>2, <2>1, EffectStays DEF Terminal
    <3> QED
      BY <1>1, <2>1, <3>1 DEF CompletedUploadIsWritten
  <2>2. CASE status[j] # "completed"
    <3>1. status[j] = "processing"
      BY <1>3, <2>2 DEF RowMove
    <3>2. PICK c \in Claims : c[1] = j /\ EndedBy(c, "completed")
      BY <1>1, <1>2, <3>1, RowEnds
    <3>3. result[c] = "success" /\ seen[c] # "indeterminate"
      BY <3>2 DEF EndedBy, FinishStatus
    <3>4. request[c] = "recorded" /\ c \in granted /\ written[ArtifactOf[j]]
      BY <1>1, <3>2, <3>3 DEF Requested
    <3>5. c[2] = attempts[j] /\ seen[c] # "none" /\ c[2] \in 1..MaxAttempts /\ c = <<j, c[2]>>
      BY <1>1, <3>2, <3>4, ClaimParts DEF LastGrant, EndedBy
    <3>6. sent[j] = 1
      BY <1>1, <3>4, <3>5 DEF SentOnce
    <3>7. seen[c] \in {"requesting", "confirmed"}
      BY <1>1, <3>3, <3>5 DEF TypeOK, Effects
    <3>8. effect'[j] = "confirmed"
      BY <3>2, <3>3, <3>7 DEF EndedBy, FinishEffect
    <3> QED
      BY <3>4, <3>6, <3>8
  <2> QED
    BY <2>1, <2>2
<1> QED
  BY <1>4, <1>5, <1>6, <1>7

\* A request that was sent stays sent.
LEMMA SentKept ==
    ASSUME UInv, [UNext]_uvars, SentOnce', NEW j \in Jobs, sent[j] = 1
    PROVE  sent'[j] = 1
<1>1. CASE UNCHANGED <<request, sent, written>>
  BY <1>1
<1>2. ASSUME NEW c \in Claims, RequestStep(c) PROVE sent'[j] = 1
  <2>1. sent'[j] \in {0, 1}
    BY DEF SentOnce
  <2>2. sent'[j] = sent[j] \/ sent'[j] = sent[j] + 1
    BY <1>2 DEF UInv, UTypes, RequestStep, Sends, ChecksOwnership, CommitsReceipt
  <2> QED
    BY <2>1, <2>2
<1> QED
  BY <1>1, <1>2, UStepKinds

LEMMA UInvStep == UInv /\ [UNext]_uvars => UInv'
<1> SUFFICES ASSUME UInv, [UNext]_uvars PROVE UInv'
  OBVIOUS
<1>1. /\ Inv /\ TypeOK /\ ClaimState /\ SeenIsAnnounced /\ LastGrant /\ OneEffect
  BY DEF UInv, Inv
<1>2. [Next]_vars
  BY UStepRefines
<1>3. Inv' /\ TypeOK'
  BY <1>1, <1>2, InvStep DEF Inv
<1>4. UTypes' /\ Requested' /\ SentOnce' /\ CompletedUploadIsWritten'
  BY UStepKinds, URequestStep, UQueueStep
<1>5. SeenIsAnnounced'
  <2> SUFFICES ASSUME NEW c \in Claims, seen'[c] # "none" PROVE effect'[c[1]] # "none"
    BY DEF SeenIsAnnounced
  <2>1. c[1] \in Jobs
    BY ClaimParts
  <2>2. effect[c[1]] # "none"
    <3>1. CASE seen'[c] = seen[c]
      BY <1>1, <3>1 DEF SeenIsAnnounced
    <3>2. CASE ReadEffect(c)
      BY <1>1, <3>2 DEF ReadEffect, TypeOK
    <3> QED
      BY <1>1, <1>2, <3>1, <3>2, SeenMoves
  <2> QED
    BY <1>1, <1>2, <2>1, <2>2, EffectGrows
<1>6. LastGrant'
  BY <1>2, LastGrantStep DEF LastGrant
<1>7. OneEffect'
  <2> SUFFICES ASSUME NEW j \in Jobs, NEW k \in Jobs, j # k, ArtifactOf[j] = ArtifactOf[k],
                      effect'[j] # "none", effect'[k] # "none"
               PROVE  FALSE
    BY DEF OneEffect
  <2>1. CASE effect[j] = "none"
    BY <1>1, <2>1, UploadAnnounces
  <2>2. CASE effect[k] = "none"
    BY <1>1, <2>2, UploadAnnounces
  <2>3. effect[j] = "none" \/ effect[k] = "none"
    BY <1>1 DEF OneEffect
  <2> QED
    BY <2>1, <2>2, <2>3
<1>8. \A j \in Jobs : sent[j] = 1 => sent'[j] = 1
  BY <1>4, SentKept
<1>9. ASSUME NEW j \in Jobs, effect'[j] = "confirmed" PROVE sent'[j] = 1
  <2>1. CASE effect[j] = "confirmed"
    BY <1>8, <2>1 DEF UInv, ConfirmedWasSent
  <2>2. ASSUME NEW c \in Claims, c[1] = j, seen[c] = "confirmed" PROVE sent'[j] = 1
    BY <1>8, <2>2 DEF UInv, ConfirmedWasSent
  <2>3. ASSUME NEW c \in Claims, c[1] = j, result[c] = "success" PROVE sent'[j] = 1
    <3>1. request[c] # "none" /\ c \in granted
      BY <2>3 DEF UInv, Requested
    <3>2. c[2] = attempts[j] /\ c[2] \in 1..MaxAttempts /\ c = <<j, c[2]>>
      BY <1>1, <2>3, <3>1, ClaimParts DEF LastGrant
    <3>3. sent[j] = 1
      BY <3>1, <3>2 DEF UInv, SentOnce
    <3> QED
      BY <1>8, <3>3
  <2> QED
    BY <1>1, <1>2, <1>9, <2>1, <2>2, <2>3, ConfirmedBy
<1>10. ASSUME NEW c \in Claims, seen'[c] = "confirmed" PROVE sent'[c[1]] = 1
  <2>1. c[1] \in Jobs
    BY ClaimParts
  <2>2. CASE seen'[c] = seen[c]
    BY <1>8, <1>10, <2>1, <2>2 DEF UInv, ConfirmedWasSent
  <2>3. CASE ReadEffect(c)
    <3>1. effect[c[1]] = "confirmed"
      BY <1>1, <1>10, <2>3 DEF ReadEffect, TypeOK
    <3> QED
      BY <1>8, <2>1, <3>1 DEF UInv, ConfirmedWasSent
  <2> QED
    BY <1>1, <1>2, <2>2, <2>3, SeenMoves
<1>11. ConfirmedWasSent'
  BY <1>9, <1>10 DEF ConfirmedWasSent
<1> QED
  BY <1>3, <1>4, <1>5, <1>6, <1>7, <1>11 DEF UInv

LEMMA UInvHolds == USpec => []UInv
BY UInvInit, UInvStep, PTL DEF USpec

-------------------------------------------------------------------------------
(* Theorems *)

\* Uploads keep to the queue's own steps: what holds of JobQueue holds of them.
THEOREM UploadImplementsQueue == USpec => Spec
<1>1. UInit => Init
  BY DEF UInit
<1> QED
  BY <1>1, UStepRefines, PTL DEF USpec, Spec

\* The types of the upload's state, and one request at most of every job.
THEOREM UploadTypeCorrect == USpec => []UTypeOK
<1>1. UInv => UTypeOK
  <2> SUFFICES ASSUME UInv PROVE UTypeOK
    OBVIOUS
  <2>1. TypeOK /\ UTypes /\ SentOnce
    BY DEF UInv, Inv
  <2>2. \A j \in Jobs : sent[j] \in 0..MaxAttempts
    <3>1. \A j \in Jobs : sent[j] \in {0, 1}
      BY <2>1 DEF SentOnce
    <3>2. {0, 1} \subseteq 0..MaxAttempts
      BY MaxAttemptsPositive
    <3> QED
      BY <3>1, <3>2
  <2>3. sent \in [Jobs -> 0..MaxAttempts]
    BY <2>1, <2>2 DEF UTypes
  <2> QED
    BY <2>1, <2>3 DEF UTypes, UTypeOK
<1> QED
  BY <1>1, UInvHolds, PTL

\* What sent[j] = 1 says of the row.
LEMMA SentIsAnnounced ==
    ASSUME UInv, NEW j \in Jobs
    PROVE  /\ sent[j] \in {0, 1}
           /\ sent[j] = 1 => effect[j] # "none" /\ status[j] \notin {"absent", "pending"}
<1>1. sent[j] \in {0, 1}
  BY DEF UInv, SentOnce
<1>2. ASSUME sent[j] = 1 PROVE effect[j] # "none" /\ status[j] \notin {"absent", "pending"}
  <2>1. attempts[j] \in 1..MaxAttempts /\ request[<<j, attempts[j]>>] # "none"
    BY <1>2 DEF UInv, SentOnce
  <2>2. <<j, attempts[j]>> \in granted
    BY <2>1, ClaimParts DEF UInv, Requested
  <2> QED
    BY <2>2 DEF UInv, LastGrant
<1> QED
  BY <1>1, <1>2

\* One artifact reaches its provider at most once, over all attempts of all upload
\* jobs ever queued for it.
THEOREM AtMostOneWriteHolds == USpec => []AtMostOneWrite
<1>1. UInv => AtMostOneWrite
  <2> SUFFICES ASSUME UInv, NEW j \in Jobs, NEW k \in Jobs, ArtifactOf[j] = ArtifactOf[k]
               PROVE  sent[j] <= 1 /\ (j # k => sent[j] + sent[k] <= 1)
    BY DEF AtMostOneWrite
  <2>1. sent[j] \in {0, 1} /\ sent[k] \in {0, 1}
    BY SentIsAnnounced
  <2>2. j # k => sent[j] = 0 \/ sent[k] = 0
    BY <2>1, SentIsAnnounced DEF UInv, OneEffect
  <2> QED
    BY <2>1, <2>2
<1> QED
  BY <1>1, UInvHolds, PTL

\* A job whose request may have left is never put back in the queue.
THEOREM NeverRequeuedAfterSendHolds == USpec => []NeverRequeuedAfterSend
<1>1. UInv => NeverRequeuedAfterSend
  <2> SUFFICES ASSUME UInv, NEW j \in Jobs, sent[j] > 0 PROVE status[j] # "pending"
    BY DEF NeverRequeuedAfterSend
  <2>1. sent[j] = 1
    BY SentIsAnnounced
  <2> QED
    BY <2>1, SentIsAnnounced
<1> QED
  BY <1>1, UInvHolds, PTL

\* A completed upload wrote its artifact, and the receipt says so.
THEOREM CompletedUploadIsWrittenHolds == USpec => []CompletedUploadIsWritten
<1>1. UInv => CompletedUploadIsWritten
  BY DEF UInv
<1> QED
  BY <1>1, UInvHolds, PTL

-------------------------------------------------------------------------------
(* The promise to the outside world *)

\* The phase and the verdict of an item, without their functions.
LEMMA PromiseValues ==
    ASSUME NEW j \in Jobs
    PROVE  /\ PhaseOf[j] = IF sent[j] > 0 THEN "sent"
                           ELSE IF effect[j] # "none" THEN "announced" ELSE "idle"
           /\ VerdictOf[j] = IF status[j] \notin Terminal THEN "open"
                             ELSE IF effect[j] = "none" THEN "clean"
                             ELSE IF effect[j] = "confirmed" THEN "confirmed" ELSE "unknown"
BY DEF PhaseOf, VerdictOf

LEMMA PhaseMoves ==
    ASSUME NEW k, NEW p, \A j \in Jobs : PhaseOf'[j] = IF j = k THEN p ELSE PhaseOf[j]
    PROVE  PhaseOf' = [PhaseOf EXCEPT ![k] = p]
<1>1. PhaseOf' = [j \in Jobs |-> PhaseOf'[j]] /\ PhaseOf = [j \in Jobs |-> PhaseOf[j]]
  BY DEF PhaseOf
<1> HIDE DEF PhaseOf
<1> QED
  BY <1>1

LEMMA PromiseInit == UInit => Promise!Init
<1> SUFFICES ASSUME UInit PROVE Promise!Init
  OBVIOUS
<1>1. \A j \in Jobs : sent[j] = 0 /\ effect[j] = "none" /\ status[j] \notin Terminal
  BY DEF UInit, Init, Terminal
<1>2. PhaseOf = [j \in Jobs |-> "idle"]
  BY <1>1 DEF PhaseOf
<1>3. VerdictOf = [j \in Jobs |-> "open"]
  BY <1>1 DEF VerdictOf
<1> QED
  BY <1>2, <1>3 DEF Promise!Init

\* A verdict, once reached, stays.
LEMMA VerdictStays ==
    ASSUME UInv, [UNext]_uvars, NEW j \in Jobs, VerdictOf'[j] # VerdictOf[j]
    PROVE  VerdictOf[j] = "open" /\ status'[j] \in Terminal
<1>1. TypeOK /\ ClaimState /\ [Next]_vars
  BY UStepRefines DEF UInv, Inv
<1>2. status[j] \in Terminal => status'[j] = status[j] /\ effect'[j] = effect[j]
  BY <1>1, RowMoves, EffectStays DEF RowMove, Terminal, Active
<1>3. VerdictOf'[j] = IF status'[j] \notin Terminal THEN "open"
                      ELSE IF effect'[j] = "none" THEN "clean"
                      ELSE IF effect'[j] = "confirmed" THEN "confirmed" ELSE "unknown"
  BY DEF VerdictOf
<1>4. status[j] \notin Terminal
  BY <1>2, <1>3, PromiseValues
<1> QED
  BY <1>3, <1>4, PromiseValues

\* A request that leaves is a step of the promise, and so is one that stays.
LEMMA PromiseRequest ==
    ASSUME UInv, NEW c \in Claims, RequestStep(c), UNCHANGED vars
    PROVE  [Promise!Next]_<<PhaseOf, VerdictOf>>
<1> USE DEF vars, rowVars
<1>1. /\ UTypes /\ c[1] \in Jobs /\ c[2] \in 1..MaxAttempts /\ c = <<c[1], c[2]>>
  BY ClaimParts DEF UInv
<1>2. VerdictOf' = VerdictOf
  BY DEF VerdictOf
<1>3. CASE Sends(c)
  <2>1. request[c] = "none" /\ c \in granted /\ sent' = [sent EXCEPT ![c[1]] = @ + 1]
    BY <1>3 DEF Sends
  <2>2. c[2] = attempts[c[1]] /\ effect[c[1]] # "none"
    BY <2>1 DEF UInv, LastGrant
  <2>3. sent[c[1]] = 0
    BY <1>1, <2>1, <2>2 DEF UInv, SentOnce
  <2>4. effect[c[1]] # "confirmed"
    BY <1>1, <2>3 DEF UInv, ConfirmedWasSent
  <2>5. PhaseOf[c[1]] = "announced" /\ VerdictOf[c[1]] \in {"open", "unknown"}
    BY <1>1, <2>2, <2>3, <2>4, PromiseValues
  <2>6. sent' = [sent EXCEPT ![c[1]] = 1]
    BY <1>1, <2>1, <2>3 DEF UTypes
  <2>7. PhaseOf' = [PhaseOf EXCEPT ![c[1]] = "sent"]
    <3>1. \A j \in Jobs : sent'[j] = IF j = c[1] THEN 1 ELSE sent[j]
      BY <1>1, <2>6 DEF UTypes
    <3>2. \A j \in Jobs : PhaseOf'[j] = IF j = c[1] THEN "sent" ELSE PhaseOf[j]
      BY <3>1 DEF PhaseOf
    <3> QED
      BY <3>2, PhaseMoves
  <2>8. Promise!Send(c[1])
    BY <1>2, <2>5, <2>7 DEF Promise!Send
  <2> QED
    BY <1>1, <2>8 DEF Promise!Next
<1>4. CASE ChecksOwnership(c) \/ CommitsReceipt(c)
  <2>1. sent' = sent
    BY <1>4 DEF ChecksOwnership, CommitsReceipt
  <2>2. PhaseOf' = PhaseOf
    BY <2>1 DEF PhaseOf
  <2> QED
    BY <1>2, <2>2
<1> QED
  BY <1>3, <1>4 DEF RequestStep

\* A step of the queue announces one effect, or concludes.
LEMMA PromiseQueue ==
    ASSUME UInv, [UNext]_uvars, UNCHANGED <<request, sent, written>>
    PROVE  [Promise!Next]_<<PhaseOf, VerdictOf>>
<1>1. TypeOK /\ ClaimState /\ SeenIsAnnounced /\ [Next]_vars /\ UInv'
  BY UStepRefines, UInvStep DEF UInv, Inv
<1>2. CASE \E k \in Jobs : effect[k] = "none" /\ effect'[k] # "none"
  <2>1. PICK k \in Jobs : effect[k] = "none" /\ effect'[k] # "none"
    BY <1>2
  <2>2. PICK c \in Claims, a \in BOOLEAN : BeginEffectCommit(c, a)
    BY <1>1, <2>1, EffectStarts
  <2>3. status' = status
    BY <2>2 DEF BeginEffectCommit
  <2>4. \A j \in Jobs \ {k} : effect'[j] = effect[j]
    BY <1>1, <2>1, UploadAnnounces
  <2>5. status[k] \notin Terminal
    BY <1>1, <2>1, EffectStays
  <2>6. sent[k] = 0
    BY <2>1, SentIsAnnounced
  <2>7. PhaseOf[k] = "idle" /\ VerdictOf[k] = "open"
    BY <2>1, <2>5, <2>6, PromiseValues
  <2>8. VerdictOf' = VerdictOf
    BY <2>3, <2>4, <2>5 DEF VerdictOf
  <2>9. PhaseOf' = [PhaseOf EXCEPT ![k] = "announced"]
    <3>1. \A j \in Jobs : PhaseOf'[j] = IF j = k THEN "announced" ELSE PhaseOf[j]
      BY <2>1, <2>4, <2>6 DEF PhaseOf
    <3> QED
      BY <3>1, PhaseMoves
  <2>10. Promise!Announce(k)
    BY <2>7, <2>8, <2>9 DEF Promise!Announce
  <2> QED
    BY <2>10 DEF Promise!Next
<1>3. CASE ~ \E k \in Jobs : effect[k] = "none" /\ effect'[k] # "none"
  <2>1. \A j \in Jobs : effect'[j] = "none" <=> effect[j] = "none"
    BY <1>1, <1>3, EffectGrows
  <2>2. PhaseOf' = PhaseOf
    BY <2>1 DEF PhaseOf
  <2>3. VerdictOf' \in [Jobs -> Promise!Verdicts]
    BY DEF VerdictOf, Promise!Verdicts
  <2>4. ASSUME NEW j \in Jobs, VerdictOf'[j] # VerdictOf[j]
        PROVE  VerdictOf[j] = "open" /\ VerdictOf'[j] \in Promise!Earned(j)
    <3>1. VerdictOf[j] = "open" /\ status'[j] \in Terminal
      BY <2>4, VerdictStays
    <3>2. VerdictOf'[j] = IF effect'[j] = "none" THEN "clean"
                          ELSE IF effect'[j] = "confirmed" THEN "confirmed" ELSE "unknown"
      BY <3>1 DEF VerdictOf
    <3>3. sent[j] \in {0, 1} /\ (sent[j] = 1 => effect[j] # "none")
      BY SentIsAnnounced
    <3>4. effect'[j] = "confirmed" => sent[j] = 1
      BY <1>1 DEF UInv, ConfirmedWasSent
    <3>5. CASE effect[j] = "none"
      <4>1. PhaseOf[j] = "idle"
        BY <3>3, <3>5, PromiseValues
      <4> QED
        BY <2>1, <3>1, <3>2, <3>5, <4>1 DEF Promise!Earned
    <3>6. CASE effect[j] # "none" /\ sent[j] = 0
      <4>1. PhaseOf[j] = "announced"
        BY <3>6, PromiseValues
      <4> QED
        BY <2>1, <3>1, <3>2, <3>4, <3>6, <4>1 DEF Promise!Earned
    <3>7. CASE effect[j] # "none" /\ sent[j] = 1
      <4>1. PhaseOf[j] = "sent"
        BY <3>7, PromiseValues
      <4> QED
        BY <2>1, <3>1, <3>2, <3>7, <4>1 DEF Promise!Earned
    <3> QED
      BY <3>3, <3>5, <3>6, <3>7
  <2>5. Promise!Conclude
    BY <2>2, <2>3, <2>4 DEF Promise!Conclude
  <2> QED
    BY <2>5 DEF Promise!Next
<1> QED
  BY <1>2, <1>3

\* The queue keeps what AtMostOnceEffect promises of every upload: announced before
\* it may leave, sent at most once, and no verdict claims more than is known.
THEOREM UploadKeepsPromise == USpec => KeepsPromise
<1>1. UInv /\ [UNext]_uvars => [Promise!Next]_<<PhaseOf, VerdictOf>>
  BY UStepKinds, PromiseRequest, PromiseQueue
<1> QED
  BY <1>1, PromiseInit, UInvHolds, PTL DEF USpec, KeepsPromise, Promise!Spec

===============================================================================

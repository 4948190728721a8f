---------------------------- MODULE VisualAnalysis ----------------------------
(***************************************************************************)
(* Durable visual analyses (src/services/visual_analysis_service.py): one  *)
(* row per request for a description of an image, one row per attempt, and *)
(* any number of callers, in API tasks and scanner children, that run      *)
(* DurableVisualAnalysisRecorder.execute for the same request.  execute is *)
(* four transactions around a call of a model provider; between them other *)
(* callers, the reaper of the queue and the deletion of the scan act.      *)
(*                                                                         *)
(* A lease is never renewed: the recovery of an expired claim does not     *)
(* know whether its caller is dead or slow.                                *)
(***************************************************************************)
EXTENDS Naturals, FiniteSets

CONSTANTS
    Analyses,       \* canonical requests (department, request digest)
    Callers,        \* tasks that run execute
    MaxAttempts     \* max_attempts of every row

ASSUME VisualAssumption == MaxAttempts \in Nat \ {0}

Attempts == 1..MaxAttempts
Counts   == 0..MaxAttempts

VARIABLES
    \* the row of an analysis and its attempts
    status,     \* "absent" before the insert, "deleted" with its scan
    token,      \* claim_token, as the number of the attempt it was made for; 0 is NULL
    count,      \* attempt_count
    lapsed,     \* lease_expires_at < now
    attempt,    \* status of each attempt row
    proposal,   \* the attempt whose proposal the row holds; 0 is NULL
    fix,        \* the attempt whose proposal the review fix shows; 0 without one
    \* the callers
    pc,
    work,       \* the analysis a caller is about
    mine,       \* the attempt it claimed
    outcome,    \* what the provider answered
    answer,     \* what execute returned last
    calls       \* provider calls made for each attempt

rowVars    == <<status, token, count, lapsed, attempt, proposal, fix>>
callerVars == <<pc, work, mine, outcome, answer, calls>>
vars == <<rowVars, callerVars>>

Succeeded == {"succeeded", "review_required"}
Final     == Succeeded \cup {"terminal_failure"}
Claimable == {"queued", "retryable_failure"}
Statuses  == {"absent", "running", "deleted"} \cup Claimable \cup Final
AttemptStatuses ==
    {"none", "running", "succeeded", "retryable_failure", "terminal_failure"}
AttemptTable == [Analyses -> [Attempts -> AttemptStatuses]]
Outcomes  == {"none", "proposal", "unusable", "retryable", "fatal"}
Answers   == {"none", "success", "failure", "in_progress", "raised"}
Pcs       == {"idle", "eligible", "claimed", "invoking", "closing", "refused"}

VTypeOK ==
    /\ status   \in [Analyses -> Statuses]
    /\ token    \in [Analyses -> Counts]
    /\ count    \in [Analyses -> Counts]
    /\ lapsed   \in [Analyses -> BOOLEAN]
    /\ attempt  \in AttemptTable
    /\ proposal \in [Analyses -> Counts]
    /\ fix      \in [Analyses -> Counts]
    /\ pc       \in [Callers -> Pcs]
    /\ work     \in [Callers -> Analyses]
    /\ mine     \in [Callers -> Counts]
    /\ outcome  \in [Callers -> Outcomes]
    /\ answer   \in [Callers -> Answers]
    /\ calls    \in [Analyses -> [Attempts -> Nat]]

Init ==
    /\ status   = [a \in Analyses |-> "absent"]
    /\ token    = [a \in Analyses |-> 0]
    /\ count    = [a \in Analyses |-> 0]
    /\ lapsed   = [a \in Analyses |-> FALSE]
    /\ attempt  = [a \in Analyses |-> [n \in Attempts |-> "none"]]
    /\ proposal = [a \in Analyses |-> 0]
    /\ fix      = [a \in Analyses |-> 0]
    /\ pc       = [k \in Callers |-> "idle"]
    /\ work     \in [Callers -> Analyses]
    /\ mine     = [k \in Callers |-> 0]
    /\ outcome  = [k \in Callers |-> "none"]
    /\ answer   = [k \in Callers |-> "none"]
    /\ calls    = [a \in Analyses |-> [n \in Attempts |-> 0]]

SetAttempt(a, n, s) == [attempt EXCEPT ![a][n] = s]

-------------------------------------------------------------------------------
(* Recovery: recover_stale_visual_analyses *)

\* Mutant: the verdict of a failed attempt is stored as it came.
AfterFailureRaw(a, retryable) == IF retryable THEN "retryable" ELSE "fatal"

\* Where a failed or interrupted attempt leaves its analysis, and itself.
AfterFailure(a, retryable) ==
    IF retryable /\ count[a] < MaxAttempts THEN "retryable_failure" ELSE "terminal_failure"

\* Mutant: only analyses that may be tried again are recovered.
StaleIfRetryable(a) ==
    status[a] = "running" /\ lapsed[a] /\ count[a] < MaxAttempts

\* An expired claim whose attempt is still open.
Stale(a) ==
    /\ status[a] = "running"
    /\ lapsed[a]
    /\ attempt[a][count[a]] = "running"

\* Mutant: an interrupted attempt does not count.
RecoverUncounted ==
    /\ status' = [a \in Analyses |-> IF Stale(a) THEN "retryable_failure" ELSE status[a]]
    /\ attempt' = [a \in Analyses |->
                    IF Stale(a) THEN [attempt[a] EXCEPT ![count[a]] = "none"] ELSE attempt[a]]
    /\ count' = [a \in Analyses |-> IF Stale(a) THEN count[a] - 1 ELSE count[a]]
    /\ token' = [a \in Analyses |-> IF Stale(a) THEN 0 ELSE token[a]]
    /\ lapsed' = [a \in Analyses |-> IF Stale(a) THEN FALSE ELSE lapsed[a]]
    /\ UNCHANGED <<proposal, fix>>

\* Every stale analysis in one transaction.
RecoverStale ==
    /\ status' = [a \in Analyses |-> IF Stale(a) THEN AfterFailure(a, TRUE) ELSE status[a]]
    /\ attempt' = [a \in Analyses |->
                    IF Stale(a) THEN [attempt[a] EXCEPT ![count[a]] = AfterFailure(a, TRUE)]
                    ELSE attempt[a]]
    /\ token' = [a \in Analyses |-> IF Stale(a) THEN 0 ELSE token[a]]
    /\ lapsed' = [a \in Analyses |-> IF Stale(a) THEN FALSE ELSE lapsed[a]]
    /\ UNCHANGED <<count, proposal, fix>>

\* At the end of every reap_stale_jobs.
Reap == (\E a \in Analyses : Stale(a)) /\ RecoverStale /\ UNCHANGED callerVars

Lapse(a) ==
    /\ status[a] = "running"
    /\ ~lapsed[a]
    /\ lapsed' = [lapsed EXCEPT ![a] = TRUE]
    /\ UNCHANGED <<status, token, count, attempt, proposal, fix, callerVars>>

-------------------------------------------------------------------------------
(* execute, before the call *)

\* enqueue_visual_analysis of a new request.  An unreadable source is a
\* terminal failure with its one attempt on record.
Create(a) ==
    /\ status[a] = "absent"
    /\ \/ status' = [status EXCEPT ![a] = "queued"] /\ UNCHANGED <<count, attempt>>
       \/ /\ status' = [status EXCEPT ![a] = "terminal_failure"]
          /\ count' = [count EXCEPT ![a] = 1]
          /\ attempt' = SetAttempt(a, 1, "terminal_failure")
    /\ UNCHANGED <<token, lapsed, proposal, fix>>

\* The first transaction: insert the row or find it, recover when it is running,
\* and go on only with work that may be claimed.  For a scan that is gone
\* enqueue_visual_analysis raises.
Execute(k, a) ==
    /\ pc[k] = "idle"
    /\ \/ Create(a)
       \/ status[a] = "running" /\ RecoverStale
       \/ status[a] \notin {"absent", "running"} /\ UNCHANGED rowVars
    /\ work' = [work EXCEPT ![k] = a]
    /\ pc' = [pc EXCEPT ![k] = IF status'[a] \in Claimable THEN "eligible" ELSE "idle"]
    /\ answer' = [answer EXCEPT ![k] =
                    CASE status'[a] \in Succeeded -> "success"
                      [] status'[a] = "terminal_failure" -> "failure"
                      [] status'[a] = "running" -> "in_progress"
                      [] status'[a] = "deleted" -> "raised"
                      [] OTHER -> "none"]
    /\ UNCHANGED <<mine, outcome, calls>>

Raises(k) ==
    /\ pc' = [pc EXCEPT ![k] = "idle"]
    /\ answer' = [answer EXCEPT ![k] = "raised"]

\* claim_visual_analysis.  Another caller may have been faster.
ClaimAnalysis(k) ==
    /\ pc[k] = "eligible"
    /\ LET a == work[k]
           n == count[a] + 1
       IN IF status[a] \in Claimable /\ count[a] < MaxAttempts
          THEN /\ status'  = [status EXCEPT ![a] = "running"]
               /\ count'   = [count EXCEPT ![a] = n]
               /\ token'   = [token EXCEPT ![a] = n]
               /\ lapsed'  = [lapsed EXCEPT ![a] = FALSE]
               /\ attempt' = SetAttempt(a, n, "running")
               /\ mine'    = [mine EXCEPT ![k] = n]
               /\ pc'      = [pc EXCEPT ![k] = "claimed"]
               /\ UNCHANGED <<proposal, fix, answer>>
          ELSE Raises(k) /\ UNCHANGED <<rowVars, mine>>
    /\ UNCHANGED <<work, outcome, calls>>

Invoke(k) ==
    /\ pc[k] = "claimed"
    /\ pc' = [pc EXCEPT ![k] = "invoking"]
    /\ calls' = [calls EXCEPT ![work[k]][mine[k]] = @ + 1]
    /\ UNCHANGED <<rowVars, work, mine, outcome, answer>>

\* The provider answers with a proposal, one that does not validate, or an error
\* that classify_visual_failure or _classify_result_failure calls retryable or not.
ProviderAnswers(k, o) ==
    /\ pc[k] = "invoking"
    /\ pc' = [pc EXCEPT ![k] = "closing"]
    /\ outcome' = [outcome EXCEPT ![k] = o]
    /\ UNCHANGED <<rowVars, work, mine, answer, calls>>

-------------------------------------------------------------------------------
(* execute, after the call *)

\* Mutant: whoever is running may be closed by anyone.
OwnsAnyRun(k) == status[work[k]] = "running"

\* Mutant: the claim is remembered, and not looked for.
OwnsByMemory(k) == mine[k] # 0 /\ status[work[k]] # "deleted"

\* _owned_running_attempt
Owns(k) ==
    LET a == work[k] IN
    /\ status[a] = "running"
    /\ token[a] = mine[k]
    /\ attempt[a][count[a]] = "running"

\* Mutant: _clear_claim is forgotten.
CloseKeepsClaim(a, rowStatus, attemptStatus) ==
    /\ status'  = [status EXCEPT ![a] = rowStatus]
    /\ attempt' = SetAttempt(a, count[a], attemptStatus)
    /\ UNCHANGED <<token, lapsed, count>>

\* The row and its open attempt are closed together.
Close(a, rowStatus, attemptStatus) ==
    /\ status'  = [status EXCEPT ![a] = rowStatus]
    /\ attempt' = SetAttempt(a, count[a], attemptStatus)
    /\ token'   = [token EXCEPT ![a] = 0]
    /\ lapsed'  = [lapsed EXCEPT ![a] = FALSE]
    /\ UNCHANGED count

\* Mutant: the caller is answered before it is known that the result was kept.
CompleteAnswersFirst(k) ==
    /\ pc[k] = "closing"
    /\ outcome[k] = "proposal"
    /\ pc' = [pc EXCEPT ![k] = "idle"]
    /\ answer' = [answer EXCEPT ![k] = "success"]
    /\ UNCHANGED <<rowVars, work, mine, outcome, calls>>

\* complete_visual_analysis, with the review fix of a proposal that changes
\* the document.  A lost claim or an unusable proposal is a ValueError.
Complete(k) ==
    /\ pc[k] = "closing"
    /\ outcome[k] \in {"proposal", "unusable"}
    /\ IF Owns(k) /\ outcome[k] = "proposal"
       THEN /\ proposal' = [proposal EXCEPT ![work[k]] = mine[k]]
            /\ \/ /\ Close(work[k], "review_required", "succeeded")
                  /\ fix' = [fix EXCEPT ![work[k]] = mine[k]]
               \/ Close(work[k], "succeeded", "succeeded") /\ UNCHANGED fix
            /\ pc' = [pc EXCEPT ![k] = "idle"]
            /\ answer' = [answer EXCEPT ![k] = "success"]
       ELSE /\ pc' = [pc EXCEPT ![k] = "refused"]
            /\ UNCHANGED <<rowVars, answer>>
    /\ UNCHANGED <<work, mine, outcome, calls>>

\* fail_visual_analysis, for an error of the provider or after a refused
\* completion; of a lost claim it raises out of execute.
Fail(k) ==
    /\ \/ pc[k] = "closing" /\ outcome[k] \in {"retryable", "fatal"}
       \/ pc[k] = "refused"
    /\ IF Owns(k)
       THEN LET s == AfterFailure(work[k], pc[k] = "closing" /\ outcome[k] = "retryable")
            IN /\ Close(work[k], s, s)
               /\ pc' = [pc EXCEPT ![k] = "idle"]
               /\ answer' = [answer EXCEPT ![k] = "failure"]
       ELSE Raises(k) /\ UNCHANGED <<status, token, count, lapsed, attempt>>
    /\ UNCHANGED <<proposal, fix, work, mine, outcome, calls>>

\* The caller is cancelled or its process dies: execute leaves the row to recovery.
Vanish(k) ==
    /\ pc[k] # "idle"
    /\ Raises(k)
    /\ UNCHANGED <<rowVars, work, mine, outcome, calls>>

\* The scan is deleted and its analyses and attempts with it.
DeleteScan(a) ==
    /\ status[a] \notin {"absent", "deleted"}
    /\ status'   = [status EXCEPT ![a] = "deleted"]
    /\ token'    = [token EXCEPT ![a] = 0]
    /\ lapsed'   = [lapsed EXCEPT ![a] = FALSE]
    /\ attempt'  = [attempt EXCEPT ![a] = [n \in Attempts |-> "none"]]
    /\ proposal' = [proposal EXCEPT ![a] = 0]
    /\ fix'      = [fix EXCEPT ![a] = 0]
    /\ UNCHANGED <<count, callerVars>>

CallerStep(k) ==
    \/ \E a \in Analyses : Execute(k, a)
    \/ ClaimAnalysis(k) \/ Invoke(k) \/ Complete(k) \/ Fail(k) \/ Vanish(k)
    \/ \E o \in Outcomes \ {"none"} : ProviderAnswers(k, o)

Next ==
    \/ \E k \in Callers : CallerStep(k)
    \/ Reap
    \/ \E a \in Analyses : Lapse(a) \/ DeleteScan(a)

Spec == Init /\ [][Next]_vars

\* Leases lapse and a worker reaps; nothing is assumed of callers or providers.
FairSpec == Spec /\ WF_vars(Reap) /\ \A a \in Analyses : WF_vars(Lapse(a))

-------------------------------------------------------------------------------
(* Properties *)

\* The CHECK constraints ck_visual_analyses_claim_fence and
\* ck_visual_analysis_attempts_finish taken together: the row is running exactly
\* when one attempt is, the latest, and it is the one the token was made for.
OneRunningAttempt ==
    \A a \in Analyses :
        /\ {n \in Attempts : attempt[a][n] = "running"} =
            IF status[a] = "running" THEN {count[a]} ELSE {}
        /\ token[a] = IF status[a] = "running" THEN count[a] ELSE 0

\* The provider is called at most once for each attempt, thus at most
\* max_attempts times for a request, whatever callers, deaths and recoveries.
DispatchBudget == \A a \in Analyses, n \in Attempts : calls[a][n] <= 1

\* The proposal a row publishes, and the fix a person is asked to review, come
\* from the latest attempt: no slow caller replaces the result of its successor.
ProposalOfLastAttempt ==
    \A a \in Analyses :
        IF status[a] \in Succeeded
        THEN /\ proposal[a] = count[a] /\ attempt[a][count[a]] = "succeeded"
             /\ fix[a] = IF status[a] = "review_required" THEN count[a] ELSE 0
        ELSE proposal[a] = 0 /\ fix[a] = 0

\* The latest attempt alone runs, and alone has its result published.
LatestAttemptRules == OneRunningAttempt /\ ProposalOfLastAttempt

\* A caller that was told of a success finds it in the database, until the scan
\* is deleted.
AnswerIsDurable ==
    \A k \in Callers :
        (pc[k] = "idle" /\ answer[k] = "success") =>
            status[work[k]] \in Succeeded \cup {"deleted"}

\* A finished analysis keeps its verdict and its proposal until it is deleted.
VerdictIsFinal ==
    [][\A a \in Analyses :
        (status[a] \in Final /\ status'[a] # "deleted") =>
            status'[a] = status[a] /\ proposal'[a] = proposal[a]]_vars

\* What a row promises to its callers: at most MaxAttempts claims, and only the
\* proposal of the latest, while it is held, becomes its verdict.
ClaimPhase == [a \in Analyses |->
    CASE status[a] = "running" -> "held"
      [] status[a] \in Final -> "closed"
      [] status[a] = "deleted" -> "gone"
      [] OTHER -> "open"]
Asked == [a \in Analyses |-> {n \in Attempts : calls[a][n] > 0}]
Fencing == INSTANCE FencedClaims
             WITH Items <- Analyses, MaxGrants <- MaxAttempts, phase <- ClaimPhase,
                  grants <- count, done <- Asked, verdict <- proposal
AnalysisFences == Fencing!Spec

\* No analysis stays running for ever, though its caller never comes back.
RunsEnd == \A a \in Analyses : status[a] = "running" ~> status[a] # "running"

===============================================================================

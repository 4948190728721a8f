------------------------- MODULE VisualAnalysis_proofs -------------------------
(***************************************************************************)
(* Proofs about VisualAnalysis, for any number of analyses, callers and    *)
(* attempts.                                                               *)
(*                                                                         *)
(* The argument: an attempt is given to one caller (OneCallerPerAttempt),  *)
(* which calls the provider once (ClaimUnspent); only the attempt that is  *)
(* running can be closed, it is the latest (OneRunningAttempt), and the    *)
(* proposal is written with the end of its attempt.                        *)
(***************************************************************************)
EXTENDS VisualAnalysis, TLAPS

Busy(k) == pc[k] \in {"claimed", "invoking", "closing", "refused"}

\* A row that is not there has no attempts.
AbsentBlank == \A a \in Analyses : status[a] = "absent" => count[a] = 0

\* Callers work on attempts that were opened.
ClaimsOpened == \A k \in Callers : Busy(k) => mine[k] \in 1..count[work[k]]

\* An attempt is given to one caller.
OneCallerPerAttempt ==
    \A k, l \in Callers :
        (Busy(k) /\ Busy(l) /\ work[k] = work[l] /\ mine[k] = mine[l]) => k = l

\* Attempts to come were not called for, nor were those just claimed.
FutureUnspent == \A a \in Analyses, n \in Attempts : n > count[a] => calls[a][n] = 0
ClaimUnspent  == \A k \in Callers : pc[k] = "claimed" => calls[work[k]][mine[k]] = 0

VInv ==
    /\ VTypeOK
    /\ OneRunningAttempt
    /\ AbsentBlank
    /\ ClaimsOpened
    /\ OneCallerPerAttempt
    /\ FutureUnspent
    /\ ClaimUnspent
    /\ DispatchBudget
    /\ ProposalOfLastAttempt
    /\ AnswerIsDurable

-------------------------------------------------------------------------------
(* Types *)

\* The tables of attempts keep their type whatever the index.
LEMMA AttemptUpdate ==
    ASSUME attempt \in AttemptTable, NEW a \in Analyses, NEW n, NEW s \in AttemptStatuses
    PROVE  SetAttempt(a, n, s) \in AttemptTable
BY DEF AttemptTable, SetAttempt

LEMMA CallUpdate ==
    ASSUME NEW f \in [Analyses -> [Attempts -> Nat]], NEW a \in Analyses, NEW n
    PROVE  [f EXCEPT ![a][n] = @ + 1] \in [Analyses -> [Attempts -> Nat]]
<1>1. CASE n \in Attempts
  BY <1>1
<1>2. CASE n \notin Attempts
  BY <1>2
<1> QED
  BY <1>1, <1>2

LEMMA CountFacts ==
    /\ 0 \in Counts /\ 1 \in Counts
    /\ \A n \in Counts : n < MaxAttempts => n + 1 \in Counts
BY VisualAssumption DEF Counts

LEMMA VerdictTypes ==
    {"running", "succeeded", "retryable_failure", "terminal_failure"} \subseteq AttemptStatuses
BY DEF AttemptStatuses

LEMMA FailureVerdict ==
    \A a \in Analyses, r \in BOOLEAN :
        AfterFailure(a, r) \in {"retryable_failure", "terminal_failure"}
BY DEF AfterFailure

LEMMA RecoverType == VTypeOK /\ RecoverStale =>
    /\ status'   \in [Analyses -> Statuses]
    /\ token'    \in [Analyses -> Counts]
    /\ count'    \in [Analyses -> Counts]
    /\ lapsed'   \in [Analyses -> BOOLEAN]
    /\ attempt'  \in AttemptTable
    /\ proposal' \in [Analyses -> Counts]
    /\ fix'      \in [Analyses -> Counts]
<1> SUFFICES ASSUME VTypeOK, RecoverStale
             PROVE  /\ status'   \in [Analyses -> Statuses]
                    /\ token'    \in [Analyses -> Counts]
                    /\ lapsed'   \in [Analyses -> BOOLEAN]
                    /\ attempt'  \in AttemptTable
  BY DEF VTypeOK, RecoverStale
<1>1. \A a \in Analyses : AfterFailure(a, TRUE) \in {"retryable_failure", "terminal_failure"}
  BY FailureVerdict
<1>2. status' \in [Analyses -> Statuses]
  BY <1>1 DEF VTypeOK, RecoverStale, Statuses, Claimable, Final
<1>3. attempt'  \in AttemptTable
  BY <1>1 DEF VTypeOK, RecoverStale, AttemptTable, AttemptStatuses
<1>4. token' \in [Analyses -> Counts]
  BY CountFacts DEF VTypeOK, RecoverStale
<1>5. lapsed' \in [Analyses -> BOOLEAN]
  BY DEF VTypeOK, RecoverStale
<1> QED
  BY <1>2, <1>3, <1>4, <1>5

LEMMA TypeInit == Init => VTypeOK
BY CountFacts DEF Init, VTypeOK, AttemptTable, AttemptStatuses, Statuses, Pcs, Outcomes, Answers

LEMMA TypeStep == VTypeOK /\ [Next]_vars => VTypeOK'
<1> SUFFICES ASSUME VTypeOK, [Next]_vars PROVE VTypeOK'
  OBVIOUS
<1>1. ASSUME NEW k \in Callers, NEW a \in Analyses, Execute(k, a) PROVE VTypeOK'
  <2>1. /\ status'   \in [Analyses -> Statuses]
        /\ token'    \in [Analyses -> Counts]
        /\ count'    \in [Analyses -> Counts]
        /\ lapsed'   \in [Analyses -> BOOLEAN]
        /\ attempt'  \in AttemptTable
        /\ proposal' \in [Analyses -> Counts]
        /\ fix'      \in [Analyses -> Counts]
    <3>1. CASE Create(a)
      <4>1. attempt' \in AttemptTable
        BY <3>1, AttemptUpdate, VerdictTypes DEF Create, VTypeOK
      <4>2. status' \in [Analyses -> Statuses]
        BY <3>1 DEF Create, VTypeOK, Statuses, Claimable, Final
      <4>3. count' \in [Analyses -> Counts]
        BY <3>1, CountFacts DEF Create, VTypeOK
      <4> QED
        BY <3>1, <4>1, <4>2, <4>3 DEF Create, VTypeOK
    <3>2. CASE RecoverStale
      BY <3>2, RecoverType
    <3>3. CASE UNCHANGED rowVars
      BY <3>3 DEF VTypeOK, rowVars
    <3> QED
      BY <1>1, <3>1, <3>2, <3>3 DEF Execute
  <2>2. pc' \in [Callers -> Pcs] /\ work' \in [Callers -> Analyses]
    BY <1>1 DEF Execute, VTypeOK, Pcs
  <2>3. answer' \in [Callers -> Answers]
    BY <1>1 DEF Execute, VTypeOK, Answers
  <2> QED
    BY <1>1, <2>1, <2>2, <2>3 DEF Execute, VTypeOK
<1>2. ASSUME NEW k \in Callers, ClaimAnalysis(k) PROVE VTypeOK'
  <2> DEFINE a == work[k]
             n == count[a] + 1
  <2>1. pc' \in [Callers -> Pcs] /\ answer' \in [Callers -> Answers]
    BY <1>2 DEF ClaimAnalysis, Raises, VTypeOK, Pcs, Answers
  <2>2. CASE status[a] \in Claimable /\ count[a] < MaxAttempts
    <3>1. a \in Analyses /\ n \in Counts
      BY <2>2, CountFacts DEF VTypeOK
    <3>2. attempt' \in AttemptTable
      BY <1>2, <2>2, <3>1, AttemptUpdate, VerdictTypes DEF ClaimAnalysis, VTypeOK
    <3>3. status' \in [Analyses -> Statuses] /\ lapsed' \in [Analyses -> BOOLEAN]
      BY <1>2, <2>2 DEF ClaimAnalysis, VTypeOK, Statuses
    <3>4. count' \in [Analyses -> Counts]
      BY <1>2, <2>2, <3>1 DEF ClaimAnalysis, VTypeOK
    <3>5. token' \in [Analyses -> Counts]
      BY <1>2, <2>2, <3>1 DEF ClaimAnalysis, VTypeOK
    <3>6. mine' \in [Callers -> Counts]
      BY <1>2, <2>2, <3>1 DEF ClaimAnalysis, VTypeOK
    <3> QED
      BY <1>2, <2>1, <2>2, <3>2, <3>3, <3>4, <3>5, <3>6 DEF ClaimAnalysis, VTypeOK
  <2>3. CASE ~(status[a] \in Claimable /\ count[a] < MaxAttempts)
    BY <1>2, <2>1, <2>3 DEF ClaimAnalysis, rowVars, VTypeOK
  <2> QED
    BY <2>2, <2>3
<1>3. ASSUME NEW k \in Callers, Invoke(k) PROVE VTypeOK'
  <2>1. calls' \in [Analyses -> [Attempts -> Nat]]
    BY <1>3, CallUpdate DEF Invoke, VTypeOK
  <2> QED
    BY <1>3, <2>1 DEF Invoke, rowVars, VTypeOK, Pcs
<1>4. ASSUME NEW k \in Callers, NEW o \in Outcomes \ {"none"}, ProviderAnswers(k, o) PROVE VTypeOK'
  BY <1>4 DEF ProviderAnswers, rowVars, VTypeOK, Pcs
<1>5. ASSUME NEW k \in Callers, Complete(k) PROVE VTypeOK'
  <2>1. pc' \in [Callers -> Pcs] /\ answer' \in [Callers -> Answers]
    BY <1>5 DEF Complete, VTypeOK, Pcs, Answers
  <2>2. CASE Owns(k) /\ outcome[k] = "proposal"
    <3>1. attempt' \in AttemptTable
      BY <1>5, <2>2, AttemptUpdate, VerdictTypes DEF Complete, Close, VTypeOK
    <3>2. status' \in [Analyses -> Statuses]
      BY <1>5, <2>2 DEF Complete, Close, VTypeOK, Statuses, Final, Succeeded
    <3>4. token' \in [Analyses -> Counts]
      BY <1>5, <2>2, CountFacts DEF Complete, Close, VTypeOK
    <3>5. lapsed' \in [Analyses -> BOOLEAN]
      BY <1>5, <2>2 DEF Complete, Close, VTypeOK
    <3>3. /\ proposal' \in [Analyses -> Counts]
          /\ fix' \in [Analyses -> Counts]
      BY <1>5, <2>2 DEF Complete, VTypeOK
    <3> QED
      BY <1>5, <2>1, <2>2, <3>1, <3>2, <3>3, <3>4, <3>5 DEF Complete, Close, VTypeOK
  <2>3. CASE ~(Owns(k) /\ outcome[k] = "proposal")
    BY <1>5, <2>1, <2>3 DEF Complete, rowVars, VTypeOK
  <2> QED
    BY <2>2, <2>3
<1>6. ASSUME NEW k \in Callers, Fail(k) PROVE VTypeOK'
  <2>1. AfterFailure(work[k], pc[k] = "closing" /\ outcome[k] = "retryable")
            \in {"retryable_failure", "terminal_failure"}
    BY DEF AfterFailure
  <2>2. CASE Owns(k)
    <3>1. attempt' \in AttemptTable
      BY <1>6, <2>1, <2>2, AttemptUpdate, VerdictTypes DEF Fail, Close, VTypeOK
    <3>2. status' \in [Analyses -> Statuses]
      BY <1>6, <2>1, <2>2 DEF Fail, Close, VTypeOK, Statuses, Final, Claimable
    <3>3. token' \in [Analyses -> Counts]
      BY <1>6, <2>2, CountFacts DEF Fail, Close, VTypeOK
    <3>4. lapsed' \in [Analyses -> BOOLEAN]
      BY <1>6, <2>2 DEF Fail, Close, VTypeOK
    <3> QED
      BY <1>6, <2>2, <3>1, <3>2, <3>3, <3>4 DEF Fail, Close, VTypeOK, Pcs, Answers
  <2>3. CASE ~Owns(k)
    BY <1>6, <2>3 DEF Fail, Raises, VTypeOK, Pcs, Answers
  <2> QED
    BY <2>2, <2>3
<1>7. ASSUME NEW k \in Callers, Vanish(k) PROVE VTypeOK'
  BY <1>7 DEF Vanish, Raises, rowVars, VTypeOK, Pcs, Answers
<1>8. CASE Reap
  BY <1>8, RecoverType DEF Reap, callerVars, VTypeOK
<1>9. ASSUME NEW a \in Analyses, Lapse(a) PROVE VTypeOK'
  BY <1>9 DEF Lapse, callerVars, VTypeOK
<1>10. ASSUME NEW a \in Analyses, DeleteScan(a) PROVE VTypeOK'
  BY <1>10, CountFacts DEF AttemptTable, AttemptStatuses, DeleteScan, callerVars, VTypeOK, Statuses
<1>11. CASE UNCHANGED vars
  BY <1>11 DEF vars, rowVars, callerVars, VTypeOK
<1> QED
  BY <1>1, <1>2, <1>3, <1>4, <1>5, <1>6, <1>7, <1>8, <1>9, <1>10, <1>11 DEF Next, CallerStep

-------------------------------------------------------------------------------
(* Rows *)

\* OneRunningAttempt, AbsentBlank and ProposalOfLastAttempt for one row.
RowOK(a) ==
    /\ status[a] = "running" => count[a] \in Attempts
    /\ \A n \in Attempts : attempt[a][n] = "running" <=> (status[a] = "running" /\ n = count[a])
    /\ token[a] = IF status[a] = "running" THEN count[a] ELSE 0
    /\ status[a] = "absent" => count[a] = 0
    /\ status[a] \in Succeeded =>
        /\ proposal[a] = count[a] /\ attempt[a][count[a]] = "succeeded"
        /\ fix[a] = IF status[a] = "review_required" THEN count[a] ELSE 0
    /\ status[a] \notin Succeeded => proposal[a] = 0 /\ fix[a] = 0

LEMMA RowsSuffice ==
    (\A a \in Analyses : RowOK(a)) <=>
        OneRunningAttempt /\ AbsentBlank /\ ProposalOfLastAttempt
<1>1. ASSUME \A a \in Analyses : RowOK(a)
      PROVE  OneRunningAttempt /\ AbsentBlank /\ ProposalOfLastAttempt
  <2>1. OneRunningAttempt
    BY <1>1 DEF OneRunningAttempt, RowOK
  <2>2. AbsentBlank /\ ProposalOfLastAttempt
    BY <1>1 DEF AbsentBlank, ProposalOfLastAttempt, RowOK
  <2> QED
    BY <2>1, <2>2
<1>2. ASSUME OneRunningAttempt, AbsentBlank, ProposalOfLastAttempt, NEW a \in Analyses
      PROVE  RowOK(a)
  <2>1. {n \in Attempts : attempt[a][n] = "running"} =
            IF status[a] = "running" THEN {count[a]} ELSE {}
    BY <1>2 DEF OneRunningAttempt
  <2>2. /\ status[a] = "running" => count[a] \in Attempts
        /\ \A n \in Attempts :
            attempt[a][n] = "running" <=> (status[a] = "running" /\ n = count[a])
    BY <2>1
  <2> QED
    BY <1>2, <2>2 DEF OneRunningAttempt, AbsentBlank, ProposalOfLastAttempt, RowOK
<1> QED
  BY <1>1, <1>2

\* A step that leaves a row alone keeps it right.
LEMMA RowKept ==
    ASSUME NEW a \in Analyses, RowOK(a),
           status'[a] = status[a], token'[a] = token[a], count'[a] = count[a],
           attempt'[a] = attempt[a], proposal'[a] = proposal[a], fix'[a] = fix[a]
    PROVE  RowOK(a)'
BY DEF RowOK

\* SetAttempt changes one attempt of one row.
LEMMA AttemptSet ==
    ASSUME VTypeOK, NEW a \in Analyses, NEW n \in Attempts, NEW s
    PROVE  /\ \A b \in Analyses \ {a} : SetAttempt(a, n, s)[b] = attempt[b]
           /\ \A m \in Attempts \ {n} : SetAttempt(a, n, s)[a][m] = attempt[a][m]
           /\ SetAttempt(a, n, s)[a][n] = s
BY DEF SetAttempt, VTypeOK, AttemptTable

LEMMA RowsRecovered ==
    ASSUME VTypeOK, RecoverStale, NEW a \in Analyses, RowOK(a)
    PROVE  RowOK(a)'
<1>1. CASE Stale(a)
  <2>1. /\ status'[a] = AfterFailure(a, TRUE) /\ token'[a] = 0 /\ count'[a] = count[a]
        /\ attempt'[a] = [attempt[a] EXCEPT ![count[a]] = AfterFailure(a, TRUE)]
        /\ proposal'[a] = proposal[a] /\ fix'[a] = fix[a]
    BY <1>1 DEF RecoverStale
  <2>2. AfterFailure(a, TRUE) \in {"retryable_failure", "terminal_failure"}
    BY FailureVerdict
  <2>3. count[a] \in Attempts /\ status[a] = "running"
    BY <1>1 DEF Stale, RowOK
  <2>4. \A n \in Attempts : attempt'[a][n] # "running"
    BY <2>1, <2>2, <2>3 DEF RowOK, VTypeOK, AttemptTable
  <2> QED
    BY <2>1, <2>2, <2>3, <2>4 DEF RowOK, Succeeded
<1>2. CASE ~Stale(a)
  BY <1>2, RowKept DEF RecoverStale
<1> QED
  BY <1>1, <1>2

LEMMA RowsCreated ==
    ASSUME VTypeOK, NEW a \in Analyses, Create(a), NEW b \in Analyses, RowOK(b)
    PROVE  RowOK(b)'
<1>1. CASE b # a
  <2>1. 1 \in Attempts
    BY VisualAssumption DEF Attempts
  <2>2. attempt'[b] = attempt[b]
    BY <1>1, <2>1, AttemptSet DEF Create
  <2>3. status'[b] = status[b] /\ count'[b] = count[b]
    BY <1>1 DEF Create, VTypeOK
  <2> QED
    BY <2>2, <2>3, RowKept DEF Create
<1>2. CASE b = a
  <2>1. 1 \in Attempts
    BY VisualAssumption DEF Attempts
  <2>2. \A n \in Attempts : attempt'[a][n] # "running"
    BY <1>2, <2>1, AttemptSet DEF Create, RowOK
  <2>3. /\ status'[a] \in {"queued", "terminal_failure"} /\ token'[a] = 0
        /\ proposal'[a] = 0 /\ fix'[a] = 0
    BY <1>2 DEF Create, RowOK, VTypeOK, Succeeded
  <2> QED
    BY <1>2, <2>2, <2>3 DEF RowOK, Succeeded
<1> QED
  BY <1>1, <1>2

\* The end of an attempt by its owner.
LEMMA RowsClosed ==
    ASSUME VTypeOK, NEW a \in Analyses, RowOK(a), status[a] = "running",
           NEW s \in Succeeded \cup {"retryable_failure", "terminal_failure"},
           NEW t \in {"succeeded", "retryable_failure", "terminal_failure"},
           Close(a, s, t),
           IF s \in Succeeded
           THEN /\ t = "succeeded"
                /\ proposal'[a] = count[a]
                /\ fix'[a] = IF s = "review_required" THEN count[a] ELSE 0
           ELSE proposal'[a] = 0 /\ fix'[a] = 0
    PROVE  RowOK(a)'
<1>1. count[a] \in Attempts
  BY DEF RowOK
<1>2. /\ status'[a] = s /\ token'[a] = 0 /\ count'[a] = count[a]
      /\ attempt' = SetAttempt(a, count[a], t)
  BY DEF Close, VTypeOK
<1>3. \A n \in Attempts : attempt'[a][n] # "running"
  BY <1>1, <1>2, AttemptSet DEF RowOK
<1>4. attempt'[a][count[a]] = t
  BY <1>1, <1>2, AttemptSet
<1> QED
  BY <1>2, <1>3, <1>4 DEF RowOK, Succeeded

LEMMA ClosedElsewhere ==
    ASSUME VTypeOK, NEW a \in Analyses, count[a] \in Attempts, NEW s, NEW t, Close(a, s, t),
           NEW b \in Analyses \ {a}, RowOK(b),
           proposal'[b] = proposal[b], fix'[b] = fix[b]
    PROVE  RowOK(b)'
<1>1. attempt'[b] = attempt[b]
  BY AttemptSet DEF Close
<1>2. status'[b] = status[b] /\ token'[b] = token[b] /\ count'[b] = count[b]
  BY DEF Close, VTypeOK
<1> QED
  BY <1>1, <1>2, RowKept

LEMMA RowsStep == VTypeOK /\ (\A a \in Analyses : RowOK(a)) /\ [Next]_vars
                    => \A a \in Analyses : RowOK(a)'
<1> SUFFICES ASSUME VTypeOK, \A a \in Analyses : RowOK(a), [Next]_vars,
                    NEW b \in Analyses
             PROVE  RowOK(b)'
  OBVIOUS
<1>1. CASE UNCHANGED rowVars
  BY <1>1, RowKept DEF rowVars
<1>2. ASSUME NEW k \in Callers, NEW a \in Analyses, Execute(k, a) PROVE RowOK(b)'
  BY <1>1, <1>2, RowsCreated, RowsRecovered DEF Execute
<1>3. ASSUME NEW k \in Callers, ClaimAnalysis(k) PROVE RowOK(b)'
  <2> DEFINE a == work[k]
             n == count[a] + 1
  <2>1. CASE ~(status[a] \in Claimable /\ count[a] < MaxAttempts)
    BY <1>1, <1>3, <2>1 DEF ClaimAnalysis
  <2>2. CASE status[a] \in Claimable /\ count[a] < MaxAttempts
    <3>1. a \in Analyses /\ n \in Attempts /\ n # 0
      <4>1. a \in Analyses
        BY DEF VTypeOK
      <4>2. count[a] \in 0..MaxAttempts
        BY <4>1 DEF VTypeOK, Counts
      <4> QED
        BY <2>2, <4>1, <4>2, VisualAssumption DEF Attempts
    <3>2. /\ status' = [status EXCEPT ![a] = "running"]
          /\ count' = [count EXCEPT ![a] = n]
          /\ token' = [token EXCEPT ![a] = n]
          /\ attempt' = SetAttempt(a, n, "running")
          /\ proposal' = proposal /\ fix' = fix
      BY <1>3, <2>2 DEF ClaimAnalysis
    <3>3. CASE b # a
      <4>1. attempt'[b] = attempt[b]
        BY <3>1, <3>2, <3>3, AttemptSet
      <4> QED
        BY <3>1, <3>2, <3>3, <4>1, RowKept DEF VTypeOK
    <3>4. CASE b = a
      <4>1. \A m \in Attempts : attempt'[a][m] = "running" <=> m = n
        BY <2>2, <3>1, <3>2, <3>4, AttemptSet DEF RowOK, Claimable
      <4>2. status'[a] = "running" /\ count'[a] = n /\ token'[a] = n
        BY <3>1, <3>2 DEF VTypeOK
      <4>3. proposal'[a] = 0 /\ fix'[a] = 0
        BY <2>2, <3>2, <3>4 DEF RowOK, Claimable, Succeeded
      <4> QED
        BY <3>1, <3>4, <4>1, <4>2, <4>3 DEF RowOK, Succeeded
    <3> QED
      BY <3>3, <3>4
  <2> QED
    BY <2>1, <2>2
<1>4. ASSUME NEW k \in Callers, Complete(k) PROVE RowOK(b)'
  <2> DEFINE a == work[k]
  <2>1. CASE ~(Owns(k) /\ outcome[k] = "proposal")
    BY <1>1, <1>4, <2>1 DEF Complete
  <2>2. CASE Owns(k) /\ outcome[k] = "proposal"
    <3>1. a \in Analyses /\ status[a] = "running" /\ mine[k] = count[a] /\ count[a] \in Attempts
      BY <2>2 DEF Owns, RowOK, VTypeOK
    <3>2. PICK s \in Succeeded :
            /\ Close(a, s, "succeeded")
            /\ fix' = IF s = "review_required" THEN [fix EXCEPT ![a] = mine[k]] ELSE fix
      BY <1>4, <2>2 DEF Complete, Succeeded
    <3>3. proposal' = [proposal EXCEPT ![a] = mine[k]]
      BY <1>4, <2>2 DEF Complete
    <3>4. CASE b = a
      <4>1. proposal'[a] = count[a] /\ fix'[a] = IF s = "review_required" THEN count[a] ELSE 0
        BY <3>1, <3>2, <3>3 DEF VTypeOK, RowOK, Succeeded
      <4> QED
        BY <3>1, <3>2, <3>4, <4>1, RowsClosed
    <3>5. CASE b # a
      BY <3>1, <3>2, <3>3, <3>5, ClosedElsewhere DEF VTypeOK
    <3> QED
      BY <3>4, <3>5
  <2> QED
    BY <2>1, <2>2
<1>5. ASSUME NEW k \in Callers, Fail(k) PROVE RowOK(b)'
  <2> DEFINE a == work[k]
             s == AfterFailure(a, pc[k] = "closing" /\ outcome[k] = "retryable")
  <2>1. CASE ~Owns(k)
    BY <1>1, <1>5, <2>1 DEF Fail, rowVars
  <2>2. CASE Owns(k)
    <3>1. a \in Analyses /\ status[a] = "running" /\ count[a] \in Attempts
      BY <2>2 DEF Owns, RowOK, VTypeOK
    <3>2. Close(a, s, s) /\ proposal' = proposal /\ fix' = fix
      BY <1>5, <2>2 DEF Fail
    <3>3. s \in {"retryable_failure", "terminal_failure"}
      BY DEF AfterFailure
    <3>4. CASE b = a
      <4>1. proposal'[a] = 0 /\ fix'[a] = 0 /\ s \notin Succeeded
        BY <3>1, <3>2, <3>3 DEF RowOK, Succeeded
      <4> HIDE DEF s
      <4> QED
        BY <3>1, <3>2, <3>3, <3>4, <4>1, RowsClosed
    <3>5. CASE b # a
      <4> HIDE DEF s
      <4> QED
        BY <3>1, <3>2, <3>5, ClosedElsewhere
    <3> QED
      BY <3>4, <3>5
  <2> QED
    BY <2>1, <2>2
<1>6. CASE Reap
  BY <1>6, RowsRecovered DEF Reap
<1>7. ASSUME NEW a \in Analyses, Lapse(a) PROVE RowOK(b)'
  BY <1>7, RowKept DEF Lapse
<1>8. ASSUME NEW a \in Analyses, DeleteScan(a) PROVE RowOK(b)'
  <2>1. CASE b # a
    BY <1>8, <2>1, RowKept DEF DeleteScan, VTypeOK, AttemptTable
  <2>2. CASE b = a
    BY <1>8, <2>2 DEF DeleteScan, RowOK, Succeeded, VTypeOK, AttemptTable
  <2> QED
    BY <2>1, <2>2
<1>9. ASSUME NEW k \in Callers,
             Invoke(k) \/ Vanish(k) \/ \E o \in Outcomes \ {"none"} : ProviderAnswers(k, o)
      PROVE  RowOK(b)'
  BY <1>1, <1>9 DEF Invoke, Vanish, ProviderAnswers
<1>10. CASE UNCHANGED vars
  BY <1>1, <1>10 DEF vars
<1> QED
  BY <1>2, <1>3, <1>4, <1>5, <1>6, <1>7, <1>8, <1>9, <1>10 DEF Next, CallerStep

-------------------------------------------------------------------------------
(* Callers *)

\* Attempts are never taken back.
LEMMA CountsGrow ==
    ASSUME VInv, [Next]_vars, NEW b \in Analyses
    PROVE  count'[b] >= count[b]
<1> USE VisualAssumption DEF Counts
<1>1. count[b] \in Nat
  BY DEF VInv, VTypeOK
<1>same. CASE count' = count
  BY <1>1, <1>same
<1>2. ASSUME NEW a \in Analyses, Create(a) PROVE count'[b] >= count[b]
  BY <1>1, <1>2 DEF Create, VInv, VTypeOK, AbsentBlank
<1>3. ASSUME NEW k \in Callers, NEW a \in Analyses, Execute(k, a) PROVE count'[b] >= count[b]
  BY <1>2, <1>3, <1>same DEF Execute, RecoverStale, rowVars
<1>4. ASSUME NEW k \in Callers, ClaimAnalysis(k) PROVE count'[b] >= count[b]
  BY <1>1, <1>4 DEF ClaimAnalysis, VInv, VTypeOK, rowVars
<1>5. ASSUME NEW k \in Callers, Complete(k) \/ Fail(k) PROVE count'[b] >= count[b]
  BY <1>same, <1>5 DEF Complete, Fail, Close, rowVars
<1>6. ASSUME NEW k \in Callers,
             Invoke(k) \/ Vanish(k) \/ \E o \in Outcomes \ {"none"} : ProviderAnswers(k, o)
      PROVE  count'[b] >= count[b]
  BY <1>same, <1>6 DEF Invoke, Vanish, ProviderAnswers, rowVars
<1>7. ASSUME NEW a \in Analyses, Lapse(a) \/ DeleteScan(a) PROVE count'[b] >= count[b]
  BY <1>same, <1>7 DEF Lapse, DeleteScan
<1>8. CASE Reap \/ UNCHANGED vars
  BY <1>same, <1>8 DEF Reap, RecoverStale, vars, rowVars
<1> QED
  BY <1>3, <1>4, <1>5, <1>6, <1>7, <1>8 DEF Next, CallerStep

LEMMA VerdictKept ==
    ASSUME VInv, [Next]_vars, NEW b \in Analyses, status[b] \in Final, status'[b] # "deleted"
    PROVE  status'[b] = status[b] /\ proposal'[b] = proposal[b]
<1>1. status[b] \notin Claimable \cup {"running", "absent"}
  BY DEF Final, Succeeded, Claimable
<1>2. CASE RecoverStale
  BY <1>1, <1>2 DEF RecoverStale, Stale
<1>3. CASE UNCHANGED rowVars
  BY <1>3 DEF rowVars
<1>4. ASSUME NEW k \in Callers, NEW a \in Analyses, Execute(k, a)
      PROVE  status'[b] = status[b] /\ proposal'[b] = proposal[b]
  BY <1>1, <1>2, <1>3, <1>4 DEF Execute, Create, VInv, VTypeOK
<1>5. ASSUME NEW k \in Callers, ClaimAnalysis(k)
      PROVE  status'[b] = status[b] /\ proposal'[b] = proposal[b]
  BY <1>1, <1>3, <1>5 DEF ClaimAnalysis, VInv, VTypeOK
<1>6. ASSUME NEW k \in Callers, Complete(k) \/ Fail(k)
      PROVE  status'[b] = status[b] /\ proposal'[b] = proposal[b]
  <2>1. CASE work[k] = b
    BY <1>1, <1>3, <1>6, <2>1 DEF Complete, Fail, Owns, rowVars
  <2>2. CASE work[k] # b
    BY <1>3, <1>6, <2>2 DEF Complete, Fail, Close, VInv, VTypeOK
  <2> QED
    BY <2>1, <2>2
<1>7. ASSUME NEW k \in Callers,
             Invoke(k) \/ Vanish(k) \/ \E o \in Outcomes \ {"none"} : ProviderAnswers(k, o)
      PROVE  status'[b] = status[b] /\ proposal'[b] = proposal[b]
  BY <1>3, <1>7 DEF Invoke, Vanish, ProviderAnswers
<1>8. ASSUME NEW a \in Analyses, Lapse(a) \/ DeleteScan(a)
      PROVE  status'[b] = status[b] /\ proposal'[b] = proposal[b]
  BY <1>8 DEF Lapse, DeleteScan, VInv, VTypeOK
<1>9. CASE Reap \/ UNCHANGED vars
  BY <1>2, <1>3, <1>9 DEF Reap, vars
<1> QED
  BY <1>4, <1>5, <1>6, <1>7, <1>8, <1>9 DEF Next, CallerStep

\* What a deleted scan took with it does not come back.
LEMMA DeletedStays ==
    ASSUME VInv, [Next]_vars, NEW b \in Analyses, status[b] = "deleted"
    PROVE  status'[b] = "deleted"
<1>1. CASE RecoverStale
  BY <1>1 DEF RecoverStale, Stale
<1>2. CASE UNCHANGED rowVars
  BY <1>2 DEF rowVars
<1>3. ASSUME NEW k \in Callers, NEW a \in Analyses, Execute(k, a) PROVE status'[b] = "deleted"
  BY <1>1, <1>2, <1>3 DEF Execute, Create, VInv, VTypeOK
<1>4. ASSUME NEW k \in Callers, ClaimAnalysis(k) PROVE status'[b] = "deleted"
  BY <1>2, <1>4 DEF ClaimAnalysis, Claimable, VInv, VTypeOK
<1>5. ASSUME NEW k \in Callers, Complete(k) \/ Fail(k) PROVE status'[b] = "deleted"
  <2>1. CASE work[k] = b
    BY <1>2, <1>5, <2>1 DEF Complete, Fail, Owns
  <2>2. CASE work[k] # b
    BY <1>2, <1>5, <2>2 DEF Complete, Fail, Close, VInv, VTypeOK
  <2> QED
    BY <2>1, <2>2
<1>6. ASSUME NEW k \in Callers,
             Invoke(k) \/ Vanish(k) \/ \E o \in Outcomes \ {"none"} : ProviderAnswers(k, o)
      PROVE  status'[b] = "deleted"
  BY <1>2, <1>6 DEF Invoke, Vanish, ProviderAnswers
<1>7. ASSUME NEW a \in Analyses, Lapse(a) \/ DeleteScan(a) PROVE status'[b] = "deleted"
  BY <1>7 DEF Lapse, DeleteScan, VInv, VTypeOK
<1>8. CASE Reap \/ UNCHANGED vars
  BY <1>1, <1>2, <1>8 DEF Reap, vars
<1> QED
  BY <1>3, <1>4, <1>5, <1>6, <1>7, <1>8 DEF Next, CallerStep

LEMMA DurableStep == VInv /\ [Next]_vars => AnswerIsDurable'
<1> SUFFICES ASSUME VInv, [Next]_vars, NEW k \in Callers,
                    pc'[k] = "idle", answer'[k] = "success"
             PROVE  status'[work'[k]] \in Succeeded \cup {"deleted"}
  BY DEF AnswerIsDurable
<1>1. \A a \in Analyses : status[a] \in Succeeded \cup {"deleted"}
                            => status'[a] \in Succeeded \cup {"deleted"}
  BY VerdictKept, DeletedStays DEF Final
<1>2. ASSUME pc'[k] = pc[k], answer'[k] = answer[k], work'[k] = work[k]
      PROVE  status'[work'[k]] \in Succeeded \cup {"deleted"}
  BY <1>1, <1>2 DEF VInv, VTypeOK, AnswerIsDurable
<1>3. ASSUME NEW l \in Callers, NEW a \in Analyses, Execute(l, a)
      PROVE  status'[work'[k]] \in Succeeded \cup {"deleted"}
  <2>1. CASE l = k
    BY <1>3, <2>1 DEF Execute, VInv, VTypeOK
  <2>2. CASE l # k
    BY <1>2, <1>3, <2>2 DEF Execute, VInv, VTypeOK
  <2> QED
    BY <2>1, <2>2
<1>4. ASSUME NEW l \in Callers, ClaimAnalysis(l) \/ Fail(l) \/ Vanish(l) \/ Invoke(l)
                                \/ \E o \in Outcomes \ {"none"} : ProviderAnswers(l, o)
      PROVE  status'[work'[k]] \in Succeeded \cup {"deleted"}
  <2>1. CASE l = k
    BY <1>4, <2>1 DEF ClaimAnalysis, Raises, Fail, Vanish, Invoke, ProviderAnswers, VInv, VTypeOK
  <2>2. CASE l # k
    BY <1>2, <1>4, <2>2
    DEF ClaimAnalysis, Raises, Fail, Vanish, Invoke, ProviderAnswers, VInv, VTypeOK
  <2> QED
    BY <2>1, <2>2
<1>5. ASSUME NEW l \in Callers, Complete(l)
      PROVE  status'[work'[k]] \in Succeeded \cup {"deleted"}
  <2>1. CASE l = k
    BY <1>5, <2>1 DEF Complete, Close, VInv, VTypeOK, Succeeded
  <2>2. CASE l # k
    BY <1>2, <1>5, <2>2 DEF Complete, VInv, VTypeOK
  <2> QED
    BY <2>1, <2>2
<1>6. CASE Reap \/ (\E a \in Analyses : Lapse(a) \/ DeleteScan(a)) \/ UNCHANGED vars
  BY <1>2, <1>6 DEF Reap, Lapse, DeleteScan, vars, callerVars
<1> QED
  BY <1>3, <1>4, <1>5, <1>6 DEF Next, CallerStep

ClaimInv == ClaimsOpened /\ OneCallerPerAttempt /\ FutureUnspent /\ ClaimUnspent /\ DispatchBudget

\* Callers that keep what they are about or stop keep the claims right.
LEMMA ClaimsKept ==
    ASSUME VInv, [Next]_vars, calls' = calls,
           \A k \in Callers : Busy(k)' =>
                Busy(k) /\ work'[k] = work[k] /\ mine'[k] = mine[k],
           \A k \in Callers : pc'[k] = "claimed" => pc[k] = "claimed"
    PROVE  ClaimInv'
<1>1. \A a \in Analyses : count[a] \in Nat /\ count'[a] \in Nat /\ count'[a] >= count[a]
  BY CountsGrow, TypeStep, VisualAssumption DEF VInv, VTypeOK, Counts
<1>2. ClaimsOpened'
  BY <1>1, VisualAssumption DEF ClaimsOpened, VInv, VTypeOK, Counts
<1>3. OneCallerPerAttempt'
  BY DEF OneCallerPerAttempt, VInv
<1>4. FutureUnspent'
  BY <1>1, VisualAssumption DEF FutureUnspent, VInv, Attempts
<1>5. ClaimUnspent'
  BY DEF ClaimUnspent, VInv, Busy
<1>6. DispatchBudget'
  BY DEF DispatchBudget, VInv
<1> QED
  BY <1>2, <1>3, <1>4, <1>5, <1>6 DEF ClaimInv

LEMMA ClaimsStep == VInv /\ [Next]_vars => ClaimInv'
<1> SUFFICES ASSUME VInv, [Next]_vars PROVE ClaimInv'
  OBVIOUS
<1>1. ASSUME NEW k \in Callers, NEW a \in Analyses, Execute(k, a) PROVE ClaimInv'
  BY <1>1, ClaimsKept DEF Execute, Busy, VInv, VTypeOK
<1>2. ASSUME NEW k \in Callers, ClaimAnalysis(k) PROVE ClaimInv'
  <2> DEFINE a == work[k]
             n == count[a] + 1
  <2>1. CASE ~(status[a] \in Claimable /\ count[a] < MaxAttempts)
    BY <1>2, <2>1, ClaimsKept DEF ClaimAnalysis, Raises, Busy, VInv, VTypeOK
  <2>2. CASE status[a] \in Claimable /\ count[a] < MaxAttempts
    <3>1. /\ a \in Analyses /\ count[a] \in Nat /\ n \in Attempts /\ n = count[a] + 1
      BY <2>2, VisualAssumption DEF VInv, VTypeOK, Counts, Attempts
    <3>2. /\ count' = [count EXCEPT ![a] = n] /\ mine' = [mine EXCEPT ![k] = n]
          /\ pc' = [pc EXCEPT ![k] = "claimed"] /\ work' = work /\ calls' = calls
      BY <1>2, <2>2 DEF ClaimAnalysis
    <3>3. /\ mine'[k] = n /\ pc'[k] = "claimed" /\ work'[k] = a /\ count'[a] = n
          /\ \A l \in Callers \ {k} : mine'[l] = mine[l] /\ pc'[l] = pc[l] /\ work'[l] = work[l]
          /\ \A b \in Analyses : count[b] \in Nat /\ count'[b] \in Nat /\ count'[b] >= count[b]
          /\ \A l \in Callers : work[l] \in Analyses
      BY <3>1, <3>2, VisualAssumption DEF VInv, VTypeOK, Counts
    <3>4. \A l \in Callers \ {k} : Busy(l)' => Busy(l) /\ mine[l] \in 1..count[work[l]]
      BY <3>3 DEF Busy, VInv, ClaimsOpened
    <3> HIDE DEF n, a
    <3>5. ClaimsOpened'
      <4> SUFFICES ASSUME NEW l \in Callers, Busy(l)' PROVE mine'[l] \in 1..count'[work'[l]]
        BY DEF ClaimsOpened
      <4>1. CASE l = k
        BY <3>1, <3>3, <4>1
      <4>2. CASE l # k
        BY <3>3, <3>4, <4>2
      <4> QED
        BY <4>1, <4>2
    <3>6. OneCallerPerAttempt'
      <4>1. \A l \in Callers \ {k} : ~(Busy(l)' /\ work'[l] = work'[k] /\ mine'[l] = mine'[k])
        BY <3>1, <3>3, <3>4
      <4>2. \A l, m \in Callers \ {k} :
                (Busy(l)' /\ Busy(m)' /\ work'[l] = work'[m] /\ mine'[l] = mine'[m]) => l = m
        BY <3>3, <3>4 DEF VInv, OneCallerPerAttempt
      <4> QED
        BY <4>1, <4>2 DEF OneCallerPerAttempt
    <3>7. FutureUnspent'
      BY <3>2, <3>3, VisualAssumption DEF FutureUnspent, VInv, Attempts
    <3>8. ClaimUnspent'
      <4>1. calls[a][n] = 0
        BY <3>1 DEF FutureUnspent, VInv
      <4> QED
        BY <3>2, <3>3, <4>1 DEF ClaimUnspent, VInv
    <3>9. DispatchBudget'
      BY <3>2 DEF DispatchBudget, VInv
    <3> QED
      BY <3>5, <3>6, <3>7, <3>8, <3>9 DEF ClaimInv
  <2> QED
    BY <2>1, <2>2
<1>3. ASSUME NEW k \in Callers, Invoke(k) PROVE ClaimInv'
  <2>1. /\ pc[k] = "claimed" /\ pc' = [pc EXCEPT ![k] = "invoking"]
        /\ work' = work /\ mine' = mine /\ count' = count
        /\ calls' = [calls EXCEPT ![work[k]][mine[k]] = @ + 1]
    BY <1>3 DEF Invoke, rowVars
  <2>2. work[k] \in Analyses /\ mine[k] \in Attempts /\ mine[k] \in 1..count[work[k]]
    BY <2>1, VisualAssumption DEF VInv, VTypeOK, ClaimsOpened, Busy, Counts, Attempts
  <2>3. /\ calls'[work[k]][mine[k]] = 1
        /\ \A b \in Analyses, m \in Attempts :
                (b # work[k] \/ m # mine[k]) => calls'[b][m] = calls[b][m]
    BY <2>1, <2>2 DEF VInv, VTypeOK, ClaimUnspent
  <2>4. /\ \A l \in Callers : Busy(l)' => Busy(l)
        /\ \A l \in Callers : pc'[l] = "claimed" => l # k /\ pc[l] = "claimed"
    BY <2>1 DEF Busy, VInv, VTypeOK
  <2>5. ClaimsOpened' /\ OneCallerPerAttempt'
    BY <2>1, <2>4 DEF ClaimsOpened, OneCallerPerAttempt, VInv
  <2>6. FutureUnspent'
    <3> SUFFICES ASSUME NEW b \in Analyses, NEW m \in Attempts, m > count[b]
                 PROVE  calls'[b][m] = 0
      BY <2>1 DEF FutureUnspent
    <3>1. b # work[k] \/ m # mine[k]
      BY <2>2, VisualAssumption DEF VInv, VTypeOK, Counts, Attempts
    <3> QED
      BY <2>3, <3>1 DEF FutureUnspent, VInv
  <2>7. ClaimUnspent'
    <3> SUFFICES ASSUME NEW l \in Callers, pc'[l] = "claimed"
                 PROVE  calls'[work[l]][mine[l]] = 0
      BY <2>1 DEF ClaimUnspent
    <3>1. l # k /\ pc[l] = "claimed" /\ work[l] \in Analyses /\ mine[l] \in Attempts
      <4>1. l # k /\ pc[l] = "claimed"
        BY <2>4
      <4>2. mine[l] \in 1..count[work[l]]
        BY <4>1 DEF VInv, ClaimsOpened, Busy
      <4>3. work[l] \in Analyses /\ count[work[l]] \in 0..MaxAttempts
        <5>1. work[l] \in Analyses
          BY <4>1 DEF VInv, VTypeOK
        <5> QED
          BY <5>1 DEF VInv, VTypeOK, Counts
      <4>4. mine[l] \in 1..MaxAttempts
        BY <4>2, <4>3, VisualAssumption
      <4> QED
        BY <4>1, <4>3, <4>4 DEF Attempts
    <3>2. work[l] # work[k] \/ mine[l] # mine[k]
      BY <2>1, <3>1 DEF VInv, OneCallerPerAttempt, Busy
    <3> QED
      BY <2>3, <3>1, <3>2 DEF VInv, ClaimUnspent
  <2>8. DispatchBudget'
    BY <2>2, <2>3 DEF DispatchBudget, VInv
  <2> QED
    BY <2>5, <2>6, <2>7, <2>8 DEF ClaimInv
<1>4. ASSUME NEW k \in Callers,
             Complete(k) \/ Fail(k) \/ Vanish(k)
                \/ \E o \in Outcomes \ {"none"} : ProviderAnswers(k, o)
      PROVE  ClaimInv'
  BY <1>4, ClaimsKept DEF Complete, Fail, Raises, Vanish, ProviderAnswers, Busy, VInv, VTypeOK
<1>5. CASE Reap \/ (\E a \in Analyses : Lapse(a) \/ DeleteScan(a)) \/ UNCHANGED vars
  BY <1>5, ClaimsKept DEF Reap, Lapse, DeleteScan, vars, callerVars, Busy
<1> QED
  BY <1>1, <1>2, <1>3, <1>4, <1>5 DEF Next, CallerStep

-------------------------------------------------------------------------------
(* The theorems *)

LEMMA InvInit == Init => VInv
<1> SUFFICES ASSUME Init PROVE VInv
  OBVIOUS
<1>1. \A a \in Analyses : RowOK(a)
  BY DEF Init, RowOK, Succeeded
<1>2. ClaimInv
  BY DEF Init, ClaimInv, ClaimsOpened, OneCallerPerAttempt, FutureUnspent, ClaimUnspent,
         DispatchBudget, Busy
<1>3. AnswerIsDurable
  BY DEF Init, AnswerIsDurable
<1> QED
  BY <1>1, <1>2, <1>3, TypeInit, RowsSuffice DEF VInv, ClaimInv

LEMMA InvStep == VInv /\ [Next]_vars => VInv'
<1> SUFFICES ASSUME VInv, [Next]_vars PROVE VInv'
  OBVIOUS
<1>1. \A a \in Analyses : RowOK(a)
  BY RowsSuffice DEF VInv
<1>2. (\A a \in Analyses : RowOK(a))'
  BY <1>1, RowsStep DEF VInv
<1>3. (OneRunningAttempt /\ AbsentBlank /\ ProposalOfLastAttempt)'
  BY <1>2, RowsSuffice, PTL
<1> QED
  BY <1>3, TypeStep, ClaimsStep, DurableStep DEF VInv, ClaimInv

\* The inductive invariant holds in every reachable state.
THEOREM Invariant == Spec => []VInv
BY InvInit, InvStep, PTL DEF Spec

\* Every reachable state is of its type.
THEOREM TypeCorrect == Spec => []VTypeOK
<1>1. VInv => VTypeOK
  BY DEF VInv
<1> QED
  BY <1>1, Invariant, PTL

\* The row is running exactly when its latest attempt is, under the token made for it.
THEOREM OneRunningAttemptHolds == Spec => []OneRunningAttempt
<1>1. VInv => OneRunningAttempt
  BY DEF VInv
<1> QED
  BY <1>1, Invariant, PTL

\* The provider is called at most once for each attempt, whoever dies or is slow.
THEOREM DispatchBudgetHolds == Spec => []DispatchBudget
<1>1. VInv => DispatchBudget
  BY DEF VInv
<1> QED
  BY <1>1, Invariant, PTL

\* What a row publishes comes from its latest attempt.
THEOREM ProposalOfLastAttemptHolds == Spec => []ProposalOfLastAttempt
<1>1. VInv => ProposalOfLastAttempt
  BY DEF VInv
<1> QED
  BY <1>1, Invariant, PTL

\* One attempt at most runs, the latest, and what is published is the latest's.
THEOREM LatestAttemptRulesHolds == Spec => []LatestAttemptRules
BY OneRunningAttemptHolds, ProposalOfLastAttemptHolds, PTL DEF LatestAttemptRules

\* A success that execute reported is in the database until the scan is deleted.
THEOREM AnswerIsDurableHolds == Spec => []AnswerIsDurable
<1>1. VInv => AnswerIsDurable
  BY DEF VInv
<1> QED
  BY <1>1, Invariant, PTL

\* No late caller and no recovery changes the verdict of a finished analysis.
THEOREM VerdictIsFinalHolds == Spec => VerdictIsFinal
<1>1. VInv /\ [Next]_vars =>
        [\A a \in Analyses : (status[a] \in Final /\ status'[a] # "deleted") =>
            status'[a] = status[a] /\ proposal'[a] = proposal[a]]_vars
  BY VerdictKept
<1> QED
  BY <1>1, Invariant, PTL DEF Spec, VerdictIsFinal


-------------------------------------------------------------------------------
(* The refinement of FencedClaims *)

\* Whoever is past its call has called.
CalledFirst ==
    \A k \in Callers :
        pc[k] \in {"invoking", "closing", "refused"} => calls[work[k]][mine[k]] > 0

\* Nobody calls the provider but in Invoke.
LEMMA OnlyInvokeCalls ==
    ASSUME [Next]_vars
    PROVE  calls' = calls \/ \E k \in Callers : Invoke(k)
<1>1. ASSUME NEW k \in Callers, NEW b \in Analyses, Execute(k, b) PROVE calls' = calls
  BY <1>1 DEF Execute
<1>2. ASSUME NEW k \in Callers,
             ClaimAnalysis(k) \/ Complete(k) \/ Fail(k) \/ Vanish(k)
                \/ \E o \in Outcomes \ {"none"} : ProviderAnswers(k, o)
      PROVE  calls' = calls
  BY <1>2 DEF ClaimAnalysis, Complete, Fail, Vanish, ProviderAnswers
<1>3. Reap \/ (\E b \in Analyses : Lapse(b) \/ DeleteScan(b)) \/ UNCHANGED vars => calls' = calls
  BY DEF Reap, Lapse, DeleteScan, vars, callerVars
<1> QED
  BY <1>1, <1>2, <1>3 DEF Next, CallerStep

LEMMA CallsGrow ==
    ASSUME VTypeOK, [Next]_vars, NEW a \in Analyses, NEW n \in Attempts
    PROVE  calls'[a][n] >= calls[a][n]
<1>1. calls[a][n] \in Nat
  BY DEF VTypeOK
<1>2. CASE calls' = calls
  BY <1>1, <1>2
<1>3. ASSUME NEW k \in Callers, Invoke(k) PROVE calls'[a][n] >= calls[a][n]
  BY <1>1, <1>3 DEF Invoke, VTypeOK
<1> QED
  BY <1>2, <1>3, OnlyInvokeCalls

\* Callers that are past their call stay with the attempt they called for.
LEMMA CalledFirstStep == VInv /\ CalledFirst /\ [Next]_vars => CalledFirst'
<1> DEFINE Past(k) == pc[k] \in {"invoking", "closing", "refused"}
<1> SUFFICES ASSUME VInv, CalledFirst, [Next]_vars, NEW k \in Callers, Past(k)'
             PROVE  calls'[work'[k]][mine'[k]] > 0
  BY DEF CalledFirst
<1> USE DEF VInv, VTypeOK
<1>1. CASE Past(k) /\ work'[k] = work[k] /\ mine'[k] = mine[k]
  <2>1. work[k] \in Analyses /\ mine[k] \in Attempts
    BY <1>1, VisualAssumption DEF ClaimsOpened, Busy, Counts, Attempts
  <2>2. calls[work[k]][mine[k]] > 0 /\ calls[work[k]][mine[k]] \in Nat
    BY <1>1, <2>1 DEF CalledFirst
  <2>3. calls'[work[k]][mine[k]] >= calls[work[k]][mine[k]]
    BY <2>1, CallsGrow
  <2>4. calls'[work[k]][mine[k]] \in Nat
    BY <2>1, TypeStep
  <2> QED
    BY <1>1, <2>2, <2>3, <2>4
<1>2. ASSUME NEW l \in Callers, NEW a \in Analyses, Execute(l, a)
      PROVE  Past(k) /\ work'[k] = work[k] /\ mine'[k] = mine[k]
  BY <1>2 DEF Execute
<1>3. ASSUME NEW l \in Callers, ClaimAnalysis(l)
      PROVE  Past(k) /\ work'[k] = work[k] /\ mine'[k] = mine[k]
  BY <1>3 DEF ClaimAnalysis, Raises
<1>4. ASSUME NEW l \in Callers, Invoke(l), l # k
      PROVE  Past(k) /\ work'[k] = work[k] /\ mine'[k] = mine[k]
  BY <1>4 DEF Invoke
<1>5. CASE Invoke(k)
  <2>1. work[k] \in Analyses /\ mine[k] \in Attempts
    BY <1>5, VisualAssumption DEF Invoke, ClaimsOpened, Busy, Counts, Attempts
  <2>2. calls'[work[k]][mine[k]] = calls[work[k]][mine[k]] + 1 /\ work' = work /\ mine' = mine
    BY <1>5, <2>1 DEF Invoke
  <2> QED
    BY <2>1, <2>2
<1>6. ASSUME NEW l \in Callers,
             Complete(l) \/ Fail(l) \/ Vanish(l)
                \/ \E o \in Outcomes \ {"none"} : ProviderAnswers(l, o)
      PROVE  Past(k) /\ work'[k] = work[k] /\ mine'[k] = mine[k]
  BY <1>6 DEF Complete, Fail, Raises, Vanish, ProviderAnswers
<1>7. CASE Reap \/ (\E a \in Analyses : Lapse(a) \/ DeleteScan(a)) \/ UNCHANGED vars
  BY <1>1, <1>7 DEF Reap, Lapse, DeleteScan, vars, callerVars
<1> QED
  BY <1>1, <1>2, <1>3, <1>4, <1>5, <1>6, <1>7 DEF Next, CallerStep

LEMMA CalledFirstHolds == Spec => [](VInv /\ CalledFirst)
<1>1. Init => CalledFirst
  BY DEF Init, CalledFirst
<1> QED
  BY <1>1, CalledFirstStep, Invariant, PTL DEF Spec

\* All a step may do to the row of analysis b.
RowMove(b) ==
    \/ UNCHANGED <<status[b], count[b], proposal[b]>>
    \/ /\ status[b] = "absent" /\ status'[b] = "queued"
       /\ UNCHANGED <<count[b], proposal[b]>>
    \/ /\ status[b] = "absent" /\ status'[b] = "terminal_failure"
       /\ count'[b] = 1 /\ UNCHANGED proposal[b]
    \/ /\ status[b] \in Claimable /\ status'[b] = "running"
       /\ count[b] < MaxAttempts /\ count'[b] = count[b] + 1 /\ UNCHANGED proposal[b]
    \/ /\ status[b] = "running"
       /\ \/ status'[b] = "terminal_failure"
          \/ status'[b] = "retryable_failure" /\ count[b] < MaxAttempts
       /\ UNCHANGED <<count[b], proposal[b]>>
    \/ /\ status[b] = "running" /\ status'[b] \in Succeeded
       /\ calls[b][count[b]] > 0 /\ count[b] \in Attempts
       /\ proposal'[b] = count[b] /\ UNCHANGED count[b]
    \/ status'[b] = "deleted" /\ proposal'[b] = 0 /\ UNCHANGED count[b]

LEMMA RecoverMoves ==
    ASSUME RecoverStale, NEW b \in Analyses
    PROVE  RowMove(b)
<1>1. CASE Stale(b)
  BY <1>1 DEF RecoverStale, Stale, AfterFailure, RowMove
<1>2. CASE ~Stale(b)
  BY <1>2 DEF RecoverStale, RowMove
<1> QED
  BY <1>1, <1>2

LEMMA RowMoves ==
    ASSUME VInv, CalledFirst, [Next]_vars, NEW b \in Analyses
    PROVE  RowMove(b)
<1> USE DEF VInv, VTypeOK
<1>1. CASE UNCHANGED rowVars
  BY <1>1 DEF RowMove, rowVars
<1>2. ASSUME NEW k \in Callers, NEW a \in Analyses, Execute(k, a) PROVE RowMove(b)
  <2>1. CASE Create(a)
    BY <2>1 DEF Create, RowMove
  <2> QED
    BY <1>1, <1>2, <2>1, RecoverMoves DEF Execute
<1>3. ASSUME NEW k \in Callers, ClaimAnalysis(k) PROVE RowMove(b)
  BY <1>1, <1>3 DEF ClaimAnalysis, RowMove
<1>4. ASSUME NEW k \in Callers, Complete(k) PROVE RowMove(b)
  <2>1. CASE Owns(k) /\ work[k] = b /\ outcome[k] = "proposal"
    <3>1. status[b] = "running" /\ mine[k] = count[b] /\ count[b] \in Attempts
      BY <2>1, RowsSuffice DEF Owns, RowOK
    <3>2. calls[b][count[b]] > 0
      BY <1>4, <2>1, <3>1 DEF Complete, CalledFirst
    <3> QED
      BY <1>4, <2>1, <3>1, <3>2 DEF Complete, Close, RowMove, Succeeded
  <2>2. CASE Owns(k) /\ outcome[k] = "proposal" /\ work[k] # b
    BY <1>4, <2>2 DEF Complete, Close, RowMove
  <2> QED
    BY <1>1, <1>4, <2>1, <2>2 DEF Complete
<1>5. ASSUME NEW k \in Callers, Fail(k) PROVE RowMove(b)
  <2>1. CASE Owns(k) /\ work[k] = b
    BY <1>5, <2>1 DEF Fail, Owns, Close, AfterFailure, RowMove
  <2>2. CASE ~(Owns(k) /\ work[k] = b)
    BY <1>5, <2>2 DEF Fail, Close, RowMove
  <2> QED
    BY <2>1, <2>2
<1>6. ASSUME NEW k \in Callers,
             Invoke(k) \/ Vanish(k) \/ \E o \in Outcomes \ {"none"} : ProviderAnswers(k, o)
      PROVE  UNCHANGED rowVars
  BY <1>6 DEF Invoke, Vanish, ProviderAnswers
<1>7. ASSUME NEW a \in Analyses, Lapse(a) \/ DeleteScan(a) PROVE RowMove(b)
  BY <1>7 DEF Lapse, DeleteScan, RowMove
<1>8. CASE Reap \/ UNCHANGED vars
  BY <1>1, <1>8, RecoverMoves DEF Reap, vars
<1> QED
  BY <1>1, <1>2, <1>3, <1>4, <1>5, <1>6, <1>7, <1>8 DEF Next, CallerStep

\* What the mapping makes of a row.
LEMMA FencingValues ==
    ASSUME NEW a \in Analyses
    PROVE  /\ ClaimPhase[a] = CASE status[a] = "running" -> "held"
                                [] status[a] \in Final -> "closed"
                                [] status[a] = "deleted" -> "gone"
                                [] OTHER -> "open"
           /\ Asked[a] = {n \in Attempts : calls[a][n] > 0}
BY DEF ClaimPhase, Asked

LEMMA FencingTypes == VTypeOK => Fencing!FTypeOK
<1> SUFFICES ASSUME VTypeOK PROVE Fencing!FTypeOK
  OBVIOUS
<1>1. ClaimPhase \in [Analyses -> Fencing!Phases]
  BY DEF ClaimPhase, Fencing!Phases
<1>2. Asked \in [Analyses -> SUBSET (1..MaxAttempts)]
  BY DEF Asked, Attempts
<1> QED
  BY <1>1, <1>2 DEF VTypeOK, Counts, Fencing!FTypeOK

LEMMA FencingInit == Init => Fencing!Init
<1> SUFFICES ASSUME Init PROVE Fencing!Init
  OBVIOUS
<1>1. ClaimPhase = [a \in Analyses |-> "open"]
  BY DEF Init, ClaimPhase, Final, Succeeded
<1>2. Asked = [a \in Analyses |-> {}]
  BY DEF Init, Asked
<1> QED
  BY <1>1, <1>2 DEF Fencing!Init, Init

\* A call of the provider is work for the analysis of its caller.
LEMMA InvokeFences ==
    ASSUME VInv, NEW k \in Callers, Invoke(k), NEW b \in Analyses
    PROVE  Fencing!Moves(b) \/ Fencing!Kept(b)
<1>1. /\ work[k] \in Analyses /\ mine[k] \in 1..count[work[k]] /\ mine[k] \in Attempts
      /\ calls \in [Analyses -> [Attempts -> Nat]]
  <2>1. work[k] \in Analyses /\ calls \in [Analyses -> [Attempts -> Nat]]
    BY DEF VInv, VTypeOK
  <2>2. count[work[k]] \in 0..MaxAttempts
    BY <2>1 DEF VInv, VTypeOK, Counts
  <2>3. mine[k] \in 1..count[work[k]]
    BY DEF Invoke, VInv, ClaimsOpened, Busy
  <2>4. mine[k] \in 1..MaxAttempts
    BY <2>2, <2>3, VisualAssumption
  <2> QED
    BY <2>1, <2>3, <2>4 DEF Attempts
<1>2. UNCHANGED <<ClaimPhase[b], count[b], proposal[b]>>
  BY DEF ClaimPhase, Invoke, rowVars
<1>3. calls' = [calls EXCEPT ![work[k]][mine[k]] = @ + 1]
  BY DEF Invoke
<1>4. CASE work[k] = b
  <2>1. calls'[b][mine[k]] = calls[b][mine[k]] + 1 /\ calls[b][mine[k]] \in Nat
    BY <1>1, <1>3, <1>4
  <2>2. \A n \in Attempts \ {mine[k]} : calls'[b][n] = calls[b][n]
    BY <1>1, <1>3, <1>4
  <2>3. calls'[b][mine[k]] > 0
    BY <2>1
  <2>4. Asked'[b] = {n \in Attempts : calls'[b][n] > 0}
    BY DEF Asked
  <2>5. Asked'[b] = Asked[b] \cup {mine[k]}
    BY <1>1, <2>2, <2>3, <2>4 DEF Asked
  <2> QED
    BY <1>1, <1>2, <1>4, <2>5 DEF Fencing!Moves, Fencing!Works
<1>5. CASE work[k] # b
  <2>1. calls'[b] = calls[b]
    BY <1>1, <1>3, <1>5
  <2>2. Asked'[b] = Asked[b]
    BY <2>1 DEF Asked
  <2> QED
    BY <1>2, <2>2 DEF Fencing!Kept
<1> QED
  BY <1>4, <1>5

\* Where nobody calls, a move of a row is a move of the mapped one.
LEMMA RowMoveFences ==
    ASSUME VInv, NEW b \in Analyses, RowMove(b), calls' = calls
    PROVE  Fencing!Moves(b) \/ Fencing!Kept(b)
<1>1. Asked'[b] = Asked[b]
  BY DEF Asked
<1>2. ClaimPhase'[b] = CASE status'[b] = "running" -> "held"
                         [] status'[b] \in Final -> "closed"
                         [] status'[b] = "deleted" -> "gone"
                         [] OTHER -> "open"
  BY DEF ClaimPhase
<1>3. status[b] = "absent" => count[b] = 0
  BY DEF VInv, AbsentBlank
<1> USE DEF Final, Succeeded, Claimable
<1>4. CASE \/ UNCHANGED <<status[b], count[b], proposal[b]>>
           \/ /\ status[b] = "absent" /\ status'[b] = "queued"
              /\ UNCHANGED <<count[b], proposal[b]>>
  BY <1>1, <1>2, <1>4, FencingValues DEF Fencing!Kept
<1>5. CASE /\ status[b] = "absent" /\ status'[b] = "terminal_failure"
           /\ count'[b] = 1 /\ UNCHANGED proposal[b]
  <2>1. Fencing!Closes(b)
    BY <1>1, <1>2, <1>3, <1>5, FencingValues DEF Fencing!Closes
  <2> QED
    BY <2>1 DEF Fencing!Moves
<1>6. CASE /\ status[b] \in Claimable /\ status'[b] = "running"
           /\ count[b] < MaxAttempts /\ count'[b] = count[b] + 1 /\ UNCHANGED proposal[b]
  <2>1. Fencing!Grants(b)
    BY <1>1, <1>2, <1>6, FencingValues DEF Fencing!Grants
  <2> QED
    BY <2>1 DEF Fencing!Moves
<1>7. CASE /\ status[b] = "running" /\ status'[b] = "terminal_failure"
           /\ UNCHANGED <<count[b], proposal[b]>>
  <2>1. Fencing!Closes(b)
    BY <1>1, <1>2, <1>7, FencingValues DEF Fencing!Closes
  <2> QED
    BY <2>1 DEF Fencing!Moves
<1>8. CASE /\ status[b] = "running" /\ status'[b] = "retryable_failure"
           /\ count[b] < MaxAttempts /\ UNCHANGED <<count[b], proposal[b]>>
  <2>1. Fencing!GivesBack(b)
    BY <1>1, <1>2, <1>8, FencingValues DEF Fencing!GivesBack
  <2> QED
    BY <2>1 DEF Fencing!Moves
<1>9. CASE /\ status[b] = "running" /\ status'[b] \in Succeeded
           /\ calls[b][count[b]] > 0 /\ count[b] \in Attempts
           /\ proposal'[b] = count[b] /\ UNCHANGED count[b]
  <2>1. count[b] \in Asked[b]
    BY <1>9, FencingValues
  <2>2. Fencing!Publishes(b)
    BY <1>1, <1>2, <1>9, <2>1, FencingValues DEF Fencing!Publishes
  <2> QED
    BY <2>2 DEF Fencing!Moves
<1>10. CASE status'[b] = "deleted" /\ proposal'[b] = 0 /\ UNCHANGED count[b]
  <2>1. Fencing!Goes(b)
    BY <1>1, <1>2, <1>10 DEF Fencing!Goes
  <2> QED
    BY <2>1 DEF Fencing!Moves
<1> QED
  BY <1>4, <1>5, <1>6, <1>7, <1>8, <1>9, <1>10 DEF RowMove

LEMMA FencingStep ==
    VInv /\ CalledFirst /\ [Next]_vars
        => [Fencing!Next]_<<ClaimPhase, count, Asked, proposal>>
<1> SUFFICES ASSUME VInv, CalledFirst, [Next]_vars
             PROVE  Fencing!Next
  OBVIOUS
<1>1. Fencing!FTypeOK'
  <2>1. VTypeOK'
    BY TypeStep DEF VInv
  <2>2. (VTypeOK => Fencing!FTypeOK)'
    BY FencingTypes, PTL
  <2> QED
    BY <2>1, <2>2
<1>2. ASSUME NEW b \in Analyses PROVE Fencing!Moves(b) \/ Fencing!Kept(b)
  <2>1. RowMove(b)
    BY RowMoves
  <2> QED
    BY <2>1, OnlyInvokeCalls, InvokeFences, RowMoveFences
<1> QED
  BY <1>1, <1>2 DEF Fencing!Next

\* Every analysis keeps what FencedClaims promises: whichever callers race, die or
\* come late, at most MaxAttempts claims of it are granted, each granted claim may ask
\* the provider, and only what the latest claim asked for becomes the proposal.
THEOREM AnalysisFencesHolds == Spec => AnalysisFences
BY FencingInit, FencingStep, CalledFirstHolds, PTL DEF Spec, AnalysisFences, Fencing!Spec
===============================================================================

------------------------- MODULE CanvasWriteback_proofs -------------------------
(***************************************************************************)
(* Proofs about CanvasWriteback for any number of requests and handlers,   *)
(* any number of attempts and any number of faults: the artifact is marked *)
(* as written for one upload, which reached Canvas and whose log says so.  *)
(*                                                                         *)
(* The argument: a log row exists only once its request is over            *)
(* (LogsAreLate), so a late answer finds none of its own; an upload that   *)
(* was found is never lost again (FoundStays), so an observation may be    *)
(* applied long after it was made (SeenIsTrue).                            *)
(***************************************************************************)
EXTENDS CanvasWriteback, TLAPS

Found(r) == remote[r] \in {"landed", "changed"}

LogsAreLate == \A r \in Requests : log[r] # "none" => pc[r] = "done"
FoundStays ==
    \A r \in Requests :
        /\ pc[r] = "answered" => Found(r)
        /\ Found(r) => pc[r] \notin {"idle", "sending"}
HandlersWork == \A h \in Handlers : hpc[h] # "idle" => task[h] \in Requests
SeenIsTrue ==
    \A h \in Handlers :
        seen[h] = "confirmed" => hpc[h] \in {"observed", "asserted"} /\ Found(task[h])

WInv ==
    /\ WritebackConsistent
    /\ LogsAreLate
    /\ FoundStays
    /\ HandlersWork
    /\ SeenIsTrue

USE DEF Found

LEMMA WInvInit == Init => WInv
BY WritebackAssumption
   DEF Init, WInv, WritebackConsistent, WTypeOK, WrittenByOneUpload, NoUploadBesideAmbiguity,
       Unresolved, LogsAreLate, FoundStays, HandlersWork, SeenIsTrue

\* What the end of a handler leaves behind.
LEMMA ReturnsTypes ==
    ASSUME WTypeOK, NEW h \in Handlers, NEW ends \in SUBSET {"none", "pending"},
           task[h] \in Requests, Returns(h, ends)
    PROVE  /\ hpc' = [hpc EXCEPT ![h] = "idle"]
           /\ task' = [task EXCEPT ![h] = Nobody]
           /\ seen' = [seen EXCEPT ![h] = "nothing"]
           /\ job' \in [Requests -> {"none", "pending", "processing"}]
           /\ owner' \in [Requests -> Handlers \cup {Nobody}]
BY DEF WTypeOK, Returns, queue

\* ... and what that means for the handlers, when no copy changes.
LEMMA ReturnsKeeps ==
    ASSUME WInv, NEW h \in Handlers, NEW ends \in SUBSET {"none", "pending"},
           task[h] \in Requests, Returns(h, ends), remote' = remote
    PROVE  /\ hpc' \in [Handlers -> {"idle", "claimed", "leased", "observed", "asserted"}]
           /\ task' \in [Handlers -> Requests \cup {Nobody}]
           /\ seen' \in [Handlers -> {"nothing", "confirmed", "absent", "indeterminate"}]
           /\ HandlersWork' /\ SeenIsTrue'
<1>1. WTypeOK /\ HandlersWork /\ SeenIsTrue
  BY DEF WInv, WritebackConsistent
<1>2. /\ hpc' = [hpc EXCEPT ![h] = "idle"]
      /\ task' = [task EXCEPT ![h] = Nobody]
      /\ seen' = [seen EXCEPT ![h] = "nothing"]
  BY <1>1, ReturnsTypes
<1>3. /\ hpc' \in [Handlers -> {"idle", "claimed", "leased", "observed", "asserted"}]
      /\ task' \in [Handlers -> Requests \cup {Nobody}]
      /\ seen' \in [Handlers -> {"nothing", "confirmed", "absent", "indeterminate"}]
  BY <1>1, <1>2 DEF WTypeOK
<1>4. HandlersWork'
  BY <1>1, <1>2 DEF WTypeOK, HandlersWork
<1>5. SeenIsTrue'
  BY <1>1, <1>2 DEF WTypeOK, SeenIsTrue
<1> QED
  BY <1>3, <1>4, <1>5

-------------------------------------------------------------------------------
(* The steps of a request *)

LEMMA RequestKeeps ==
    ASSUME WInv, NEW r \in Requests, RequestStep(r)
    PROVE  WInv'
<1> USE WritebackAssumption
        DEF WInv, WritebackConsistent, WTypeOK, WrittenByOneUpload, NoUploadBesideAmbiguity,
            Unresolved, LogsAreLate, FoundStays, HandlersWork, SeenIsTrue, Goes, Unlocks,
            artifact, logs, queue, handling
<1>1. CASE Sends(r)
  BY <1>1 DEF Sends
<1>2. CASE Answered(r)
  BY <1>2 DEF Answered
<1>3. CASE Rejected(r)
  BY <1>3 DEF Rejected
<1>4. CASE Ambiguous(r)
  BY <1>4 DEF Ambiguous
<1>5. CASE Commits(r)
  BY <1>5 DEF Commits
<1>6. CASE CommitFails(r)
  BY <1>6 DEF CommitFails, Fault
<1>7. CASE MarkRaises(r)
  BY <1>7 DEF MarkRaises
<1>8. CASE Persists(r)
  BY <1>8 DEF Persists
<1>9. CASE RequestDies(r)
  BY <1>9 DEF RequestDies, Fault
<1>10. CASE ConnectionLost(r)
  BY <1>10 DEF ConnectionLost, Fault
<1> QED
  BY <1>1, <1>2, <1>3, <1>4, <1>5, <1>6, <1>7, <1>8, <1>9, <1>10 DEF RequestStep

-------------------------------------------------------------------------------
(* The steps of the others *)

LEMMA OthersKeep ==
    ASSUME WInv,
           \/ \E r \in Requests : Edited(r) \/ LeaseLapses(r) \/ Reaps(r) \/ Backfill(r)
           \/ \E h \in Handlers, r \in Requests : Claims(h, r)
           \/ \E h \in Handlers : HandlerDies(h)
           \/ Lapses \/ Reapproves
    PROVE  WInv'
<1> USE WritebackAssumption
        DEF WInv, WritebackConsistent, WTypeOK, WrittenByOneUpload, NoUploadBesideAmbiguity,
            Unresolved, LogsAreLate, FoundStays, HandlersWork, SeenIsTrue,
            api, artifact, logs, queue, handling
<1>1. ASSUME NEW r \in Requests, Edited(r) PROVE WInv'
  BY <1>1 DEF Edited
<1>2. ASSUME NEW r \in Requests, LeaseLapses(r) PROVE WInv'
  BY <1>2 DEF LeaseLapses
<1>3. ASSUME NEW r \in Requests, Reaps(r) PROVE WInv'
  BY <1>3 DEF Reaps, Fault
<1>4. ASSUME NEW r \in Requests, Backfill(r) PROVE WInv'
  BY <1>4 DEF Backfill
<1>5. ASSUME NEW h \in Handlers, NEW r \in Requests, Claims(h, r) PROVE WInv'
  BY <1>5 DEF Claims
<1>6. ASSUME NEW h \in Handlers, HandlerDies(h) PROVE WInv'
  BY <1>6 DEF HandlerDies, Fault
<1>7. CASE Lapses
  BY <1>7 DEF Lapses
<1>8. CASE Reapproves
  BY <1>8 DEF Reapproves
<1> QED
  BY <1>1, <1>2, <1>3, <1>4, <1>5, <1>6, <1>7, <1>8

\* The end of a log that is open: only a confirmation marks the artifact.
LEMMA EndsKeeps ==
    ASSUME WInv, NEW r \in Requests, log[r] = "required",
           NEW how \in {"reconciled", "failed_manual", "manual_required"},
           NEW shows \in {"written_back", "reconciliation_failed"},
           Ends(r, how, shows),
           IF how = "reconciled" THEN written \in {Nobody, r} /\ written' = r /\ Found(r)
                                 ELSE written' = written,
           UNCHANGED <<api, usable>>
    PROVE  /\ WrittenByOneUpload' /\ NoUploadBesideAmbiguity' /\ LogsAreLate' /\ FoundStays'
           /\ written' \in Requests \cup {Nobody}
           /\ status' \in {"approved", "written_back", "reconciliation_failed"}
           /\ log' \in [Requests -> {"none", "required", "committed", "reconciled",
                                     "failed_manual", "manual_required"}]
           /\ lease' \in [Requests -> Handlers \cup {Nobody}]
           /\ lapsed' \in [Requests -> BOOLEAN]
           /\ UNCHANGED tries
<1> USE WritebackAssumption
        DEF WInv, WritebackConsistent, WTypeOK, WrittenByOneUpload, NoUploadBesideAmbiguity,
            Unresolved, LogsAreLate, FoundStays, api, Ends
<1>1. written # r
  OBVIOUS
<1>2. WrittenByOneUpload'
  BY <1>1
<1>3. NoUploadBesideAmbiguity' /\ LogsAreLate' /\ FoundStays'
  OBVIOUS
<1>4. /\ written' \in Requests \cup {Nobody}
      /\ status' \in {"approved", "written_back", "reconciliation_failed"}
  OBVIOUS
<1>5. /\ log' \in [Requests -> {"none", "required", "committed", "reconciled",
                                "failed_manual", "manual_required"}]
      /\ lease' \in [Requests -> Handlers \cup {Nobody}]
      /\ lapsed' \in [Requests -> BOOLEAN]
      /\ UNCHANGED tries
  OBVIOUS
<1> QED
  BY <1>2, <1>3, <1>4, <1>5

\* The last step of a handler: the log it resolves is still open and carries its
\* token, and what it saw is still true.
LEMMA ResolvesKeeps ==
    ASSUME WInv, NEW h \in Handlers, Resolves(h)
    PROVE  WInv'
<1>1. /\ hpc[h] = "asserted" /\ log[task[h]] = "required" /\ task[h] \in Requests
      /\ UNCHANGED <<api, usable, faults>> /\ remote' = remote
      /\ WTypeOK
  BY DEF Resolves, MayResolve, WInv, WritebackConsistent, HandlersWork, api
<1>2. Completed \in SUBSET {"none", "pending"} /\ Retried \in SUBSET {"none", "pending"}
  BY DEF Completed, Retried
<1>3. ASSUME NEW how \in {"reconciled", "failed_manual", "manual_required"},
             NEW shows \in {"written_back", "reconciliation_failed"},
             Ends(task[h], how, shows),
             IF how = "reconciled" THEN written \in {Nobody, task[h]} /\ written' = task[h]
                                        /\ Found(task[h])
                                   ELSE written' = written,
             Returns(h, Completed)
      PROVE  WInv'
  <2>1. /\ WrittenByOneUpload' /\ NoUploadBesideAmbiguity' /\ LogsAreLate' /\ FoundStays'
        /\ written' \in Requests \cup {Nobody}
        /\ status' \in {"approved", "written_back", "reconciliation_failed"}
        /\ log' \in [Requests -> {"none", "required", "committed", "reconciled",
                                  "failed_manual", "manual_required"}]
        /\ lease' \in [Requests -> Handlers \cup {Nobody}]
        /\ lapsed' \in [Requests -> BOOLEAN]
        /\ UNCHANGED tries
    BY <1>1, <1>3, EndsKeeps
  <2>2. /\ job' \in [Requests -> {"none", "pending", "processing"}]
        /\ owner' \in [Requests -> Handlers \cup {Nobody}]
    BY <1>1, <1>2, <1>3, ReturnsTypes
  <2>3. /\ hpc' \in [Handlers -> {"idle", "claimed", "leased", "observed", "asserted"}]
        /\ task' \in [Handlers -> Requests \cup {Nobody}]
        /\ seen' \in [Handlers -> {"nothing", "confirmed", "absent", "indeterminate"}]
        /\ HandlersWork' /\ SeenIsTrue'
    BY <1>1, <1>2, <1>3, ReturnsKeeps
  <2>4. WTypeOK'
    BY <1>1, <2>1, <2>2, <2>3 DEF WTypeOK, api
  <2> QED
    BY <2>1, <2>3, <2>4 DEF WInv, WritebackConsistent
<1>4. CASE Confirms(h)
  <2>1. Found(task[h])
    BY <1>1, <1>4 DEF Confirms, WInv, SeenIsTrue
  <2> QED
    BY <1>3, <1>4, <2>1 DEF Confirms
<1>5. CASE FindsNone(h)
  BY <1>3, <1>5 DEF FindsNone
<1>6. CASE GivesUp(h)
  BY <1>3, <1>6 DEF GivesUp
<1>7. CASE ConfirmRaises(h) \/ TriesAgain(h)
  <2>1. Returns(h, Retried) /\ UNCHANGED <<written, status, log, tries>>
        /\ lease' \in [Requests -> Handlers \cup {Nobody}]
        /\ lapsed' \in [Requests -> BOOLEAN]
    <3>1. CASE ConfirmRaises(h)
      BY <1>1, <3>1 DEF ConfirmRaises, logs, WTypeOK
    <3>2. CASE TriesAgain(h)
      BY <1>1, <3>2 DEF TriesAgain, WTypeOK
    <3> QED
      BY <1>7, <3>1, <3>2
  <2>2. /\ job' \in [Requests -> {"none", "pending", "processing"}]
        /\ owner' \in [Requests -> Handlers \cup {Nobody}]
    BY <1>1, <1>2, <2>1, ReturnsTypes
  <2>3. /\ hpc' \in [Handlers -> {"idle", "claimed", "leased", "observed", "asserted"}]
        /\ task' \in [Handlers -> Requests \cup {Nobody}]
        /\ seen' \in [Handlers -> {"nothing", "confirmed", "absent", "indeterminate"}]
        /\ HandlersWork' /\ SeenIsTrue'
    BY <1>1, <1>2, <2>1, ReturnsKeeps
  <2>4. WTypeOK'
    BY <1>1, <2>1, <2>2, <2>3 DEF WTypeOK, api
  <2> QED
    BY <1>1, <2>1, <2>3, <2>4
       DEF WInv, WritebackConsistent, WrittenByOneUpload, NoUploadBesideAmbiguity,
           Unresolved, LogsAreLate, FoundStays, api
<1> QED
  BY <1>4, <1>5, <1>6, <1>7 DEF Resolves

LEMMA HandlerKeeps ==
    ASSUME WInv, NEW h \in Handlers, HandlerStep(h)
    PROVE  WInv'
<1> USE WritebackAssumption
<1>1. ASSUME hpc[h] # "idle", NEW ends \in SUBSET {"none", "pending"}, Returns(h, ends),
             UNCHANGED <<api, artifact, logs, faults>>
      PROVE  WInv'
  <2>1. WTypeOK /\ task[h] \in Requests
    BY <1>1 DEF WInv, WritebackConsistent, HandlersWork
  <2>2. /\ job' \in [Requests -> {"none", "pending", "processing"}]
        /\ owner' \in [Requests -> Handlers \cup {Nobody}]
    BY <1>1, <2>1, ReturnsTypes
  <2>3. remote' = remote
    BY <1>1 DEF api
  <2>4. /\ hpc' \in [Handlers -> {"idle", "claimed", "leased", "observed", "asserted"}]
        /\ task' \in [Handlers -> Requests \cup {Nobody}]
        /\ seen' \in [Handlers -> {"nothing", "confirmed", "absent", "indeterminate"}]
        /\ HandlersWork' /\ SeenIsTrue'
    BY <1>1, <2>1, <2>3, ReturnsKeeps
  <2>5. WTypeOK'
    BY <1>1, <2>1, <2>2, <2>4 DEF WTypeOK, api, artifact, logs
  <2> QED
    BY <1>1, <2>4, <2>5
       DEF WInv, WritebackConsistent, WrittenByOneUpload, NoUploadBesideAmbiguity,
           Unresolved, LogsAreLate, FoundStays, api, artifact, logs
<1>2. Completed \in SUBSET {"none", "pending"} /\ Retried \in SUBSET {"none", "pending"}
  BY DEF Completed, Retried
<1>3. CASE NothingToDo(h) \/ NotOwned(h) \/ LeaseLost(h)
  BY <1>1, <1>2, <1>3 DEF NothingToDo, NotOwned, LeaseLost
<1>4. CASE Resolves(h)
  BY <1>4, ResolvesKeeps
<1>5. CASE TakesLease(h)
  <2>1. task[h] \in Requests /\ tries[task[h]] \in 0..MaxAttempts
    BY <1>5 DEF TakesLease, WInv, WritebackConsistent, WTypeOK, HandlersWork
  <2>2. (IF tries[task[h]] = MaxAttempts THEN tries[task[h]] ELSE tries[task[h]] + 1)
            \in 0..MaxAttempts
    BY <2>1
  <2> QED
    BY <1>5, <2>1, <2>2
       DEF TakesLease, At, WInv, WritebackConsistent, WTypeOK, WrittenByOneUpload,
           NoUploadBesideAmbiguity, Unresolved, LogsAreLate, FoundStays, HandlersWork,
           SeenIsTrue, api, artifact, queue
<1>6. CASE Observes(h)
  <2>1. PICK o \in Observable(task[h]) : seen' = [seen EXCEPT ![h] = o]
    BY <1>6 DEF Observes
  <2>2. /\ o \in {"nothing", "confirmed", "absent", "indeterminate"}
        /\ o = "confirmed" => Found(task[h])
    BY <2>1 DEF Observable
  <2> QED
    BY <1>6, <2>1, <2>2
       DEF Observes, At, WInv, WritebackConsistent, WTypeOK, WrittenByOneUpload,
           NoUploadBesideAmbiguity, Unresolved, LogsAreLate, FoundStays, HandlersWork,
           SeenIsTrue, api, artifact, logs, queue
<1>7. CASE AssertsOwned(h)
  BY <1>7
     DEF AssertsOwned, At, WInv, WritebackConsistent, WTypeOK, WrittenByOneUpload,
         NoUploadBesideAmbiguity, Unresolved, LogsAreLate, FoundStays, HandlersWork,
         SeenIsTrue, api, artifact, logs, queue
<1> QED
  BY <1>3, <1>4, <1>5, <1>6, <1>7 DEF HandlerStep

-------------------------------------------------------------------------------
LEMMA WInvStep == WInv /\ [Next]_vars => WInv'
<1> SUFFICES ASSUME WInv, [Next]_vars PROVE WInv'
  OBVIOUS
<1>1. CASE UNCHANGED vars
  BY <1>1
     DEF vars, api, artifact, logs, queue, handling, WInv, WritebackConsistent, WTypeOK,
         WrittenByOneUpload, NoUploadBesideAmbiguity, Unresolved, LogsAreLate, FoundStays,
         HandlersWork, SeenIsTrue
<1> QED
  BY <1>1, RequestKeeps, OthersKeep, HandlerKeeps DEF Next

\* The artifact is marked as written for the one upload whose log says so, and that
\* upload reached Canvas; and no request uploads it beside a recorded ambiguity.
THEOREM WritebackConsistentHolds == Spec => []WritebackConsistent
<1>1. WInv => WritebackConsistent
  BY DEF WInv
<1> QED
  BY <1>1, WInvInit, WInvStep, PTL DEF Spec

-------------------------------------------------------------------------------
(* What is known stays known *)

Stands ==
    /\ \A r \in Requests : log[r] \notin {"none", "required"} => log'[r] = log[r]
    /\ written # Nobody => written' = written

\* A request is over when its log begins, and a handler ends an open log only.
LEMMA StandsStep ==
    ASSUME WInv, [Next]_vars
    PROVE  Stands
<1> USE DEF Stands, artifact, logs
<1>1. CASE UNCHANGED <<log, written>>
  BY <1>1
<1>2. ASSUME NEW r \in Requests, Commits(r) \/ Persists(r) PROVE Stands
  <2>1. log[r] = "none"
    BY <1>2 DEF Commits, Persists, WInv, LogsAreLate
  <2> QED
    BY <1>2, <2>1 DEF Commits, Persists, WInv, WritebackConsistent, WTypeOK
<1>3. ASSUME NEW r \in Requests, RequestStep(r), ~Commits(r), ~Persists(r)
      PROVE  UNCHANGED <<log, written>>
  BY <1>3 DEF RequestStep, Sends, Answered, Rejected, Ambiguous, CommitFails, MarkRaises,
              RequestDies, ConnectionLost
<1>4. ASSUME NEW h \in Handlers, Resolves(h) PROVE Stands
  <2>1. task[h] \in Requests /\ log[task[h]] = "required"
    BY <1>4 DEF Resolves, MayResolve, WInv, HandlersWork
  <2>2. CASE Confirms(h)
    <3>1. written # task[h]
      BY <2>1 DEF WInv, WritebackConsistent, WrittenByOneUpload
    <3> QED
      BY <2>1, <2>2, <3>1 DEF Confirms, Ends, WInv, WritebackConsistent, WTypeOK
  <2>3. CASE FindsNone(h) \/ GivesUp(h)
    BY <2>1, <2>3 DEF FindsNone, GivesUp, Ends, WInv, WritebackConsistent, WTypeOK
  <2>4. CASE ConfirmRaises(h) \/ TriesAgain(h)
    BY <2>4 DEF ConfirmRaises, TriesAgain
  <2> QED
    BY <1>4, <2>2, <2>3, <2>4 DEF Resolves
<1>5. ASSUME NEW h \in Handlers,
             \/ HandlerStep(h) /\ ~Resolves(h)
             \/ HandlerDies(h)
             \/ \E r \in Requests : Claims(h, r)
      PROVE  UNCHANGED <<log, written>>
  BY <1>5 DEF HandlerStep, TakesLease, NothingToDo, Observes, AssertsOwned, NotOwned,
              LeaseLost, HandlerDies, Claims
<1>6. ASSUME NEW r \in Requests, Edited(r) \/ LeaseLapses(r) \/ Reaps(r) \/ Backfill(r)
      PROVE  UNCHANGED <<log, written>>
  BY <1>6 DEF Edited, LeaseLapses, Reaps, Backfill
<1>7. CASE Lapses \/ Reapproves \/ UNCHANGED vars
  BY <1>1, <1>7 DEF Lapses, Reapproves, vars
<1> QED
  BY <1>1, <1>2, <1>3, <1>4, <1>5, <1>6, <1>7 DEF Next

\* A closed log stays closed and the artifact's mark stays where it is
\* (CanvasReconciliationService.handle_job, write_back_file).
THEOREM ResolutionStandsHolds == Spec => ResolutionStands
<1>1. WInv /\ [Next]_vars => [Stands]_vars
  BY StandsStep
<1> QED
  BY <1>1, WInvInit, WInvStep, PTL DEF Spec, ResolutionStands, Stands
===============================================================================

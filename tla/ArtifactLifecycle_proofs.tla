------------------------ MODULE ArtifactLifecycle_proofs ------------------------
(***************************************************************************)
(* What ArtifactLifecycle keeps for any attempts, jobs, cleaners and       *)
(* faults: the types, what is served, what approval keeps, and that disk   *)
(* and rows agree.                                                         *)
(***************************************************************************)
EXTENDS ArtifactLifecycle, TLAPS

-------------------------------------------------------------------------------
(* The inductive invariant *)

\* An attempt inserts its row, once, and only then writes files.
RowsOfAttempts ==
    \A a \in Attempts :
        /\ pc[a] = "idle" => row[a] = "none"
        /\ pc[a] \in {"create", "writing", "linked"} => art[a] = a /\ row[a] # "none"
        /\ pc[a] \in {"finalize", "abort", "removed"} => art[a] \in Attempts /\ row[art[a]] # "none"

\* Whoever holds the department's lock over file operations holds it alone, over
\* what it has just checked or removed.
OpenAlone ==
    /\ \A a \in Attempts :
        /\ pc[a] = "linked" => open = a /\ Staged(a) /\ claim[a] = Nobody
        /\ pc[a] = "removed" => open = a /\ where[<<art[a], "final">>] # "managed"
    /\ \A c \in Cleaners :
        doing[c] # Nobody =>
            open = c /\ Exists(doing[c]) /\ where[<<doing[c], "final">>] # "managed"

\* A fence leaves no such process behind, and its deletion the claims it made.
FenceHolds ==
    /\ open # Nobody => fence = {}
    /\ \A p \in Parents : \A a \in todo[p] :
        /\ p \in fence /\ Exists(a) /\ claim[a] = p
        /\ at[p] = "stage" => where[<<a, "final">>] # "managed"

\* What was due for a cleanup when it was claimed stays due for it, and what a
\* deletion claimed is not approved.
ClaimsHold ==
    \A a \in Attempts :
        /\ claim[a] # Nobody => Exists(a)
        /\ claim[a] \in Cleaners => Eligible(a)
        /\ claim[a] \in Parents => review[a] # "approved"

\* Nothing is reviewed before it is available.
StagedUnreviewed ==
    \A a \in Attempts : row[a] \in {"none", "staging", "published"} => review[a] = "pending"

\* Files and their quarantine follow the row, and a row that went never returns.
FilesFollowRows ==
    \A f \in Files :
        /\ where[f] # "absent" => row[f[1]] # "none"
        /\ intent[f] # "none" => row[f[1]] = "gone"

Parts ==
    /\ RowsOfAttempts
    /\ OpenAlone
    /\ FenceHolds
    /\ ClaimsHold
    /\ StagedUnreviewed
    /\ FilesFollowRows
    /\ FilesMatchRows
    /\ CurrentIsServed
    /\ ApprovedIsKept

AInv == ATypeOK /\ Parts

-------------------------------------------------------------------------------
(* Types *)

LEMMA ATypeInit == Init => ATypeOK
<1> SUFFICES ASSUME Init PROVE ATypeOK
  OBVIOUS
<1> USE AttemptsAssumption DEF Init
<1>1. /\ jobOf \in JobMaps
      /\ faults \in 0 .. MaxFaults
  OBVIOUS
<1>2. /\ where \in [Files -> {"absent", "managed", "quarantine"}]
      /\ intent \in [Files -> {"none", "pending", "quarantined", "restore", "purging",
                               "purged"}]
  OBVIOUS
<1>3. /\ row \in [Attempts -> {"none", "staging", "published", "available", "superseded",
                               "gone"}]
      /\ review \in [Attempts -> {"pending", "approved", "rejected", "written"}]
      /\ pc \in [Attempts -> {"idle", "create", "writing", "linked", "finalize",
                              "abort", "removed", "done"}]
  OBVIOUS
<1>4. /\ claim \in [Attempts -> {Nobody} \cup Parents \cup Cleaners]
      /\ due \in [Attempts -> BOOLEAN]
      /\ logged \in [Attempts -> BOOLEAN]
      /\ art \in [Attempts -> Attempts \cup {Nobody}]
  OBVIOUS
<1>5. /\ targets \in [Cleaners -> SUBSET Attempts]
      /\ doing \in [Cleaners -> Attempts \cup {Nobody}]
      /\ todo \in [Parents -> SUBSET Attempts]
      /\ at \in [Parents -> {"idle", "remove", "stage"}]
  OBVIOUS
<1>6. QED BY <1>1, <1>2, <1>3, <1>4, <1>5 DEF ATypeOK

LEMMA DropsType ==
  ASSUME ATypeOK, NEW a \in Attempts, DropsPartial(a)
  PROVE  /\ where' \in [Files -> {"absent", "managed", "quarantine"}]
         /\ pc' = [pc EXCEPT ![a] = "abort"]
         /\ \A f \in Files : where'[f] = where[f] \/ (f = <<a, "partial">> /\ where'[f] = "absent")
<1>1. <<a, "partial">> \in Files
  BY DEF Files
<1>2. where \in [Files -> {"absent", "managed", "quarantine"}]
  BY DEF ATypeOK
<1>3. QED BY <1>1, <1>2 DEF DropsPartial, Goes

LEMMA ATypeAttempt ==
  ASSUME ATypeOK, RowsOfAttempts, NEW a \in Attempts, AttemptStep(a)
  PROVE  ATypeOK'
<1> USE AttemptsAssumption DEF Files, rows, parents, attempts, cleanup, disk, Goes, Fault
<1>2. CASE ClaimsRow(a)
  <2>1. CASE Authority /\ Inserts(a)
    BY <1>2, <2>1 DEF ATypeOK, ClaimsRow, Inserts
  <2>2. CASE Authority /\ Resumes(a)
    BY <1>2, <2>2 DEF ATypeOK, ClaimsRow, Resumes, Existing, Rows
  <2>3. CASE ~Authority
    BY <1>2, <2>3 DEF ATypeOK, ClaimsRow
  <2>4. QED BY <1>2, <2>1, <2>2, <2>3 DEF ClaimsRow
<1>3. CASE CreatesPartial(a)
  BY <1>3 DEF ATypeOK, CreatesPartial
<1>4. CASE Heartbeat(a)
  <2>1. CASE Authority /\ Owned(a)
    <3>1. /\ due' = [due EXCEPT ![a] = FALSE]
          /\ UNCHANGED <<where, pc, row, review, claim, logged, current, parents, jobOf>>
          /\ UNCHANGED <<art, cleanup, intent, open, faults>>
      BY <1>4, <2>1 DEF Heartbeat
    <3>2. QED BY <3>1 DEF ATypeOK
  <2>2. CASE DropsPartial(a) /\ UNCHANGED due
    <3>1. /\ UNCHANGED <<row, review, claim, logged, current, parents, jobOf, art>>
          /\ UNCHANGED <<cleanup, intent, open, faults, due>>
      BY <1>4, <2>2 DEF Heartbeat
    <3>2. /\ where' \in [Files -> {"absent", "managed", "quarantine"}]
          /\ pc' = [pc EXCEPT ![a] = "abort"]
      BY <2>2, DropsType
    <3>3. QED BY <3>1, <3>2 DEF ATypeOK
  <2>3. QED BY <1>4, <2>1, <2>2 DEF Heartbeat
<1>5. CASE Links(a)
  <2>1. CASE Authority /\ Owned(a) /\ where[<<a, "partial">>] = "managed"
    <3>1. /\ where' = [where EXCEPT ![<<a, "final">>] = "managed"]
          /\ open' = a
          /\ pc' = [pc EXCEPT ![a] = "linked"]
          /\ UNCHANGED <<rows, parents, jobOf, art, cleanup, intent, faults>>
      BY <1>5, <2>1 DEF Links
    <3>2. QED BY <3>1 DEF ATypeOK
  <2>2. CASE DropsPartial(a) /\ UNCHANGED open
    <3>1. UNCHANGED <<rows, parents, jobOf, art, cleanup, intent, faults, open>>
      BY <1>5, <2>2 DEF Links
    <3>2. /\ where' \in [Files -> {"absent", "managed", "quarantine"}]
          /\ pc' = [pc EXCEPT ![a] = "abort"]
      BY <2>2, DropsType
    <3>3. QED BY <3>1, <3>2 DEF ATypeOK
  <2>3. QED BY <1>5, <2>1, <2>2 DEF Links
<1>6. CASE CommitsPublished(a)
  BY <1>6 DEF ATypeOK, CommitsPublished
<1>7. CASE PublicationFails(a)
  BY <1>7 DEF ATypeOK, PublicationFails, DropsPartial
<1>8. CASE HandlerCommits(a)
  <2>1. art[a] \in Attempts
    BY <1>8 DEF RowsOfAttempts, HandlerCommits
  <2>2. QED BY <1>8, <2>1 DEF ATypeOK, HandlerCommits
<1>9. CASE HandlerFails(a)
  BY <1>9 DEF ATypeOK, HandlerFails
<1>10. CASE AbortRemoves(a)
  <2>1. CASE Authority /\ Owned(art[a])
    BY <1>10, <2>1 DEF ATypeOK, AbortRemoves, WithoutFilesOf
  <2>2. CASE ~(Authority /\ Owned(art[a]))
    BY <1>10, <2>2 DEF ATypeOK, AbortRemoves
  <2>3. QED BY <2>1, <2>2
<1>11. CASE AbortCommits(a)
  BY <1>11 DEF ATypeOK, AbortCommits, Deletes
<1>12. CASE AttemptDies(a)
  BY <1>12 DEF ATypeOK, AttemptDies
<1>13. QED
  BY <1>2, <1>3, <1>4, <1>5, <1>6, <1>7, <1>8, <1>9, <1>10, <1>11, <1>12
  DEF AttemptStep, PublishStep

LEMMA ATypeReview ==
  ASSUME ATypeOK, NEW a \in Attempts, ReviewStep(a) \/ RunsOut(a)
  PROVE  ATypeOK'
<1> USE AttemptsAssumption DEF rows, parents, attempts, cleanup, disk, Reviews, Fault
<1>1. CASE Approves(a) \/ Rejects(a) \/ Invalidates(a)
  BY <1>1 DEF ATypeOK, Approves, Rejects, Invalidates
<1>2. CASE LogsAmbiguity(a)
  BY <1>2 DEF ATypeOK, LogsAmbiguity
<1>3. CASE MarksWritten(a)
  <2>1. PICK canvas \in {logged[a], TRUE} : logged' = [logged EXCEPT ![a] = canvas]
    BY <1>3 DEF MarksWritten
  <2>2. canvas \in BOOLEAN
    <3>1. logged \in [Attempts -> BOOLEAN]
      BY DEF ATypeOK
    <3>2. QED BY <2>1, <3>1
  <2>3. QED BY <1>3, <2>1, <2>2 DEF ATypeOK, MarksWritten
<1>4. CASE RunsOut(a)
  BY <1>4 DEF ATypeOK, RunsOut
<1>5. QED BY <1>1, <1>2, <1>3, <1>4 DEF ReviewStep

LEMMA ATypeParent ==
  ASSUME ATypeOK, NEW p \in Parents, ParentStep(p)
  PROVE  ATypeOK'
<1> USE AttemptsAssumption DEF Files, Parents, rows, parents, attempts, cleanup, disk, Fault
<1>1. CASE ParentClaims(p)
  BY <1>1 DEF ATypeOK, ParentClaims, ForcedReview, Rows
<1>2. CASE ParentRemoves(p)
  BY <1>2 DEF ATypeOK, ParentRemoves, WithoutFilesOf
<1>3. CASE ParentRemoved(p)
  BY <1>3 DEF ATypeOK, ParentRemoved
<1>4. CASE ParentStages(p)
  <2>1. CASE Deletes(todo[p])
             /\ logged' = [a \in Attempts |-> logged[a] /\ a \notin todo[p]]
             /\ erased' = TRUE
    BY <1>4, <2>1 DEF ATypeOK, ParentStages, Deletes
  <2>2. CASE UNCHANGED <<row, claim, current, logged, erased>>
    BY <1>4, <2>2 DEF ATypeOK, ParentStages
  <2>3. QED BY <1>4, <2>1, <2>2 DEF ParentStages
<1>5. CASE ParentDies(p)
  BY <1>5 DEF ATypeOK, ParentDies
<1>6. QED BY <1>1, <1>2, <1>3, <1>4, <1>5 DEF ParentStep

LEMMA ATypeCleaner ==
  ASSUME ATypeOK, NEW c \in Cleaners, CleanerStep(c)
  PROVE  ATypeOK'
<1> USE AttemptsAssumption DEF Files, rows, parents, attempts, cleanup, disk, Fault, CleanerEnds
<1>1. CASE CleanerClaims(c)
  BY <1>1 DEF ATypeOK, CleanerClaims, Rows
<1>2. CASE CleanerCommits(c)
  BY <1>2 DEF ATypeOK, CleanerCommits, Deletes
<1>3. CASE \E a \in Attempts : CleanerRemoves(c, a)
  BY <1>3 DEF ATypeOK, CleanerRemoves, WithoutFilesOf
<1>4. CASE \E a \in Attempts : CleanerSkips(c, a)
  BY <1>4 DEF ATypeOK, CleanerSkips
<1>5. CASE CleanerCommitFails(c)
  BY <1>5 DEF ATypeOK, CleanerCommitFails
<1>6. CASE CleanerDies(c)
  BY <1>6 DEF ATypeOK, CleanerDies
<1>7. QED BY <1>1, <1>2, <1>3, <1>4, <1>5, <1>6 DEF CleanerStep, CleanerWorks

LEMMA ATypeScanner ==
  ASSUME ATypeOK, NEW f \in Files, ScannerStep(f)
  PROVE  ATypeOK'
<1> USE AttemptsAssumption DEF rows, parents, attempts, cleanup, Fault
<1>1. CASE QuarantineIntends(f)
  BY <1>1 DEF ATypeOK, QuarantineIntends
<1>2. CASE QuarantineMoves(f)
  BY <1>2 DEF ATypeOK, QuarantineMoves
<1>3. CASE QuarantineRecovers(f)
  BY <1>3 DEF ATypeOK, QuarantineRecovers
<1>4. CASE PurgeClaims(f)
  BY <1>4 DEF ATypeOK, PurgeClaims
<1>5. CASE Purges(f)
  BY <1>5 DEF ATypeOK, Purges
<1>6. CASE QuarantineRefuses(f)
  BY <1>6 DEF ATypeOK, QuarantineRefuses
<1>7. QED BY <1>1, <1>2, <1>3, <1>4, <1>5, <1>6 DEF ScannerStep, ScannerWorks

LEMMA ATypeStep == ATypeOK /\ RowsOfAttempts /\ [Next]_vars => ATypeOK'
<1> SUFFICES ASSUME ATypeOK, RowsOfAttempts, [Next]_vars PROVE ATypeOK'
  OBVIOUS
<1>1. CASE UNCHANGED vars
  BY <1>1 DEF ATypeOK, vars, rows, parents, attempts, cleanup, disk
<1>2. CASE Next
  BY <1>2, ATypeAttempt, ATypeReview, ATypeParent, ATypeCleaner, ATypeScanner DEF Next
<1>3. QED BY <1>1, <1>2

-------------------------------------------------------------------------------
(* Every action keeps the parts of the invariant *)

\* An attempt publishes, fails, aborts or dies.
LEMMA AttemptKeeps ==
  ASSUME AInv, NEW a \in Attempts, AttemptStep(a)
  PROVE  Parts'
<1> USE DEF AInv, Parts, FilesMatchRows, rows, parents, attempts, cleanup, disk
<1>2. CASE ClaimsRow(a)
  <2>1. RowsOfAttempts'
    BY <1>2 DEF RowsOfAttempts, ATypeOK, Exists, Rows, Goes, ClaimsRow, Inserts, Resumes,
       Existing
  <2>2. OpenAlone'
    <3>1. /\ \A b \in Attempts : row'[b] = row[b] \/ (row[b] = "none" /\ row'[b] = "staging")
          /\ \A b \in Attempts : b # a => pc'[b] = pc[b] /\ art'[b] = art[b]
          /\ pc'[a] \notin {"linked", "removed"}
      BY <1>2 DEF RowsOfAttempts, ATypeOK, Goes, ClaimsRow, Inserts, Resumes
    <3>2. UNCHANGED <<open, claim, where, doing>>
      BY <1>2 DEF ClaimsRow
    <3>3. doing \in [Cleaners -> Attempts \cup {Nobody}]
      BY DEF ATypeOK
    <3>4. QED BY <3>1, <3>2, <3>3 DEF OpenAlone, Exists, Staged
  <2>3. FenceHolds' /\ ClaimsHold' /\ StagedUnreviewed'
    <3>1. \A b \in Attempts : row'[b] = row[b] \/ (row[b] = "none" /\ row'[b] = "staging")
      BY <1>2 DEF RowsOfAttempts, ATypeOK, Goes, ClaimsRow, Inserts, Resumes
    <3>2. UNCHANGED <<open, fence, todo, at, claim, where, review, due>>
      BY <1>2 DEF ClaimsRow
    <3>3. todo \in [Parents -> SUBSET Attempts]
      BY DEF ATypeOK
    <3>4. QED
      BY <3>1, <3>2, <3>3, AttemptsAssumption
      DEF FenceHolds, ClaimsHold, StagedUnreviewed, Exists, Staged, Eligible, Kept
  <2>4. FilesFollowRows' /\ NoOrphanOutput'
    BY <1>2 DEF ATypeOK, RowsOfAttempts, FenceHolds, ClaimsHold, FilesFollowRows,
       NoOrphanOutput, Exists, Authority, Files, Parents, Goes, ClaimsRow, Inserts,
       Resumes
  <2>5. QuarantineTakesOrphans' /\ CurrentIsServed' /\ ApprovedIsKept'
    BY <1>2 DEF ATypeOK, RowsOfAttempts, StagedUnreviewed, FilesFollowRows,
       QuarantineTakesOrphans, CurrentIsServed, ApprovedIsKept, Exists, Files,
       ClaimsRow, Inserts, Resumes
  <2>6. QED BY <2>1, <2>2, <2>3, <2>4, <2>5
<1>3. CASE CreatesPartial(a)
  <2>1. ClaimsHold' /\ StagedUnreviewed'
    BY <1>3 DEF ClaimsHold, StagedUnreviewed, Exists, Staged, Eligible, Kept,
       CreatesPartial
  <2>2. /\ RowsOfAttempts' /\ OpenAlone' /\ FenceHolds' /\ FilesFollowRows'
        /\ NoOrphanOutput' /\ QuarantineTakesOrphans' /\ CurrentIsServed'
        /\ ApprovedIsKept'
    BY <1>3 DEF RowsOfAttempts, OpenAlone, FenceHolds, FilesFollowRows,
       NoOrphanOutput, QuarantineTakesOrphans, CurrentIsServed, ApprovedIsKept,
       Exists, Staged, Goes, CreatesPartial
  <2>3. QED BY <2>1, <2>2
<1>4. CASE Heartbeat(a)
  <2>1. UNCHANGED <<row, review, claim, current, fence, todo, at, art, doing, intent, open>>
    BY <1>4 DEF Heartbeat
  <2>2. CASE Authority /\ Owned(a)
    <3>1. UNCHANGED <<where, pc>>
      BY <1>4, <2>2 DEF Heartbeat
    <3>2. /\ Staged(a) /\ claim[a] = Nobody
          /\ \A b \in Attempts : b # a => due'[b] = due[b]
      BY <1>4, <2>2 DEF Heartbeat, Owned, ATypeOK
    <3>3. RowsOfAttempts' /\ OpenAlone' /\ FenceHolds' /\ StagedUnreviewed'
      BY <2>1, <3>1
      DEF RowsOfAttempts, OpenAlone, FenceHolds, StagedUnreviewed, Exists, Staged
    <3>4. ClaimsHold'
      BY <2>1, <3>2, AttemptsAssumption DEF ClaimsHold, Exists, Staged, Eligible, Kept
    <3>5. /\ FilesFollowRows' /\ NoOrphanOutput' /\ QuarantineTakesOrphans'
          /\ CurrentIsServed'
      BY <2>1, <3>1
      DEF FilesFollowRows, NoOrphanOutput, QuarantineTakesOrphans, CurrentIsServed, Exists
    <3>6. ApprovedIsKept'
      BY <2>1, <3>1, <3>2 DEF ApprovedIsKept, StagedUnreviewed, Exists, Staged
    <3>7. QED BY <3>3, <3>4, <3>5, <3>6
  <2>3. CASE DropsPartial(a) /\ UNCHANGED due
    <3>1. /\ pc' = [pc EXCEPT ![a] = "abort"]
          /\ \A g \in Files : where'[g] = where[g] \/ (g = <<a, "partial">> /\ where'[g] = "absent")
      BY <2>3, DropsType
    <3>2. \A b \in Attempts : where'[<<b, "final">>] = where[<<b, "final">>]
      BY <3>1 DEF Files
    <3>3. RowsOfAttempts'
      BY <1>4, <2>1, <3>1 DEF RowsOfAttempts, Heartbeat, ATypeOK
    <3>4. OpenAlone'
      <4>1. \A b \in Attempts : b # a => pc'[b] = pc[b]
        BY <3>1 DEF ATypeOK
      <4>2. pc'[a] = "abort"
        BY <3>1 DEF ATypeOK
      <4>3. /\ doing \in [Cleaners -> Attempts \cup {Nobody}]
            /\ \A b \in Attempts : pc[b] = "removed" => art[b] \in Attempts
        BY DEF ATypeOK, RowsOfAttempts
      <4>4. QED BY <2>1, <3>2, <4>1, <4>2, <4>3 DEF OpenAlone, Exists, Staged
    <3>5. FenceHolds' /\ ClaimsHold' /\ StagedUnreviewed'
      <4>1. todo \in [Parents -> SUBSET Attempts]
        BY DEF ATypeOK
      <4>2. QED
        BY <2>1, <2>3, <3>2, <4>1
        DEF FenceHolds, ClaimsHold, StagedUnreviewed, Exists, Staged, Eligible, Kept
    <3>6. FilesFollowRows' /\ QuarantineTakesOrphans'
      BY <2>1, <3>1 DEF FilesFollowRows, QuarantineTakesOrphans, Exists
    <3>7. NoOrphanOutput' /\ CurrentIsServed' /\ ApprovedIsKept'
      <4>1. current \in Attempts \cup {Nobody}
        BY DEF ATypeOK
      <4>2. QED
        BY <2>1, <2>3, <3>2, <4>1 DEF NoOrphanOutput, CurrentIsServed, ApprovedIsKept, Exists
    <3>8. QED BY <3>3, <3>4, <3>5, <3>6, <3>7
  <2>4. QED BY <1>4, <2>2, <2>3 DEF Heartbeat
<1>5. CASE Links(a)
  <2>1. ClaimsHold' /\ StagedUnreviewed'
    BY <1>5 DEF ClaimsHold, StagedUnreviewed, Exists, Staged, Eligible, Kept, Links
  <2>2. RowsOfAttempts' /\ OpenAlone' /\ FenceHolds' /\ FilesFollowRows'
    BY <1>5, AttemptsAssumption DEF RowsOfAttempts, OpenAlone, FenceHolds,
       FilesFollowRows, ATypeOK, Exists, Staged, Owned, Authority, Files, Goes, Links,
       DropsPartial
  <2>3. NoOrphanOutput'
    BY <1>5 DEF NoOrphanOutput, ATypeOK, Exists, Staged, Owned, Files, Links,
       DropsPartial
  <2>4. QuarantineTakesOrphans'
    <3>1. row' = row /\ intent' = intent
      BY <1>5 DEF Links
    <3>2. CASE DropsPartial(a)
      BY <3>1, <3>2, DropsType DEF QuarantineTakesOrphans, Exists
    <3>3. CASE where' = [where EXCEPT ![<<a, "final">>] = "managed"]
      BY <3>1, <3>3 DEF QuarantineTakesOrphans, Exists, ATypeOK
    <3>4. QED BY <1>5, <3>2, <3>3 DEF Links
  <2>5. CurrentIsServed' /\ ApprovedIsKept'
    BY <1>5 DEF ATypeOK, StagedUnreviewed, CurrentIsServed, ApprovedIsKept, Exists,
       Staged, Owned, Files, Links, DropsPartial
  <2>6. QED BY <2>1, <2>2, <2>3, <2>4, <2>5
<1>6. CASE CommitsPublished(a)
  <2>1. RowsOfAttempts'
    BY <1>6 DEF RowsOfAttempts, Goes, CommitsPublished
  <2>2. OpenAlone'
    <3>1. \A b \in Attempts : pc'[b] \notin {"linked", "removed"}
      BY <1>6 DEF CommitsPublished, OpenAlone, ATypeOK, Goes
    <3>2. \A c \in Cleaners : doing'[c] = Nobody
      BY <1>6, AttemptsAssumption DEF CommitsPublished, OpenAlone
    <3>3. QED BY <3>1, <3>2 DEF OpenAlone
  <2>3. FenceHolds'
    BY <1>6 DEF FenceHolds, Exists, CommitsPublished
  <2>4. ClaimsHold'
    <3>1. /\ row' = [row EXCEPT ![a] = "published"] /\ due' = [due EXCEPT ![a] = FALSE]
          /\ claim' = claim /\ review' = review /\ claim[a] = Nobody
      BY <1>6 DEF CommitsPublished, OpenAlone
    <3>2. \A b \in Attempts : b # a => row'[b] = row[b] /\ due'[b] = due[b]
      BY <3>1 DEF ATypeOK
    <3>3. QED
      BY <3>1, <3>2, AttemptsAssumption DEF ClaimsHold, Exists, Staged, Eligible, Kept
  <2>5. StagedUnreviewed'
    <3>1. row' = [row EXCEPT ![a] = "published"] /\ review' = review /\ Staged(a)
      BY <1>6 DEF CommitsPublished, OpenAlone
    <3>2. QED BY <3>1 DEF StagedUnreviewed, Staged, ATypeOK
  <2>6. FilesFollowRows'
    <3>1. /\ row' = [row EXCEPT ![a] = "published"] /\ intent' = intent /\ Staged(a)
          /\ where' = [where EXCEPT ![<<a, "partial">>] = "absent"]
      BY <1>6 DEF CommitsPublished, OpenAlone
    <3>2. \A g \in Files : where'[g] = where[g] \/ where'[g] = "absent"
      BY <3>1 DEF ATypeOK
    <3>3. \A b \in Attempts : IF b = a THEN row'[b] = "published" /\ row[b] # "gone"
                                       ELSE row'[b] = row[b]
      BY <3>1 DEF ATypeOK, Staged
    <3>4. \A g \in Files : g[1] \in Attempts
      BY DEF Files
    <3>5. QED BY <3>1, <3>2, <3>3, <3>4 DEF FilesFollowRows
  <2>7. NoOrphanOutput'
    BY <1>6 DEF NoOrphanOutput, Exists, CommitsPublished
  <2>8. QuarantineTakesOrphans' /\ CurrentIsServed' /\ ApprovedIsKept'
    BY <1>6 DEF ATypeOK, RowsOfAttempts, OpenAlone, StagedUnreviewed,
       QuarantineTakesOrphans, CurrentIsServed, ApprovedIsKept, Exists, Staged, Files,
       CommitsPublished
  <2>9. QED BY <2>1, <2>2, <2>3, <2>4, <2>5, <2>6, <2>7, <2>8
<1>7. CASE PublicationFails(a)
  <2>1. ClaimsHold' /\ StagedUnreviewed'
    BY <1>7 DEF ClaimsHold, StagedUnreviewed, Exists, Staged, Eligible, Kept,
       PublicationFails
  <2>2. RowsOfAttempts' /\ OpenAlone' /\ FenceHolds' /\ FilesFollowRows'
    BY <1>7, AttemptsAssumption DEF RowsOfAttempts, OpenAlone, FenceHolds,
       FilesFollowRows, ATypeOK, Exists, Staged, Goes, PublicationFails, DropsPartial
  <2>3. /\ NoOrphanOutput' /\ QuarantineTakesOrphans' /\ CurrentIsServed'
        /\ ApprovedIsKept'
    BY <1>7 DEF NoOrphanOutput, QuarantineTakesOrphans, CurrentIsServed,
       ApprovedIsKept, Exists, PublicationFails, DropsPartial
  <2>4. QED BY <2>1, <2>2, <2>3
<1>8. CASE HandlerCommits(a)
  <2>1. /\ RowsOfAttempts' /\ OpenAlone' /\ FenceHolds' /\ ClaimsHold'
        /\ StagedUnreviewed' /\ FilesFollowRows' /\ NoOrphanOutput'
        /\ QuarantineTakesOrphans' /\ CurrentIsServed' /\ ApprovedIsKept'
    BY <1>8, AttemptsAssumption DEF RowsOfAttempts, OpenAlone, FenceHolds, ClaimsHold,
       StagedUnreviewed, FilesFollowRows, NoOrphanOutput, QuarantineTakesOrphans,
       CurrentIsServed, ApprovedIsKept, Exists, Staged, Eligible, Kept, Authority,
       Files, Goes, HandlerCommits, Finalizable
  <2>2. QED BY <2>1
<1>9. CASE HandlerFails(a)
  <2>1. /\ FenceHolds' /\ ClaimsHold' /\ StagedUnreviewed' /\ FilesFollowRows'
        /\ NoOrphanOutput' /\ QuarantineTakesOrphans' /\ CurrentIsServed'
        /\ ApprovedIsKept'
    BY <1>9 DEF FenceHolds, ClaimsHold, StagedUnreviewed, FilesFollowRows,
       NoOrphanOutput, QuarantineTakesOrphans, CurrentIsServed, ApprovedIsKept,
       Exists, Staged, Eligible, Kept, HandlerFails
  <2>2. RowsOfAttempts' /\ OpenAlone'
    BY <1>9, AttemptsAssumption DEF RowsOfAttempts, OpenAlone, Goes, HandlerFails
  <2>3. QED BY <2>1, <2>2
<1>10. CASE AbortRemoves(a)
  <2>1. ClaimsHold' /\ StagedUnreviewed'
    BY <1>10 DEF ClaimsHold, StagedUnreviewed, Exists, Staged, Eligible, Kept,
       AbortRemoves
  <2>2. /\ RowsOfAttempts' /\ OpenAlone' /\ FenceHolds' /\ FilesFollowRows'
        /\ NoOrphanOutput' /\ QuarantineTakesOrphans' /\ CurrentIsServed'
        /\ ApprovedIsKept'
    BY <1>10, AttemptsAssumption DEF ATypeOK, RowsOfAttempts, OpenAlone, FenceHolds,
       StagedUnreviewed, FilesFollowRows, NoOrphanOutput, QuarantineTakesOrphans,
       CurrentIsServed, ApprovedIsKept, Exists, Staged, Owned, Authority, Files,
       Parents, Goes, AbortRemoves, WithoutFilesOf
  <2>3. QED BY <2>1, <2>2
<1>11. CASE AbortCommits(a)
  <2>1. RowsOfAttempts'
    BY <1>11 DEF RowsOfAttempts, Goes, AbortCommits, Deletes
  <2>2. OpenAlone'
    <3>1. \A b \in Attempts : pc'[b] \notin {"linked", "removed"}
      BY <1>11 DEF AbortCommits, OpenAlone, ATypeOK, Goes
    <3>2. \A c \in Cleaners : doing'[c] = Nobody
      BY <1>11, AttemptsAssumption DEF AbortCommits, OpenAlone
    <3>3. QED BY <3>1, <3>2 DEF OpenAlone
  <2>3. FenceHolds' /\ ClaimsHold' /\ StagedUnreviewed'
    BY <1>11, AttemptsAssumption DEF FenceHolds, ClaimsHold, StagedUnreviewed,
       ATypeOK, OpenAlone, Exists, Staged, Eligible, Kept, AbortCommits, Deletes
  <2>4. /\ FilesFollowRows' /\ NoOrphanOutput' /\ QuarantineTakesOrphans'
        /\ CurrentIsServed' /\ ApprovedIsKept'
    BY <1>11 DEF FilesFollowRows, NoOrphanOutput, QuarantineTakesOrphans,
       CurrentIsServed, ApprovedIsKept, ATypeOK, OpenAlone, Exists, Staged, Files,
       AbortCommits, Deletes
  <2>5. QED BY <2>1, <2>2, <2>3, <2>4
<1>12. CASE AttemptDies(a)
  <2>1. /\ ClaimsHold' /\ StagedUnreviewed' /\ FilesFollowRows' /\ NoOrphanOutput'
        /\ QuarantineTakesOrphans' /\ CurrentIsServed' /\ ApprovedIsKept'
    BY <1>12 DEF ClaimsHold, StagedUnreviewed, FilesFollowRows, NoOrphanOutput,
       QuarantineTakesOrphans, CurrentIsServed, ApprovedIsKept, Exists, Staged,
       Eligible, Kept, AttemptDies
  <2>2. RowsOfAttempts' /\ OpenAlone' /\ FenceHolds'
    BY <1>12, AttemptsAssumption DEF RowsOfAttempts, OpenAlone, FenceHolds, ATypeOK,
       Exists, Staged, Goes, AttemptDies
  <2>3. QED BY <2>1, <2>2
<1>13. QED
  BY <1>2, <1>3, <1>4, <1>5, <1>6, <1>7, <1>8, <1>9, <1>10, <1>11, <1>12 DEF
     AttemptStep, PublishStep

\* A reviewer, a write-back, the clock.
LEMMA ReviewKeeps ==
  ASSUME AInv, NEW a \in Attempts, ReviewStep(a) \/ RunsOut(a)
  PROVE  Parts'
<1> USE DEF AInv, Parts, FilesMatchRows, rows, parents, attempts, cleanup, disk
<1>1. CASE Approves(a)
  <2>1. /\ RowsOfAttempts' /\ OpenAlone' /\ FenceHolds' /\ FilesFollowRows'
        /\ NoOrphanOutput' /\ QuarantineTakesOrphans' /\ CurrentIsServed'
    <3>1. UNCHANGED <<row, claim, current, fence, todo, at, pc, art, doing, where, intent, open>>
      BY <1>1 DEF Approves, Reviews
    <3>2. QED
      BY <3>1
      DEF RowsOfAttempts, OpenAlone, FenceHolds, FilesFollowRows, NoOrphanOutput,
          QuarantineTakesOrphans, CurrentIsServed, Exists, Staged
  <2>2. ClaimsHold' /\ StagedUnreviewed' /\ ApprovedIsKept'
    BY <1>1, AttemptsAssumption DEF ClaimsHold, StagedUnreviewed, ApprovedIsKept,
       Exists, Staged, Eligible, Kept, Approves, Reviews, Mutable
  <2>3. QED BY <2>1, <2>2
<1>2. CASE Rejects(a)
  <2>1. /\ RowsOfAttempts' /\ OpenAlone' /\ FenceHolds' /\ FilesFollowRows'
        /\ NoOrphanOutput' /\ QuarantineTakesOrphans' /\ CurrentIsServed'
    <3>1. UNCHANGED <<row, claim, current, fence, todo, at, pc, art, doing, where, intent, open>>
      BY <1>2 DEF Rejects, Reviews
    <3>2. QED
      BY <3>1
      DEF RowsOfAttempts, OpenAlone, FenceHolds, FilesFollowRows, NoOrphanOutput,
          QuarantineTakesOrphans, CurrentIsServed, Exists, Staged
  <2>2. ClaimsHold' /\ StagedUnreviewed' /\ ApprovedIsKept'
    BY <1>2 DEF ClaimsHold, StagedUnreviewed, ApprovedIsKept, Exists, Staged,
       Eligible, Kept, Rejects, Reviews, Mutable
  <2>3. QED BY <2>1, <2>2
<1>3. CASE Invalidates(a)
  <2>1. /\ RowsOfAttempts' /\ OpenAlone' /\ FenceHolds' /\ FilesFollowRows'
        /\ NoOrphanOutput' /\ QuarantineTakesOrphans' /\ CurrentIsServed'
    BY <1>3, AttemptsAssumption DEF RowsOfAttempts, OpenAlone, FenceHolds,
       FilesFollowRows, NoOrphanOutput, QuarantineTakesOrphans, CurrentIsServed,
       Exists, Authority, Invalidates, Reviews
  <2>2. ClaimsHold' /\ StagedUnreviewed' /\ ApprovedIsKept'
    BY <1>3 DEF ClaimsHold, StagedUnreviewed, ApprovedIsKept, Exists, Staged,
       Eligible, Kept, Invalidates, Reviews
  <2>3. QED BY <2>1, <2>2
<1>4. CASE LogsAmbiguity(a)
  <2>1. /\ RowsOfAttempts' /\ OpenAlone' /\ FenceHolds' /\ ClaimsHold'
        /\ StagedUnreviewed' /\ FilesFollowRows' /\ NoOrphanOutput'
        /\ QuarantineTakesOrphans' /\ CurrentIsServed' /\ ApprovedIsKept'
    BY <1>4 DEF RowsOfAttempts, OpenAlone, FenceHolds, ClaimsHold, StagedUnreviewed,
       FilesFollowRows, NoOrphanOutput, QuarantineTakesOrphans, CurrentIsServed,
       ApprovedIsKept, Exists, Staged, Eligible, Kept, LogsAmbiguity
  <2>2. QED BY <2>1
<1>5. CASE MarksWritten(a)
  <2>1. /\ RowsOfAttempts' /\ OpenAlone' /\ FenceHolds' /\ FilesFollowRows'
        /\ NoOrphanOutput' /\ QuarantineTakesOrphans' /\ CurrentIsServed'
    BY <1>5 DEF RowsOfAttempts, OpenAlone, FenceHolds, FilesFollowRows,
       NoOrphanOutput, QuarantineTakesOrphans, CurrentIsServed, Exists, Staged,
       MarksWritten
  <2>2. ClaimsHold' /\ StagedUnreviewed' /\ ApprovedIsKept'
    BY <1>5 DEF ClaimsHold, StagedUnreviewed, ApprovedIsKept, Exists, Staged,
       Eligible, Kept, MarksWritten
  <2>3. QED BY <2>1, <2>2
<1>6. CASE RunsOut(a)
  <2>1. /\ RowsOfAttempts' /\ OpenAlone' /\ FenceHolds' /\ StagedUnreviewed'
        /\ FilesFollowRows' /\ NoOrphanOutput' /\ QuarantineTakesOrphans'
        /\ CurrentIsServed'
    BY <1>6 DEF RowsOfAttempts, OpenAlone, FenceHolds, StagedUnreviewed,
       FilesFollowRows, NoOrphanOutput, QuarantineTakesOrphans, CurrentIsServed,
       Exists, Staged, RunsOut
  <2>2. ClaimsHold' /\ ApprovedIsKept'
    BY <1>6 DEF ClaimsHold, ApprovedIsKept, Exists, Staged, Eligible, Kept, RunsOut
  <2>3. QED BY <2>1, <2>2
<1>7. QED
  BY <1>1, <1>2, <1>3, <1>4, <1>5, <1>6 DEF ReviewStep

\* The scan or its user is deleted.
LEMMA ParentKeeps ==
  ASSUME AInv, NEW p \in Parents, ParentStep(p)
  PROVE  Parts'
<1> USE DEF AInv, Parts, FilesMatchRows, rows, parents, attempts, cleanup, disk
<1>1. CASE ParentClaims(p)
  <2>1. /\ RowsOfAttempts' /\ FilesFollowRows' /\ NoOrphanOutput'
        /\ QuarantineTakesOrphans'
    BY <1>1 DEF RowsOfAttempts, FilesFollowRows, NoOrphanOutput,
       QuarantineTakesOrphans, Exists, ParentClaims
  <2>2. /\ OpenAlone' /\ FenceHolds' /\ ClaimsHold' /\ StagedUnreviewed'
        /\ CurrentIsServed' /\ ApprovedIsKept'
    BY <1>1, AttemptsAssumption DEF OpenAlone, FenceHolds, ClaimsHold,
       StagedUnreviewed, CurrentIsServed, ApprovedIsKept, ATypeOK, Exists, Staged,
       Rows, ParentClaims, ParentMayClaim, Resuming, ForcedReview
  <2>3. QED BY <2>1, <2>2
<1>2. CASE ParentRemoves(p)
  <2>1. RowsOfAttempts' /\ ClaimsHold' /\ StagedUnreviewed'
    BY <1>2 DEF RowsOfAttempts, ClaimsHold, StagedUnreviewed, Exists, Staged,
       Eligible, Kept, ParentRemoves
  <2>2. /\ OpenAlone' /\ FenceHolds' /\ FilesFollowRows' /\ NoOrphanOutput'
        /\ QuarantineTakesOrphans' /\ CurrentIsServed' /\ ApprovedIsKept'
    BY <1>2, AttemptsAssumption DEF ATypeOK, RowsOfAttempts, OpenAlone, FenceHolds,
       ClaimsHold, FilesFollowRows, NoOrphanOutput, QuarantineTakesOrphans,
       CurrentIsServed, ApprovedIsKept, Exists, Staged, Files, ParentRemoves,
       WithoutFilesOf
  <2>3. QED BY <2>1, <2>2
<1>3. CASE ParentRemoved(p)
  <2>1. /\ RowsOfAttempts' /\ OpenAlone' /\ ClaimsHold' /\ StagedUnreviewed'
        /\ FilesFollowRows' /\ NoOrphanOutput' /\ QuarantineTakesOrphans'
        /\ CurrentIsServed' /\ ApprovedIsKept'
    BY <1>3 DEF RowsOfAttempts, OpenAlone, ClaimsHold, StagedUnreviewed,
       FilesFollowRows, NoOrphanOutput, QuarantineTakesOrphans, CurrentIsServed,
       ApprovedIsKept, Exists, Staged, Eligible, Kept, ParentRemoved
  <2>2. FenceHolds'
    <3>1. \A b \in todo[p] : where[<<b, "final">>] # "managed"
      BY <1>3 DEF ParentRemoved, FilesOf
    <3>2. /\ at' = [at EXCEPT ![p] = "stage"]
          /\ UNCHANGED <<open, fence, todo, row, claim, where>>
      BY <1>3 DEF ParentRemoved
    <3>3. \A q \in Parents : at'[q] = at[q] \/ q = p
      BY <3>2 DEF ATypeOK
    <3>4. QED BY <3>1, <3>2, <3>3 DEF FenceHolds, Exists
  <2>3. QED BY <2>1, <2>2
<1>4. CASE ParentStages(p)
  <2>1. RowsOfAttempts' /\ OpenAlone'
    BY <1>4, AttemptsAssumption DEF RowsOfAttempts, OpenAlone, Exists, ParentStages,
       Deletes
  <2>2. FenceHolds' /\ ClaimsHold' /\ StagedUnreviewed'
    BY <1>4, AttemptsAssumption DEF FenceHolds, ClaimsHold, StagedUnreviewed, ATypeOK,
       Exists, Staged, Eligible, Kept, ParentStages, Deletes
  <2>3. FilesFollowRows' /\ NoOrphanOutput'
    BY <1>4 DEF FilesFollowRows, NoOrphanOutput, FenceHolds, Exists, Files,
       ParentStages, Deletes
  <2>4. QuarantineTakesOrphans'
    <3>1. UNCHANGED <<where, intent>>
      BY <1>4 DEF ParentStages
    <3>2. \A a \in Attempts : Exists(a)' => Exists(a)
      BY <1>4 DEF ParentStages, Deletes, Exists
    <3> QED
      BY <3>1, <3>2 DEF QuarantineTakesOrphans, Files
  <2>5. CurrentIsServed'
    <3>1. CASE UNCHANGED <<row, claim, current, logged, erased>>
      BY <1>4, <3>1 DEF CurrentIsServed, ParentStages
    <3>2. CASE Deletes(todo[p])
      BY <1>4, <3>2, AttemptsAssumption DEF CurrentIsServed, ATypeOK, ParentStages, Deletes
    <3> QED
      BY <1>4, <3>1, <3>2 DEF ParentStages
  <2>6. ApprovedIsKept'
    <3>1. UNCHANGED <<where, review, due>>
      BY <1>4 DEF ParentStages
    <3>2. \A a \in Attempts : Exists(a)' => Exists(a)
      BY <1>4 DEF ParentStages, Deletes, Exists
    <3> QED
      BY <3>1, <3>2 DEF ApprovedIsKept
  <2>7. QED BY <2>1, <2>2, <2>3, <2>4, <2>5, <2>6
<1>5. CASE ParentDies(p)
  <2>1. /\ RowsOfAttempts' /\ OpenAlone' /\ ClaimsHold' /\ StagedUnreviewed'
        /\ FilesFollowRows' /\ NoOrphanOutput' /\ QuarantineTakesOrphans'
        /\ CurrentIsServed' /\ ApprovedIsKept'
    BY <1>5 DEF RowsOfAttempts, OpenAlone, ClaimsHold, StagedUnreviewed,
       FilesFollowRows, NoOrphanOutput, QuarantineTakesOrphans, CurrentIsServed,
       ApprovedIsKept, Exists, Staged, Eligible, Kept, ParentDies
  <2>2. FenceHolds'
    BY <1>5 DEF FenceHolds, Exists, ParentDies
  <2>3. QED BY <2>1, <2>2
<1>6. QED
  BY <1>1, <1>2, <1>3, <1>4, <1>5 DEF ParentStep

\* The scheduled cleanup.
LEMMA CleanerKeeps ==
  ASSUME AInv, NEW c \in Cleaners, CleanerStep(c)
  PROVE  Parts'
<1> USE DEF AInv, Parts, FilesMatchRows, rows, parents, attempts, cleanup, disk
<1>1. CASE CleanerClaims(c)
  <2>1. /\ RowsOfAttempts' /\ StagedUnreviewed' /\ FilesFollowRows' /\ NoOrphanOutput'
        /\ QuarantineTakesOrphans' /\ ApprovedIsKept'
    BY <1>1 DEF RowsOfAttempts, StagedUnreviewed, FilesFollowRows, NoOrphanOutput,
       QuarantineTakesOrphans, ApprovedIsKept, Exists, CleanerClaims
  <2>2. OpenAlone' /\ FenceHolds' /\ ClaimsHold' /\ CurrentIsServed'
    BY <1>1, AttemptsAssumption DEF OpenAlone, FenceHolds, ClaimsHold,
       CurrentIsServed, ATypeOK, Exists, Staged, Eligible, Kept, Authority,
       CleanerClaims
  <2>3. QED BY <2>1, <2>2
<1>2. CASE \E a \in Attempts : CleanerRemoves(c, a)
  <2> PICK a \in Attempts : CleanerRemoves(c, a)
    BY <1>2
  <2>1. RowsOfAttempts' /\ ClaimsHold' /\ StagedUnreviewed'
    BY DEF RowsOfAttempts, ClaimsHold, StagedUnreviewed, Exists, Staged, Eligible,
       Kept, CleanerRemoves
  <2>2. /\ OpenAlone' /\ FenceHolds' /\ FilesFollowRows' /\ NoOrphanOutput'
        /\ QuarantineTakesOrphans' /\ CurrentIsServed' /\ ApprovedIsKept'
    BY AttemptsAssumption DEF OpenAlone, FenceHolds, FilesFollowRows, NoOrphanOutput,
       QuarantineTakesOrphans, CurrentIsServed, ApprovedIsKept, ATypeOK, Exists,
       Staged, Eligible, Kept, Authority, Files, CleanerRemoves, WithoutFilesOf, Exact
  <2>3. QED BY <2>1, <2>2
<1>3. CASE \E a \in Attempts : CleanerSkips(c, a)
  <2> PICK a \in Attempts : CleanerSkips(c, a)
    BY <1>3
  <2>1. /\ RowsOfAttempts' /\ StagedUnreviewed' /\ FilesFollowRows' /\ NoOrphanOutput'
        /\ QuarantineTakesOrphans' /\ ApprovedIsKept'
    BY DEF RowsOfAttempts, StagedUnreviewed, FilesFollowRows, NoOrphanOutput,
       QuarantineTakesOrphans, ApprovedIsKept, Exists, CleanerSkips
  <2>2. OpenAlone' /\ FenceHolds' /\ ClaimsHold' /\ CurrentIsServed'
    BY DEF OpenAlone, FenceHolds, ClaimsHold, CurrentIsServed, Exists, Staged,
       Eligible, Kept, CleanerSkips, Exact
  <2>3. QED BY <2>1, <2>2
<1>4. CASE CleanerCommits(c)
  <2>1. RowsOfAttempts'
    <3>1. pc' = pc /\ art' = art
      BY <1>4 DEF CleanerCommits
    <3>2. \A b \in Attempts : IF b = doing[c] THEN row'[b] = "gone" /\ row[b] # "none"
                                              ELSE row'[b] = row[b]
      BY <1>4 DEF CleanerCommits, Deletes, OpenAlone, Exists
    <3>3. QED BY <3>1, <3>2 DEF RowsOfAttempts
  <2>2. OpenAlone'
    <3>1. \A b \in Attempts : pc'[b] \notin {"linked", "removed"}
      BY <1>4, AttemptsAssumption DEF CleanerCommits, OpenAlone
    <3>2. \A d \in Cleaners : doing'[d] = Nobody
      BY <1>4 DEF CleanerCommits, CleanerEnds, OpenAlone, ATypeOK
    <3>3. QED BY <3>1, <3>2 DEF OpenAlone
  <2>3. FenceHolds' /\ ClaimsHold' /\ StagedUnreviewed'
    BY <1>4, AttemptsAssumption DEF FenceHolds, ClaimsHold, StagedUnreviewed, ATypeOK,
       OpenAlone, Exists, Staged, Eligible, Kept, CleanerCommits, Deletes, CleanerEnds
  <2>4. /\ FilesFollowRows' /\ NoOrphanOutput' /\ QuarantineTakesOrphans'
        /\ CurrentIsServed' /\ ApprovedIsKept'
    BY <1>4 DEF FilesFollowRows, NoOrphanOutput, QuarantineTakesOrphans,
       CurrentIsServed, ApprovedIsKept, ATypeOK, OpenAlone, Exists, Files,
       CleanerCommits, Deletes
  <2>5. QED BY <2>1, <2>2, <2>3, <2>4
<1>5. CASE CleanerCommitFails(c)
  <2>1. /\ RowsOfAttempts' /\ ClaimsHold' /\ StagedUnreviewed' /\ FilesFollowRows'
        /\ NoOrphanOutput' /\ QuarantineTakesOrphans' /\ CurrentIsServed'
        /\ ApprovedIsKept'
    BY <1>5 DEF RowsOfAttempts, ClaimsHold, StagedUnreviewed, FilesFollowRows,
       NoOrphanOutput, QuarantineTakesOrphans, CurrentIsServed, ApprovedIsKept,
       Exists, Staged, Eligible, Kept, CleanerCommitFails
  <2>2. OpenAlone'
    <3>1. \A b \in Attempts : pc'[b] \notin {"linked", "removed"}
      BY <1>5, AttemptsAssumption DEF CleanerCommitFails, OpenAlone
    <3>2. \A d \in Cleaners : doing'[d] = Nobody
      BY <1>5 DEF CleanerCommitFails, CleanerEnds, OpenAlone, ATypeOK
    <3>3. QED BY <3>1, <3>2 DEF OpenAlone
  <2>3. FenceHolds'
    BY <1>5 DEF FenceHolds, Exists, CleanerCommitFails, CleanerEnds
  <2>4. QED BY <2>1, <2>2, <2>3
<1>6. CASE CleanerDies(c)
  <2>1. /\ RowsOfAttempts' /\ ClaimsHold' /\ StagedUnreviewed' /\ FilesFollowRows'
        /\ NoOrphanOutput' /\ QuarantineTakesOrphans' /\ CurrentIsServed'
        /\ ApprovedIsKept'
    BY <1>6 DEF RowsOfAttempts, ClaimsHold, StagedUnreviewed, FilesFollowRows,
       NoOrphanOutput, QuarantineTakesOrphans, CurrentIsServed, ApprovedIsKept,
       Exists, Staged, Eligible, Kept, CleanerDies
  <2>2. OpenAlone' /\ FenceHolds'
    BY <1>6, AttemptsAssumption DEF OpenAlone, FenceHolds, ATypeOK, Exists, Staged,
       CleanerDies
  <2>3. QED BY <2>1, <2>2
<1>7. QED
  BY <1>1, <1>2, <1>3, <1>4, <1>5, <1>6 DEF CleanerStep, CleanerWorks

\* The quarantine.
LEMMA ScannerKeeps ==
  ASSUME AInv, NEW f \in Files, ScannerStep(f)
  PROVE  Parts'
<1> USE DEF AInv, Parts, FilesMatchRows, rows, parents, attempts, cleanup, disk
<1>1. CASE QuarantineIntends(f)
  <2>1. /\ RowsOfAttempts' /\ OpenAlone' /\ FenceHolds' /\ ClaimsHold'
        /\ StagedUnreviewed' /\ NoOrphanOutput' /\ CurrentIsServed' /\ ApprovedIsKept'
    BY <1>1 DEF RowsOfAttempts, OpenAlone, FenceHolds, ClaimsHold, StagedUnreviewed,
       NoOrphanOutput, CurrentIsServed, ApprovedIsKept, Exists, Staged, Eligible,
       Kept, QuarantineIntends
  <2>2. FilesFollowRows' /\ QuarantineTakesOrphans'
    BY <1>1 DEF FilesFollowRows, QuarantineTakesOrphans, ATypeOK, Exists, Files,
       QuarantineIntends, Known
  <2>3. QED BY <2>1, <2>2
<1>2. CASE QuarantineMoves(f)
  <2>1. RowsOfAttempts' /\ ClaimsHold' /\ StagedUnreviewed'
    BY <1>2 DEF RowsOfAttempts, ClaimsHold, StagedUnreviewed, Exists, Staged,
       Eligible, Kept, QuarantineMoves
  <2>2. OpenAlone' /\ FenceHolds' /\ FilesFollowRows'
    BY <1>2 DEF OpenAlone, FenceHolds, FilesFollowRows, ATypeOK, Exists, Staged,
       QuarantineMoves
  <2>3. /\ NoOrphanOutput' /\ QuarantineTakesOrphans' /\ CurrentIsServed'
        /\ ApprovedIsKept'
    BY <1>2 DEF NoOrphanOutput, QuarantineTakesOrphans, CurrentIsServed,
       ApprovedIsKept, ATypeOK, ClaimsHold, FilesFollowRows, Exists, QuarantineMoves
  <2>4. QED BY <2>1, <2>2, <2>3
<1>3. CASE QuarantineRecovers(f)
  <2>1. /\ RowsOfAttempts' /\ OpenAlone' /\ FenceHolds' /\ ClaimsHold'
        /\ StagedUnreviewed' /\ NoOrphanOutput' /\ CurrentIsServed' /\ ApprovedIsKept'
    BY <1>3 DEF RowsOfAttempts, OpenAlone, FenceHolds, ClaimsHold, StagedUnreviewed,
       NoOrphanOutput, CurrentIsServed, ApprovedIsKept, Exists, Staged, Eligible,
       Kept, QuarantineRecovers
  <2>2. FilesFollowRows' /\ QuarantineTakesOrphans'
    BY <1>3 DEF FilesFollowRows, QuarantineTakesOrphans, Exists, QuarantineRecovers
  <2>3. QED BY <2>1, <2>2
<1>4. CASE PurgeClaims(f)
  <2>1. /\ RowsOfAttempts' /\ OpenAlone' /\ FenceHolds' /\ ClaimsHold'
        /\ StagedUnreviewed' /\ NoOrphanOutput' /\ CurrentIsServed' /\ ApprovedIsKept'
    BY <1>4 DEF RowsOfAttempts, OpenAlone, FenceHolds, ClaimsHold, StagedUnreviewed,
       NoOrphanOutput, CurrentIsServed, ApprovedIsKept, Exists, Staged, Eligible,
       Kept, PurgeClaims
  <2>2. FilesFollowRows' /\ QuarantineTakesOrphans'
    BY <1>4 DEF FilesFollowRows, QuarantineTakesOrphans, Exists, PurgeClaims
  <2>3. QED BY <2>1, <2>2
<1>5. CASE Purges(f)
  <2>1. RowsOfAttempts' /\ ClaimsHold' /\ StagedUnreviewed'
    BY <1>5 DEF RowsOfAttempts, ClaimsHold, StagedUnreviewed, Exists, Staged,
       Eligible, Kept, Purges
  <2>2. /\ OpenAlone' /\ FenceHolds' /\ FilesFollowRows' /\ NoOrphanOutput'
        /\ QuarantineTakesOrphans' /\ CurrentIsServed' /\ ApprovedIsKept'
    BY <1>5 DEF OpenAlone, FenceHolds, FilesFollowRows, NoOrphanOutput,
       QuarantineTakesOrphans, CurrentIsServed, ApprovedIsKept, ATypeOK, Exists,
       Staged, Purges
  <2>3. QED BY <2>1, <2>2
<1>6. CASE QuarantineRefuses(f)
  <2>1. /\ RowsOfAttempts' /\ OpenAlone' /\ FenceHolds' /\ ClaimsHold'
        /\ StagedUnreviewed' /\ NoOrphanOutput' /\ CurrentIsServed' /\ ApprovedIsKept'
    BY <1>6 DEF RowsOfAttempts, OpenAlone, FenceHolds, ClaimsHold, StagedUnreviewed,
       NoOrphanOutput, CurrentIsServed, ApprovedIsKept, Exists, Staged, Eligible,
       Kept, QuarantineRefuses
  <2>2. FilesFollowRows' /\ QuarantineTakesOrphans'
    BY <1>6 DEF FilesFollowRows, QuarantineTakesOrphans, Exists, QuarantineRefuses
  <2>3. QED BY <2>1, <2>2
<1>7. QED
  BY <1>1, <1>2, <1>3, <1>4, <1>5, <1>6 DEF ScannerStep, ScannerWorks

-------------------------------------------------------------------------------
(* The invariant, and what follows from it *)

LEMMA AInvInit == Init => AInv
<1> SUFFICES ASSUME Init PROVE Parts
  BY ATypeInit DEF AInv
<1>1. RowsOfAttempts /\ OpenAlone /\ StagedUnreviewed /\ ClaimsHold
  BY AttemptsAssumption
  DEF Init, RowsOfAttempts, OpenAlone, StagedUnreviewed, ClaimsHold, Parents
<1>2. FenceHolds /\ FilesFollowRows /\ FilesMatchRows
  BY DEF Init, FenceHolds, FilesFollowRows, FilesMatchRows, NoOrphanOutput,
     QuarantineTakesOrphans, Files
<1>3. CurrentIsServed /\ ApprovedIsKept
  BY DEF Init, CurrentIsServed, ApprovedIsKept, Exists
<1>4. QED BY <1>1, <1>2, <1>3 DEF Parts

LEMMA AInvStep == AInv /\ [Next]_vars => AInv'
<1> SUFFICES ASSUME AInv, [Next]_vars PROVE AInv'
  OBVIOUS
<1>1. ATypeOK'
  BY ATypeStep DEF AInv, Parts
<1>2. CASE UNCHANGED vars
  BY <1>1, <1>2
  DEF AInv, Parts, vars, rows, parents, attempts, cleanup, disk, RowsOfAttempts,
      OpenAlone, FenceHolds, ClaimsHold, StagedUnreviewed, FilesFollowRows,
      FilesMatchRows, NoOrphanOutput, QuarantineTakesOrphans, CurrentIsServed,
      ApprovedIsKept, Exists, Staged, Eligible, Kept
<1>3. CASE Next
  <2>1. Parts'
    BY <1>3, AttemptKeeps, ReviewKeeps, ParentKeeps, CleanerKeeps, ScannerKeeps DEF Next
  <2>2. QED BY <1>1, <2>1 DEF AInv
<1>4. QED BY <1>2, <1>3

LEMMA AInvariant == Spec => []AInv
  BY AInvInit, AInvStep, PTL DEF Spec

\* Every variable keeps its type, for any attempts, jobs, cleaners and faults.
THEOREM ATypeCorrect == Spec => []ATypeOK
<1>1. AInv => ATypeOK
  BY DEF AInv
<1>2. QED BY <1>1, AInvariant, PTL

\* What a scan or cloud file points at is available and has its file, whichever
\* publishers, cleaners and deletions overlap or die (RemediationArtifactService).
THEOREM CurrentServed == Spec => []CurrentIsServed
<1>1. AInv => CurrentIsServed
  BY DEF AInv, Parts
<1>2. QED BY <1>1, AInvariant, PTL

\* No cleanup takes the file of an approved output that has not expired.
THEOREM ApprovedKept == Spec => []ApprovedIsKept
<1>1. AInv => ApprovedIsKept
  BY DEF AInv, Parts
<1>2. QED BY <1>1, AInvariant, PTL

\* The outputs a person can still download keep their files.
THEOREM OutputsServed == Spec => []OutputsAreServed
BY CurrentServed, ApprovedKept, PTL DEF OutputsAreServed

\* No output is left on disk without its row, and the quarantine takes no file
\* that a row names (ArtifactOrphanScanner).
THEOREM DiskMatchesRows == Spec => []FilesMatchRows
<1>1. AInv => FilesMatchRows
  BY DEF AInv, Parts
<1>2. QED BY <1>1, AInvariant, PTL

-------------------------------------------------------------------------------
(* Under a fence *)

\* No process is left between its check of the fence and its commit, so every step
\* finds the fence or puts nothing new.
LEMMA ShrinksAttempt ==
    ASSUME AInv, fence # {}, NEW a \in Attempts, AttemptStep(a)
    PROVE  Shrinks
<1> USE DEF Shrinks, rows, parents, cleanup, disk
<1>1. ~Authority /\ pc[a] \notin {"linked", "removed"}
  BY AttemptsAssumption DEF Authority, AInv, Parts, FenceHolds, OpenAlone
<1>2. CASE ClaimsRow(a) \/ HandlerFails(a) \/ AttemptDies(a)
  BY <1>1, <1>2 DEF ClaimsRow, HandlerFails, AttemptDies
<1>3. CASE CreatesPartial(a)
  <2>1. where' = [where EXCEPT ![<<a, "partial">>] = "managed"]
    BY <1>3 DEF CreatesPartial
  <2>2. \A b \in Attempts : where'[<<b, "final">>] = where[<<b, "final">>]
    BY <2>1 DEF AInv, ATypeOK, Files
  <2> QED
    BY <1>3, <2>2 DEF CreatesPartial
<1>4. ASSUME DropsPartial(a)
      PROVE  \A b \in Attempts : where'[<<b, "final">>] = where[<<b, "final">>]
  <2>1. \A f \in Files : where'[f] = where[f] \/ (f = <<a, "partial">> /\ where'[f] = "absent")
    BY <1>4, DropsType DEF AInv
  <2> QED
    BY <2>1 DEF Files
<1>5. CASE Heartbeat(a) \/ Links(a) \/ PublicationFails(a)
  <2>1. DropsPartial(a) /\ UNCHANGED <<row, review, current>>
    BY <1>1, <1>5 DEF Heartbeat, Links, PublicationFails
  <2> QED
    BY <1>4, <2>1
<1>6. CASE AbortRemoves(a)
  BY <1>1, <1>6 DEF AbortRemoves
<1>7. ~(CommitsPublished(a) \/ HandlerCommits(a) \/ AbortCommits(a))
  BY <1>1 DEF CommitsPublished, HandlerCommits, Finalizable, AbortCommits
<1> QED
  BY <1>2, <1>3, <1>5, <1>6, <1>7 DEF AttemptStep, PublishStep

LEMMA ShrinksParent ==
    ASSUME AInv, NEW p \in Parents, ParentStep(p)
    PROVE  Shrinks
<1> USE DEF Shrinks, rows, parents, attempts, cleanup, disk
<1>1. CASE ParentClaims(p)
  BY <1>1 DEF ParentClaims, ForcedReview, AInv, ATypeOK
<1>2. CASE ParentRemoves(p)
  BY <1>2 DEF ParentRemoves, WithoutFilesOf, Files
<1>3. CASE ParentRemoved(p) \/ ParentDies(p)
  BY <1>3 DEF ParentRemoved, ParentDies
<1>4. CASE ParentStages(p)
  BY <1>4 DEF ParentStages, Deletes
<1> QED
  BY <1>1, <1>2, <1>3, <1>4 DEF ParentStep

LEMMA ShrinksElsewhere ==
    ASSUME AInv, fence # {}, [Next]_vars,
           ~ \E a \in Attempts : AttemptStep(a),
           ~ \E p \in Parents : ParentStep(p)
    PROVE  Shrinks
<1> USE DEF Shrinks, rows, attempts, cleanup, disk
<1>1. ~Authority
  BY DEF Authority
<1>2. ASSUME NEW a \in Attempts, ReviewStep(a) \/ RunsOut(a)
      PROVE  Shrinks
  BY <1>1, <1>2 DEF ReviewStep, Approves, Rejects, Invalidates, LogsAmbiguity,
                    MarksWritten, Mutable, RunsOut
<1>3. ASSUME NEW c \in Cleaners, CleanerStep(c) PROVE Shrinks
  <2>1. CASE CleanerCommits(c)
    BY <2>1 DEF CleanerCommits, Deletes
  <2>2. CASE CleanerCommitFails(c) \/ CleanerDies(c)
    BY <2>2 DEF CleanerCommitFails, CleanerDies
  <2>3. CASE \E a \in Attempts : CleanerSkips(c, a)
    BY <2>3 DEF CleanerSkips
  <2>4. ~(CleanerClaims(c) \/ \E a \in Attempts : CleanerRemoves(c, a))
    BY <1>1 DEF CleanerClaims, CleanerRemoves
  <2> QED
    BY <1>3, <2>1, <2>2, <2>3, <2>4 DEF CleanerStep, CleanerWorks
<1>4. ASSUME NEW f \in Files, ScannerStep(f) PROVE Shrinks
  <2>1. \A a \in Attempts : where'[<<a, "final">>] = "managed" => where[<<a, "final">>] = "managed"
    BY <1>4 DEF ScannerStep, ScannerWorks, QuarantineIntends, QuarantineMoves,
                QuarantineRecovers, QuarantineRefuses, PurgeClaims, Purges, Files, AInv, ATypeOK
  <2>2. UNCHANGED rows
    BY <1>4 DEF ScannerStep, ScannerWorks, QuarantineIntends, QuarantineMoves,
                QuarantineRecovers, QuarantineRefuses, PurgeClaims, Purges
  <2> QED
    BY <2>1, <2>2
<1>5. CASE UNCHANGED vars
  BY <1>5 DEF vars
<1> QED
  BY <1>2, <1>3, <1>4, <1>5 DEF Next

LEMMA FenceShrinks ==
    ASSUME AInv, fence # {}, [Next]_vars
    PROVE  Shrinks
BY ShrinksAttempt, ShrinksParent, ShrinksElsewhere

\* Nobody else touches what a deletion keeps.
LEMMA OnlyParentsFence ==
    ASSUME [Next]_vars, ~ \E p \in Parents : ParentStep(p)
    PROVE  UNCHANGED parents
<1> USE DEF rows, attempts, cleanup, disk
<1>1. ASSUME NEW a \in Attempts, AttemptStep(a) PROVE UNCHANGED parents
  BY <1>1 DEF AttemptStep, PublishStep, ClaimsRow, CreatesPartial, Links,
              CommitsPublished, HandlerCommits, HandlerFails, AbortRemoves, AbortCommits,
              Heartbeat, PublicationFails, AttemptDies
<1>2. ASSUME NEW a \in Attempts, ReviewStep(a) \/ RunsOut(a) PROVE UNCHANGED parents
  BY <1>2 DEF ReviewStep, Approves, Rejects, Invalidates, LogsAmbiguity, Reviews,
              MarksWritten, RunsOut
<1>3. ASSUME NEW c \in Cleaners, CleanerStep(c) PROVE UNCHANGED parents
  BY <1>3 DEF CleanerStep, CleanerWorks, CleanerClaims, CleanerCommits, CleanerRemoves,
              CleanerSkips, CleanerCommitFails, CleanerDies
<1>4. ASSUME NEW f \in Files, ScannerStep(f) PROVE UNCHANGED parents
  BY <1>4 DEF ScannerStep, ScannerWorks, QuarantineIntends, QuarantineMoves,
              QuarantineRecovers, QuarantineRefuses, PurgeClaims, Purges
<1>5. UNCHANGED vars => UNCHANGED parents
  BY DEF vars
<1> QED
  BY <1>1, <1>2, <1>3, <1>4, <1>5 DEF Next

\* A deletion at work has claimed whatever rows there are, and fenced the rest.
DeletionCovers ==
    /\ \A p \in Parents : at[p] # "idle" => p \in fence /\ Rows \subseteq todo[p]
    /\ erased => fence # {} /\ Rows = {}

LEMMA DeletionCoversStep ==
    ASSUME AInv, DeletionCovers, [Next]_vars
    PROVE  DeletionCovers'
<1> USE DEF DeletionCovers
<1>1. fence # {} => Rows' \subseteq Rows
  BY FenceShrinks DEF Shrinks, Rows, Exists
<1>2. CASE UNCHANGED parents
  BY <1>1, <1>2 DEF parents
<1>3. ASSUME NEW p \in Parents, ParentStep(p) PROVE DeletionCovers'
  <2>1. /\ at \in [Parents -> {"idle", "remove", "stage"}]
        /\ todo \in [Parents -> SUBSET Attempts]
    BY DEF AInv, ATypeOK
  <2>2. CASE ParentClaims(p)
    <3>1. Rows' = Rows /\ fence' = fence \cup {p} /\ ~erased'
      BY <2>2 DEF ParentClaims, Rows, Exists
    <3>2. /\ at' = [at EXCEPT ![p] = "remove"]
          /\ todo' = [todo EXCEPT ![p] = Rows]
      BY <2>2 DEF ParentClaims
    <3> QED
      BY <2>1, <3>1, <3>2
  <2>3. CASE ParentRemoves(p) \/ ParentRemoved(p) \/ ParentDies(p)
    <3>1. Rows' = Rows /\ fence' = fence /\ erased' = erased
      BY <2>3 DEF ParentRemoves, ParentRemoved, ParentDies, rows, parents, Rows, Exists
    <3>2. \A q \in Parents : at'[q] # "idle" => at[q] # "idle" /\ todo'[q] = todo[q]
      BY <2>1, <2>3 DEF ParentRemoves, ParentRemoved, ParentDies, parents
    <3> QED
      BY <3>1, <3>2
  <2>4. CASE ParentStages(p)
    <3>1. fence' = fence /\ at[p] = "stage" /\ p \in fence /\ Rows' \subseteq Rows
      BY <1>1, <2>4 DEF ParentStages
    <3>2. \A q \in Parents : at'[q] # "idle" => at[q] # "idle" /\ todo'[q] = todo[q]
      BY <2>1, <2>4 DEF ParentStages
    <3>3. erased' /\ ~erased => Rows' = {}
      BY <2>4, <3>1 DEF ParentStages, Deletes, Rows, Exists
    <3>4. erased => erased'
      BY <2>4 DEF ParentStages
    <3> QED
      BY <3>1, <3>2, <3>3, <3>4
  <2> QED
    BY <1>3, <2>2, <2>3, <2>4 DEF ParentStep
<1> QED
  BY <1>2, <1>3, OnlyParentsFence

LEMMA DeletionHolds == Spec => [](AInv /\ DeletionCovers)
<1>1. Init => DeletionCovers
  BY DEF Init, DeletionCovers
<1>2. AInv /\ DeletionCovers /\ [Next]_vars => DeletionCovers'
  BY DeletionCoversStep
<1> QED
  BY <1>1, <1>2, AInvariant, PTL DEF Spec

\* The deletion of a scan leaves neither rows nor pointers nor final files, though
\* publishers, cleaners and another deletion work beside it
\* (_stage_claimed_parent_cleanup).
THEOREM ErasureComplete == Spec => []ErasedLeavesNothing
<1>1. AInv /\ DeletionCovers => ErasedLeavesNothing
  BY DEF AInv, Parts, DeletionCovers, ErasedLeavesNothing, FilesMatchRows,
         NoOrphanOutput, CurrentIsServed, Rows, Exists, ATypeOK
<1> QED
  BY <1>1, DeletionHolds, PTL

\* From the commit of a deletion's fence on, nothing new is published, made current
\* or approved (_lock_authority_order).
THEOREM FenceStopsPublication == Spec => FenceOnlyShrinks
<1>1. AInv /\ DeletionCovers /\ [Next]_vars => (fence # {} \/ erased => Shrinks)
  BY FenceShrinks DEF DeletionCovers
<1> QED
  BY <1>1, DeletionHolds, PTL DEF Spec, FenceOnlyShrinks
===============================================================================

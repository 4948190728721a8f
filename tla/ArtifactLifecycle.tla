---------------------------- MODULE ArtifactLifecycle ----------------------------
(***************************************************************************)
(* The managed outputs of one scan: their database rows, their files, and  *)
(* everyone who works on them: the remediation attempts that publish them  *)
(* (RemediationArtifactService), the reviewer, the deletion of the scan or *)
(* of its user, the scheduled cleanup (RemediationArtifactCleanup) and the *)
(* scanner that quarantines files no row names (ArtifactOrphanScanner).    *)
(*                                                                         *)
(* Every service call locks the department row first and holds it to its   *)
(* commit, so a call that touches the database only is one step.  A call   *)
(* that also touches files is split where a crash or a process without     *)
(* that lock can come between.                                             *)
(***************************************************************************)
EXTENDS FiniteSets, Naturals

CONSTANTS
    Attempts,    \* executions of remediation handlers; a row bears the name of
                 \* the attempt that inserted it
    Jobs,        \* the queue rows they execute
    JobMaps,     \* which attempt may execute which of them: Nobody stands for the
                 \* jobless rows of a scan of an uploaded file, without a cloud file
    Cleaners,    \* processes that run the scheduled cleanup
    Nobody,      \* no attempt, no process
    MaxFaults    \* bound on crashes, failed commits and grace periods outlived

Parents == {"scan", "user"}

ASSUME AttemptsAssumption ==
    /\ Nobody \notin Attempts \cup Cleaners \cup Parents
    /\ Cleaners \cap (Attempts \cup Parents) = {}
    /\ Nobody \notin Jobs
    /\ JobMaps \subseteq [Attempts -> Jobs] \cup [Attempts -> {Nobody}]
    /\ MaxFaults \in Nat

VARIABLES
    jobOf,     \* the job each attempt executes, if its row names one
    row,       \* lifecycle of each row; "published" is staging with published_at
    review,    \* review_status; "written" is approved with written_back_at
    claim,     \* who claimed the row for cleanup
    due,       \* the row's heartbeat is older than the grace, or it has expired
    logged,    \* a ContentWritebackLog refers to the row
    current,   \* current_remediation_artifact_id of the cloud file, or of the scan
    fence,     \* the parents whose artifact_cleanup_token is set
    erased,    \* the scan has been deleted
    where,     \* where each file is
    intent,    \* status of the quarantine row of each file
    pc,        \* what each attempt is about to do
    art,       \* the row it works on
    open,      \* the process that holds the department lock over file operations
    targets,   \* the rows a cleaner claimed and has not dealt with
    doing,     \* the row whose files it has removed
    todo,      \* the rows a parent deletion claimed
    at,        \* what it is about to do
    faults     \* faults so far

rows == <<row, review, claim, due, logged, current>>
parents == <<fence, erased, todo, at>>
attempts == <<jobOf, pc, art>>
cleanup == <<targets, doing>>
disk == <<where, intent>>
vars == <<rows, parents, attempts, cleanup, disk, open, faults>>

Files == Attempts \X {"final", "partial"}
FilesOf(a) == {<<a, "final">>, <<a, "partial">>}

ATypeOK ==
    /\ jobOf \in JobMaps
    /\ row \in [Attempts -> {"none", "staging", "published", "available", "superseded", "gone"}]
    /\ review \in [Attempts -> {"pending", "approved", "rejected", "written"}]
    /\ claim \in [Attempts -> {Nobody} \cup Parents \cup Cleaners]
    /\ due \in [Attempts -> BOOLEAN]
    /\ logged \in [Attempts -> BOOLEAN]
    /\ current \in Attempts \cup {Nobody}
    /\ fence \subseteq Parents
    /\ erased \in BOOLEAN
    /\ where \in [Files -> {"absent", "managed", "quarantine"}]
    /\ intent \in [Files -> {"none", "pending", "quarantined", "restore", "purging",
                             "purged"}]
    /\ pc \in [Attempts -> {"idle", "create", "writing", "linked", "finalize",
                            "abort", "removed", "done"}]
    /\ art \in [Attempts -> Attempts \cup {Nobody}]
    /\ open \in Attempts \cup Cleaners \cup {Nobody}
    /\ targets \in [Cleaners -> SUBSET Attempts]
    /\ doing \in [Cleaners -> Attempts \cup {Nobody}]
    /\ todo \in [Parents -> SUBSET Attempts]
    /\ at \in [Parents -> {"idle", "remove", "stage"}]
    /\ faults \in 0 .. MaxFaults

Init ==
    /\ jobOf \in JobMaps
    /\ row = [a \in Attempts |-> "none"]
    /\ review = [a \in Attempts |-> "pending"]
    /\ claim = [a \in Attempts |-> Nobody]
    /\ due = [a \in Attempts |-> FALSE]
    /\ logged = [a \in Attempts |-> FALSE]
    /\ current = Nobody
    /\ fence = {}
    /\ erased = FALSE
    /\ where = [f \in Files |-> "absent"]
    /\ intent = [f \in Files |-> "none"]
    /\ pc = [a \in Attempts |-> "idle"]
    /\ art = [a \in Attempts |-> Nobody]
    /\ open = Nobody
    /\ targets = [c \in Cleaners |-> {}]
    /\ doing = [c \in Cleaners |-> Nobody]
    /\ todo = [p \in Parents |-> {}]
    /\ at = [p \in Parents |-> "idle"]
    /\ faults = 0

-------------------------------------------------------------------------------
(* Rows, locks and files *)

Exists(a) == row[a] \in {"staging", "published", "available", "superseded"}
Staged(a) == row[a] \in {"staging", "published"}
Rows == {a \in Attempts : Exists(a)}

\* Mutant: a publisher waits for the department, and not for a deletion's fence.
AuthorityUnfenced == open = Nobody /\ ~erased

\* _lock_authority_order: the department lock, and no fence on any parent.
Authority == open = Nobody /\ ~erased /\ fence = {}

\* _require_publication_owner; the token is the row's, whichever attempt holds it.
Owned(a) == Staged(a) /\ claim[a] = Nobody

Fault == faults < MaxFaults /\ faults' = faults + 1

\* delete_known unlinks the final file and the partial one.
WithoutFilesOf(set) ==
    [f \in Files |-> IF f[1] \in set /\ where[f] = "managed" THEN "absent" ELSE where[f]]

Goes(a, step) == pc' = [pc EXCEPT ![a] = step]

\* Mutant: a pointer to the row survives it.
DeletesRowOnly(set) ==
    /\ row' = [a \in Attempts |-> IF a \in set THEN "gone" ELSE row[a]]
    /\ claim' = [a \in Attempts |-> IF a \in set THEN Nobody ELSE claim[a]]
    /\ UNCHANGED current

\* Mutant: the row stays behind as a tombstone.
DeletesSoftly(set) ==
    /\ row' = [a \in Attempts |-> IF a \in set THEN "deleted" ELSE row[a]]
    /\ claim' = [a \in Attempts |-> IF a \in set THEN Nobody ELSE claim[a]]
    /\ current' = IF current \in set THEN Nobody ELSE current

\* A deleted row: nothing of it is left, nor of the pointer to it.
Deletes(set) ==
    /\ row' = [a \in Attempts |-> IF a \in set THEN "gone" ELSE row[a]]
    /\ claim' = [a \in Attempts |-> IF a \in set THEN Nobody ELSE claim[a]]
    /\ current' = IF current \in set THEN Nobody ELSE current

-------------------------------------------------------------------------------
(* Publication by a remediation attempt *)

\* The row of the same job, if it has one; jobless rows are never found again.
Existing(a) == {b \in Rows : jobOf[a] # Nobody /\ jobOf[b] = jobOf[a]}

Inserts(a) ==
    /\ Existing(a) = {}
    /\ row' = [row EXCEPT ![a] = "staging"]
    /\ art' = [art EXCEPT ![a] = a]
    /\ Goes(a, "create")

\* A published row is resumed, an available one is what the attempt returns; a
\* row that another publication or a cleanup holds is an error.
Resumes(a) ==
    /\ \E b \in Existing(a) :
          /\ art' = [art EXCEPT ![a] = b]
          /\ Goes(a, IF claim[b] = Nobody /\ row[b] = "published" THEN "finalize" ELSE "done")
    /\ UNCHANGED row

\* A worker has claimed the job and runs its handler; an earlier attempt may still
\* be running.
ClaimsRow(a) ==
    /\ pc[a] = "idle"
    /\ open = Nobody
    /\ IF Authority
       THEN Inserts(a) \/ Resumes(a)
       ELSE Goes(a, "done") /\ UNCHANGED <<row, art>>
    /\ UNCHANGED <<review, claim, due, logged, current, parents, jobOf, cleanup, disk, open, faults>>

\* The partial file is created without any lock.
CreatesPartial(a) ==
    /\ pc[a] = "create"
    /\ where' = [where EXCEPT ![<<a, "partial">>] = "managed"]
    /\ Goes(a, "writing")
    /\ UNCHANGED <<rows, parents, jobOf, art, cleanup, intent, open, faults>>

\* A failed publication leaves no partial file, and tries to abort.
DropsPartial(a) ==
    /\ where' = [where EXCEPT ![<<a, "partial">>] = IF @ = "managed" THEN "absent" ELSE @]
    /\ Goes(a, "abort")

\* Between chunks the heartbeat is renewed.
Heartbeat(a) ==
    /\ pc[a] = "writing"
    /\ open = Nobody
    /\ IF Authority /\ Owned(a)
       THEN due' = [due EXCEPT ![a] = FALSE] /\ UNCHANGED <<where, pc>>
       ELSE DropsPartial(a) /\ UNCHANGED due
    /\ UNCHANGED <<row, review, claim, logged, current, parents, jobOf, art, cleanup, intent, open, faults>>

\* Mutant: the final link does not ask for the publication lease.
LinksUnasked(a) ==
    /\ pc[a] = "writing"
    /\ open = Nobody
    /\ where[<<a, "partial">>] = "managed"
    /\ where' = [where EXCEPT ![<<a, "final">>] = "managed"]
    /\ open' = a
    /\ Goes(a, "linked")
    /\ UNCHANGED <<rows, parents, jobOf, art, cleanup, intent, faults>>

\* The complete file gets its final name under the locks of its authority.
Links(a) ==
    /\ pc[a] = "writing"
    /\ open = Nobody
    /\ IF Authority /\ Owned(a) /\ where[<<a, "partial">>] = "managed"
       THEN /\ where' = [where EXCEPT ![<<a, "final">>] = "managed"]
            /\ open' = a
            /\ Goes(a, "linked")
       ELSE DropsPartial(a) /\ UNCHANGED open
    /\ UNCHANGED <<rows, parents, jobOf, art, cleanup, intent, faults>>

CommitsPublished(a) ==
    /\ pc[a] = "linked"
    /\ where' = [where EXCEPT ![<<a, "partial">>] = "absent"]
    /\ row' = [row EXCEPT ![a] = "published"]
    /\ due' = [due EXCEPT ![a] = FALSE]
    /\ open' = Nobody
    /\ Goes(a, "finalize")
    /\ UNCHANGED <<review, claim, logged, current, parents, jobOf, art, cleanup, intent, faults>>

\* An I/O error or a failed commit before that.
PublicationFails(a) ==
    /\ pc[a] \in {"writing", "linked"}
    /\ Fault
    /\ DropsPartial(a)
    /\ open' = IF open = a THEN Nobody ELSE open
    /\ UNCHANGED <<rows, parents, jobOf, art, cleanup, intent>>

\* finalize accepts a published row without a cleanup claim, whose file verifies.
Finalizable(b) ==
    /\ Authority
    /\ row[b] = "published"
    /\ claim[b] = Nobody
    /\ where[<<b, "final">>] = "managed"

\* finalize and the rest of the handler share one transaction, which ends with the
\* fence of the job's claim.  The fence takes the token from the job's row itself,
\* which the publication's commits have expired and which is loaded anew: an attempt
\* that has lost its job to another may be let through as well as refused.
HandlerCommits(a) ==
    /\ pc[a] = "finalize"
    /\ open = Nobody
    /\ Finalizable(art[a])
    /\ row' = [b \in Attempts |-> IF b = art[a] THEN "available"
                                  ELSE IF jobOf[a] = Nobody /\ b = current /\ row[b] = "available"
                                  THEN "superseded" ELSE row[b]]
    /\ current' = art[a]
    /\ due' = [due EXCEPT ![art[a]] = FALSE]
    /\ Goes(a, "done")
    /\ UNCHANGED <<review, claim, logged, parents, jobOf, art,
                   cleanup, disk, open, faults>>

\* The artifact is refused, the job is lost or asked to stop, or the commit fails.
HandlerFails(a) ==
    /\ pc[a] = "finalize"
    /\ open = Nobody
    /\ Goes(a, "abort")
    /\ UNCHANGED <<rows, parents, jobOf, art, cleanup, disk, open, faults>>

\* abort_staging removes the files under the locks, and deletes the row after.  An
\* authorization error reaches no abort in the code: the row is then fenced, claimed
\* or gone, and the abort would be refused here.  A later attempt of the job may do
\* the same for a row it did not insert (abort_staging_for_job); it is left out.
AbortRemoves(a) ==
    /\ pc[a] = "abort"
    /\ open = Nobody
    /\ IF Authority /\ Owned(art[a])
       THEN where' = WithoutFilesOf({art[a]}) /\ open' = a /\ Goes(a, "removed")
       ELSE Goes(a, "done") /\ UNCHANGED <<where, open>>
    /\ UNCHANGED <<rows, parents, jobOf, art, cleanup, intent, faults>>

AbortCommits(a) ==
    /\ pc[a] = "removed"
    /\ Deletes({art[a]})
    /\ open' = Nobody
    /\ Goes(a, "done")
    /\ UNCHANGED <<review, due, logged, parents, jobOf, art, cleanup,
                   disk, faults>>

\* The process dies, and its transaction with it; or the abort's commit fails.
AttemptDies(a) ==
    /\ pc[a] \notin {"idle", "done"}
    /\ Fault
    /\ Goes(a, "done")
    /\ open' = IF open = a THEN Nobody ELSE open
    /\ UNCHANGED <<rows, parents, jobOf, art, cleanup, disk>>

-------------------------------------------------------------------------------
(* Review and write-back *)

\* _lock_mutable_graph, and an artifact that has not expired.
Mutable(a) ==
    /\ Authority
    /\ row[a] = "available"
    /\ claim[a] = Nobody
    /\ current = a
    /\ ~due[a]

Reviews(a, status) ==
    /\ review' = [review EXCEPT ![a] = status]
    /\ UNCHANGED <<row, claim, due, logged, current, parents, attempts, cleanup, disk,
                   open, faults>>

\* The verdict needs the bytes; an approval extends the retention.
Approves(a) ==
    /\ Mutable(a) /\ review[a] = "pending"
    /\ where[<<a, "final">>] = "managed"
    /\ Reviews(a, "approved")

Rejects(a) ==
    /\ Mutable(a) /\ review[a] = "pending"
    /\ where[<<a, "final">>] = "managed"
    /\ Reviews(a, "rejected")

\* A changed fix review makes an approval stale; the locks are taken anew, and
\* neither claim nor pointer is asked for.
Invalidates(a) ==
    /\ Authority /\ Exists(a) /\ review[a] = "approved"
    /\ Reviews(a, "pending")

\* A Canvas upload whose outcome is unknown is logged, to be reconciled.
LogsAmbiguity(a) ==
    /\ Mutable(a) /\ review[a] = "approved" /\ ~logged[a]
    /\ logged' = [logged EXCEPT ![a] = TRUE]
    /\ UNCHANGED <<row, review, claim, due, current, parents, attempts, cleanup, disk,
                   open, faults>>

\* A receipt marks the artifact; the one of a Canvas upload is logged with it.
MarksWritten(a) ==
    /\ Mutable(a) /\ review[a] = "approved"
    /\ review' = [review EXCEPT ![a] = "written"]
    /\ \E canvas \in {logged[a], TRUE} : logged' = [logged EXCEPT ![a] = canvas]
    /\ UNCHANGED <<row, claim, due, current, parents, attempts, cleanup, disk, open, faults>>

\* The heartbeat of a publication or the retention of an artifact runs out.  A
\* publisher that is still at work outlives it only by a fault.
AttemptOn(a) == \E b \in Attempts : art[b] = a /\ pc[b] # "done"
RunsOut(a) ==
    /\ Staged(a) \/ row[a] \in {"available", "superseded"}
    /\ ~due[a]
    /\ IF Staged(a) /\ AttemptOn(a) THEN Fault ELSE UNCHANGED faults
    /\ due' = [due EXCEPT ![a] = TRUE]
    /\ UNCHANGED <<row, review, claim, logged, current, parents, attempts, cleanup,
                   disk, open>>

-------------------------------------------------------------------------------
(* Deletion of the scan or of its user *)

Resuming(p) == Rows # {} /\ \A a \in Rows : claim[a] = p

\* Mutant: the deletion of a scan is never refused for its artifacts' sake.
ParentClaimsAll(p) == \A a \in Rows : claim[a] \in {Nobody, p}

\* A row that another cleanup claimed refuses every deletion.  The scan's own is
\* refused for a current output and for an approved one that is not written back;
\* the user's forces, and rejects.  The code refuses the scan's for an unresolved
\* Canvas ambiguity too, which is not told apart from a receipt here.
ParentMayClaim(p) ==
    /\ \A a \in Rows : claim[a] \in {Nobody, p}
    /\ \/ p = "user"
       \/ Resuming(p)
       \/ current = Nobody /\ \A a \in Rows : review[a] # "approved"

ForcedReview(p, a) ==
    IF p = "user" /\ Exists(a) /\ claim[a] = Nobody /\ review[a] = "approved"
    THEN "rejected" ELSE review[a]

\* The fence and the claims are committed before any file goes.
ParentClaims(p) ==
    /\ at[p] = "idle"
    /\ open = Nobody /\ ~erased
    /\ ParentMayClaim(p)
    /\ fence' = fence \cup {p}
    /\ claim' = [a \in Attempts |-> IF Exists(a) THEN p ELSE claim[a]]
    /\ review' = [a \in Attempts |-> ForcedReview(p, a)]
    /\ todo' = [todo EXCEPT ![p] = Rows]
    /\ at' = [at EXCEPT ![p] = "remove"]
    /\ UNCHANGED <<row, due, logged, current, erased, attempts, cleanup, disk, open, faults>>

\* The files go without any lock, one artifact after the other.
ParentRemoves(p) ==
    /\ at[p] = "remove"
    /\ \E a \in todo[p] : \E f \in FilesOf(a) :
          where[f] = "managed" /\ where' = WithoutFilesOf({a})
    /\ UNCHANGED <<rows, parents, attempts, cleanup, intent, open, faults>>

ParentRemoved(p) ==
    /\ at[p] = "remove"
    /\ \A a \in todo[p] : \A f \in FilesOf(a) : where[f] # "managed"
    /\ at' = [at EXCEPT ![p] = "stage"]
    /\ UNCHANGED <<rows, fence, erased, todo, attempts, cleanup, disk, open, faults>>

\* The rows are deleted under this deletion's own fence if they all still bear its
\* claim, with the logs, the pointers and the parent, in the caller's commit.
ParentStages(p) ==
    /\ at[p] = "stage"
    /\ open = Nobody
    /\ at' = [at EXCEPT ![p] = "idle"]
    /\ todo' = [todo EXCEPT ![p] = {}]
    /\ IF /\ ~erased
          /\ todo[p] = {} \/ fence = {p}
          /\ \A a \in todo[p] : Exists(a) /\ claim[a] = p
       THEN /\ Deletes(todo[p])
            /\ logged' = [a \in Attempts |-> logged[a] /\ a \notin todo[p]]
            /\ erased' = TRUE
       ELSE UNCHANGED <<row, claim, current, logged, erased>>
    /\ UNCHANGED <<review, due, fence, attempts, cleanup, disk, open, faults>>

\* The process dies: the fence and the claims stay, to be resumed.
ParentDies(p) ==
    /\ at[p] # "idle"
    /\ Fault
    /\ at' = [at EXCEPT ![p] = "idle"]
    /\ todo' = [todo EXCEPT ![p] = {}]
    /\ UNCHANGED <<rows, fence, erased, attempts, cleanup, disk, open>>

-------------------------------------------------------------------------------
(* Scheduled cleanup *)

\* Mutant: approval does not keep an artifact that another one superseded.
Unkept(a) == FALSE

Kept(a) == review[a] = "approved" /\ ~due[a]

Eligible(a) ==
    /\ ~Kept(a)
    /\ claim[a] \in {Nobody} \cup Cleaners
    /\ \/ Staged(a) /\ due[a]
       \/ row[a] = "superseded"
       \/ row[a] = "available" /\ due[a]

\* A claim of the scheduler can be taken over when it is older than the grace,
\* which a cleaner that is still at work outlives only by a fault.
HeldByLive(a) == \E c \in Cleaners : claim[a] = c /\ a \in targets[c]

\* Mutant: a row that any cleaner has claimed, a dead one too, is never selected.
CleanerClaimsFree(c) ==
    /\ targets[c] = {} /\ doing[c] = Nobody
    /\ Authority
    /\ LET batch == {a \in Rows : Eligible(a) /\ claim[a] = Nobody} IN
          /\ batch # {}
          /\ claim' = [a \in Attempts |-> IF a \in batch THEN c ELSE claim[a]]
          /\ targets' = [targets EXCEPT ![c] = batch]
    /\ UNCHANGED <<row, review, due, logged, current, parents, attempts, doing, disk, open, faults>>

CleanerClaims(c) ==
    /\ targets[c] = {} /\ doing[c] = Nobody
    /\ Authority
    /\ \E batch \in {{a \in Rows : Eligible(a)}, {a \in Rows : Eligible(a) /\ ~HeldByLive(a)}} :
          /\ batch # {}
          /\ IF \E a \in batch : HeldByLive(a) THEN Fault ELSE UNCHANGED faults
          /\ claim' = [a \in Attempts |-> IF a \in batch THEN c ELSE claim[a]]
          /\ targets' = [targets EXCEPT ![c] = batch]
    /\ UNCHANGED <<row, review, due, logged, current, parents, attempts, doing, disk, open>>

\* The exact claim is asked for again, and eligibility.
Exact(c, a) == Exists(a) /\ claim[a] = c

\* Mutant: the row is deleted before its files.
CleanerDeletesFirst(c, a) ==
    /\ a \in targets[c]
    /\ doing[c] = Nobody
    /\ Authority
    /\ Exact(c, a)
    /\ Deletes({a})
    /\ targets' = [targets EXCEPT ![c] = @ \ {a}]
    /\ doing' = [doing EXCEPT ![c] = a]
    /\ open' = c
    /\ UNCHANGED <<review, due, logged, parents, attempts, disk, faults>>

CleanerRemoves(c, a) ==
    /\ a \in targets[c]
    /\ doing[c] = Nobody
    /\ Authority
    /\ Exact(c, a)
    /\ Eligible(a)
    /\ where' = WithoutFilesOf({a})
    /\ doing' = [doing EXCEPT ![c] = a]
    /\ open' = c
    /\ UNCHANGED <<rows, parents, attempts, targets, intent, faults>>

\* A claim that is no longer its own, or a parent that is fenced, is skipped; a row
\* that is not eligible any more gets its claim back.
CleanerSkips(c, a) ==
    /\ a \in targets[c]
    /\ doing[c] = Nobody
    /\ open = Nobody
    /\ ~(Authority /\ Exact(c, a) /\ Eligible(a))
    /\ targets' = [targets EXCEPT ![c] = @ \ {a}]
    /\ claim' = IF Authority /\ Exact(c, a) THEN [claim EXCEPT ![a] = Nobody] ELSE claim
    /\ UNCHANGED <<row, review, due, logged, current, parents, attempts, doing, disk,
                   open, faults>>

CleanerEnds(c) ==
    /\ targets' = [targets EXCEPT ![c] = @ \ {doing[c]}]
    /\ doing' = [doing EXCEPT ![c] = Nobody]
    /\ open' = Nobody

CleanerCommits(c) ==
    /\ doing[c] # Nobody
    /\ ~logged[doing[c]]
    /\ Deletes({doing[c]})
    /\ CleanerEnds(c)
    /\ UNCHANGED <<review, due, logged, parents, attempts, disk, faults>>

\* The row of a logged artifact cannot be deleted: the foreign key of the log
\* restricts it.  Or the commit fails.
CleanerCommitFails(c) ==
    /\ doing[c] # Nobody
    /\ IF logged[doing[c]] THEN UNCHANGED faults ELSE Fault
    /\ CleanerEnds(c)
    /\ UNCHANGED <<rows, parents, attempts, disk>>

CleanerDies(c) ==
    /\ targets[c] # {}
    /\ Fault
    /\ targets' = [targets EXCEPT ![c] = {}]
    /\ doing' = [doing EXCEPT ![c] = Nobody]
    /\ open' = IF open = c THEN Nobody ELSE open
    /\ UNCHANGED <<rows, parents, attempts, disk>>

-------------------------------------------------------------------------------
(* Quarantine of the files no row names *)

\* Mutant: the key of a partial file is looked up as it is.
KnownAsIs(f) == Exists(f[1]) /\ f[2] = "final"

\* _is_known_key asks for the key without its .partial suffix.
Known(f) == Exists(f[1])

\* A file older than the grace, which a publisher that is still at work outlives
\* only by a fault.  The intent is committed before the move.
QuarantineIntends(f) ==
    /\ where[f] = "managed"
    /\ ~Known(f)
    /\ intent[f] = "none"
    /\ IF \E a \in Attempts : art[a] = f[1] /\ pc[a] # "done" THEN Fault ELSE UNCHANGED faults
    /\ intent' = [intent EXCEPT ![f] = "pending"]
    /\ UNCHANGED <<rows, parents, attempts, cleanup, where, open>>

\* The scanner that intended it, or recover_pending after it died.
QuarantineMoves(f) ==
    /\ intent[f] = "pending" /\ where[f] = "managed"
    /\ where' = [where EXCEPT ![f] = "quarantine"]
    /\ \/ intent' = [intent EXCEPT ![f] = "quarantined"] /\ UNCHANGED faults
       \/ UNCHANGED intent /\ Fault
    /\ UNCHANGED <<rows, parents, attempts, cleanup, open>>

\* recover_pending reconciles an intent whose file has moved or has vanished.
QuarantineRecovers(f) ==
    /\ intent[f] = "pending" /\ where[f] # "managed"
    /\ intent' = [intent EXCEPT ![f] = IF where[f] = "quarantine" THEN "quarantined" ELSE "restore"]
    /\ UNCHANGED <<rows, parents, attempts, cleanup, where, open, faults>>

\* A file that is not the intended one any more, because it was still written or
\* took a changed name, is left where it is for an operator.
QuarantineRefuses(f) ==
    /\ intent[f] \in {"pending", "purging"} /\ where[f] # "absent"
    /\ Fault
    /\ intent' = [intent EXCEPT ![f] = "restore"]
    /\ UNCHANGED <<rows, parents, attempts, cleanup, where, open>>

\* A row that an operator has reviewed is claimed for the purge after its retention.
PurgeClaims(f) ==
    /\ intent[f] = "quarantined"
    /\ intent' = [intent EXCEPT ![f] = "purging"]
    /\ UNCHANGED <<rows, parents, attempts, cleanup, where, open, faults>>

Purges(f) ==
    /\ intent[f] = "purging"
    /\ where' = [where EXCEPT ![f] = "absent"]
    /\ \/ intent' = [intent EXCEPT ![f] = "purged"] /\ UNCHANGED faults
       \/ UNCHANGED intent /\ Fault
    /\ UNCHANGED <<rows, parents, attempts, cleanup, open>>

-------------------------------------------------------------------------------
(* The specification *)

PublishStep(a) ==
    \/ ClaimsRow(a) \/ CreatesPartial(a) \/ Links(a) \/ CommitsPublished(a)
    \/ HandlerCommits(a) \/ HandlerFails(a) \/ AbortRemoves(a) \/ AbortCommits(a)
AttemptStep(a) ==
    PublishStep(a) \/ Heartbeat(a) \/ PublicationFails(a) \/ AttemptDies(a)
ReviewStep(a) ==
    Approves(a) \/ Rejects(a) \/ Invalidates(a) \/ LogsAmbiguity(a) \/ MarksWritten(a)
ParentStep(p) ==
    ParentClaims(p) \/ ParentRemoves(p) \/ ParentRemoved(p) \/ ParentStages(p) \/ ParentDies(p)
CleanerWorks(c) ==
    \/ CleanerClaims(c) \/ CleanerCommits(c)
    \/ \E a \in Attempts : CleanerRemoves(c, a) \/ CleanerSkips(c, a)
CleanerStep(c) == CleanerWorks(c) \/ CleanerCommitFails(c) \/ CleanerDies(c)
ScannerWorks(f) == QuarantineIntends(f) \/ QuarantineMoves(f) \/ QuarantineRecovers(f)
ScannerStep(f) == ScannerWorks(f) \/ QuarantineRefuses(f) \/ PurgeClaims(f) \/ Purges(f)

Next ==
    \/ \E a \in Attempts : AttemptStep(a) \/ ReviewStep(a) \/ RunsOut(a)
    \/ \E p \in Parents : ParentStep(p)
    \/ \E c \in Cleaners : CleanerStep(c)
    \/ \E f \in Files : ScannerStep(f)

Spec == Init /\ [][Next]_vars

\* Handlers run on until they end or die, time passes, and the cleaners run again
\* and again.  Whoever waits for the department's lock gets it
\* however often others take it: PostgreSQL grants row locks in turn.
Fairness ==
    /\ \A a \in Attempts : SF_vars(PublishStep(a)) /\ WF_vars(RunsOut(a))
    /\ \A c \in Cleaners : SF_vars(CleanerWorks(c) \/ CleanerCommitFails(c))

FairSpec == Spec /\ Fairness

-------------------------------------------------------------------------------
(* Properties *)

\* The output a scan or cloud file points at is available, and its file is there
\* unless a cleanup has claimed it, whatever crashes between a publication, an
\* abort and a cleanup.
CurrentIsServed ==
    current # Nobody =>
        /\ row[current] = "available"
        /\ claim[current] = Nobody => where[<<current, "final">>] = "managed"

\* An approved output that has not expired keeps its file: neither the scheduler
\* nor the deletion of its scan takes it, only the deletion of the account, which
\* rejects it first.
ApprovedIsKept ==
    \A a \in Attempts :
        Exists(a) /\ review[a] = "approved" /\ ~due[a] => where[<<a, "final">>] = "managed"

\* What a person can still download, because it is current or approved, is there.
OutputsAreServed == CurrentIsServed /\ ApprovedIsKept

\* A file under its final name always has a row: bytes go before rows, and a
\* publisher that lost its row to a cleanup links nothing.
NoOrphanOutput ==
    \A a \in Attempts : where[<<a, "final">>] = "managed" => Exists(a)

\* The quarantine never takes a file that a row names, and what it holds has a
\* quarantine row.
QuarantineTakesOrphans ==
    \A f \in Files : where[f] = "quarantine" =>
        ~Exists(f[1]) /\ intent[f] \in {"pending", "quarantined", "restore", "purging"}

\* What the disk holds fits the rows, however publishers, cleanups and the scanner
\* overlap and die.
FilesMatchRows == NoOrphanOutput /\ QuarantineTakesOrphans

\* What is managed only goes: nothing is inserted, published or linked, nothing is
\* made current, and no review approves anything.
Shrinks ==
    /\ \A a \in Attempts :
        /\ row'[a] \in {row[a], "gone"}
        /\ review'[a] = "approved" => review[a] = "approved"
        /\ where'[<<a, "final">>] = "managed" => where[<<a, "final">>] = "managed"
    /\ current' \in {current, Nobody}

\* Once a deletion is fenced, or has been committed, every publisher that was at
\* work is stopped.
FenceOnlyShrinks == [][fence # {} \/ erased => Shrinks]_vars

\* A deletion leaves no output: when the scan is erased no row remains, whoever
\* published, cleaned or deleted beside it, nothing points at one, and there is no
\* file under a final name.
ErasedLeavesNothing ==
    erased =>
        /\ fence # {} /\ Rows = {} /\ current = Nobody
        /\ \A a \in Attempts : where[<<a, "final">>] # "managed"

\* A publication that is not finished is gone some time, or the deletion of a
\* parent has fenced it: a publisher that dies, and then a cleaner that dies with the
\* row claimed, whose commit fails or whose claim another cleaner takes over while it
\* is at work, leave no staging row for ever.  (A row is staged once, so that there
\* is none again and again says that each of them goes.)
AbandonedStagingGoes ==
    []<>(fence # {} \/ \A a \in Attempts : ~Staged(a))

\* An expired output goes, as self-hosting.md says of the scheduled cleanup:
\* "cleanup deletes the expired row and managed bytes, which releases the row's
\* parent `RESTRICT` references."
ExpiredArtifactGoes ==
    \A a \in Attempts : (row[a] = "available" /\ due[a]) ~> (row[a] = "gone" \/ fence # {})

===============================================================================

------------------------------ MODULE UploadEffect ------------------------------
(***************************************************************************)
(* The queue with the handler of upload jobs closed                        *)
(* (src/jobs/upload_job.py): it writes an approved artifact to a provider, *)
(* an effect no transaction can take back.  The handler announces the      *)
(* request in the row (begin_external_effect) before any byte may leave,   *)
(* sends it once, and records the receipt on the artifact.                 *)
(*                                                                         *)
(* The provider is outside: a request is accepted, rejected, or its        *)
(* outcome never comes back.                                               *)
(***************************************************************************)
EXTENDS JobQueue

CONSTANTS
    Artifacts,
    ArtifactOf      \* payload["artifact_id"] of each upload job

\* Every job here is an upload.
ASSUME ArtifactsAssumption == EffectJobs = Jobs /\ ArtifactOf \in [Jobs -> Artifacts]

VARIABLES
    request,    \* how far the handler of each claim is with its request
    sent,       \* requests that ever left for each job
    written     \* written_back_at of each artifact is set

uvars == <<vars, request, sent, written>>

Requests == {"none", "accepted", "rejected", "unknown", "owned", "recorded"}

UTypeOK ==
    /\ TypeOK
    /\ request \in [Claims -> Requests]
    /\ sent \in [Jobs -> 0..MaxAttempts]
    /\ written \in [Artifacts -> BOOLEAN]

UInit ==
    /\ Init
    /\ request = [c \in Claims |-> "none"]
    /\ sent = [j \in Jobs |-> 0]
    /\ written = [a \in Artifacts |-> FALSE]

UploadsOf(a) == {j \in Jobs : ArtifactOf[j] = a}

-------------------------------------------------------------------------------
(* Enqueueing an upload: remediation_job._queue_upload_job *)

\* An effect of this artifact that nobody has resolved yet.
Unresolved(k) ==
    \/ effect[k] = "indeterminate"
    \/ effect[k] = "requesting" /\ status[k] \notin Active

QueueUpload(j) ==
    /\ ~written[ArtifactOf[j]]
    /\ \A k \in UploadsOf(ArtifactOf[j]) : ~Unresolved(k) /\ status[k] \notin Active
    /\ Enqueue(j)
    /\ UNCHANGED <<request, sent, written>>

-------------------------------------------------------------------------------
(* The handler: process_upload_job, _process_upload_path *)

Uploading(c) == request[c] = "none" /\ c \notin granted

\* Before the checkpoint: an invalid artifact, missing credentials, a token
\* refresh that fails now or for good, an unexpected error.
FailsEarly(c) ==
    /\ Uploading(c)
    /\ HandlerReturns(c, "retry") \/ HandlerReturns(c, "fatal") \/ HandlerAbandons(c)
    /\ UNCHANGED <<request, sent, written>>

\* assert_owned() and the call of begin_external_effect in a thread.
AsksForEffect(c) ==
    /\ Uploading(c)
    /\ ActiveFence(c)
    /\ BeginEffectCall(c)
    /\ UNCHANGED <<request, sent, written>>

\* The thread's transaction, under the locks of the artifact's authority: the
\* artifact is not written yet and no other upload of it has an effect.  The
\* approval it also requires may have been withdrawn meanwhile.
AuthorityStands(c) ==
    /\ ~written[ArtifactOf[c[1]]]
    /\ \A k \in UploadsOf(ArtifactOf[c[1]]) \ {c[1]} : effect[k] = "none"

EffectThread(c) ==
    /\ \E approved \in BOOLEAN : BeginEffectCommit(c, approved /\ AuthorityStands(c))
    /\ UNCHANGED <<request, sent, written>>

\* The provider call.  A handler whose cancellation is under way may still make
\* it: the cancellation is delivered at its next await.
Sends(c) ==
    /\ HandlerThere(c)
    /\ c \in granted
    /\ request[c] = "none"
    /\ \E outcome \in {"accepted", "rejected", "unknown"} :
        request' = [request EXCEPT ![c] = outcome]
    /\ sent' = [sent EXCEPT ![c[1]] = @ + 1]
    /\ UNCHANGED <<vars, written>>

\* After an accepted request: mark_written, then assert_owned ...
ChecksOwnership(c) ==
    /\ pc[c] = "running"
    /\ request[c] = "accepted"
    /\ ActiveFence(c)
    /\ request' = [request EXCEPT ![c] = "owned"]
    /\ UNCHANGED <<vars, sent, written>>

\* ... then the commit of the receipt, which checks nothing any more.
CommitsReceipt(c) ==
    /\ HandlerThere(c)
    /\ request[c] = "owned"
    /\ request' = [request EXCEPT ![c] = "recorded"]
    /\ written' = [written EXCEPT ![ArtifactOf[c[1]]] = TRUE]
    /\ UNCHANGED <<vars, sent>>

\* Mutant: an accepted request is a success, receipt or not.
VerdictsWithoutReceipt(c) ==
    IF request[c] \in {"accepted", "recorded"} THEN {"success"} ELSE {"fatal"}

\* The typed result.  A rejection may count as retryable (429), and so may a
\* request without an answer (a timeout, a transport error): it is for _finish to
\* see that the effect was announced.  A receipt that cannot be recorded is a
\* failure too.
Verdicts(c) ==
    CASE request[c] = "recorded" -> {"success"}
      [] request[c] \in {"rejected", "unknown"} -> {"retry", "fatal"}
      [] OTHER -> {"fatal"}
UploadReturns(c) ==
    /\ request[c] \notin {"none", "owned"}
    /\ \/ \E r \in Verdicts(c) : HandlerReturns(c, r)
       \/ request[c] = "accepted" /\ HandlerAbandons(c)
    /\ UNCHANGED <<request, sent, written>>

UploadTornDown(c) ==
    /\ HandlerTornDown(c)
    /\ UNCHANGED <<request, sent, written>>

-------------------------------------------------------------------------------
(* The specification *)

\* The steps of the queue other than enqueueing and claiming handlers' work.
QueueSide ==
    /\ \/ \E j \in Jobs : LeaseLapses(j)
       \/ \E w \in Workers, j \in Jobs : Claim(w, j) \/ FailBlocked(w, j) \/ Reap(w, j)
       \/ \E c \in Claims :
           TaskStep(c) \/ HeartbeatRenews(c) \/ OwnershipLost(c) \/ ExecutionTimeout(c)
       \/ \E s \in Scans : CancelScan(s) \/ DeletionCommits(s) \/ FailStaleScan(s)
       \/ \E w \in Workers : RequestDrain(w) \/ StopDrained(w) \/ Crash(w) \/ Restart(w)
    /\ UNCHANGED <<request, sent, written>>

UploadStep(c) ==
    \/ FailsEarly(c) \/ AsksForEffect(c) \/ EffectThread(c) \/ Sends(c)
    \/ ChecksOwnership(c) \/ CommitsReceipt(c) \/ UploadReturns(c) \/ UploadTornDown(c)

UNext ==
    \/ \E j \in Jobs : QueueUpload(j)
    \/ QueueSide
    \/ \E c \in Claims : UploadStep(c)

USpec == UInit /\ [][UNext]_uvars

-------------------------------------------------------------------------------
(* Properties *)

\* One artifact reaches its provider at most once, over all attempts of all
\* upload jobs ever queued for it.
AtMostOneWrite ==
    \A j, k \in Jobs :
        ArtifactOf[j] = ArtifactOf[k] =>
            /\ sent[j] <= 1
            /\ (j # k => sent[j] + sent[k] <= 1)

\* A job whose request may have left is never put back in the queue.
NeverRequeuedAfterSend == \A j \in Jobs : sent[j] > 0 => status[j] # "pending"

\* A completed upload wrote its artifact, and the receipt says so.
CompletedUploadIsWritten ==
    \A j \in Jobs :
        status[j] = "completed" =>
            sent[j] = 1 /\ effect[j] = "confirmed" /\ written[ArtifactOf[j]]

\* The promise towards the outside world.
PhaseOf == [j \in Jobs |->
    IF sent[j] > 0 THEN "sent" ELSE IF effect[j] # "none" THEN "announced" ELSE "idle"]
VerdictOf == [j \in Jobs |->
    IF status[j] \notin Terminal THEN "open"
    ELSE IF effect[j] = "none" THEN "clean"
    ELSE IF effect[j] = "confirmed" THEN "confirmed" ELSE "unknown"]
Promise == INSTANCE AtMostOnceEffect
             WITH Items <- Jobs, phase <- PhaseOf, verdict <- VerdictOf
KeepsPromise == Promise!Spec

===============================================================================

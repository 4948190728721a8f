------------------------------- MODULE AtomicScan -------------------------------
(***************************************************************************)
(* A scan and its queue rows as their callers are meant to see them: every *)
(* transaction takes effect in one step, and what it asked of the other    *)
(* rows holds in the state that its step changes.  Only a deletion takes   *)
(* two: the fence is set with the rows of the queue, the scan goes later.  *)
(***************************************************************************)
CONSTANTS Jobs, LocalJobs, UploadJobs

VARIABLES job, scan, fence

Init ==
    /\ job = [j \in Jobs |-> "none"]
    /\ scan = "open"
    /\ fence = FALSE

Running(j) == job[j] \in {"processing", "cancelling"}
Active(j) == job[j] = "pending" \/ Running(j)

SetJob(j, status) == job' = [job EXCEPT ![j] = status]

\* A scan job is queued for an open scan, an upload for one that stays; a
\* remediation may outlive its scan.
Enqueues(j) ==
    /\ job[j] = "none"
    /\ j \in LocalJobs => scan = "open"
    /\ j \in UploadJobs => scan # "deleted" /\ ~fence
    /\ SetJob(j, "pending")
    /\ UNCHANGED <<scan, fence>>

Claims(j) ==
    /\ job[j] = "pending"
    /\ SetJob(j, "processing")
    /\ UNCHANGED <<scan, fence>>

Finishes(j) ==
    /\ job[j] = "processing"
    /\ j \in LocalJobs => scan # "open"
    /\ SetJob(j, "done")
    /\ UNCHANGED <<scan, fence>>

\* A scan job that was not asked to stop completes its scan, or fails it.
Completes(j) ==
    /\ job[j] = "processing" /\ scan = "open"
    /\ scan' = "completed"
    /\ UNCHANGED <<job, fence>>

Fails(j) ==
    /\ job[j] = "processing"
    /\ SetJob(j, "done")
    /\ scan' = IF scan = "open" THEN "failed" ELSE scan
    /\ UNCHANGED fence

\* Only a scan that no scan job owns runs out of time.
TimesOut ==
    /\ scan = "open"
    /\ \A j \in LocalJobs : ~Active(j)
    /\ scan' = "timed_out"
    /\ UNCHANGED <<job, fence>>

\* A cancellation is about the rows it found; with one of them at work it asks that
\* one to stop and leaves the deletion to it.
Requests(found) ==
    /\ \A j \in found : Active(j)
    /\ \E j \in found : Running(j)
    /\ job' = [j \in Jobs |->
                  IF j \notin found THEN job[j]
                  ELSE IF Running(j) THEN "cancelling" ELSE "cancelled"]
    /\ UNCHANGED <<scan, fence>>

\* With none of them at work it cancels them and fences the deletion.
Cancels(found) ==
    /\ \A j \in found : job[j] = "pending"
    /\ scan # "deleted"
    /\ job' = [j \in Jobs |-> IF j \in found THEN "cancelled" ELSE job[j]]
    /\ fence' = TRUE
    /\ UNCHANGED scan

\* An acknowledgement fences the deletion, too, unless the scan is gone or another
\* row was at work with it.
Acknowledges(j) ==
    /\ job[j] = "cancelling"
    /\ SetJob(j, "cancelled")
    /\ \/ scan # "deleted" /\ fence' = TRUE
       \/ /\ \/ scan = "deleted"
             \/ \E k \in Jobs \ {j} : Running(k) \/ job[k] = "done"
          /\ UNCHANGED fence
    /\ UNCHANGED scan

Erases ==
    /\ fence /\ scan # "deleted"
    /\ scan' = "deleted"
    /\ UNCHANGED <<job, fence>>

Next ==
    \/ \E j \in Jobs : Enqueues(j) \/ Claims(j) \/ Finishes(j) \/ Acknowledges(j)
    \/ \E j \in LocalJobs : Completes(j) \/ Fails(j)
    \/ TimesOut \/ Erases
    \/ \E found \in SUBSET Jobs : Requests(found) \/ Cancels(found)

Spec == Init /\ [][Next]_<<job, scan, fence>>
===============================================================================

------------------------- MODULE ScanTransactions_proofs -------------------------
(***************************************************************************)
(* Proofs about ScanTransactions for any set of jobs: whatever the         *)
(* interleaving of the transactions' statements, the stale-scan loop       *)
(* spares a scan that a job owns, the last acknowledgement cleans up, and  *)
(* only the transactions that lock a child before its department can be    *)
(* part of a deadlock.                                                     *)
(*                                                                         *)
(* The argument is about locks: where a transaction is says which rows it  *)
(* holds (Holds), and who owns a row says where that transaction is        *)
(* (Owns).                                                                 *)
(***************************************************************************)
EXTENDS ScanTransactions, TLAPS

\* The rows a transaction is sure to hold.
Holds(t) ==
    /\ t = CancelTx /\ at[t] \in {"department", "claim"} => \A j \in seen[t] : owner[j] = t
    /\ t = TimeoutTx /\ at[t] = "recheck" => owner[Scan] = t
    /\ t[1] = "enqueue" /\ t[2] \in LocalJobs /\ at[t] = "insert" => owner[Scan] = t
    /\ t[1] = "enqueue" /\ t[2] \in UploadJobs /\ at[t] = "insert" => owner[Department] = t
    /\ t[1] = "enqueue" /\ t[2] \in UploadJobs /\ at[t] = "scan" => owner[Department] = t
    /\ t[1] = "fail" /\ at[t] = "scan" => owner[t[2]] = t
    /\ t[1] = "ack" /\ seen[t] # {} => owner[t[2]] = t
    /\ t[1] = "ack" /\ at[t] = "others" => owner[Scan] = t

\* Where the owner of the scan, of the department and of a job can be.
OwnsScan(t) ==
    \/ t = TimeoutTx /\ at[t] = "recheck" /\ scan = "open"
    \/ t[1] = "enqueue" /\ at[t] = "insert" /\ t[2] \in LocalJobs /\ scan = "open"
    \/ t[1] = "enqueue" /\ at[t] = "insert" /\ t[2] \in UploadJobs
    \/ t[1] = "checkpoint" /\ at[t] = "job"
    \/ t[1] = "ack" /\ at[t] \in {"others", "commit", "department", "claim"}
OwnsDepartment(t) ==
    \/ t = CancelTx /\ at[t] \in {"claim", "erase"}
    \/ t[1] = "enqueue" /\ at[t] \in {"scan", "insert"} /\ t[2] \in UploadJobs
    \/ t[1] = "checkpoint" /\ at[t] \in {"scan", "job"}
    \/ t[1] = "ack" /\ at[t] \in {"claim", "erase"}
OwnsJob(t, j) ==
    \/ t = CancelTx /\ at[t] \in {"department", "claim"} /\ job[j] = "pending"
    \/ t = FailTx(j) /\ j \in LocalJobs /\ at[t] = "scan"
    \/ t = AckTx(j) /\ at[t] \in {"scan", "others", "commit", "department", "claim"}
Owns(t) ==
    /\ owner[Scan] = t => OwnsScan(t)
    /\ owner[Department] = t => OwnsDepartment(t)
    /\ \A j \in Jobs : owner[j] = t => OwnsJob(t, j)

\* An acknowledgement has seen its own row; a checkpoint and a failure are of a job that
\* was claimed; the statements of each kind of transaction.
Kinds(t) ==
    /\ t[1] = "ack" =>
        /\ seen[t] \subseteq {t[2]}
        /\ at[t] \in {"idle", "job", "authority", "erase"} => seen[t] = {}
        /\ at[t] \in {"idle", "job", "scan", "others", "commit", "department", "claim",
                      "authority", "erase"}
    /\ t[1] = "cancel" => at[t] \in {"idle", "jobs", "department", "claim", "authority", "erase"}
    /\ t[1] = "timeout" => at[t] \in {"idle", "lock", "recheck"}
    /\ t[1] = "enqueue" =>
        /\ at[t] \in {"idle", "department", "scan", "insert"}
        /\ at[t] # "idle" => job[t[2]] = "none"
        /\ at[t] = "department" => t[2] \in UploadJobs
        /\ at[t] = "scan" => t[2] \in LocalJobs \cup UploadJobs
    /\ t[1] = "fail" =>
        /\ at[t] \in {"idle", "scan"}
        /\ at[t] # "idle" => job[t[2]] \notin {"none", "pending"}
    /\ t[1] = "checkpoint" =>
        /\ at[t] \in {"idle", "department", "scan", "job"}
        /\ at[t] # "idle" => job[t[2]] \notin {"none", "pending"}

\* An acknowledgement that leaves the deletion to another row holds the scan, and
\* that row has not been cancelled.
Left(j) ==
    at[AckTx(j)] = "commit" =>
        \/ scan = "deleted"
        \/ /\ owner[Scan] = AckTx(j)
           /\ \E k \in Jobs \ {j} : job[k] \in {"processing", "cancelling", "done"}

\* A cancelled scan is deleted or fenced, even while transactions are under way.
CleanedUp ==
    (/\ \A j \in Jobs : job[j] \in {"none", "cancelled"}
     /\ \E j \in Jobs : job[j] = "cancelled")
    => scan = "deleted" \/ fence

TInv ==
    /\ STypeOK
    /\ \A t \in Tx : Holds(t)
    /\ \A t \in Tx : Owns(t)
    /\ \A t \in Tx : Kinds(t)
    /\ \A j \in Jobs : Left(j)
    /\ CleanedUp
    /\ TimeoutSparesOwnedScan

-------------------------------------------------------------------------------
(* Transactions *)

LEMMA TxParts ==
    /\ CancelTx \in Tx /\ CancelTx[1] = "cancel"
    /\ TimeoutTx \in Tx /\ TimeoutTx[1] = "timeout"
    /\ \A j \in Jobs : AckTx(j) \in Tx /\ AckTx(j)[1] = "ack" /\ AckTx(j)[2] = j
    /\ \A j \in Jobs : EnqueueTx(j) \in Tx /\ EnqueueTx(j)[1] = "enqueue" /\ EnqueueTx(j)[2] = j
    /\ \A j \in LocalJobs : FailTx(j) \in Tx /\ FailTx(j)[1] = "fail" /\ FailTx(j)[2] = j
    /\ \A j \in UploadJobs :
        CheckpointTx(j) \in Tx /\ CheckpointTx(j)[1] = "checkpoint" /\ CheckpointTx(j)[2] = j
BY DEF Tx, CancelTx, TimeoutTx, AckTx, EnqueueTx, FailTx, CheckpointTx

LEMMA TxKinds ==
    ASSUME NEW t \in Tx
    PROVE  \/ t = CancelTx \/ t = TimeoutTx
           \/ \E j \in Jobs : t = AckTx(j) \/ t = EnqueueTx(j)
           \/ \E j \in LocalJobs : t = FailTx(j)
           \/ \E j \in UploadJobs : t = CheckpointTx(j)
BY DEF Tx, CancelTx, TimeoutTx, AckTx, EnqueueTx, FailTx, CheckpointTx

LEMMA TxTags ==
    ASSUME NEW t \in Tx
    PROVE  /\ t[1] \in {"cancel", "timeout", "ack", "enqueue", "fail", "checkpoint"}
           /\ t[1] = "cancel" => t = CancelTx
           /\ t[1] = "timeout" => t = TimeoutTx
           /\ t[1] = "ack" => t[2] \in Jobs /\ t = AckTx(t[2])
           /\ t[1] = "enqueue" => t[2] \in Jobs /\ t = EnqueueTx(t[2])
           /\ t[1] = "fail" => t[2] \in LocalJobs /\ t = FailTx(t[2])
           /\ t[1] = "checkpoint" => t[2] \in UploadJobs /\ t = CheckpointTx(t[2])
BY DEF Tx, CancelTx, TimeoutTx, AckTx, EnqueueTx, FailTx, CheckpointTx

LEMMA RowParts ==
    /\ Scan \in Rows /\ Department \in Rows /\ Scan # Department
    /\ \A j \in Jobs : j \in Rows /\ j # Scan /\ j # Department
    /\ \A r \in Rows : r = Scan \/ r = Department \/ r \in Jobs
    /\ LocalJobs \subseteq Jobs /\ UploadJobs \subseteq Jobs
    /\ \A j \in LocalJobs : j \notin UploadJobs
    /\ Nobody \notin Tx
BY JobsAssumption, NobodyAssumption DEF Rows, Scan, Department

\* A step of transaction t leaves the others where they are, and takes no lock of
\* theirs.
Moves(t) ==
    /\ \A u \in Tx \ {t} : at'[u] = at[u] /\ seen'[u] = seen[u]
    /\ \A r \in Rows :
        owner'[r] = owner[r] \/ (owner[r] \in {t, Nobody} /\ owner'[r] \in {t, Nobody})

\* What it writes respects the locks of the others.
Uncancelled == {"processing", "cancelling", "done"}
Writes(t) ==
    /\ owner[Scan] \notin {t, Nobody} => scan' = scan
    /\ owner[Scan] \notin {t, Nobody} /\ scan # "deleted" =>
        \A k \in Jobs : job[k] \in Uncancelled => job'[k] \in Uncancelled
    /\ scan = "deleted" => scan' = "deleted"
    /\ \A j \in Jobs : owner[j] \notin {t, Nobody} /\ job[j] = "pending" => job'[j] = "pending"
    /\ \A j \in Jobs :
        \/ job'[j] = job[j]
        \/ job[j] # "none" /\ job'[j] \notin {"none", "pending"}
        \/ t = EnqueueTx(j) /\ job[j] = "none"

\* Where it is itself.
Mine(t) ==
    /\ Holds(t)' /\ Kinds(t)' /\ Owns(t)'
    /\ \A j \in Jobs : t = AckTx(j) => Left(j)'

LEMMA Frame ==
    ASSUME TInv, STypeOK', NEW t \in Tx, Moves(t), Writes(t), Mine(t),
           CleanedUp', TimeoutSparesOwnedScan'
    PROVE  TInv'
<1> USE RowParts
<1>1. ASSUME NEW u \in Tx \ {t}, NEW r \in Rows, owner[r] = u PROVE owner'[r] = u
  BY <1>1 DEF Moves
<1>2. ASSUME NEW u \in Tx \ {t}, NEW r \in Rows, owner'[r] = u PROVE owner[r] = u
  BY <1>2 DEF Moves
<1>3. ASSUME NEW u \in Tx \ {t} PROVE Holds(u)'
  <2>1. at'[u] = at[u] /\ seen'[u] = seen[u] /\ Holds(u)
    BY DEF Moves, TInv
  <2>2. u[1] \in {"ack", "fail"} => u[2] \in Rows
    BY TxKinds, TxParts
  <2>3. seen[u] \subseteq Rows
    BY DEF TInv, STypeOK
  <2> QED
    BY <1>1, <2>1, <2>2, <2>3 DEF Holds
<1>4. ASSUME NEW u \in Tx \ {t} PROVE Kinds(u)'
  <2>1. at'[u] = at[u] /\ seen'[u] = seen[u] /\ Kinds(u)
    BY DEF Moves, TInv
  <2>2. u[1] \in {"enqueue", "checkpoint", "fail"} => u[2] \in Jobs
    BY TxKinds, TxParts
  <2>3. u[1] = "enqueue" => u = EnqueueTx(u[2])
    BY TxKinds, TxParts
  <2>4. u[1] = "enqueue" /\ job[u[2]] = "none" => job'[u[2]] = "none"
    BY <2>2, <2>3 DEF Writes
  <2>5. u[1] \in {"checkpoint", "fail"} /\ job[u[2]] \notin {"none", "pending"}
            => job'[u[2]] \notin {"none", "pending"}
    BY <2>2 DEF Writes
  <2> QED
    BY <2>1, <2>4, <2>5 DEF Kinds
<1>5. ASSUME NEW u \in Tx \ {t} PROVE Owns(u)'
  <2>1. at'[u] = at[u] /\ Owns(u)
    BY DEF Moves, TInv
  <2>2. ASSUME owner'[Scan] = u PROVE OwnsScan(u)'
    <3>1. owner[Scan] = u
      BY <1>2, <2>2
    <3>2. OwnsScan(u) /\ scan' = scan
      BY <2>1, <3>1 DEF Owns, Writes
    <3> QED
      BY <2>1, <3>2 DEF OwnsScan
  <2>3. ASSUME owner'[Department] = u PROVE OwnsDepartment(u)'
    <3>1. owner[Department] = u
      BY <1>2, <2>3
    <3> QED
      BY <2>1, <3>1 DEF Owns, OwnsDepartment
  <2>4. ASSUME NEW j \in Jobs, owner'[j] = u PROVE OwnsJob(u, j)'
    <3>1. owner[j] = u
      BY <1>2, <2>4
    <3>2. OwnsJob(u, j) /\ (job[j] = "pending" => job'[j] = "pending")
      BY <2>1, <3>1 DEF Owns, Writes
    <3> QED
      BY <2>1, <3>2 DEF OwnsJob
  <2> QED
    BY <2>2, <2>3, <2>4 DEF Owns
<1>6. ASSUME NEW j \in Jobs PROVE Left(j)'
  <2>1. CASE t = AckTx(j)
    BY <2>1 DEF Mine
  <2>2. CASE t # AckTx(j)
    <3>1. AckTx(j) \in Tx \ {t} /\ at'[AckTx(j)] = at[AckTx(j)]
      BY <2>2, TxParts DEF Moves
    <3>2. owner[Scan] = AckTx(j) => owner'[Scan] = AckTx(j) /\ owner[Scan] \notin {t, Nobody}
      BY <1>1, <3>1
    <3>3. scan = "deleted" => scan' = "deleted"
      BY DEF Writes
    <3>4. owner[Scan] = AckTx(j) /\ scan # "deleted" => \A k \in Jobs : job[k] \in Uncancelled => job'[k] \in Uncancelled
      BY <3>2 DEF Writes
    <3>5. Left(j)
      BY DEF TInv
    <3> QED
      BY <3>1, <3>2, <3>3, <3>4, <3>5 DEF Left, Uncancelled
  <2> QED
    BY <2>1, <2>2
<1>7. \A u \in Tx : Holds(u)' /\ Kinds(u)' /\ Owns(u)'
  BY <1>3, <1>4, <1>5 DEF Mine
<1> QED
  BY <1>6, <1>7 DEF TInv

-------------------------------------------------------------------------------
(* The building blocks of the statements *)

LEMMA QuietWrites ==
    ASSUME TInv, NEW t \in Tx, UNCHANGED <<job, scan, fence>>
    PROVE  /\ Writes(t) /\ CleanedUp' /\ TimeoutSparesOwnedScan'
           /\ job' \in [Jobs -> Statuses] /\ scan' \in ScanStatuses /\ fence' \in BOOLEAN
BY DEF TInv, STypeOK, Writes, CleanedUp, TimeoutSparesOwnedScan, OwnedByQueue, Active

\* The end of a transaction.
LEMMA EndsMine ==
    ASSUME TInv, NEW t \in Tx, Ends(t)
    PROVE  /\ Moves(t) /\ Mine(t)
           /\ owner' \in [Rows -> Tx \cup {Nobody}]
           /\ at' \in [Tx -> Statements] /\ seen' \in [Tx -> SUBSET Jobs]
<1> USE RowParts
<1>1. at' = [at EXCEPT ![t] = "idle"] /\ seen' = [seen EXCEPT ![t] = {}]
      /\ owner' = [r \in Rows |-> IF owner[r] = t THEN Nobody ELSE owner[r]]
  BY DEF Ends, Releases, Goes
<1>2. STypeOK
  BY DEF TInv
<1>3. at'[t] = "idle" /\ seen'[t] = {} /\ \A r \in Rows : owner'[r] # t
  BY <1>1, <1>2 DEF STypeOK
<1>4. Moves(t)
  BY <1>1, <1>2 DEF STypeOK, Moves
<1>5. Holds(t)'
  BY <1>3 DEF Holds
<1>6. Owns(t)'
  BY <1>3 DEF Owns
<1>7. Kinds(t)'
  BY <1>3 DEF Kinds
<1>8. \A j \in Jobs : t = AckTx(j) => Left(j)'
  BY <1>3 DEF Left
<1>9. /\ owner' \in [Rows -> Tx \cup {Nobody}]
      /\ at' \in [Tx -> Statements] /\ seen' \in [Tx -> SUBSET Jobs]
  BY <1>1, <1>2 DEF STypeOK, Statements
<1> QED
  BY <1>4, <1>5, <1>6, <1>7, <1>8, <1>9 DEF Mine

\* So a transaction that ends has to answer for what it wrote only.
LEMMA EndsKeeps ==
    ASSUME TInv, NEW t \in Tx, Ends(t), Writes(t), CleanedUp', TimeoutSparesOwnedScan',
           job' \in [Jobs -> Statuses], scan' \in ScanStatuses, fence' \in BOOLEAN
    PROVE  TInv'
<1>1. Moves(t) /\ Mine(t) /\ STypeOK'
  BY EndsMine DEF STypeOK
<1> QED
  BY <1>1, Frame

LEMMA RollbackKeeps ==
    ASSUME TInv, NEW t \in Tx, Rollback(t)
    PROVE  TInv'
BY EndsKeeps, QuietWrites DEF Rollback

\* A statement that only takes a lock, or none, and goes on.
LEMMA GoesOn ==
    ASSUME TInv, NEW t \in Tx, NEW r \in Rows, NEW s \in Statements, Goes(t, s),
           owner' = owner \/ (Free(t, r) /\ Locks(t, {r})),
           UNCHANGED <<job, scan, fence, seen>>, Mine(t)
    PROVE  TInv'
<1> USE RowParts
<1>1. STypeOK
  BY DEF TInv
<1>2. STypeOK'
  BY <1>1 DEF STypeOK, Goes, Locks
<1>3. Moves(t)
  BY <1>1 DEF STypeOK, Moves, Goes, Locks, Free
<1> QED
  BY <1>2, <1>3, QuietWrites, Frame

\* What it holds after it.
LEMMA After ==
    ASSUME TInv, NEW t \in Tx, NEW r \in Rows, NEW s, Goes(t, s),
           owner' = owner \/ Locks(t, {r})
    PROVE  /\ at'[t] = s
           /\ \A q \in Rows \ {r} : owner'[q] = owner[q]
           /\ Locks(t, {r}) => owner'[r] = t
BY RowParts DEF TInv, STypeOK, Goes, Locks

-------------------------------------------------------------------------------
(* cancel_scan *)

LEMMA CancelSelectsKeeps == TInv /\ CancelSelects => TInv'
<1> SUFFICES ASSUME TInv, CancelSelects PROVE TInv'
  OBVIOUS
<1> USE RowParts, TxParts
<1>1. STypeOK /\ Owns(CancelTx) /\ at[CancelTx] = "idle"
  BY DEF TInv, CancelSelects
<1>2. \A r \in Rows : owner'[r] = owner[r] /\ owner[r] # CancelTx
  BY <1>1 DEF CancelSelects, Owns, OwnsScan, OwnsDepartment, OwnsJob, AckTx, CancelTx, FailTx
<1>3. STypeOK'
  BY <1>1 DEF STypeOK, CancelSelects, Goes, Statements
<1>4. Moves(CancelTx)
  BY <1>1 DEF STypeOK, CancelSelects, Goes, Moves
<1>5. at'[CancelTx] = "jobs"
  BY <1>1 DEF STypeOK, CancelSelects, Goes
<1>6. Mine(CancelTx)
  BY <1>2, <1>5 DEF Mine, Holds, Kinds, Owns, Left
<1> QED
  BY <1>3, <1>4, <1>6, QuietWrites, Frame DEF CancelSelects

\* What the marks of a transaction do to a row.
LEMMA MarksRows ==
    ASSUME TInv, NEW t \in Tx, Marks(t)
    PROVE  /\ job' \in [Jobs -> Statuses]
           /\ \A j \in Jobs :
               \/ job'[j] = job[j]
               \/ j \in seen[t] /\ Active(job[j]) /\ job'[j] \in {"cancelled", "cancelling"}
           /\ \A j \in Jobs : Active(job'[j]) => Active(job[j])
           /\ \A j \in Jobs : t[1] # "ack" /\ Running(job[j]) => Running(job'[j])
BY DEF TInv, STypeOK, Marks, Marked, Active, Running, Statuses

LEMMA CancelRequestsKeeps == TInv /\ CancelRequests => TInv'
<1> SUFFICES ASSUME TInv, CancelRequests PROVE TInv'
  OBVIOUS
<1> USE RowParts, TxParts
<1>1. STypeOK /\ Ends(CancelTx) /\ Marks(CancelTx) /\ UNCHANGED <<scan, fence>>
      /\ TimeoutSparesOwnedScan
  BY DEF TInv, CancelRequests
<1>2. PICK k \in Jobs : Running(job[k])
  BY <1>1 DEF CancelRequests, StillActive, STypeOK
<1>3. Running(job'[k])
  BY <1>1, <1>2, MarksRows
<1>4. CleanedUp'
  BY <1>3 DEF CleanedUp, Running
<1>5. TimeoutSparesOwnedScan'
  BY <1>1, MarksRows DEF TimeoutSparesOwnedScan, OwnedByQueue
<1>6. Writes(CancelTx)
  <2>1. \A j \in Jobs : job[j] \in Uncancelled => job'[j] \in Uncancelled
    BY <1>1, MarksRows DEF Uncancelled, Running, Active
  <2>2. \A j \in Jobs : owner[j] \notin {CancelTx, Nobody} /\ job[j] = "pending"
            => job'[j] = "pending"
    BY <1>1, MarksRows DEF CancelRequests, Free
  <2>3. \A j \in Jobs : job'[j] = job[j]
            \/ (job[j] # "none" /\ job'[j] \notin {"none", "pending"})
    BY <1>1, MarksRows DEF Active
  <2> QED
    BY <1>1, <2>1, <2>2, <2>3 DEF Writes
<1> QED
  BY <1>1, <1>4, <1>5, <1>6, MarksRows, EndsKeeps DEF STypeOK

LEMMA CancelDeletesKeeps == TInv /\ CancelDeletes => TInv'
<1> SUFFICES ASSUME TInv, CancelDeletes PROVE TInv'
  OBVIOUS
<1> USE RowParts, TxParts
<1>1. STypeOK /\ Owns(CancelTx) /\ at[CancelTx] = "jobs" /\ StillActive \subseteq Jobs
  BY DEF TInv, CancelDeletes, StillActive, STypeOK
<1>2. \A r \in Rows : owner[r] # CancelTx
  BY <1>1 DEF Owns, OwnsScan, OwnsDepartment, OwnsJob, AckTx, CancelTx, FailTx
<1>3. STypeOK'
  BY <1>1 DEF STypeOK, CancelDeletes, Goes, Locks, Statements
<1>4. Moves(CancelTx)
  BY <1>1 DEF STypeOK, CancelDeletes, StillActive, Goes, Locks, Free, Moves
<1>5. at'[CancelTx] = "department"
  BY <1>1 DEF STypeOK, CancelDeletes, Goes
<1>6. \A r \in Rows : owner'[r] = CancelTx => r \in StillActive
  BY <1>2 DEF CancelDeletes, Locks
<1>7. \A j \in StillActive : job'[j] = "pending"
  BY <1>1 DEF CancelDeletes, StillActive, Active, Running
<1>8. Owns(CancelTx)'
  BY <1>1, <1>5, <1>6, <1>7 DEF Owns, OwnsJob
<1>9. Holds(CancelTx)'
  <2>1. seen'[CancelTx] = StillActive /\ \A j \in StillActive : owner'[j] = CancelTx
    BY <1>1 DEF CancelDeletes, STypeOK, Locks
  <2> QED
    BY <2>1 DEF Holds
<1>10. Mine(CancelTx)
  BY <1>5, <1>8, <1>9 DEF Mine, Kinds, Left
<1> QED
  BY <1>3, <1>4, <1>10, QuietWrites, Frame DEF CancelDeletes

-------------------------------------------------------------------------------
(* The cleanup, for a cancellation and for an acknowledgement *)

LEMMA CleanupTx ==
    ASSUME TInv, NEW t \in Tx, at[t] \in {"claim", "authority", "erase"} 
    PROVE  t = CancelTx \/ \E j \in Jobs : t = AckTx(j)
<1>1. Kinds(t) /\ at[t] \in {"claim", "authority", "erase"}
  BY DEF TInv
<1>2. t[1] \in {"cancel", "ack"}
  <2>1. t[1] \in {"cancel", "timeout", "ack", "enqueue", "fail", "checkpoint"}
    BY TxTags
  <2> QED
    BY <1>1, <2>1 DEF Kinds
<1> QED
  BY <1>2, TxTags

LEMMA LocksDepartmentKeeps ==
    ASSUME TInv, NEW t \in Tx, LocksDepartment(t) PROVE TInv'
<1> USE RowParts, TxParts
<1>1. /\ STypeOK /\ Owns(t) /\ Holds(t) /\ Kinds(t) /\ at[t] = "department"
      /\ t[1] \in {"cancel", "ack"}
      /\ LockRow(t, Department, "claim") /\ Department \in Rows /\ "claim" \in Statements
  BY DEF TInv, LocksDepartment, Statements
<1>2. at'[t] = "claim" /\ owner'[Department] = t /\ seen' = seen
      /\ \A r \in Rows \ {Department} : owner'[r] = owner[r]
  BY <1>1, After DEF LockRow
<1>3. t = CancelTx \/ \E j \in Jobs : t = AckTx(j)
  BY <1>1, TxKinds
<1>4. job' = job /\ scan' = scan
  BY <1>1 DEF LockRow
<1>5. Owns(t)'
  <2>1. OwnsScan(t) => OwnsScan(t)'
    BY <1>1, <1>2, <1>3 DEF OwnsScan
  <2>2. OwnsDepartment(t)'
    BY <1>1, <1>2, <1>3 DEF OwnsDepartment
  <2>3. \A j \in Jobs : OwnsJob(t, j) => OwnsJob(t, j)'
    BY <1>1, <1>2, <1>4 DEF OwnsJob
  <2> QED
    BY <1>1, <1>2, <2>1, <2>2, <2>3 DEF Owns
<1>6. Holds(t)'
  <2>1. seen[t] \subseteq Jobs
    BY <1>1 DEF STypeOK
  <2>2. CASE t = CancelTx
    <3>1. \A j \in seen[t] : owner[j] = t
      BY <1>1, <2>2 DEF Holds
    <3> QED
      BY <1>2, <2>1, <2>2, <3>1 DEF Holds
  <2>3. ASSUME NEW j \in Jobs, t = AckTx(j) PROVE Holds(t)'
    <3>1. seen[t] # {} => owner[j] = t
      BY <1>1, <2>3 DEF Holds
    <3> QED
      BY <1>2, <2>3, <3>1 DEF Holds
  <2> QED
    BY <1>3, <2>2, <2>3
<1>7. Kinds(t)'
  BY <1>1, <1>2, <1>3 DEF Kinds
<1>8. Mine(t)
  BY <1>2, <1>5, <1>6, <1>7 DEF Mine, Left
<1> QED
  BY <1>1, <1>8, GoesOn DEF LockRow

LEMMA ClaimsCleanupKeeps ==
    ASSUME TInv, NEW t \in Tx, ClaimsCleanup(t) PROVE TInv'
<1> USE RowParts, TxParts
<1>1. CASE Rollback(t)
  BY <1>1, RollbackKeeps
<1>2. CASE ~Rollback(t)
  <2>1. /\ STypeOK /\ TimeoutSparesOwnedScan /\ at[t] = "claim" /\ Free(t, Scan) /\ Marks(t)
        /\ fence' = TRUE /\ Releases(t) /\ scan' = scan /\ seen' = [seen EXCEPT ![t] = {}]
        /\ Holds(t) /\ Kinds(t) /\ Owns(t)
    BY <1>2 DEF TInv, ClaimsCleanup
  <2>2. PICK next \in {"authority", "erase"} : Goes(t, next)
    BY <1>2 DEF ClaimsCleanup
  <2>3. t = CancelTx \/ \E j \in Jobs : t = AckTx(j)
    BY <2>1, CleanupTx
  <2>4. at'[t] = next /\ seen'[t] = {} /\ \A r \in Rows : owner'[r] # t
    BY <2>1, <2>2 DEF STypeOK, Goes, Releases
  <2>5. STypeOK'
    BY <2>1, <2>2, MarksRows DEF STypeOK, Goes, Releases, Statements
  <2>6. Moves(t)
    BY <2>1, <2>2 DEF STypeOK, Moves, Goes, Releases
  <2>7. Mine(t)
    <3>1. Holds(t)'
      BY <2>3, <2>4 DEF Holds
    <3>2. Kinds(t)'
      BY <2>3, <2>4 DEF Kinds
    <3>3. Owns(t)'
      BY <2>4 DEF Owns
    <3> QED
      BY <2>4, <3>1, <3>2, <3>3 DEF Mine, Left
  <2>8. CleanedUp'
    BY <2>1 DEF CleanedUp
  <2>9. TimeoutSparesOwnedScan'
    BY <2>1, MarksRows DEF TimeoutSparesOwnedScan, OwnedByQueue
  <2>10. Writes(t)
    <3>1. \A j \in Jobs : job'[j] = job[j]
              \/ (job[j] # "none" /\ job'[j] \notin {"none", "pending"})
      BY <2>1, MarksRows DEF Active
    <3>2. ASSUME NEW j \in Jobs, owner[j] \notin {t, Nobody}, job[j] = "pending"
          PROVE  job'[j] = "pending"
      <4>1. CASE \E k \in Jobs : t = AckTx(k)
        <5>1. j \notin seen[t]
          BY <2>1, <3>2, <4>1 DEF Holds, Kinds
        <5> QED
          BY <2>1, <3>2, <5>1, MarksRows
      <4>2. CASE t = CancelTx
        <5>1. j \notin seen[t]
          BY <2>1, <3>2, <4>2 DEF Holds
        <5> QED
          BY <2>1, <3>2, <5>1, MarksRows
      <4> QED
        BY <2>3, <4>1, <4>2
    <3> QED
      BY <2>1, <3>1, <3>2 DEF Writes, Free
  <2> QED
    BY <2>5, <2>6, <2>7, <2>8, <2>9, <2>10, Frame
<1> QED
  BY <1>1, <1>2

LEMMA LocksAuthorityKeeps ==
    ASSUME TInv, NEW t \in Tx, LocksAuthority(t) PROVE TInv'
<1> USE RowParts, TxParts
<1>1. /\ STypeOK /\ Owns(t) /\ Kinds(t) /\ at[t] = "authority"
      /\ LockRow(t, Department, "erase") /\ Department \in Rows /\ "erase" \in Statements
  BY DEF TInv, LocksAuthority, Statements
<1>2. at'[t] = "erase" /\ owner'[Department] = t /\ seen' = seen
      /\ \A r \in Rows \ {Department} : owner'[r] = owner[r]
  BY <1>1, After DEF LockRow
<1>3. t = CancelTx \/ \E j \in Jobs : t = AckTx(j)
  BY <1>1, CleanupTx
<1>4. \A r \in Rows \ {Department} : owner[r] # t
  BY <1>1, <1>3 DEF Owns, OwnsScan, OwnsJob
<1>5. Owns(t)'
  BY <1>2, <1>3, <1>4 DEF Owns, OwnsDepartment
<1>6. Holds(t)'
  <2>1. t # CancelTx => seen'[t] = {}
    BY <1>1, <1>2, <1>3 DEF Kinds
  <2> QED
    BY <1>2, <1>3, <2>1 DEF Holds
<1>7. Kinds(t)'
  BY <1>1, <1>2, <1>3 DEF Kinds
<1>8. Mine(t)
  BY <1>2, <1>5, <1>6, <1>7 DEF Mine, Left
<1> QED
  BY <1>1, <1>8, GoesOn DEF LockRow

LEMMA ErasesScanKeeps ==
    ASSUME TInv, NEW t \in Tx, ErasesScan(t) PROVE TInv'
<1> USE RowParts
<1>1. CASE Rollback(t)
  BY <1>1, RollbackKeeps
<1>2. CASE ~Rollback(t)
  <2>1. STypeOK /\ Free(t, Scan) /\ scan' = "deleted" /\ Ends(t) /\ UNCHANGED <<job, fence>>
    BY <1>2 DEF TInv, ErasesScan
  <2>2. Writes(t)
    BY <2>1 DEF Writes, Free
  <2>3. CleanedUp' /\ TimeoutSparesOwnedScan'
    BY <2>1 DEF CleanedUp, TimeoutSparesOwnedScan
  <2> QED
    BY <2>1, <2>2, <2>3, EndsKeeps DEF STypeOK, ScanStatuses
<1> QED
  BY <1>1, <1>2

-------------------------------------------------------------------------------
(* _acknowledge_cancellation *)

LEMMA AckBeginsKeeps ==
    ASSUME TInv, NEW j \in Jobs, AckBegins(j) PROVE TInv'
<1> USE RowParts, TxParts
<1> DEFINE t == AckTx(j)
<1>1. /\ STypeOK /\ Owns(t) /\ Kinds(t) /\ at[t] = "idle" /\ Goes(t, "job") /\ t \in Tx
      /\ "job" \in Statements /\ seen' = seen /\ owner' = owner /\ job' = job /\ scan' = scan
      /\ fence' = fence /\ t[1] = "ack" /\ t[2] = j
  BY DEF TInv, AckBegins, Statements
<1>2. at'[t] = "job"
  BY <1>1 DEF STypeOK, Goes
<1> HIDE DEF t
<1>3. \A r \in Rows : owner[r] # t
  BY <1>1 DEF Owns, OwnsScan, OwnsDepartment, OwnsJob
<1>4. seen[t] = {}
  BY <1>1 DEF Kinds
<1>5. Holds(t)' /\ Kinds(t)' /\ Owns(t)'
  BY <1>1, <1>2, <1>3, <1>4 DEF Holds, Kinds, Owns
<1>6. Mine(t)
  BY <1>2, <1>5 DEF Mine, Left
<1> QED
  BY <1>1, <1>6, GoesOn

LEMMA AckLocksJobKeeps ==
    ASSUME TInv, NEW j \in Jobs, AckLocksJob(j) PROVE TInv'
<1> USE RowParts, TxParts
<1> DEFINE t == AckTx(j)
<1>1. t \in Tx /\ t[1] = "ack" /\ t[2] = j
  OBVIOUS
<1>2. CASE Rollback(t)
  BY <1>1, <1>2, RollbackKeeps
<1>3. CASE ~Rollback(t)
  <2>1. /\ STypeOK /\ Owns(t) /\ at[t] = "job" /\ Free(t, j) /\ Locks(t, {j})
        /\ seen' = [seen EXCEPT ![t] = {j}] /\ Goes(t, "scan") /\ UNCHANGED <<job, scan, fence>>
    BY <1>3 DEF TInv, AckLocksJob
  <2> HIDE DEF t
  <2>2. at'[t] = "scan" /\ seen'[t] = {j} /\ owner'[j] = t
        /\ \A r \in Rows \ {j} : owner'[r] = owner[r]
    BY <1>1, <2>1 DEF STypeOK, Goes, Locks
  <2>3. \A r \in Rows : owner[r] # t
    BY <1>1, <2>1 DEF Owns, OwnsScan, OwnsDepartment, OwnsJob
  <2>4. STypeOK'
    BY <1>1, <2>1 DEF STypeOK, Goes, Locks, Statements
  <2>5. Moves(t)
    BY <1>1, <2>1 DEF STypeOK, Moves, Goes, Locks, Free
  <2>6. t = AckTx(j)
    BY DEF t
  <2>7. Owns(t)'
    BY <1>1, <2>2, <2>3, <2>6 DEF Owns, OwnsJob
  <2>8. Holds(t)' /\ Kinds(t)'
    BY <1>1, <2>2 DEF Holds, Kinds
  <2>9. Mine(t)
    BY <2>2, <2>7, <2>8 DEF Mine, Left
  <2> QED
    BY <1>1, <2>1, <2>4, <2>5, <2>9, QuietWrites, Frame
<1> QED
  BY <1>2, <1>3

\* A statement of an acknowledgement that goes on under the locks it has, and
\* perhaps the scan's.
LEMMA AckGoesOn ==
    ASSUME TInv, NEW j \in Jobs, NEW s \in {"others", "commit", "department"},
           at[AckTx(j)] \in {"scan", "others"}, Goes(AckTx(j), s),
           \/ owner' = owner
           \/ Free(AckTx(j), Scan) /\ Locks(AckTx(j), {Scan}),
           s = "others" => owner'[Scan] = AckTx(j),
           UNCHANGED <<job, scan, fence, seen>>, Left(j)'
    PROVE  TInv'
<1> USE RowParts, TxParts
<1> DEFINE t == AckTx(j)
<1>1. /\ t \in Tx /\ t[1] = "ack" /\ t[2] = j /\ STypeOK /\ Owns(t) /\ Holds(t) /\ Kinds(t)
      /\ at[t] \in {"scan", "others"} /\ Goes(t, s) /\ s \in Statements /\ Scan \in Rows
      /\ owner' = owner \/ (Free(t, Scan) /\ Locks(t, {Scan}))
      /\ UNCHANGED <<job, scan, fence, seen>> /\ t = AckTx(j)
      /\ s = "others" => owner'[Scan] = t
  BY DEF TInv, Statements
<1> HIDE DEF t
<1>2. /\ at'[t] = s
      /\ \A r \in Rows \ {Scan} : owner'[r] = owner[r]
      /\ owner'[Scan] = owner[Scan] \/ owner'[Scan] = t
  BY <1>1, After
<1>3. Holds(t)'
  BY <1>1, <1>2 DEF Holds
<1>4. Kinds(t)'
  BY <1>1, <1>2 DEF Kinds
<1>5. Owns(t)'
  BY <1>1, <1>2 DEF Owns, OwnsScan, OwnsDepartment, OwnsJob
<1>6. Mine(t)
  <2>1. \A k \in Jobs : t = AckTx(k) => k = j
    BY <1>1
  <2> QED
    BY <1>3, <1>4, <1>5, <2>1 DEF Mine
<1> QED
  BY <1>1, <1>6, GoesOn

LEMMA AckLocksScanKeeps ==
    ASSUME TInv, NEW j \in Jobs, AckLocksScan(j) PROVE TInv'
<1> USE RowParts, TxParts
<1>1. at[AckTx(j)] = "scan" /\ Free(AckTx(j), Scan) /\ AckTx(j) \in Tx
  BY DEF AckLocksScan
<1>2. CASE scan = "deleted"
  <2>1. /\ Goes(AckTx(j), "commit") /\ owner' = owner
        /\ UNCHANGED <<job, scan, fence, seen>>
    BY <1>2 DEF AckLocksScan
  <2>2. Left(j)'
    BY <1>2, <2>1 DEF Left
  <2> QED
    BY <1>1, <2>1, <2>2, AckGoesOn
<1>3. CASE scan # "deleted"
  <2>1. LockRow(AckTx(j), Scan, "others")
    BY <1>3 DEF AckLocksScan
  <2>2. /\ Goes(AckTx(j), "others") /\ Locks(AckTx(j), {Scan})
        /\ UNCHANGED <<job, scan, fence, seen>>
    BY <2>1 DEF LockRow
  <2>3. at'[AckTx(j)] = "others" /\ owner'[Scan] = AckTx(j)
    BY <1>1, <2>2, After
  <2>4. Left(j)'
    BY <2>3 DEF Left
  <2> QED
    BY <1>1, <2>2, <2>3, <2>4, AckGoesOn
<1> QED
  BY <1>2, <1>3

LEMMA AckLooksAroundKeeps ==
    ASSUME TInv, NEW j \in Jobs, AckLooksAround(j) PROVE TInv'
<1> USE RowParts, TxParts
<1>1. at[AckTx(j)] = "others" /\ AckTx(j) \in Tx /\ UNCHANGED <<job, scan, fence, owner, seen>>
      /\ owner[Scan] = AckTx(j)
  BY DEF AckLooksAround, TInv, Holds
<1>2. CASE \E k \in Jobs \ {j} : Running(job[k])
  <2>1. Goes(AckTx(j), "commit")
    BY <1>2 DEF AckLooksAround
  <2>2. Left(j)'
    BY <1>1, <1>2 DEF Left, Running
  <2> QED
    BY <1>1, <2>1, <2>2, AckGoesOn
<1>3. CASE ~ \E k \in Jobs \ {j} : Running(job[k])
  <2>1. Goes(AckTx(j), "department")
    BY <1>3 DEF AckLooksAround
  <2>2. at'[AckTx(j)] = "department"
    BY <1>1, <2>1 DEF TInv, STypeOK, Goes
  <2>3. Left(j)'
    BY <2>2 DEF Left
  <2> QED
    BY <1>1, <2>1, <2>3, AckGoesOn
<1> QED
  BY <1>2, <1>3

LEMMA AckCommitsKeeps ==
    ASSUME TInv, NEW j \in Jobs, AckCommits(j) PROVE TInv'
<1> USE RowParts, TxParts
<1> DEFINE t == AckTx(j)
<1>1. /\ t \in Tx /\ t[1] = "ack" /\ t[2] = j /\ STypeOK /\ Holds(t) /\ Kinds(t) /\ Left(j)
      /\ at[t] = "commit" /\ Marks(t) /\ Ends(t) /\ UNCHANGED <<scan, fence>>
      /\ TimeoutSparesOwnedScan
  BY DEF TInv, AckCommits
<1> HIDE DEF t
<1>2. \A k \in Jobs \ {j} : job'[k] = job[k]
  BY <1>1, MarksRows DEF Kinds
<1>3. TimeoutSparesOwnedScan'
  BY <1>1, MarksRows DEF TimeoutSparesOwnedScan, OwnedByQueue
<1>4. CleanedUp'
  BY <1>1, <1>2 DEF CleanedUp, Left, t
<1>5. Writes(t)
  <2>1. job'[j] # job[j] => owner[j] = t
    BY <1>1, MarksRows DEF Holds
  <2>2. job'[j] # job[j] => job[j] # "none" /\ job'[j] \notin {"none", "pending"}
    BY <1>1, MarksRows DEF Active
  <2>3. owner[Scan] \notin {t, Nobody} => scan = "deleted"
    BY <1>1 DEF Left, t
  <2> QED
    BY <1>1, <1>2, <2>1, <2>2, <2>3 DEF Writes
<1> QED
  BY <1>1, <1>3, <1>4, <1>5, MarksRows, EndsKeeps DEF STypeOK

-------------------------------------------------------------------------------
(* fail_stale_scans *)

LEMMA TimeoutSelectsKeeps == TInv /\ TimeoutSelects => TInv'
<1> SUFFICES ASSUME TInv, TimeoutSelects PROVE TInv'
  OBVIOUS
<1> USE RowParts, TxParts
<1>1. /\ STypeOK /\ Owns(TimeoutTx) /\ at[TimeoutTx] = "idle" /\ Goes(TimeoutTx, "lock")
      /\ "lock" \in Statements /\ UNCHANGED <<job, scan, fence, owner, seen>>
  BY DEF TInv, TimeoutSelects, Statements
<1>2. at'[TimeoutTx] = "lock"
  BY <1>1 DEF STypeOK, Goes
<1>3. \A r \in Rows : owner[r] # TimeoutTx
  BY <1>1 DEF Owns, OwnsScan, OwnsDepartment, OwnsJob, TimeoutTx, CancelTx, FailTx, AckTx
<1>4. Mine(TimeoutTx)
  BY <1>1, <1>2, <1>3 DEF Mine, Holds, Kinds, Owns, Left
<1> QED
  BY <1>1, <1>4, GoesOn

LEMMA TimeoutLocksKeeps == TInv /\ TimeoutLocks => TInv'
<1> SUFFICES ASSUME TInv, TimeoutLocks PROVE TInv'
  OBVIOUS
<1> USE RowParts, TxParts
<1>1. CASE Rollback(TimeoutTx)
  BY <1>1, RollbackKeeps
<1>2. CASE ~Rollback(TimeoutTx)
  <2>1. /\ STypeOK /\ Owns(TimeoutTx) /\ at[TimeoutTx] = "lock" /\ scan = "open"
        /\ Goes(TimeoutTx, "recheck") /\ Free(TimeoutTx, Scan) /\ Locks(TimeoutTx, {Scan})
        /\ "recheck" \in Statements /\ UNCHANGED <<job, scan, fence, seen>>
    BY <1>2 DEF TInv, TimeoutLocks, LockRow, Statements
  <2>2. /\ at'[TimeoutTx] = "recheck" /\ owner'[Scan] = TimeoutTx
        /\ \A r \in Rows \ {Scan} : owner'[r] = owner[r]
    BY <2>1 DEF STypeOK, Goes, Locks
  <2>3. \A r \in Rows : owner[r] # TimeoutTx
    BY <2>1 DEF Owns, OwnsScan, OwnsDepartment, OwnsJob, TimeoutTx, CancelTx, FailTx, AckTx
  <2>4. Owns(TimeoutTx)'
    BY <2>1, <2>2, <2>3 DEF Owns, OwnsScan
  <2>5. Mine(TimeoutTx)
    BY <2>2, <2>4 DEF Mine, Holds, Kinds, Left
  <2> QED
    BY <2>1, <2>5, GoesOn
<1> QED
  BY <1>1, <1>2

\* The verdict of the loop: nobody else holds the scan, and no scan job owns it.
LEMMA TimeoutRechecksKeeps == TInv /\ TimeoutRechecks => TInv'
<1> SUFFICES ASSUME TInv, TimeoutRechecks PROVE TInv'
  OBVIOUS
<1> USE RowParts, TxParts
<1>1. CASE Rollback(TimeoutTx)
  BY <1>1, RollbackKeeps
<1>2. CASE ~Rollback(TimeoutTx)
  <2>1. /\ STypeOK /\ Holds(TimeoutTx) /\ Owns(TimeoutTx) /\ CleanedUp
        /\ at[TimeoutTx] = "recheck" /\ ~OwnedByQueue
        /\ scan' = "timed_out" /\ Ends(TimeoutTx) /\ UNCHANGED <<job, fence>>
    BY <1>2 DEF TInv, TimeoutRechecks
  <2>2. owner[Scan] = TimeoutTx
    BY <2>1 DEF Holds
  <2>3. scan = "open"
    BY <2>1, <2>2 DEF Owns, OwnsScan
  <2>4. Writes(TimeoutTx)
    BY <2>1, <2>2, <2>3 DEF Writes
  <2>5. CleanedUp'
    BY <2>1, <2>3 DEF CleanedUp
  <2>6. TimeoutSparesOwnedScan'
    BY <2>1 DEF TimeoutSparesOwnedScan, OwnedByQueue
  <2> QED
    BY <2>1, <2>4, <2>5, <2>6, EndsKeeps DEF STypeOK, ScanStatuses
<1> QED
  BY <1>1, <1>2

-------------------------------------------------------------------------------
(* Enqueueing *)

\* Where a transaction enqueues, it holds no queue row.
LEMMA EnqueueBeginsKeeps ==
    ASSUME TInv, NEW j \in Jobs, EnqueueBegins(j) PROVE TInv'
<1> USE RowParts, TxParts
<1>1. PICK s \in {"scan", "department", "insert"} :
        /\ Goes(EnqueueTx(j), s)
        /\ s = "scan" => j \in LocalJobs
        /\ s = "department" => j \in UploadJobs
        /\ s = "insert" => j \notin LocalJobs \cup UploadJobs
  BY DEF EnqueueBegins
<1> DEFINE t == EnqueueTx(j)
<1>2. /\ t \in Tx /\ t[1] = "enqueue" /\ t[2] = j /\ STypeOK /\ Owns(t) /\ Kinds(t)
      /\ at[t] = "idle" /\ job[j] = "none" /\ s \in Statements /\ Goes(t, s)
      /\ UNCHANGED <<job, scan, fence, owner, seen>>
  BY <1>1 DEF TInv, EnqueueBegins, Statements
<1> HIDE DEF t
<1>3. at'[t] = s
  BY <1>2 DEF STypeOK, Goes
<1>4. \A r \in Rows : owner[r] # t
  BY <1>2 DEF Owns, OwnsScan, OwnsDepartment, OwnsJob, CancelTx, TimeoutTx, FailTx, AckTx
<1>5. Owns(t)'
  BY <1>2, <1>4 DEF Owns
<1>6. Kinds(t)'
  BY <1>1, <1>2, <1>3 DEF Kinds
<1>7. Holds(t)'
  BY <1>1, <1>2, <1>3 DEF Holds, CancelTx, TimeoutTx
<1>8. Mine(t)
  BY <1>2, <1>3, <1>5, <1>6, <1>7 DEF Mine, Left
<1> QED
  BY <1>2, <1>8, GoesOn

LEMMA EnqueueLocksDepartmentKeeps ==
    ASSUME TInv, NEW j \in Jobs, EnqueueLocksDepartment(j) PROVE TInv'
<1> USE RowParts, TxParts
<1> DEFINE t == EnqueueTx(j)
<1>1. /\ t \in Tx /\ t[1] = "enqueue" /\ t[2] = j /\ STypeOK /\ Owns(t) /\ Kinds(t)
      /\ Holds(t) /\ at[t] = "department" /\ "scan" \in Statements /\ Goes(t, "scan")
      /\ Free(t, Department) /\ Locks(t, {Department})
      /\ UNCHANGED <<job, scan, fence, seen>>
  BY DEF TInv, EnqueueLocksDepartment, LockRow, Statements
<1> HIDE DEF t
<1>2. /\ at'[t] = "scan" /\ owner'[Department] = t
      /\ \A r \in Rows \ {Department} : owner'[r] = owner[r]
  BY <1>1 DEF STypeOK, Goes, Locks
<1>3. \A r \in Rows : owner[r] # t
  BY <1>1 DEF Owns, OwnsScan, OwnsDepartment, OwnsJob, CancelTx, TimeoutTx, FailTx, AckTx
<1>4. j \in UploadJobs
  BY <1>1 DEF Kinds
<1>5. Owns(t)'
  BY <1>1, <1>2, <1>3, <1>4 DEF Owns, OwnsDepartment
<1>6. Kinds(t)'
  BY <1>1, <1>2, <1>4 DEF Kinds
<1>7. Holds(t)'
  BY <1>1, <1>2 DEF Holds, CancelTx, TimeoutTx
<1>8. Mine(t)
  BY <1>1, <1>2, <1>5, <1>6, <1>7 DEF Mine, Left
<1> QED
  BY <1>1, <1>8, GoesOn

LEMMA EnqueueLocksScanKeeps ==
    ASSUME TInv, NEW j \in Jobs, EnqueueLocksScan(j) PROVE TInv'
<1> USE RowParts, TxParts
<1> DEFINE t == EnqueueTx(j)
<1>1. CASE Rollback(t)
  BY <1>1, RollbackKeeps
<1>2. CASE ~Rollback(t)
  <2>1. /\ t \in Tx /\ t[1] = "enqueue" /\ t[2] = j /\ STypeOK /\ Owns(t) /\ Kinds(t)
        /\ Holds(t) /\ at[t] = "scan" /\ "insert" \in Statements /\ Goes(t, "insert")
        /\ Free(t, Scan) /\ Locks(t, {Scan}) /\ (j \in LocalJobs => scan = "open")
        /\ UNCHANGED <<job, scan, fence, seen>>
    BY <1>2 DEF TInv, EnqueueLocksScan, Enqueueable, LockRow, Statements
  <2> HIDE DEF t
  <2>2. /\ at'[t] = "insert" /\ owner'[Scan] = t
        /\ \A r \in Rows \ {Scan} : owner'[r] = owner[r]
    BY <2>1 DEF STypeOK, Goes, Locks
  <2>3. \A r \in Rows \ {Department} : owner[r] # t
    BY <2>1 DEF Owns, OwnsScan, OwnsJob, CancelTx, TimeoutTx, FailTx, AckTx
  <2>4. owner[Department] = t => j \in UploadJobs
    BY <2>1 DEF Owns, OwnsDepartment, CancelTx
  <2>5. j \in LocalJobs \cup UploadJobs
    BY <2>1 DEF Kinds
  <2>6. Owns(t)'
    <3>1. OwnsScan(t)'
      BY <2>1, <2>2, <2>5 DEF OwnsScan
    <3>2. owner'[Department] = t => OwnsDepartment(t)'
      BY <2>1, <2>2, <2>4 DEF OwnsDepartment
    <3> QED
      BY <2>2, <2>3, <3>1, <3>2 DEF Owns
  <2>7. Kinds(t)'
    BY <2>1, <2>2 DEF Kinds
  <2>8. Holds(t)'
    BY <2>1, <2>2 DEF Holds, CancelTx, TimeoutTx
  <2>9. Mine(t)
    BY <2>1, <2>2, <2>6, <2>7, <2>8 DEF Mine, Left
  <2> QED
    BY <2>1, <2>9, GoesOn
<1> QED
  BY <1>1, <1>2

LEMMA EnqueueInsertsKeeps ==
    ASSUME TInv, NEW j \in Jobs, EnqueueInserts(j) PROVE TInv'
<1> USE RowParts, TxParts
<1> DEFINE t == EnqueueTx(j)
<1>1. /\ t \in Tx /\ t[1] = "enqueue" /\ t[2] = j /\ STypeOK /\ Holds(t) /\ Kinds(t) /\ Owns(t)
      /\ at[t] = "insert" /\ job' = [job EXCEPT ![j] = "pending"] /\ Ends(t)
      /\ UNCHANGED <<scan, fence>> /\ TimeoutSparesOwnedScan /\ t = EnqueueTx(j)
  BY DEF TInv, EnqueueInserts, SetJob
<1> HIDE DEF t
<1>2. /\ job[j] = "none" /\ job'[j] = "pending" /\ \A k \in Jobs \ {j} : job'[k] = job[k]
      /\ job' \in [Jobs -> Statuses]
  BY <1>1 DEF Kinds, STypeOK, Statuses
<1>3. j \in LocalJobs => scan = "open"
  BY <1>1 DEF Holds, Owns, OwnsScan, TimeoutTx
<1>4. TimeoutSparesOwnedScan'
  BY <1>1, <1>2, <1>3 DEF TimeoutSparesOwnedScan, OwnedByQueue
<1>5. CleanedUp'
  BY <1>2 DEF CleanedUp
<1>6. Writes(t)
  BY <1>1, <1>2 DEF Writes, Uncancelled
<1> QED
  BY <1>1, <1>2, <1>4, <1>5, <1>6, EndsKeeps DEF STypeOK

-------------------------------------------------------------------------------
(* The worker *)

\* A claim, a completion and an end are single statements: nobody moves, and the
\* transaction they are framed by could be any that is idle or not.
LEMMA Still ==
    ASSUME TInv, UNCHANGED <<owner, at, seen>>,
           owner[Scan] # Nobody => scan' = scan,
           scan' \in ScanStatuses, fence' = fence, job' \in [Jobs -> Statuses],
           scan = "deleted" => scan' = "deleted",
           \A k \in Jobs : job[k] \in Uncancelled => job'[k] \in Uncancelled,
           \A k \in Jobs : owner[k] # Nobody /\ job[k] = "pending" => job'[k] = "pending",
           \A k \in Jobs : job'[k] = job[k]
                              \/ (job[k] # "none" /\ job'[k] \notin {"none", "pending"}),
           CleanedUp', TimeoutSparesOwnedScan'
    PROVE  TInv'
<1> USE RowParts, TxParts
<1> DEFINE t == TimeoutTx
<1>1. t \in Tx /\ STypeOK /\ Holds(t) /\ Kinds(t) /\ Owns(t) /\ t = TimeoutTx /\ t[1] = "timeout"
      /\ \A j \in Jobs : t # AckTx(j)
  BY DEF TInv, TimeoutTx, AckTx
<1>2. STypeOK'
  BY <1>1 DEF STypeOK
<1> HIDE DEF t
<1>3. Moves(t) /\ Writes(t)
  BY <1>1 DEF Moves, Writes
<1>4. Holds(t)' /\ Kinds(t)'
  BY <1>1 DEF Holds, Kinds, CancelTx
<1>5. Owns(t)'
  <2>1. OwnsScan(t) /\ owner[Scan] = t => OwnsScan(t)'
    BY <1>1 DEF OwnsScan
  <2>2. OwnsDepartment(t) => OwnsDepartment(t)'
    BY <1>1 DEF OwnsDepartment
  <2>3. \A j \in Jobs : ~OwnsJob(t, j)
    BY <1>1 DEF OwnsJob, CancelTx, TimeoutTx, FailTx, AckTx
  <2> QED
    BY <1>1, <2>1, <2>2, <2>3 DEF Owns
<1>6. Mine(t)
  BY <1>1, <1>4, <1>5 DEF Mine
<1> QED
  BY <1>1, <1>2, <1>3, <1>6, Frame

LEMMA WorkerStepKeeps ==
    ASSUME TInv, NEW j \in Jobs, WorkerStep(j) PROVE TInv'
<1> USE RowParts
<1>1. STypeOK /\ CleanedUp /\ TimeoutSparesOwnedScan
  BY DEF TInv
<1>2. CASE Claims(j)
  <2>1. /\ job[j] = "pending" /\ owner[j] = Nobody /\ job' = [job EXCEPT ![j] = "processing"]
        /\ UNCHANGED <<scan, fence, owner, at, seen>>
    BY <1>2 DEF Claims, SetJob
  <2>2. /\ job'[j] = "processing" /\ \A k \in Jobs \ {j} : job'[k] = job[k]
        /\ job' \in [Jobs -> Statuses]
    BY <1>1, <2>1 DEF STypeOK, Statuses
  <2>3. CleanedUp'
    BY <2>2 DEF CleanedUp
  <2>4. TimeoutSparesOwnedScan'
    BY <1>1, <2>1, <2>2 DEF TimeoutSparesOwnedScan, OwnedByQueue, Active
  <2> QED
    BY <1>1, <2>1, <2>2, <2>3, <2>4, Still DEF STypeOK, Uncancelled
<1>3. CASE CompletesScan(j)
  <2>1. /\ owner[Scan] = Nobody /\ scan = "open" /\ scan' = "completed"
        /\ UNCHANGED <<job, fence, owner, at, seen>>
    BY <1>3 DEF CompletesScan
  <2>2. CleanedUp' /\ TimeoutSparesOwnedScan'
    BY <1>1, <2>1 DEF CleanedUp, TimeoutSparesOwnedScan
  <2> QED
    BY <1>1, <2>1, <2>2, Still DEF STypeOK, ScanStatuses
<1>4. CASE Finishes(j)
  <2>1. /\ job[j] = "processing" /\ owner[j] = Nobody /\ job' = [job EXCEPT ![j] = "done"]
        /\ UNCHANGED <<scan, fence, owner, at, seen>>
    BY <1>4 DEF Finishes, SetJob
  <2>2. /\ job'[j] = "done" /\ \A k \in Jobs \ {j} : job'[k] = job[k]
        /\ job' \in [Jobs -> Statuses]
    BY <1>1, <2>1 DEF STypeOK, Statuses
  <2>3. CleanedUp'
    BY <2>2 DEF CleanedUp
  <2>4. TimeoutSparesOwnedScan'
    BY <1>1, <2>1, <2>2 DEF TimeoutSparesOwnedScan, OwnedByQueue, Active
  <2> QED
    BY <1>1, <2>1, <2>2, <2>3, <2>4, Still DEF STypeOK, Uncancelled
<1> QED
  BY <1>2, <1>3, <1>4 DEF WorkerStep

-------------------------------------------------------------------------------
(* _fenced_update of a failed scan job *)

LEMMA FailUpdatesJobKeeps ==
    ASSUME TInv, NEW j \in LocalJobs, FailUpdatesJob(j) PROVE TInv'
<1> USE RowParts, TxParts
<1> DEFINE t == FailTx(j)
<1>1. /\ t \in Tx /\ t[1] = "fail" /\ t[2] = j /\ STypeOK /\ Owns(t) /\ t = FailTx(j)
      /\ at[t] = "idle" /\ "scan" \in Statements /\ j \in Rows /\ Goes(t, "scan")
      /\ Free(t, j) /\ Locks(t, {j}) /\ UNCHANGED <<job, scan, fence, seen>>
      /\ job[j] = "processing"
  BY DEF TInv, FailUpdatesJob, LockRow, Statements
<1> HIDE DEF t
<1>2. /\ at'[t] = "scan" /\ owner'[j] = t
      /\ \A r \in Rows \ {j} : owner'[r] = owner[r]
  BY <1>1 DEF STypeOK, Goes, Locks
<1>3. \A r \in Rows : owner[r] # t
  BY <1>1 DEF Owns, OwnsScan, OwnsDepartment, OwnsJob, CancelTx, TimeoutTx, AckTx
<1>4. Owns(t)'
  BY <1>1, <1>2, <1>3 DEF Owns, OwnsJob
<1>5. Kinds(t)'
  BY <1>1, <1>2 DEF Kinds
<1>6. Holds(t)'
  BY <1>1, <1>2 DEF Holds, CancelTx, TimeoutTx
<1>7. Mine(t)
  BY <1>1, <1>2, <1>4, <1>5, <1>6 DEF Mine, Left
<1> QED
  BY <1>1, <1>7, GoesOn

LEMMA FailUpdatesScanKeeps ==
    ASSUME TInv, NEW j \in LocalJobs, FailUpdatesScan(j) PROVE TInv'
<1> USE RowParts, TxParts
<1> DEFINE t == FailTx(j)
<1>1. /\ t \in Tx /\ t[1] = "fail" /\ t[2] = j /\ STypeOK /\ Holds(t) /\ Kinds(t) /\ t = FailTx(j)
      /\ at[t] = "scan" /\ Free(t, Scan) /\ job' = [job EXCEPT ![j] = "done"]
      /\ scan' = (IF scan = "open" THEN "failed" ELSE scan) /\ Ends(t) /\ fence' = fence
      /\ TimeoutSparesOwnedScan
  BY DEF TInv, FailUpdatesScan, SetJob
<1> HIDE DEF t
<1>2. owner[j] = t
  BY <1>1 DEF Holds
<1>3. /\ job'[j] = "done" /\ \A k \in Jobs \ {j} : job'[k] = job[k]
      /\ job' \in [Jobs -> Statuses]
  BY <1>1 DEF STypeOK, Statuses
<1>4. CleanedUp'
  BY <1>3 DEF CleanedUp
<1>5. TimeoutSparesOwnedScan'
  BY <1>1, <1>3 DEF TimeoutSparesOwnedScan, OwnedByQueue, Active
<1>6. job[j] # "none"
  BY <1>1 DEF Kinds
<1>7. Writes(t)
  BY <1>1, <1>2, <1>3, <1>6 DEF Writes, Uncancelled, Free
<1> QED
  BY <1>1, <1>3, <1>4, <1>5, <1>7, EndsKeeps DEF STypeOK, ScanStatuses

-------------------------------------------------------------------------------
(* The checkpoint of an upload *)

LEMMA CheckpointBeginsKeeps ==
    ASSUME TInv, NEW j \in UploadJobs, CheckpointBegins(j) PROVE TInv'
<1> USE RowParts, TxParts
<1> DEFINE t == CheckpointTx(j)
<1>1. /\ t \in Tx /\ t[1] = "checkpoint" /\ t[2] = j /\ STypeOK /\ Owns(t)
      /\ at[t] = "idle" /\ job[j] = "processing" /\ "department" \in Statements
      /\ Goes(t, "department") /\ UNCHANGED <<job, scan, fence, owner, seen>>
  BY DEF TInv, CheckpointBegins, Statements
<1> HIDE DEF t
<1>2. at'[t] = "department"
  BY <1>1 DEF STypeOK, Goes
<1>3. \A r \in Rows : owner[r] # t
  BY <1>1 DEF Owns, OwnsScan, OwnsDepartment, OwnsJob, CancelTx, TimeoutTx, AckTx, FailTx
<1>4. Owns(t)' /\ Kinds(t)' /\ Holds(t)'
  BY <1>1, <1>2, <1>3 DEF Owns, Kinds, Holds, CancelTx, TimeoutTx
<1>5. Mine(t)
  BY <1>1, <1>2, <1>4 DEF Mine, Left
<1> QED
  BY <1>1, <1>5, GoesOn

LEMMA CheckpointLocksDepartmentKeeps ==
    ASSUME TInv, NEW j \in UploadJobs, CheckpointLocksDepartment(j) PROVE TInv'
<1> USE RowParts, TxParts
<1> DEFINE t == CheckpointTx(j)
<1>1. /\ t \in Tx /\ t[1] = "checkpoint" /\ t[2] = j /\ STypeOK /\ Owns(t) /\ Kinds(t)
      /\ at[t] = "department" /\ "scan" \in Statements /\ Goes(t, "scan")
      /\ Free(t, Department) /\ Locks(t, {Department}) /\ UNCHANGED <<job, scan, fence, seen>>
  BY DEF TInv, CheckpointLocksDepartment, LockRow, Statements
<1> HIDE DEF t
<1>2. /\ at'[t] = "scan" /\ owner'[Department] = t
      /\ \A r \in Rows \ {Department} : owner'[r] = owner[r]
  BY <1>1 DEF STypeOK, Goes, Locks
<1>3. \A r \in Rows : owner[r] # t
  BY <1>1 DEF Owns, OwnsScan, OwnsDepartment, OwnsJob, CancelTx, TimeoutTx, AckTx, FailTx
<1>4. Owns(t)'
  BY <1>1, <1>2, <1>3 DEF Owns, OwnsDepartment
<1>5. Kinds(t)' /\ Holds(t)'
  BY <1>1, <1>2 DEF Kinds, Holds, CancelTx, TimeoutTx
<1>6. Mine(t)
  BY <1>1, <1>2, <1>4, <1>5 DEF Mine, Left
<1> QED
  BY <1>1, <1>6, GoesOn

LEMMA CheckpointLocksScanKeeps ==
    ASSUME TInv, NEW j \in UploadJobs, CheckpointLocksScan(j) PROVE TInv'
<1> USE RowParts, TxParts
<1> DEFINE t == CheckpointTx(j)
<1>1. CASE Rollback(t)
  BY <1>1, RollbackKeeps
<1>2. CASE ~Rollback(t)
  <2>1. /\ t \in Tx /\ t[1] = "checkpoint" /\ t[2] = j /\ STypeOK /\ Owns(t) /\ Kinds(t)
        /\ at[t] = "scan" /\ "job" \in Statements /\ Goes(t, "job")
        /\ Free(t, Scan) /\ Locks(t, {Scan}) /\ UNCHANGED <<job, scan, fence, seen>>
    BY <1>2 DEF TInv, CheckpointLocksScan, LockRow, Statements
  <2> HIDE DEF t
  <2>2. /\ at'[t] = "job" /\ owner'[Scan] = t
        /\ \A r \in Rows \ {Scan} : owner'[r] = owner[r]
    BY <2>1 DEF STypeOK, Goes, Locks
  <2>3. \A r \in Rows \ {Department} : owner[r] # t
    BY <2>1 DEF Owns, OwnsScan, OwnsJob, CancelTx, TimeoutTx, AckTx, FailTx
  <2>4. Owns(t)'
    BY <2>1, <2>2, <2>3 DEF Owns, OwnsScan, OwnsDepartment
  <2>5. Kinds(t)' /\ Holds(t)'
    BY <2>1, <2>2 DEF Kinds, Holds, CancelTx, TimeoutTx
  <2>6. Mine(t)
    BY <2>1, <2>2, <2>4, <2>5 DEF Mine, Left
  <2> QED
    BY <2>1, <2>6, GoesOn
<1> QED
  BY <1>1, <1>2

LEMMA CheckpointLocksJobKeeps ==
    ASSUME TInv, NEW j \in UploadJobs, CheckpointLocksJob(j) PROVE TInv'
BY TxParts, RollbackKeeps DEF CheckpointLocksJob

-------------------------------------------------------------------------------
(* The invariant *)

LEMMA TInvInit == Init => TInv
<1> SUFFICES ASSUME Init PROVE TInv
  OBVIOUS
<1>1. STypeOK
  BY DEF Init, STypeOK, Statuses, ScanStatuses, Statements
<1>2. ASSUME NEW t \in Tx PROVE at[t] = "idle" /\ seen[t] = {} /\ \A r \in Rows : owner[r] # t
  BY RowParts DEF Init
<1>3. ASSUME NEW t \in Tx PROVE Holds(t)
  BY <1>2 DEF Holds
<1>4. ASSUME NEW t \in Tx PROVE Owns(t)
  BY <1>2, RowParts DEF Owns
<1>5. ASSUME NEW t \in Tx PROVE Kinds(t)
  BY <1>2 DEF Kinds
<1>6. ASSUME NEW j \in Jobs PROVE Left(j)
  BY <1>2, TxParts DEF Left
<1>7. CleanedUp /\ TimeoutSparesOwnedScan
  BY DEF Init, CleanedUp, TimeoutSparesOwnedScan
<1> QED
  BY <1>1, <1>3, <1>4, <1>5, <1>6, <1>7 DEF TInv

LEMMA TInvStutter == TInv /\ UNCHANGED vars => TInv'
BY DEF vars, TInv, STypeOK, Holds, Owns, OwnsScan, OwnsDepartment, OwnsJob, Kinds, Left,
       CleanedUp, TimeoutSparesOwnedScan, OwnedByQueue, Active

LEMMA TInvStep == TInv /\ [Next]_vars => TInv'
<1> SUFFICES ASSUME TInv, [Next]_vars PROVE TInv'
  OBVIOUS
<1>1. CASE CancelStep
  BY <1>1, CancelSelectsKeeps, CancelRequestsKeeps, CancelDeletesKeeps DEF CancelStep
<1>2. CASE TimeoutStep
  BY <1>2, TimeoutSelectsKeeps, TimeoutLocksKeeps, TimeoutRechecksKeeps DEF TimeoutStep
<1>3. ASSUME NEW j \in Jobs, AckStep(j) PROVE TInv'
  BY <1>3, AckBeginsKeeps, AckLocksJobKeeps, AckLocksScanKeeps, AckLooksAroundKeeps,
     AckCommitsKeeps DEF AckStep
<1>4. ASSUME NEW j \in Jobs, EnqueueStep(j) PROVE TInv'
  BY <1>4, EnqueueBeginsKeeps, EnqueueLocksDepartmentKeeps, EnqueueLocksScanKeeps,
     EnqueueInsertsKeeps DEF EnqueueStep
<1>5. ASSUME NEW j \in Jobs, WorkerStep(j) PROVE TInv'
  BY <1>5, WorkerStepKeeps
<1>6. ASSUME NEW j \in LocalJobs, FailStep(j) PROVE TInv'
  BY <1>6, FailUpdatesJobKeeps, FailUpdatesScanKeeps DEF FailStep
<1>7. ASSUME NEW j \in UploadJobs, CheckpointStep(j) PROVE TInv'
  BY <1>7, CheckpointBeginsKeeps, CheckpointLocksDepartmentKeeps, CheckpointLocksScanKeeps,
     CheckpointLocksJobKeeps DEF CheckpointStep
<1>8. ASSUME NEW t \in Tx, CleanupStep(t) PROVE TInv'
  BY <1>8, LocksDepartmentKeeps, ClaimsCleanupKeeps, LocksAuthorityKeeps, ErasesScanKeeps
     DEF CleanupStep
<1>9. ASSUME NEW t \in Tx, Fails(t) PROVE TInv'
  BY <1>9, RollbackKeeps DEF Fails
<1>10. CASE UNCHANGED vars
  BY <1>10, TInvStutter
<1> QED
  BY <1>1, <1>2, <1>3, <1>4, <1>5, <1>6, <1>7, <1>8, <1>9, <1>10 DEF Next

LEMMA TInvAlways == Spec => []TInv
<1>1. Init => TInv
  BY TInvInit
<1>2. TInv /\ [Next]_vars => TInv'
  BY TInvStep
<1> QED
  BY <1>1, <1>2, PTL DEF Spec

-------------------------------------------------------------------------------
(* What follows from it *)

\* The stale-scan loop never fails a scan that a scan job owns: it decides while it
\* holds the scan's row, which the enqueueing of a scan job needs too.
THEOREM LoopSparesOwnedScan == Spec => []TimeoutSparesOwnedScan
<1>1. TInv => TimeoutSparesOwnedScan
  BY DEF TInv
<1> QED
  BY <1>1, TInvAlways, PTL

\* However many acknowledgements of one scan overlap, one of them sees that it is
\* the last and fences the scan: an acknowledgement that leaves the deletion to
\* another row commits under the scan's lock, with that row not yet cancelled.
THEOREM LastAcknowledgementCleansUp == Spec => []LastAckCleansUp
<1>1. TInv => LastAckCleansUp
  BY DEF TInv, CleanedUp, LastAckCleansUp
<1> QED
  BY <1>1, TInvAlways, PTL

LEMMA LocksAreOfTransactionsUnderWay == TInv => NoLockIsLeft
<1> SUFFICES ASSUME TInv, NEW r \in Rows, owner[r] # Nobody PROVE at[owner[r]] # "idle"
  BY DEF NoLockIsLeft
<1> DEFINE t == owner[r]
<1>1. t \in Tx
  BY DEF TInv, STypeOK
<1>2. Owns(t) /\ owner[r] = t
  BY <1>1 DEF TInv
<1> HIDE DEF t
<1>3. \/ OwnsScan(t) \/ OwnsDepartment(t) \/ \E j \in Jobs : OwnsJob(t, j)
  BY <1>2, RowParts DEF Owns
<1>4. at[t] # "idle"
  BY <1>3 DEF OwnsScan, OwnsDepartment, OwnsJob
<1> QED
  BY <1>4 DEF t

\* What a transaction that keeps the order can wait for among its like: the owner of
\* the scan, the owner of the department, or, in cancel_scan, a scan job's failure.
LEMMA Waits ==
    ASSUME TInv, NEW t \in Tx, NEW u \in Tx, ~ChildFirst(t), ~ChildFirst(u), WaitsFor(t, u)
    PROVE  \/ at[t] \in {"scan", "claim", "erase"} /\ owner[Scan] = u
           \/ at[t] \in {"department", "authority", "insert"} /\ owner[Department] = u
           \/ at[t] = "jobs" /\ at[u] = "scan"
<1> USE RowParts
<1>1. STypeOK /\ Owns(u) /\ Kinds(t) /\ Kinds(u) /\ t # u /\ t[1] # "ack" /\ u[1] # "ack"
  BY DEF TInv, WaitsFor, ChildFirst
<1>2. at[t] \in Statements
  BY <1>1 DEF STypeOK
<1>3. PICK r \in Wants(t) : owner[r] = u
  BY DEF WaitsFor
<1>4. \A j \in Jobs : u # AckTx(j)
  BY <1>1, TxParts
<1>5. CASE at[t] = "jobs"
  <2>1. r \in Jobs
    BY <1>1, <1>3, <1>5 DEF Wants, STypeOK
  <2>2. t = CancelTx
    BY <1>1, <1>5, TxTags DEF Kinds
  <2>3. at[u] = "scan"
    BY <1>1, <1>3, <1>4, <2>1, <2>2 DEF Owns, OwnsJob
  <2> QED
    BY <1>5, <2>3
<1>6. CASE at[t] = "job"
  <2>1. t[1] = "checkpoint" /\ t[2] \in UploadJobs /\ r = t[2]
    BY <1>1, <1>3, <1>6, TxTags DEF Kinds, Wants
  <2>2. job[r] \notin {"none", "pending"}
    BY <1>1, <1>6, <2>1 DEF Kinds
  <2> QED
    BY <1>1, <1>3, <1>4, <2>1, <2>2, TxParts DEF Owns, OwnsJob
<1>7. CASE at[t] \notin {"jobs", "job"}
  BY <1>2, <1>3, <1>7 DEF Wants, Statements
<1> QED
  BY <1>5, <1>6, <1>7

LEMMA ScanOwnerWaitsForNone ==
    ASSUME TInv, NEW t \in Tx, NEW u \in Tx, ~ChildFirst(t), ~ChildFirst(u), owner[Scan] = t
    PROVE  ~WaitsFor(t, u)
<1> SUFFICES ASSUME WaitsFor(t, u) PROVE FALSE
  OBVIOUS
<1>1. Owns(t) /\ Holds(t) /\ t # u /\ t[1] # "ack" /\ (t[1] = "enqueue" => t[2] \notin LocalJobs)
  BY DEF TInv, WaitsFor, ChildFirst
<1>2. at[t] \in {"recheck", "job"} \/ (at[t] = "insert" /\ owner[Department] = t)
  BY <1>1 DEF Owns, OwnsScan, Holds
<1> QED
  BY <1>1, <1>2, Waits

LEMMA DepartmentOwnerWaitsForScan ==
    ASSUME TInv, NEW t \in Tx, NEW u \in Tx, ~ChildFirst(t), ~ChildFirst(u),
           owner[Department] = t, WaitsFor(t, u)
    PROVE  owner[Scan] = u
<1>1. Owns(t) /\ t # u /\ t[1] # "ack"
  BY DEF TInv, WaitsFor, ChildFirst
<1>2. at[t] \in {"claim", "erase", "scan", "insert", "job"}
  BY <1>1 DEF Owns, OwnsDepartment
<1> QED
  BY <1>1, <1>2, Waits

LEMMA RingsAreChildFirst == TInv => DeadlockIsChildFirst
<1> SUFFICES ASSUME TInv,
                    NEW ring \in SUBSET {t \in Tx : ~ChildFirst(t) /\ \E u \in Tx : WaitsFor(t, u)},
                    ring # {}
             PROVE  \E t \in ring : \A u \in ring : ~WaitsFor(t, u)
  BY DEF DeadlockIsChildFirst
<1>1. \A t \in ring : t \in Tx /\ ~ChildFirst(t)
  OBVIOUS
<1>2. CASE owner[Scan] \in ring
  BY <1>1, <1>2, ScanOwnerWaitsForNone
<1>3. CASE owner[Scan] \notin ring /\ owner[Department] \in ring
  BY <1>1, <1>3, DepartmentOwnerWaitsForScan
<1>4. CASE owner[Scan] \notin ring /\ owner[Department] \notin ring
  <2>1. ASSUME NEW t \in ring, NEW u \in ring, WaitsFor(t, u)
        PROVE  at[t] = "jobs" /\ at[u] = "scan"
    BY <1>1, <1>4, <2>1, Waits
  <2>2. PICK t \in ring : TRUE
    OBVIOUS
  <2>3. CASE \E u \in ring : WaitsFor(t, u)
    <3>1. PICK u \in ring : WaitsFor(t, u)
      BY <2>3
    <3>2. \A w \in ring : ~WaitsFor(u, w)
      BY <2>1, <3>1
    <3> QED
      BY <3>2
  <2> QED
    BY <2>2, <2>3
<1> QED
  BY <1>2, <1>3, <1>4

\* Every lock belongs to a transaction under way, and a ring of transactions that
\* wait for each other has one that locked a child before its parent: those that
\* keep the order can be ranked by what they hold, the scan's owner first.
THEOREM LocksAreSoundHolds == Spec => []LocksAreSound
<1>1. TInv => LocksAreSound
  BY LocksAreOfTransactionsUnderWay, RingsAreChildFirst DEF TInv, LocksAreSound
<1> QED
  BY <1>1, TInvAlways, PTL

-------------------------------------------------------------------------------
(* What a lock protects *)

\* A transaction is moved by its own statements only.
LEMMA OwnSteps ==
    ASSUME TInv, [Next]_vars, NEW u \in Tx, at'[u] # at[u]
    PROVE  \/ u = CancelTx \/ u = TimeoutTx
           \/ \E j \in Jobs : u = AckTx(j) /\ (AckStep(j) \/ CleanupStep(u))
           \/ \E j \in Jobs : u = EnqueueTx(j) /\ EnqueueStep(j)
           \/ \E j \in LocalJobs : u = FailTx(j) /\ FailStep(j)
           \/ \E j \in UploadJobs : u = CheckpointTx(j) /\ CheckpointStep(j)
           \/ Fails(u)
<1> USE DEF Goes, LockRow, Rollback, Ends
<1>1. ASSUME NEW t \in Tx, NEW s, at' = [at EXCEPT ![t] = s] PROVE u = t
  BY <1>1 DEF TInv, STypeOK
<1>2. CASE CancelStep
  BY <1>1, <1>2, TxParts DEF CancelStep, CancelSelects, CancelRequests, CancelDeletes
<1>3. CASE TimeoutStep
  BY <1>1, <1>3, TxParts DEF TimeoutStep, TimeoutSelects, TimeoutLocks, TimeoutRechecks
<1>4. ASSUME NEW j \in Jobs, AckStep(j) PROVE u = AckTx(j)
  BY <1>1, <1>4, TxParts
     DEF AckStep, AckBegins, AckLocksJob, AckLocksScan, AckLooksAround, AckCommits
<1>5. ASSUME NEW j \in Jobs, EnqueueStep(j) PROVE u = EnqueueTx(j)
  BY <1>1, <1>5, TxParts
     DEF EnqueueStep, EnqueueBegins, EnqueueLocksDepartment, EnqueueLocksScan, EnqueueInserts
<1>6. ASSUME NEW j \in LocalJobs, FailStep(j) PROVE u = FailTx(j)
  BY <1>1, <1>6, TxParts DEF FailStep, FailUpdatesJob, FailUpdatesScan
<1>7. ASSUME NEW j \in UploadJobs, CheckpointStep(j) PROVE u = CheckpointTx(j)
  BY <1>1, <1>7, TxParts
     DEF CheckpointStep, CheckpointBegins, CheckpointLocksDepartment, CheckpointLocksScan,
         CheckpointLocksJob
<1>8. ASSUME NEW t \in Tx, CleanupStep(t)
      PROVE  CleanupStep(u) /\ (u = CancelTx \/ \E j \in Jobs : u = AckTx(j))
  <2>1. u = t
    BY <1>1, <1>8 DEF CleanupStep, LocksDepartment, ClaimsCleanup, LocksAuthority, ErasesScan
  <2>2. CASE LocksDepartment(t)
    BY <1>8, <2>1, <2>2, TxTags DEF LocksDepartment
  <2>3. CASE ~LocksDepartment(t)
    BY <1>8, <2>1, <2>3, CleanupTx DEF CleanupStep, ClaimsCleanup, LocksAuthority, ErasesScan
  <2> QED
    BY <2>2, <2>3
<1>9. ASSUME NEW t \in Tx, Fails(t) PROVE u = t
  BY <1>1, <1>9 DEF Fails
<1>10. ASSUME NEW j \in Jobs, WorkerStep(j) PROVE FALSE
  BY <1>10 DEF WorkerStep, Claims, CompletesScan, Finishes
<1>11. ~UNCHANGED vars
  BY DEF vars
<1> QED
  BY <1>2, <1>3, <1>4, <1>5, <1>6, <1>7, <1>8, <1>9, <1>10, <1>11 DEF Next

\* A lock stays with the transaction that holds it while that goes on.
LEMMA OwnerStays ==
    ASSUME STypeOK, NEW t \in Tx, NEW u \in Tx \ {t}, NEW r \in Rows, owner[r] = u,
           \/ owner' = owner \/ Releases(t)
           \/ \E q \in Rows : Free(t, q) /\ Locks(t, {q})
           \/ \E set \in SUBSET Rows : (\A q \in set : Free(t, q)) /\ Locks(t, set)
    PROVE  owner'[r] = u
BY RowParts DEF STypeOK, Releases, Free, Locks

\* Where it stays, it still knows what it has seen.
LEMMA SeenStays ==
    ASSUME TInv, [Next]_vars, NEW u \in Tx, at'[u] = at[u]
    PROVE  seen'[u] = seen[u]
<1> USE TxParts DEF LockRow, Rollback, Ends
<1>1. at \in [Tx -> Statements] /\ seen \in [Tx -> SUBSET Jobs]
  BY DEF TInv, STypeOK
<1>2. ASSUME NEW t \in Tx, NEW s, at[t] # s, Goes(t, s),
             \E rows : seen' = [seen EXCEPT ![t] = rows]
      PROVE  seen'[u] = seen[u]
  BY <1>1, <1>2 DEF Goes
<1>3. CASE CancelStep
  BY <1>2, <1>3 DEF CancelStep, CancelSelects, CancelRequests, CancelDeletes
<1>4. CASE TimeoutStep
  BY <1>2, <1>4 DEF TimeoutStep, TimeoutSelects, TimeoutLocks, TimeoutRechecks
<1>5. ASSUME NEW j \in Jobs, AckStep(j) PROVE seen'[u] = seen[u]
  BY <1>2, <1>5 DEF AckStep, AckBegins, AckLocksJob, AckLocksScan, AckLooksAround, AckCommits
<1>6. ASSUME NEW j \in Jobs, EnqueueStep(j) PROVE seen'[u] = seen[u]
  BY <1>2, <1>6
     DEF EnqueueStep, EnqueueBegins, EnqueueLocksDepartment, EnqueueLocksScan, EnqueueInserts
<1>7. ASSUME NEW j \in Jobs, WorkerStep(j) PROVE seen'[u] = seen[u]
  BY <1>7 DEF WorkerStep, Claims, CompletesScan, Finishes
<1>8. ASSUME NEW j \in LocalJobs, FailStep(j) PROVE seen'[u] = seen[u]
  BY <1>2, <1>8 DEF FailStep, FailUpdatesJob, FailUpdatesScan
<1>9. ASSUME NEW j \in UploadJobs, CheckpointStep(j) PROVE seen'[u] = seen[u]
  BY <1>2, <1>9
     DEF CheckpointStep, CheckpointBegins, CheckpointLocksDepartment, CheckpointLocksScan,
         CheckpointLocksJob
<1>10. ASSUME NEW t \in Tx, CleanupStep(t) PROVE seen'[u] = seen[u]
  BY <1>2, <1>10 DEF CleanupStep, LocksDepartment, ClaimsCleanup, LocksAuthority, ErasesScan
<1>11. ASSUME NEW t \in Tx, Fails(t) PROVE seen'[u] = seen[u]
  BY <1>2, <1>11 DEF Fails
<1>12. CASE UNCHANGED vars
  BY <1>12 DEF vars
<1> QED
  BY <1>3, <1>4, <1>5, <1>6, <1>7, <1>8, <1>9, <1>10, <1>11, <1>12 DEF Next

\* A claimed row that a transaction has locked is not written by any other.
LEMMA LockedJobStays ==
    ASSUME TInv, [Next]_vars, NEW j \in Jobs, NEW u \in Tx, owner[j] = u,
           job[j] \notin {"none", "pending"}, at'[u] = at[u]
    PROVE  job'[j] = job[j]
<1> USE RowParts, TxParts DEF LockRow, Rollback, Ends
<1>1. at \in [Tx -> Statements] /\ job \in [Jobs -> Statuses]
      /\ \A t \in Tx : Holds(t) /\ Kinds(t)
  BY DEF TInv, STypeOK
<1>2. ASSUME NEW t \in Tx, NEW s, at[t] # s, Goes(t, s) PROVE t # u
  BY <1>1, <1>2 DEF Goes
<1>3. ASSUME NEW t \in Tx, Marks(t), j \notin seen[t] PROVE job'[j] = job[j]
  BY <1>1, <1>3 DEF Marks, Marked
<1>4. CASE CancelStep
  <2>1. CASE CancelRequests
    <3>1. j \notin seen[CancelTx]
      BY <1>2, <2>1 DEF CancelRequests, Free
    <3> QED
      BY <1>3, <2>1, <3>1 DEF CancelRequests
  <2> QED
    BY <1>4, <2>1 DEF CancelStep, CancelSelects, CancelDeletes
<1>5. ASSUME NEW k \in Jobs, AckStep(k) PROVE job'[j] = job[j]
  <2>1. CASE AckCommits(k)
    <3>1. j \notin seen[AckTx(k)]
      BY <1>1, <1>2, <2>1 DEF AckCommits, Holds, Kinds
    <3> QED
      BY <1>3, <2>1, <3>1 DEF AckCommits
  <2> QED
    BY <1>5, <2>1 DEF AckStep, AckBegins, AckLocksJob, AckLocksScan, AckLooksAround
<1>6. ASSUME NEW k \in Jobs, EnqueueStep(k) PROVE job'[j] = job[j]
  <2>1. at[EnqueueTx(k)] # "idle" => job[k] = "none"
    BY <1>1 DEF Kinds
  <2> QED
    BY <1>1, <1>6, <2>1
       DEF EnqueueStep, EnqueueBegins, EnqueueLocksDepartment, EnqueueLocksScan,
           EnqueueInserts, SetJob
<1>7. ASSUME NEW k \in Jobs, WorkerStep(k) PROVE job'[j] = job[j]
  BY <1>1, <1>7 DEF WorkerStep, Claims, CompletesScan, Finishes, SetJob
<1>8. ASSUME NEW k \in LocalJobs, FailStep(k) PROVE job'[j] = job[j]
  <2>1. CASE FailUpdatesScan(k)
    <3>1. k # j
      BY <1>1, <1>2, <2>1 DEF FailUpdatesScan, Holds
    <3> QED
      BY <1>1, <2>1, <3>1 DEF FailUpdatesScan, SetJob
  <2> QED
    BY <1>8, <2>1 DEF FailStep, FailUpdatesJob
<1>9. ASSUME NEW t \in Tx, CleanupStep(t) PROVE job'[j] = job[j]
  <2>1. CASE ClaimsCleanup(t) /\ ~Rollback(t)
    <3>1. j \notin seen[t]
      BY <1>1, <1>2, <2>1, CleanupTx DEF ClaimsCleanup, Holds, Kinds
    <3> QED
      BY <1>3, <2>1, <3>1 DEF ClaimsCleanup
  <2> QED
    BY <1>9, <2>1 DEF CleanupStep, LocksDepartment, LocksAuthority, ErasesScan
<1>10. CASE TimeoutStep \/ \E k \in UploadJobs : CheckpointStep(k)
  BY <1>10 DEF TimeoutStep, TimeoutSelects, TimeoutLocks, TimeoutRechecks, CheckpointStep,
               CheckpointBegins, CheckpointLocksDepartment, CheckpointLocksScan,
               CheckpointLocksJob
<1>11. CASE UNCHANGED vars \/ \E t \in Tx : Fails(t)
  BY <1>11 DEF vars, Fails
<1> QED
  BY <1>4, <1>5, <1>6, <1>7, <1>8, <1>9, <1>10, <1>11 DEF Next

\* The failure of a scan job is about a row that is still at work.
FailsAtWork == \A j \in LocalJobs : at[FailTx(j)] = "scan" => job[j] = "processing"

LEMMA FailsAtWorkStep == TInv /\ FailsAtWork /\ [Next]_vars => FailsAtWork'
<1> SUFFICES ASSUME TInv, FailsAtWork, [Next]_vars, NEW j \in LocalJobs,
                    at'[FailTx(j)] = "scan"
             PROVE  job'[j] = "processing"
  BY DEF FailsAtWork
<1>1. FailTx(j) \in Tx /\ at \in [Tx -> Statements]
  BY TxParts DEF TInv, STypeOK
<1>2. ~FailUpdatesScan(j) /\ ~Fails(FailTx(j))
  BY <1>1 DEF FailUpdatesScan, Fails, Rollback, Ends, Goes
<1>3. CASE at[FailTx(j)] = "scan"
  <2>1. owner[j] = FailTx(j)
    BY <1>1, <1>3, TxParts DEF TInv, Holds
  <2> QED
    BY <1>1, <1>3, <2>1, LockedJobStays, RowParts DEF FailsAtWork
<1>4. CASE at[FailTx(j)] # "scan"
  <2>1. FailStep(j)
    <3>1. \E k \in LocalJobs : FailTx(j) = FailTx(k) /\ FailStep(k)
      BY <1>1, <1>2, <1>4, OwnSteps, TxParts, RowParts
    <3> QED
      BY <3>1 DEF FailTx
  <2> QED
    BY <1>2, <2>1 DEF FailStep, FailUpdatesJob, LockRow
<1> QED
  BY <1>3, <1>4

\* A row that was asked to stop never works on, fails or completes: it ends as
\* cancelled, though its job's own transactions were under way; and what has ended
\* stays ended.
RequestStands ==
    [][\A j \in Jobs :
        /\ job[j] = "cancelling" => job'[j] \in {"cancelling", "cancelled"}
        /\ job[j] \in {"cancelled", "done"} => job'[j] = job[j]]_vars

\* What a step may do to a row of the queue that was asked to stop, or has ended.
LEMMA RequestStandsStep ==
    ASSUME TInv, FailsAtWork, [Next]_vars, NEW j \in Jobs
    PROVE  /\ job[j] = "cancelling" => job'[j] \in {"cancelling", "cancelled"}
           /\ job[j] \in {"cancelled", "done"} => job'[j] = job[j]
<1> USE RowParts
<1> DEFINE Stands ==
        /\ job[j] = "cancelling" => job'[j] \in {"cancelling", "cancelled"}
        /\ job[j] \in {"cancelled", "done"} => job'[j] = job[j]
<1> SUFFICES Stands
  OBVIOUS
<1>1. job \in [Jobs -> Statuses] /\ \A t \in Tx : Kinds(t)
  BY DEF TInv, STypeOK
<1>2. ASSUME NEW t \in Tx, Marks(t) PROVE Stands
  BY <1>2 DEF Marks, Marked, Active
<1>3. CASE job' = job
  BY <1>3
<1>4. CASE CancelStep
  BY <1>2, <1>4, TxParts DEF CancelStep, CancelSelects, CancelRequests, CancelDeletes
<1>5. ASSUME NEW k \in Jobs, AckStep(k) PROVE Stands
  BY <1>2, <1>3, <1>5, TxParts
     DEF AckStep, AckBegins, AckLocksJob, AckLocksScan, AckLooksAround, AckCommits,
         Rollback, LockRow
<1>6. ASSUME NEW k \in Jobs, EnqueueStep(k) PROVE Stands
  <2>1. at[EnqueueTx(k)] # "idle" => job[k] = "none"
    BY <1>1, TxParts DEF Kinds
  <2> QED
    BY <1>1, <1>6, <2>1
       DEF EnqueueStep, EnqueueBegins, EnqueueLocksDepartment, EnqueueLocksScan,
           EnqueueInserts, Rollback, LockRow, SetJob
<1>7. ASSUME NEW k \in Jobs, WorkerStep(k) PROVE Stands
  BY <1>1, <1>7 DEF WorkerStep, Claims, CompletesScan, Finishes, SetJob
<1>8. ASSUME NEW k \in LocalJobs, FailStep(k) PROVE Stands
  <2>1. at[FailTx(k)] = "scan" => job[k] = "processing"
    BY DEF FailsAtWork
  <2> QED
    BY <1>1, <1>8, <2>1 DEF FailStep, FailUpdatesJob, FailUpdatesScan, LockRow, SetJob
<1>9. ASSUME NEW t \in Tx, CleanupStep(t) PROVE Stands
  BY <1>2, <1>9 DEF CleanupStep, LocksDepartment, ClaimsCleanup, LocksAuthority, ErasesScan,
                    Rollback, LockRow
<1>10. CASE TimeoutStep \/ \E k \in UploadJobs : CheckpointStep(k)
  BY <1>10 DEF TimeoutStep, TimeoutSelects, TimeoutLocks, TimeoutRechecks, CheckpointStep,
               CheckpointBegins, CheckpointLocksDepartment, CheckpointLocksScan,
               CheckpointLocksJob, Rollback, LockRow
<1>11. CASE UNCHANGED vars \/ \E t \in Tx : Fails(t)
  BY <1>11 DEF vars, Fails, Rollback
<1> HIDE DEF Stands
<1> QED
  BY <1>4, <1>5, <1>6, <1>7, <1>8, <1>9, <1>10, <1>11 DEF Next

\* A row that was asked to stop ends as cancelled: its job's failure, the only one that
\* writes it later than it looked at it, keeps the request waiting for its lock.
THEOREM RequestStandsHolds == Spec => RequestStands
<1>1. Init => FailsAtWork
  BY TxParts DEF Init, FailsAtWork
<1>2. TInv /\ FailsAtWork /\ [Next]_vars =>
        [\A j \in Jobs :
            /\ job[j] = "cancelling" => job'[j] \in {"cancelling", "cancelled"}
            /\ job[j] \in {"cancelled", "done"} => job'[j] = job[j]]_vars
  BY RequestStandsStep
<1> QED
  BY <1>1, <1>2, FailsAtWorkStep, TInvAlways, PTL DEF Spec, RequestStands

\* Whoever starts an upload or queues one holds the scan, which is not being deleted.
Starts == {t \in Tx : \/ t[1] = "enqueue" /\ t[2] \in UploadJobs /\ at[t] = "insert"
                      \/ t[1] = "checkpoint" /\ at[t] = "job"}
StartsLocked == \A t \in Starts : owner[Scan] = t /\ scan # "deleted" /\ ~fence

LEMMA ScanHeld ==
    ASSUME TInv, [Next]_vars, NEW u \in Starts, owner[Scan] = u, scan # "deleted", ~fence,
           at'[u] = at[u]
    PROVE  owner'[Scan] = u /\ scan' # "deleted" /\ ~fence'
<1> USE RowParts DEF LockRow, Rollback, Ends
<1>1. u \in Tx /\ STypeOK /\ u # CancelTx /\ u # TimeoutTx
      /\ (\A j \in Jobs : u # AckTx(j)) /\ (\A j \in LocalJobs : u # FailTx(j))
  BY TxParts DEF Starts, TInv
<1>2. ASSUME NEW t \in Tx, NEW s, at[t] # s, Goes(t, s) PROVE t # u
  BY <1>1, <1>2 DEF Goes, STypeOK
<1>3. CASE CancelStep
  <2>1. UNCHANGED <<scan, fence>>
    BY <1>3 DEF CancelStep, CancelSelects, CancelRequests, CancelDeletes
  <2>2. CASE CancelSelects \/ CancelRequests
    BY <1>1, <2>2, OwnerStays, TxParts DEF CancelSelects, CancelRequests
  <2>3. CASE CancelDeletes
    <3>1. /\ StillActive \in SUBSET Rows
          /\ \A q \in StillActive : Free(CancelTx, q)
          /\ Locks(CancelTx, StillActive)
      BY <1>1, <2>3, TxParts DEF CancelDeletes, StillActive, STypeOK
    <3> QED
      BY <1>1, <2>1, <3>1, OwnerStays, TxParts
  <2> QED
    BY <1>3, <2>1, <2>2, <2>3 DEF CancelStep
<1>4. CASE TimeoutStep
  BY <1>1, <1>4, OwnerStays, TxParts
     DEF TimeoutStep, TimeoutSelects, TimeoutLocks, TimeoutRechecks
<1>5. ASSUME NEW j \in Jobs, AckStep(j)
      PROVE  owner'[Scan] = u /\ scan' # "deleted" /\ ~fence'
  BY <1>1, <1>5, OwnerStays, TxParts
     DEF AckStep, AckBegins, AckLocksJob, AckLocksScan, AckLooksAround, AckCommits
<1>6. ASSUME NEW j \in Jobs, EnqueueStep(j)
      PROVE  owner'[Scan] = u /\ scan' # "deleted" /\ ~fence'
  <2>1. EnqueueTx(j) # u
    BY <1>2, <1>6, TxParts
       DEF EnqueueStep, EnqueueBegins, EnqueueLocksDepartment, EnqueueLocksScan, EnqueueInserts
  <2> QED
    BY <1>1, <1>6, <2>1, OwnerStays, TxParts
       DEF EnqueueStep, EnqueueBegins, EnqueueLocksDepartment, EnqueueLocksScan, EnqueueInserts
<1>7. ASSUME NEW j \in Jobs, WorkerStep(j)
      PROVE  owner'[Scan] = u /\ scan' # "deleted" /\ ~fence'
  BY <1>1, <1>7 DEF WorkerStep, Claims, CompletesScan, Finishes
<1>8. ASSUME NEW j \in LocalJobs, FailStep(j)
      PROVE  owner'[Scan] = u /\ scan' # "deleted" /\ ~fence'
  BY <1>1, <1>8, OwnerStays, TxParts DEF FailStep, FailUpdatesJob, FailUpdatesScan
<1>9. ASSUME NEW j \in UploadJobs, CheckpointStep(j)
      PROVE  owner'[Scan] = u /\ scan' # "deleted" /\ ~fence'
  <2>1. CheckpointTx(j) # u
    BY <1>2, <1>9, TxParts
       DEF CheckpointStep, CheckpointBegins, CheckpointLocksDepartment, CheckpointLocksScan,
           CheckpointLocksJob
  <2> QED
    BY <1>1, <1>9, <2>1, OwnerStays, TxParts
       DEF CheckpointStep, CheckpointBegins, CheckpointLocksDepartment, CheckpointLocksScan,
           CheckpointLocksJob
<1>10. ASSUME NEW t \in Tx, CleanupStep(t)
       PROVE  owner'[Scan] = u /\ scan' # "deleted" /\ ~fence'
  <2>1. t # u
    BY <1>1, <1>10, CleanupTx, TxTags
       DEF CleanupStep, LocksDepartment, ClaimsCleanup, LocksAuthority, ErasesScan
  <2>2. ~Free(t, Scan)
    BY <1>1, <2>1 DEF Free
  <2> QED
    BY <1>1, <1>10, <2>1, <2>2, OwnerStays
       DEF CleanupStep, LocksDepartment, ClaimsCleanup, LocksAuthority, ErasesScan
<1>11. ASSUME NEW t \in Tx, Fails(t)
       PROVE  owner'[Scan] = u /\ scan' # "deleted" /\ ~fence'
  BY <1>1, <1>2, <1>11, OwnerStays DEF Fails
<1>12. CASE UNCHANGED vars
  BY <1>12 DEF vars
<1> QED
  BY <1>3, <1>4, <1>5, <1>6, <1>7, <1>8, <1>9, <1>10, <1>11, <1>12 DEF Next

LEMMA StartsLockedStep == TInv /\ StartsLocked /\ [Next]_vars => StartsLocked'
<1> SUFFICES ASSUME TInv, StartsLocked, [Next]_vars, NEW t \in Tx, t \in Starts'
             PROVE  owner'[Scan] = t /\ scan' # "deleted" /\ ~fence'
  BY DEF StartsLocked, Starts
<1>1. CASE at'[t] = at[t]
  BY <1>1, ScanHeld DEF StartsLocked, Starts
<1>2. CASE at'[t] # at[t]
  <2>1. at \in [Tx -> Statements] /\ owner \in [Rows -> Tx \cup {Nobody}]
    BY DEF TInv, STypeOK
  <2>2. ~Fails(t)
    BY <2>1 DEF Fails, Rollback, Ends, Goes, Starts
  <2>3. CASE t[1] = "enqueue"
    <3>1. PICK j \in Jobs : t = EnqueueTx(j) /\ EnqueueStep(j)
      BY <1>2, <2>2, <2>3, OwnSteps, TxParts
    <3>2. j \in UploadJobs /\ j \notin LocalJobs /\ at'[t] = "insert"
      BY <2>3, <3>1, TxParts, RowParts DEF Starts
    <3>3. EnqueueLocksScan(j) /\ Enqueueable(j) /\ LockRow(t, Scan, "insert")
      BY <2>1, <3>1, <3>2
         DEF EnqueueStep, EnqueueBegins, EnqueueLocksDepartment, EnqueueLocksScan,
             EnqueueInserts, LockRow, Goes, Rollback, Ends
    <3> QED
      BY <2>1, <3>2, <3>3, RowParts DEF Enqueueable, LockRow, Locks
  <2>4. CASE t[1] = "checkpoint"
    <3>1. PICK j \in UploadJobs : t = CheckpointTx(j) /\ CheckpointStep(j)
      BY <1>2, <2>2, <2>4, OwnSteps, TxParts
    <3>2. at'[t] = "job"
      BY <2>4 DEF Starts
    <3>3. CheckpointLocksScan(j) /\ scan # "deleted" /\ ~fence /\ LockRow(t, Scan, "job")
      BY <2>1, <3>1, <3>2
         DEF CheckpointStep, CheckpointBegins, CheckpointLocksDepartment, CheckpointLocksScan,
             CheckpointLocksJob, LockRow, Goes, Rollback, Ends
    <3> QED
      BY <2>1, <3>3, RowParts DEF LockRow, Locks
  <2> QED
    BY <2>3, <2>4 DEF Starts
<1> QED
  BY <1>1, <1>2

LEMMA LockedStartsAreSound == TInv /\ StartsLocked => StartsAreSound
<1> SUFFICES ASSUME TInv, StartsLocked PROVE StartsAreSound
  OBVIOUS
<1>1. ASSUME NEW j \in LocalJobs, at[EnqueueTx(j)] = "insert" PROVE scan = "open"
  <2>1. /\ EnqueueTx(j) \in Tx /\ EnqueueTx(j)[1] = "enqueue" /\ EnqueueTx(j)[2] = j
        /\ j \notin UploadJobs /\ EnqueueTx(j) # TimeoutTx
    BY TxParts, RowParts
  <2>2. owner[Scan] = EnqueueTx(j) /\ OwnsScan(EnqueueTx(j))
    BY <1>1, <2>1 DEF TInv, Holds, Owns
  <2> QED
    BY <1>1, <2>1, <2>2 DEF OwnsScan
<1>2. ASSUME NEW j \in UploadJobs, at[EnqueueTx(j)] = "insert" \/ at[CheckpointTx(j)] = "job"
      PROVE  scan # "deleted" /\ ~fence
  BY <1>2, TxParts, RowParts DEF StartsLocked, Starts
<1> QED
  BY <1>1, <1>2 DEF StartsAreSound

LEMMA StartsLockedInit == Init => StartsLocked
BY DEF Init, StartsLocked, Starts

\* No scan job is inserted for a scan that has ended, and no upload is queued or let go
\* once the deletion has been fenced: whoever asked holds the scan until it commits.
THEOREM StartsAreSoundHolds == Spec => []StartsAreSound
BY StartsLockedInit, LockedStartsAreSound, StartsLockedStep, TInvAlways, PTL DEF Spec

\* The stale-scan loop, the enqueueings and the checkpoint of an upload decide by the
\* scan's row under its lock, and what they decided still holds when they commit.
THEOREM RacesAreDecidedHolds == Spec => []RacesAreDecided
BY LoopSparesOwnedScan, StartsAreSoundHolds, PTL DEF RacesAreDecided

-------------------------------------------------------------------------------
(* Every transaction is one step of AtomicScan *)

\* An acknowledgement is about its own row, which waits for it; files go only behind
\* the fence.
Acknowledging == {"scan", "others", "commit", "department", "claim"}
AckHolds ==
    \A j \in Jobs : at[AckTx(j)] \in Acknowledging =>
        seen[AckTx(j)] = {j} /\ job[j] = "cancelling"
EraseFenced == \A t \in Tx : at[t] \in {"authority", "erase"} => fence

LEMMA AckHoldsStep == TInv /\ AckHolds /\ [Next]_vars => AckHolds'
<1> SUFFICES ASSUME TInv, AckHolds, [Next]_vars, NEW j \in Jobs,
                    at'[AckTx(j)] \in Acknowledging
             PROVE  seen'[AckTx(j)] = {j} /\ job'[j] = "cancelling"
  BY DEF AckHolds
<1> DEFINE t == AckTx(j)
<1>1. /\ t \in Tx /\ t[1] = "ack" /\ t[2] = j /\ t = AckTx(j)
      /\ at \in [Tx -> Statements] /\ seen \in [Tx -> SUBSET Jobs] /\ Holds(t)
      /\ at'[t] \in Acknowledging
      /\ at[t] \in Acknowledging => seen[t] = {j} /\ job[j] = "cancelling"
  BY TxParts DEF TInv, STypeOK, AckHolds
<1> HIDE DEF t
<1>2. CASE at'[t] = at[t]
  <2>1. owner[j] = t
    BY <1>1, <1>2 DEF Holds
  <2> QED
    BY <1>1, <1>2, <2>1, SeenStays, LockedJobStays
<1>3. CASE at'[t] # at[t]
  <2>1. AckStep(j) \/ CleanupStep(t) \/ Fails(t)
    <3>1. \/ \E k \in Jobs : t = AckTx(k) /\ (AckStep(k) \/ CleanupStep(t))
          \/ Fails(t)
      BY <1>1, <1>3, OwnSteps, TxParts
    <3>2. \A k \in Jobs : t = AckTx(k) => k = j
      BY <1>1, TxParts
    <3> QED
      BY <3>1, <3>2
  <2>2. ~Fails(t) /\ ~AckBegins(j) /\ ~AckCommits(j) /\ ~Rollback(t)
    BY <1>1 DEF Fails, Rollback, AckBegins, AckCommits, Ends, Goes, Acknowledging
  <2>3. CASE AckStep(j)
    BY <1>1, <2>2, <2>3
       DEF AckStep, AckLocksJob, AckLocksScan, AckLooksAround, LockRow, Acknowledging
  <2>4. CASE CleanupStep(t)
    <3>1. LocksDepartment(t)
      BY <1>1, <2>2, <2>4
         DEF CleanupStep, ClaimsCleanup, LocksAuthority, ErasesScan, LockRow, Ends, Goes,
             Acknowledging
    <3> QED
      BY <1>1, <3>1 DEF LocksDepartment, LockRow, Acknowledging
  <2> QED
    BY <2>1, <2>2, <2>3, <2>4
<1> QED
  BY <1>1, <1>2, <1>3

LEMMA EraseFencedStep == TInv /\ EraseFenced /\ [Next]_vars => EraseFenced'
<1> SUFFICES ASSUME TInv, EraseFenced, [Next]_vars, NEW u \in Tx,
                    at'[u] \in {"authority", "erase"}
             PROVE  fence'
  BY DEF EraseFenced
<1> USE TxParts DEF LockRow, Rollback, Ends
<1>1. /\ at \in [Tx -> Statements]
      /\ \A t \in Tx : at[t] \in {"authority", "erase"} => fence
  BY DEF TInv, STypeOK, EraseFenced
<1>2. ASSUME NEW t \in Tx, NEW s \in Statements \ {"authority", "erase"}, Goes(t, s),
             fence' = fence
      PROVE  fence'
  BY <1>1, <1>2 DEF Goes
<1> USE DEF Statements
<1>3. CASE CancelStep
  BY <1>2, <1>3 DEF CancelStep, CancelSelects, CancelRequests, CancelDeletes
<1>4. CASE TimeoutStep
  BY <1>2, <1>4 DEF TimeoutStep, TimeoutSelects, TimeoutLocks, TimeoutRechecks
<1>5. ASSUME NEW j \in Jobs, AckStep(j) PROVE fence'
  BY <1>2, <1>5 DEF AckStep, AckBegins, AckLocksJob, AckLocksScan, AckLooksAround, AckCommits
<1>6. ASSUME NEW j \in Jobs, EnqueueStep(j) PROVE fence'
  BY <1>2, <1>6
     DEF EnqueueStep, EnqueueBegins, EnqueueLocksDepartment, EnqueueLocksScan, EnqueueInserts
<1>7. ASSUME NEW j \in Jobs, WorkerStep(j) PROVE fence'
  BY <1>1, <1>7 DEF WorkerStep, Claims, CompletesScan, Finishes
<1>8. ASSUME NEW j \in LocalJobs, FailStep(j) PROVE fence'
  BY <1>2, <1>8 DEF FailStep, FailUpdatesJob, FailUpdatesScan
<1>9. ASSUME NEW j \in UploadJobs, CheckpointStep(j) PROVE fence'
  BY <1>2, <1>9
     DEF CheckpointStep, CheckpointBegins, CheckpointLocksDepartment, CheckpointLocksScan,
         CheckpointLocksJob
<1>10. ASSUME NEW t \in Tx, CleanupStep(t) PROVE fence'
  BY <1>1, <1>2, <1>10 DEF CleanupStep, LocksDepartment, ClaimsCleanup, LocksAuthority, ErasesScan
<1>11. ASSUME NEW t \in Tx, Fails(t) PROVE fence'
  BY <1>2, <1>11 DEF Fails
<1>12. CASE UNCHANGED vars
  BY <1>1, <1>12 DEF vars
<1> QED
  BY <1>3, <1>4, <1>5, <1>6, <1>7, <1>8, <1>9, <1>10, <1>11, <1>12 DEF Next

\* An acknowledgement marks its own row only.
LEMMA AckMarks ==
    ASSUME job \in [Jobs -> Statuses], NEW t, t[1] = "ack", NEW j \in Jobs,
           seen[t] = {j}, job[j] = "cancelling", Marks(t)
    PROVE  job' = [job EXCEPT ![j] = "cancelled"]
<1>1. \A k \in Jobs : Marked(t, k) = IF k = j THEN "cancelled" ELSE job[k]
  BY DEF Marked, Active
<1>2. job' = [k \in Jobs |-> IF k = j THEN "cancelled" ELSE job[k]]
  BY <1>1, Zenon DEF Marks
<1> QED
  BY <1>2

\* What the fenced transaction of a deletion does to the queue.
LEMMA CleanupIsAtomic ==
    ASSUME TInv, AckHolds, NEW t \in Tx, ClaimsCleanup(t), ~Rollback(t)
    PROVE  Atomic!Next
<1> USE RowParts, TxParts
<1>1. /\ job \in [Jobs -> Statuses] /\ seen \in [Tx -> SUBSET Jobs]
      /\ Holds(t) /\ Owns(t) /\ at[t] = "claim"
      /\ scan # "deleted" /\ Marks(t) /\ fence' = TRUE /\ UNCHANGED scan
  BY DEF TInv, STypeOK, ClaimsCleanup
<1>2. CASE t = CancelTx
  <2>1. \A j \in seen[t] : job[j] = "pending"
    <3> TAKE j \in seen[t]
    <3>1. j \in Jobs /\ owner[j] = t
      BY <1>1, <1>2 DEF Holds
    <3>2. OwnsJob(t, j)
      BY <1>1, <3>1 DEF Owns
    <3> QED
      BY <1>2, <3>2 DEF OwnsJob, CancelTx, FailTx, AckTx
  <2>2. job' = [j \in Jobs |-> IF j \in seen[t] THEN "cancelled" ELSE job[j]]
    BY <1>1, <2>1 DEF Marks, Marked, Active
  <2>3. Atomic!Cancels(seen[t])
    BY <1>1, <2>1, <2>2 DEF Atomic!Cancels
  <2> QED
    BY <1>1, <2>3 DEF Atomic!Next
<1>3. CASE t # CancelTx
  <2>1. PICK j \in Jobs : t = AckTx(j)
    BY <1>1, <1>3, CleanupTx
  <2>2. t[1] = "ack" /\ seen[t] = {j} /\ job[j] = "cancelling"
    BY <1>1, <2>1 DEF AckHolds, Acknowledging
  <2>3. job' = [job EXCEPT ![j] = "cancelled"]
    BY <1>1, <2>2, AckMarks
  <2>4. Atomic!Acknowledges(j)
    BY <1>1, <2>2, <2>3 DEF Atomic!Acknowledges, Atomic!SetJob
  <2> QED
    BY <2>4 DEF Atomic!Next
<1> QED
  BY <1>2, <1>3

LEMMA RequestsAreAtomic == TInv /\ CancelRequests => Atomic!Next
<1> SUFFICES ASSUME TInv, CancelRequests PROVE Atomic!Next
  OBVIOUS
<1> USE RowParts, TxParts
<1>1. /\ job \in [Jobs -> Statuses] /\ StillActive \in SUBSET Jobs
      /\ \E j \in StillActive : Running(job[j])
      /\ Marks(CancelTx) /\ UNCHANGED <<scan, fence>>
  BY DEF TInv, STypeOK, CancelRequests, StillActive
<1>2. \A j \in Jobs : Atomic!Running(j) <=> Running(job[j])
  BY DEF Atomic!Running, Running
<1>3. \A j \in StillActive : Atomic!Active(j)
  BY DEF StillActive, Active, Atomic!Active, Atomic!Running
<1>4. job' = [j \in Jobs |->
                IF j \notin StillActive THEN job[j]
                ELSE IF Atomic!Running(j) THEN "cancelling" ELSE "cancelled"]
  BY <1>1, <1>2 DEF Marks, Marked, StillActive, Active, Running
<1>5. Atomic!Requests(StillActive)
  BY <1>1, <1>2, <1>3, <1>4 DEF Atomic!Requests
<1> QED
  BY <1>1, <1>5 DEF Atomic!Next

LEMMA AckCommitsIsAtomic ==
    ASSUME TInv, AckHolds, NEW j \in Jobs, AckCommits(j) PROVE Atomic!Next
<1> USE RowParts, TxParts
<1>1. /\ job \in [Jobs -> Statuses] /\ Left(j) /\ at[AckTx(j)] = "commit"
      /\ Marks(AckTx(j)) /\ UNCHANGED <<scan, fence>>
      /\ seen[AckTx(j)] = {j} /\ job[j] = "cancelling"
  BY DEF TInv, STypeOK, AckCommits, AckHolds, Acknowledging
<1>2. job' = [job EXCEPT ![j] = "cancelled"]
  BY <1>1, AckMarks
<1>3. scan = "deleted" \/ \E k \in Jobs \ {j} : Atomic!Running(k) \/ job[k] = "done"
  BY <1>1 DEF Left, Atomic!Running
<1>4. Atomic!Acknowledges(j)
  BY <1>1, <1>2, <1>3 DEF Atomic!Acknowledges, Atomic!SetJob
<1> QED
  BY <1>4 DEF Atomic!Next

LEMMA EnqueueInsertsIsAtomic ==
    ASSUME TInv, StartsAreSound, NEW j \in Jobs, EnqueueInserts(j) PROVE Atomic!Next
<1> USE RowParts, TxParts
<1>1. job[j] = "none"
  BY DEF TInv, Kinds, EnqueueInserts
<1>2. Atomic!Enqueues(j)
  BY <1>1 DEF Atomic!Enqueues, Atomic!SetJob, SetJob, EnqueueInserts, StartsAreSound
<1> QED
  BY <1>2 DEF Atomic!Next

LEMMA TimesOutIsAtomic ==
    ASSUME TInv, TimeoutRechecks, ~Rollback(TimeoutTx) PROVE Atomic!Next
<1> USE RowParts, TxParts
<1>1. at[TimeoutTx] = "recheck" /\ ~OwnedByQueue /\ scan' = "timed_out"
      /\ UNCHANGED <<job, fence>> /\ Holds(TimeoutTx) /\ Owns(TimeoutTx)
  BY DEF TInv, TimeoutRechecks
<1>2. scan = "open"
  BY <1>1 DEF Holds, Owns, OwnsScan
<1>3. \A j \in LocalJobs : ~Atomic!Active(j)
  BY <1>1 DEF OwnedByQueue, Active, Atomic!Active, Atomic!Running
<1>4. Atomic!TimesOut
  BY <1>1, <1>2, <1>3 DEF Atomic!TimesOut
<1> QED
  BY <1>4 DEF Atomic!Next

LEMMA WorkIsAtomic ==
    ASSUME FailsAtWork, NEW j \in Jobs,
           WorkerStep(j) \/ (j \in LocalJobs /\ FailUpdatesScan(j))
    PROVE  Atomic!Next
<1> USE DEF SetJob, Atomic!SetJob
<1>1. CASE Claims(j)
  BY <1>1 DEF Claims, Atomic!Claims, Atomic!Next
<1>2. CASE CompletesScan(j)
  BY <1>2 DEF CompletesScan, Atomic!Completes, Atomic!Next
<1>3. CASE Finishes(j)
  BY <1>3 DEF Finishes, Atomic!Finishes, Atomic!Next
<1>4. CASE j \in LocalJobs /\ FailUpdatesScan(j)
  BY <1>4 DEF FailUpdatesScan, FailsAtWork, Atomic!Fails, Atomic!Next
<1> QED
  BY <1>1, <1>2, <1>3, <1>4 DEF WorkerStep

LEMMA ErasureIsAtomic ==
    ASSUME EraseFenced, NEW t \in Tx, ErasesScan(t), ~Rollback(t) PROVE Atomic!Next
BY DEF EraseFenced, ErasesScan, Atomic!Erases, Atomic!Next

\* The statements before a commit show nothing.
Shows == ~UNCHANGED <<job, scan, fence>>

LEMMA AtomicStep ==
    ASSUME TInv, FailsAtWork, StartsAreSound, AckHolds, EraseFenced, [Next]_vars
    PROVE  [Atomic!Next]_<<job, scan, fence>>
<1> SUFFICES ASSUME Shows PROVE Atomic!Next
  BY DEF Shows
<1> USE DEF Shows, LockRow, Rollback
<1>1. CASE CancelStep
  BY <1>1, RequestsAreAtomic DEF CancelStep, CancelSelects, CancelDeletes
<1>2. CASE TimeoutStep
  BY <1>2, TimesOutIsAtomic DEF TimeoutStep, TimeoutSelects, TimeoutLocks
<1>3. ASSUME NEW j \in Jobs, AckStep(j) PROVE Atomic!Next
  BY <1>3, AckCommitsIsAtomic DEF AckStep, AckBegins, AckLocksJob, AckLocksScan, AckLooksAround
<1>4. ASSUME NEW j \in Jobs, EnqueueStep(j) PROVE Atomic!Next
  BY <1>4, EnqueueInsertsIsAtomic
     DEF EnqueueStep, EnqueueBegins, EnqueueLocksDepartment, EnqueueLocksScan
<1>5. ASSUME NEW j \in Jobs, WorkerStep(j) PROVE Atomic!Next
  BY <1>5, WorkIsAtomic
<1>6. ASSUME NEW j \in LocalJobs, FailStep(j) PROVE Atomic!Next
  BY <1>6, WorkIsAtomic, RowParts DEF FailStep, FailUpdatesJob
<1>7. ASSUME NEW j \in UploadJobs, CheckpointStep(j) PROVE Atomic!Next
  BY <1>7 DEF CheckpointStep, CheckpointBegins, CheckpointLocksDepartment,
              CheckpointLocksScan, CheckpointLocksJob
<1>8. ASSUME NEW t \in Tx, CleanupStep(t) PROVE Atomic!Next
  BY <1>8, CleanupIsAtomic, ErasureIsAtomic DEF CleanupStep, LocksDepartment, LocksAuthority
<1>9. ASSUME NEW t \in Tx, Fails(t) PROVE Atomic!Next
  BY <1>9 DEF Fails
<1>10. ~UNCHANGED vars
  BY DEF vars
<1> QED
  BY <1>1, <1>2, <1>3, <1>4, <1>5, <1>6, <1>7, <1>8, <1>9, <1>10 DEF Next

\* Every transaction on a scan takes effect in one step, its commit, under the
\* conditions it looked at statements before: its locks, and what it asks again once it
\* has them, make the statements of the others in between harmless.
THEOREM TransactionsAreAtomic == Spec => ImplementsAtomic
<1>1. Init => Atomic!Init /\ FailsAtWork /\ AckHolds /\ EraseFenced
  BY TxParts DEF Init, Atomic!Init, FailsAtWork, AckHolds, EraseFenced, Acknowledging
<1> QED
  BY <1>1, AtomicStep, FailsAtWorkStep, AckHoldsStep, EraseFencedStep, StartsAreSoundHolds,
     TInvAlways, PTL DEF Spec, ImplementsAtomic, Atomic!Spec

===============================================================================

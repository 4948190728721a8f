------------------------------ MODULE MCJobQueue ------------------------------
(* Small instances of JobQueue for TLC. *)
EXTENDS JobQueue, TLC

CONSTANTS j1, j2, j3, s1, w1, w2

NoDependency == [j \in Jobs |-> NoJob]
\* j2 waits for j1 and j3 for j2
Chain == [j \in Jobs |-> CASE j = j2 -> j1 [] j = j3 -> j2 [] OTHER -> NoJob]
OneScan == [j \in Jobs |-> s1]
\* only the local scan of the chain, j2, has a scan
ScanOfSecond == [j \in Jobs |-> IF j = j2 THEN s1 ELSE NoScan]
NoScans == [j \in Jobs |-> NoScan]

WorkerSymmetry == Permutations(Workers)
===============================================================================

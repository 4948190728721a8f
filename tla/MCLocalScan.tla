----------------------------- MODULE MCLocalScan ------------------------------
(* Small instances of LocalScan for TLC. *)
EXTENDS LocalScan, TLC

CONSTANTS j1, j2, s1, w1, w2

NoDependency == [j \in Jobs |-> NoJob]
OneScan == [j \in Jobs |-> s1]

WorkerSymmetry == Permutations(Workers)
===============================================================================

---------------------------- MODULE MCUploadEffect ----------------------------
(* Small instances of UploadEffect for TLC. *)
EXTENDS UploadEffect, TLC

CONSTANTS j1, j2, s1, w1, w2, a1

NoDependency == [j \in Jobs |-> NoJob]
OneScan == [j \in Jobs |-> s1]
OneArtifact == [j \in Jobs |-> a1]

WorkerSymmetry == Permutations(Workers)
===============================================================================

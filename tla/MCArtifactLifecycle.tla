------------------------- MODULE MCArtifactLifecycle -------------------------
(* Small instances of ArtifactLifecycle for TLC. *)
EXTENDS ArtifactLifecycle

CONSTANTS a1, a2, k1, k2

\* Two attempts at one job, one at each of two, or both at an uploaded file.
AllJobMaps == {[a \in Attempts |-> k1],
               [a \in Attempts |-> IF a = a1 THEN k1 ELSE k2],
               [a \in Attempts |-> Nobody]}

OneJobOrNone == {[a \in Attempts |-> k1], [a \in Attempts |-> Nobody]}

===============================================================================

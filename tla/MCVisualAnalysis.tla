--------------------------- MODULE MCVisualAnalysis ---------------------------
(* Small instances of VisualAnalysis for TLC. *)
EXTENDS VisualAnalysis

===============================================================================

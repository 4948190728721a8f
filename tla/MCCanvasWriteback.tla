-------------------------- MODULE MCCanvasWriteback --------------------------
(* Small instances of CanvasWriteback for TLC. *)
EXTENDS CanvasWriteback

CONSTANTS r1, r2, h1, h2

===============================================================================

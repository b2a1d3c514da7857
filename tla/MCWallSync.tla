----------------------------- MODULE MCWallSync -----------------------------
(* Instances of WallSync for TLC: names for the model values that the        *)
(* configurations put into its sets.                                         *)
EXTENDS WallSync

CONSTANTS d1, d2
=============================================================================

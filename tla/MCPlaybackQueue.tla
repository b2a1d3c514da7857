--------------------------- MODULE MCPlaybackQueue ---------------------------
(* Instances of PlaybackQueue for TLC: names for the model values that the   *)
(* configurations put into its sets.                                         *)
EXTENDS PlaybackQueue

CONSTANTS d, e, a
=============================================================================

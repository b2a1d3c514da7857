--------------------------- MODULE MCRemoteCommands --------------------------
(* Instances of RemoteCommands for TLC: names for the model values that the  *)
(* configurations put into its sets.                                         *)
EXTENDS RemoteCommands

CONSTANTS c1, c2, l1, l2
=============================================================================

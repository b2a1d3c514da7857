---------------------------- MODULE MCRtspBridge ----------------------------
(* Instances of RtspBridge for TLC: names for the model values of its sets. *)
EXTENDS RtspBridge

CONSTANTS e1, e2, a, b
=============================================================================

-------------------------- MODULE MCPublicationAck --------------------------
(* Instances of PublicationAck for TLC: names for the model values that the *)
(* configurations put into its sets.                                        *)
EXTENDS PublicationAck

CONSTANTS x, y, a, b
=============================================================================

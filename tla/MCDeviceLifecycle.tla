------------------------- MODULE MCDeviceLifecycle -------------------------
(* Instances of DeviceLifecycle for TLC: names for the model values that    *)
(* the configurations put into its sets.                                    *)
EXTENDS DeviceLifecycle

CONSTANTS p1, c1, c2
=============================================================================

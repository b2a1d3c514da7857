------------------------------ MODULE MCAlerts ------------------------------
(* Instances of Alerts for TLC: names for the model values that the          *)
(* configurations put into its sets.                                         *)
EXTENDS Alerts

CONSTANTS e1, e2, e3
=============================================================================

-------------------------- MODULE MCScheduleEngine --------------------------
(* Instances of ScheduleEngine for TLC: names for the model values that the *)
(* configurations put into its sets.                                        *)
EXTENDS ScheduleEngine

CONSTANTS a, b, c1, c2, r1, q1, q2
=============================================================================

--------------------------- MODULE MCLayoutStage ---------------------------
(* Instances of LayoutStage for TLC: the zones, the assets and what a zone   *)
(* may be given to play.                                                     *)
EXTENDS LayoutStage

CONSTANTS main, ticker, a, b, c

Loops == {<<a, b>>, <<b, c>>, <<c>>}
=============================================================================

-------------------------- MODULE MCPlaylistEdits --------------------------
(* Instances of PlaylistEdits for TLC: names for the model values that the  *)
(* configurations put into its sets, and a list to start with.              *)
EXTENDS PlaylistEdits

CONSTANTS i1, i2, i3, i4, p1, p2, c1, c2

TwoItems == <<i1, i2>>
=============================================================================

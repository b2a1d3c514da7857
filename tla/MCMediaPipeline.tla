-------------------------- MODULE MCMediaPipeline --------------------------
(* Instances of MediaPipeline for TLC: an image, and a video that may have  *)
(* to be recoded.                                                           *)
EXTENDS MediaPipeline

CONSTANTS image, video

Uploads == [a \in Assets |-> IF a = image THEN {"image"} ELSE {"recommended", "other"}]
=============================================================================

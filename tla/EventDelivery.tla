---------------------------- MODULE EventDelivery ----------------------------
(***************************************************************************)
(* What proof of play promises of its events, whatever queues, requests    *)
(* and databases are in between: an event waits until it is recorded or    *)
(* given up; what is recorded stays recorded; what was given up may still  *)
(* be recorded, by a request that was on its way; and no event is ever     *)
(* forgotten.  PlaybackQueue implements it.                                *)
(***************************************************************************)
CONSTANT Events

VARIABLES waiting, recorded, dropped

vars == <<waiting, recorded, dropped>>

Known == waiting \union recorded \union dropped

Init == waiting = {} /\ recorded = {} /\ dropped = {}

\* A new event; a full queue gives up others, or this one, to take it.
Take(i) ==
    /\ i \notin Known
    /\ waiting' \subseteq waiting \union {i}
    /\ dropped' = dropped \union ((waiting \union {i}) \ waiting')
    /\ UNCHANGED recorded

\* Events are given up.
Drop ==
    /\ waiting' \subseteq waiting
    /\ dropped' = dropped \union (waiting \ waiting')
    /\ UNCHANGED recorded

\* Events that waited or were given up are recorded.
Record ==
    /\ recorded \subseteq recorded' /\ recorded' \subseteq Known
    /\ waiting' = waiting \ recorded'
    /\ dropped' = dropped \ recorded'

Next == (\E i \in Events : Take(i)) \/ Drop \/ Record

Spec == Init /\ [][Next]_vars
=============================================================================

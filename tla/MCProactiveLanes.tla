-------------------------- MODULE MCProactiveLanes --------------------------
(***************************************************************************)
(* TLC instances of the proactive lanes: two lanes, one of which has a     *)
(* recommendation that the pulse submits again while it is pending.        *)
(***************************************************************************)
EXTENDS ProactiveLanes

CONSTANTS notify, reflect, a1, a2, a3, a4, b1, b2

MCActions == {a1, a2, a3, a4, b1, b2}
MCLanes == {notify, reflect}
MCLaneOf == [a \in MCActions |-> IF a \in {a1, a2, a3, a4} THEN notify ELSE reflect]
MCRepeated == {a1}
=============================================================================

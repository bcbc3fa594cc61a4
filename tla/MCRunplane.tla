----------------------------- MODULE MCRunplane -----------------------------
(***************************************************************************)
(* TLC instances of the runplane in its production shape: every job has a  *)
(* lane of its own, on which the pulse, the due check and the operator's   *)
(* request compete.  executor.week1 survives one failure, a delivery none. *)
(***************************************************************************)
EXTENDS Runplane

CONSTANTS week1, delivery, week1Lane, deliveryLane

MCJobs == {week1, delivery}
MCLanes == {week1Lane, deliveryLane}
MCLaneOf == [j \in MCJobs |-> IF j = week1 THEN week1Lane ELSE deliveryLane]
MCMaxAttempts == [j \in MCJobs |-> IF j = week1 THEN 2 ELSE 1]
=============================================================================

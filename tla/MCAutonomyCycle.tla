--------------------------- MODULE MCAutonomyCycle ---------------------------
(***************************************************************************)
(* TLC instances of the autonomy cycle: two coroutines, caps of one.       *)
(***************************************************************************)
EXTENDS AutonomyCycle, TLC

CONSTANTS job, other

MCCap == [k \in Kinds |-> 1]
MCFailures == [j \in Jobs |-> IF j = job THEN {TRUE} ELSE {FALSE}]
MCSymmetry == Permutations(Cycles)
=============================================================================

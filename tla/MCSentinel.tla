------------------------------ MODULE MCSentinel ------------------------------
(***************************************************************************)
(* The TLC instance of the sentinel: a configuration watch of low priority    *)
(* and an ungated check of high priority.                                  *)
(***************************************************************************)
EXTENDS Sentinel

MCRank == [x \in Triggers |-> IF x \in Ungated THEN 4 ELSE 2]
=============================================================================

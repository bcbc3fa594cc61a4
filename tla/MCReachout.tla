------------------------------ MODULE MCReachout ------------------------------
(***************************************************************************)
(* The TLC instance of the reach-outs: three of them, one mark a pass, and *)
(* a log of which a scan reads one line.                                   *)
(***************************************************************************)
EXTENDS Reachout

MCDeliveries ==
  { <<"acknowledged", "acknowledged", "acknowledged">>,
    <<"unroutable", "acknowledged", "plain">> }
=============================================================================

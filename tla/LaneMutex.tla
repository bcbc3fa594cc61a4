----------------------------- MODULE LaneMutex -----------------------------
(***************************************************************************)
(* What the autonomy runplane promises its callers: an executor enters a   *)
(* lane only when no other executor is inside, every run enters at most    *)
(* once, and an executor leaves when it reports, is cancelled or dies with *)
(* the process.                                                            *)
(***************************************************************************)
CONSTANTS Lanes, Runs

VARIABLES
  inside,   \* the executors inside each lane
  entered   \* the runs that have ever entered a lane

vars == <<inside, entered>>

Init == inside = [l \in Lanes |-> {}] /\ entered = {}

\* A begin_run that was granted.
Enter(l, r) ==
  /\ inside[l] = {}
  /\ r \notin entered
  /\ inside' = [inside EXCEPT ![l] = {r}]
  /\ entered' = entered \cup {r}

\* complete_run, or an executor that is cancelled.
Leave(l) ==
  /\ inside' = [inside EXCEPT ![l] = {}]
  /\ UNCHANGED entered

\* The process restarts.
Restart ==
  /\ inside' = [l \in Lanes |-> {}]
  /\ UNCHANGED entered

Next ==
  \/ \E l \in Lanes, r \in Runs : Enter(l, r)
  \/ \E l \in Lanes : Leave(l)
  \/ Restart

Spec == Init /\ [][Next]_vars
=============================================================================

--------------------------- MODULE RunplaneProofs ---------------------------
(***************************************************************************)
(* Proofs about the runplane, for every set of jobs and lanes, every       *)
(* retention cap and every bound on the number of runs.                    *)
(***************************************************************************)
EXTENDS Runplane, SequenceTheorems, TLAPS

-----------------------------------------------------------------------------
(* Lemmas about the helpers                                                *)

\* Dropping one dead letter leaves a sequence of dead letters.
LEMMA RemoveAtType ==
  ASSUME NEW S, NEW s \in Seq(S), NEW i \in 1 .. Len(s)
  PROVE  RemoveAt(s, i) \in Seq(S)
  BY DEF RemoveAt

\* The dead-letter list stays a list of dead letters.
LEMMA PushDeadType ==
  ASSUME dead \in Seq(DeadRow), NEW row \in DeadRow
  PROVE  PushDead(row) \in Seq(DeadRow)
<1>1. CASE Len(dead) >= MaxDead
  <2>1. dead # <<>>
    BY <1>1, RunplaneAssumption DEF RunplaneAssumption
  <2>2. Tail(dead) \in Seq(DeadRow)
    BY <2>1
  <2> QED
    BY <1>1, <2>2 DEF PushDead
<1>2. CASE ~(Len(dead) >= MaxDead)
  BY <1>2 DEF PushDead
<1> QED
  BY <1>1, <1>2

\* The sweep keeps the types of what it rewrites.
LEMMA SweepType ==
  ASSUME TypeOK
  PROVE  /\ SweptStatus \in [RunIds -> JobStates \cup AbsentStatus]
         /\ SweptJobs \in [Jobs -> JobStates]
         /\ SweptHolder \in [Lanes -> RunIds \cup {NoRun}]
  BY DEF TypeOK, SweptStatus, SweptJobs, SweptHolder, JobStates, AbsentStatus

\* So does the append of a run row.
LEMMA AppendRowType ==
  ASSUME NEW rows \in [RunIds -> JobStates \cup AbsentStatus], NEW r \in RunIds
  PROVE  AppendRow(rows, r) \in [RunIds -> JobStates \cup AbsentStatus]
  BY DEF AppendRow, JobStates, AbsentStatus

\* A job's state after a report is one of the allowed states, and not running.
LEMMA StateAfterType ==
  ASSUME NEW j \in Jobs, NEW o \in Outcomes
  PROVE  /\ StateAfter(j, o) \in JobStates \ {"running"}
         /\ o.status \in JobStates \ {"running"}
  BY DEF StateAfter, Outcomes, JobStates

-----------------------------------------------------------------------------
(* Type correctness                                                        *)

LEMMA InitTypeOK == Init => TypeOK
<1> SUFFICES ASSUME Init PROVE TypeOK
  OBVIOUS
<1>1. (CHOOSE j \in Jobs : TRUE) \in Jobs
  BY RunplaneAssumption DEF RunplaneAssumption
<1>2. AgeCap \in Nat
  BY RunplaneAssumption DEF RunplaneAssumption, AgeCap
<1> QED
  BY <1>1, <1>2, RunplaneAssumption
     DEF Init, TypeOK, RunplaneAssumption, RunIds, NoRun, JobStates, AbsentStatus

LEMMA NextTypeOK == TypeOK /\ [Next]_vars => TypeOK'
<1> SUFFICES ASSUME TypeOK, [Next]_vars PROVE TypeOK'
  OBVIOUS
<1> USE RunplaneAssumption DEF RunplaneAssumption
<1>0. AgeCap \in Nat
  BY DEF AgeCap
<1>1. CASE EnsureJob
  BY <1>1, SweepType DEF EnsureJob, TypeOK
<1>2. ASSUME NEW j \in Jobs, BeginRun(j) PROVE TypeOK'
  <2>1. nextRun + 1 \in RunIds
    BY <1>2 DEF BeginRun, TypeOK, RunIds
  <2>2. /\ nextRun' = nextRun + 1
        /\ runJob' = [runJob EXCEPT ![nextRun + 1] = j]
        /\ runStatus' = AppendRow(SweptStatus, nextRun + 1)
        /\ age' = [age EXCEPT ![nextRun + 1] = 0]
        /\ holder' = [SweptHolder EXCEPT ![LaneOf[j]] = nextRun + 1]
        /\ jobState' = [SweptJobs EXCEPT ![j] = "running"]
        /\ alive' = alive \cup {nextRun + 1}
        /\ UNCHANGED <<failures, dead>>
    BY <1>2 DEF BeginRun
  <2>3. runStatus' \in [RunIds -> JobStates \cup AbsentStatus]
    BY <2>1, <2>2, SweepType, AppendRowType
  <2>4. /\ nextRun' \in 0 .. RunBound
        /\ runJob' \in [RunIds -> Jobs]
        /\ age' \in [RunIds -> 0 .. AgeCap]
        /\ alive' \in SUBSET RunIds
    BY <1>0, <2>1, <2>2 DEF TypeOK, RunIds
  <2>5. holder' \in [Lanes -> RunIds \cup {NoRun}]
    BY <2>1, <2>2, SweepType
  <2>6. jobState' \in [Jobs -> JobStates]
    BY <2>2, SweepType DEF JobStates
  <2> QED
    BY <2>2, <2>3, <2>4, <2>5, <2>6 DEF TypeOK
<1>3. ASSUME NEW r \in RunIds, NEW o \in Outcomes, CompleteRun(r, o)
      PROVE  TypeOK'
  <2>1. CASE ~Retained(r)
    BY <1>3, <2>1 DEF CompleteRun, TypeOK
  <2>2. CASE Retained(r)
    <3>1. ReportOutcome(r, o)
      BY <1>3, <2>2 DEF CompleteRun
    <3>2. runJob[r] \in Jobs
      BY DEF TypeOK
    <3>3. failures[runJob[r]] + 1 \in Nat
      BY <3>2 DEF TypeOK
    <3>4. dead' \in Seq(DeadRow)
      <4>1. [run |-> r, job |-> runJob[r], failures |-> failures[runJob[r]] + 1]
              \in DeadRow
        BY <3>2, <3>3 DEF DeadRow
      <4> QED
        BY <3>1, <4>1, PushDeadType DEF ReportOutcome, TypeOK
    <3>5. runStatus' \in [RunIds -> JobStates \cup AbsentStatus]
      BY <3>1, <3>2, StateAfterType DEF ReportOutcome, TypeOK, JobStates
    <3>6. jobState' \in [Jobs -> JobStates]
      BY <3>1, <3>2, StateAfterType DEF ReportOutcome, TypeOK
    <3>7. holder' \in [Lanes -> RunIds \cup {NoRun}]
      BY <3>1 DEF ReportOutcome, ReleaseLane, TypeOK
    <3>8. failures' \in [Jobs -> Nat]
      BY <3>1, <3>2, <3>3 DEF ReportOutcome, TypeOK
    <3> QED
      BY <1>3, <3>4, <3>5, <3>6, <3>7, <3>8 DEF CompleteRun, TypeOK
  <2> QED
    BY <2>1, <2>2
<1>4. ASSUME NEW r \in RunIds, Abandon(r) PROVE TypeOK'
  BY <1>4 DEF Abandon, TypeOK
<1>5. CASE Crash
  BY <1>5 DEF Crash, TypeOK
<1>6. ASSUME NEW r \in RunIds, NEW s \in JobStates, SetStatus(r, s)
      PROVE  TypeOK'
  BY <1>6 DEF SetStatus, TypeOK
<1>7. ASSUME NEW i \in 1 .. Len(dead), ReplayDeadLetter(i) PROVE TypeOK'
  <2>1. dead[i] \in DeadRow
    BY DEF TypeOK
  <2>2. jobState' \in [Jobs -> JobStates]
    BY <1>7, <2>1 DEF ReplayDeadLetter, Requeue, TypeOK, DeadRow, JobStates
  <2>3. dead' \in Seq(DeadRow)
    BY <1>7, RemoveAtType DEF ReplayDeadLetter, TypeOK
  <2> QED
    BY <1>7, <2>2, <2>3 DEF ReplayDeadLetter, TypeOK
<1>8. CASE Tick
  <2>1. age' \in [RunIds -> 0 .. AgeCap]
    BY <1>0, <1>8 DEF Tick, TypeOK
  <2> QED
    BY <1>8, <2>1 DEF Tick, TypeOK
<1>9. CASE UNCHANGED vars
  BY <1>9 DEF vars, TypeOK
<1>10. ASSUME NEW r \in RunIds, AckRun(r) PROVE TypeOK'
  BY <1>6, <1>10 DEF AckRun, JobStates
<1>11. ASSUME NEW r \in RunIds, NEW s \in MarkStates, MarkRunStatus(r, s)
       PROVE  TypeOK'
  BY <1>6, <1>11 DEF MarkRunStatus
<1> QED
  BY <1>1, <1>2, <1>3, <1>4, <1>5, <1>7, <1>8, <1>9, <1>10, <1>11 DEF Next

\* Every state the runplane reaches is well typed.
THEOREM TypeCorrect == Spec => []TypeOK
  BY InitTypeOK, NextTypeOK, PTL DEF Spec

-----------------------------------------------------------------------------
(* Lanes                                                                   *)

\* Only runs that have begun hold lanes, and each holds the lane of its job.
HolderOwnsLane ==
  \A l \in Lanes : holder[l] # NoRun =>
    holder[l] <= nextRun /\ RunLane(holder[l]) = l

\* A row shown as running has begun and holds its lane.
RunningRowHolds ==
  \A r \in RunIds : runStatus[r] = "running" =>
    r <= nextRun /\ holder[RunLane(r)] = r

\* A job shown as running has a run that holds a lane.
RunningJobHolds ==
  \A j \in Jobs : jobState[j] = "running" =>
    \E l \in Lanes : holder[l] # NoRun /\ runJob[holder[l]] = j

LaneInv == TypeOK /\ HolderOwnsLane /\ RunningRowHolds /\ RunningJobHolds

\* After the sweep too, what is shown as running still holds its lane.
LEMMA SweepLanes ==
  ASSUME LaneInv
  PROVE  /\ \A l \in Lanes : SweptHolder[l] # NoRun => SweptHolder[l] = holder[l]
         /\ \A r \in RunIds : SweptStatus[r] = "running" =>
              /\ runStatus[r] = "running"
              /\ SweptHolder[RunLane(r)] = r
         /\ \A j \in Jobs : SweptJobs[j] = "running" =>
              \E l \in Lanes : SweptHolder[l] # NoRun /\ runJob[SweptHolder[l]] = j
<1> USE RunplaneAssumption DEF RunplaneAssumption
<1>1. \A l \in Lanes : SweptHolder[l] = IF Stale(l) THEN NoRun ELSE holder[l]
  BY DEF SweptHolder
<1>2. ASSUME NEW r \in RunIds, SweptStatus[r] = "running"
      PROVE  runStatus[r] = "running" /\ SweptHolder[RunLane(r)] = r
  <2>1. runStatus[r] = "running" /\ r \notin SweptRuns
    BY <1>2 DEF SweptStatus, Retained, AbsentStatus
  <2>2. RunLane(r) \in Lanes
    BY DEF RunLane, LaneInv, TypeOK
  <2>3. holder[RunLane(r)] = r
    BY <2>1 DEF LaneInv, RunningRowHolds
  <2>4. ~Stale(RunLane(r))
    BY <2>1, <2>2, <2>3 DEF SweptRuns
  <2> QED
    BY <1>1, <2>1, <2>2, <2>3, <2>4
<1>3. ASSUME NEW j \in Jobs, SweptJobs[j] = "running"
      PROVE  \E l \in Lanes : SweptHolder[l] # NoRun /\ runJob[SweptHolder[l]] = j
  <2>1. jobState[j] = "running" /\ ~(\E r \in SweptRuns : runJob[r] = j)
    BY <1>3 DEF SweptJobs
  <2>2. PICK l \in Lanes : holder[l] # NoRun /\ runJob[holder[l]] = j
    BY <2>1 DEF LaneInv, RunningJobHolds
  <2>3. ~Stale(l)
    BY <2>1, <2>2 DEF SweptRuns
  <2> QED
    BY <1>1, <2>2, <2>3
<1> QED
  BY <1>1, <1>2, <1>3

LEMMA InitLaneInv == Init => LaneInv
<1> SUFFICES ASSUME Init PROVE LaneInv
  OBVIOUS
<1> QED
  BY InitTypeOK DEF Init, LaneInv, HolderOwnsLane, RunningRowHolds,
     RunningJobHolds, NoRun

LEMMA NextLaneInv == LaneInv /\ [Next]_vars => LaneInv'
<1> SUFFICES ASSUME LaneInv, [Next]_vars PROVE LaneInv'
  OBVIOUS
<1> USE RunplaneAssumption DEF RunplaneAssumption
<1>0. TypeOK /\ TypeOK'
  BY NextTypeOK DEF LaneInv
<1>1. CASE EnsureJob
  <2>1. HolderOwnsLane'
    BY <1>1, SweepLanes DEF EnsureJob, LaneInv, HolderOwnsLane, RunLane
  <2>2. RunningRowHolds'
    BY <1>1, SweepLanes DEF EnsureJob, LaneInv, RunningRowHolds, RunLane
  <2>3. RunningJobHolds'
    BY <1>1, SweepLanes DEF EnsureJob, RunningJobHolds
  <2> QED
    BY <1>0, <2>1, <2>2, <2>3 DEF LaneInv
<1>2. ASSUME NEW j \in Jobs, BeginRun(j) PROVE LaneInv'
  <2> DEFINE n == nextRun + 1
             l == LaneOf[j]
  <2>1. /\ n \in RunIds /\ l \in Lanes
        /\ SweptHolder[l] = NoRun
        /\ nextRun' = n
        /\ runJob' = [runJob EXCEPT ![n] = j]
        /\ runStatus' = AppendRow(SweptStatus, n)
        /\ holder' = [SweptHolder EXCEPT ![l] = n]
        /\ jobState' = [SweptJobs EXCEPT ![j] = "running"]
    BY <1>0, <1>2 DEF BeginRun, TypeOK, RunIds
  <2>2. /\ \A m \in Lanes : holder'[m] = IF m = l THEN n ELSE SweptHolder[m]
        /\ \A r \in RunIds : runJob'[r] = IF r = n THEN j ELSE runJob[r]
        /\ \A k \in Jobs : jobState'[k] = IF k = j THEN "running" ELSE SweptJobs[k]
    BY <1>0, <2>1, SweepType DEF TypeOK
  <2> HIDE DEF n, l
  <2>3. /\ nextRun \in Nat /\ n = nextRun + 1 /\ l = LaneOf[j] /\ n # NoRun
    BY <1>0 DEF TypeOK, n, l, NoRun
  <2>4. \A m \in Lanes : SweptHolder[m] # NoRun =>
          /\ SweptHolder[m] \in RunIds
          /\ SweptHolder[m] <= nextRun
          /\ RunLane(SweptHolder[m]) = m
    BY <1>0, SweepLanes, SweepType DEF LaneInv, HolderOwnsLane, TypeOK
  <2>5. \A r \in RunIds : r <= nextRun => r # n
    BY <2>3 DEF RunIds
  <2>6. HolderOwnsLane'
    <3> SUFFICES ASSUME NEW m \in Lanes, holder'[m] # NoRun
                 PROVE  /\ holder'[m] <= nextRun'
                        /\ LaneOf[runJob'[holder'[m]]] = m
      BY DEF HolderOwnsLane, RunLane
    <3>1. CASE m = l
      BY <2>1, <2>2, <2>3, <3>1 DEF RunLane, RunIds
    <3>2. CASE m # l
      <4>1. holder'[m] = SweptHolder[m] /\ SweptHolder[m] # NoRun
        BY <2>2, <3>2
      <4>2. runJob'[holder'[m]] = runJob[SweptHolder[m]]
        BY <2>2, <2>4, <2>5, <4>1
      <4> QED
        BY <2>1, <2>3, <2>4, <4>1, <4>2 DEF RunLane, RunIds
    <3> QED
      BY <3>1, <3>2
  <2>7. RunningRowHolds'
    <3> SUFFICES ASSUME NEW r \in RunIds, runStatus'[r] = "running"
                 PROVE  r <= nextRun' /\ holder'[LaneOf[runJob'[r]]] = r
      BY DEF RunningRowHolds, RunLane
    <3>1. CASE r = n
      BY <2>1, <2>2, <2>3, <3>1 DEF RunLane, RunIds
    <3>2. CASE r # n
      <4>1. SweptStatus[r] = "running"
        BY <2>1, <3>2 DEF AppendRow
      <4>2. r <= nextRun /\ SweptHolder[RunLane(r)] = r
        BY <4>1, SweepLanes DEF LaneInv, RunningRowHolds
      <4>3. LaneOf[runJob'[r]] = RunLane(r) /\ RunLane(r) \in Lanes
        BY <1>0, <2>2, <3>2 DEF RunLane, TypeOK
      <4>4. r # NoRun
        BY DEF RunIds, NoRun
      <4>5. RunLane(r) # l
        BY <2>1, <4>2, <4>4
      <4> QED
        BY <2>1, <2>2, <2>3, <4>2, <4>3, <4>5 DEF RunIds
    <3> QED
      BY <3>1, <3>2
  <2>8. RunningJobHolds'
    <3> SUFFICES ASSUME NEW k \in Jobs, jobState'[k] = "running"
                 PROVE  \E m \in Lanes : holder'[m] # NoRun /\ runJob'[holder'[m]] = k
      BY DEF RunningJobHolds
    <3>1. CASE k = j
      BY <2>1, <2>2, <2>3, <3>1
    <3>2. CASE k # j
      <4>1. PICK m \in Lanes : SweptHolder[m] # NoRun /\ runJob[SweptHolder[m]] = k
        BY <2>2, <3>2, SweepLanes
      <4>2. m # l
        BY <2>1, <4>1
      <4>3. holder'[m] = SweptHolder[m] /\ runJob'[SweptHolder[m]] = k
        BY <2>2, <2>4, <2>5, <4>1, <4>2
      <4> QED
        BY <4>1, <4>3
    <3> QED
      BY <3>1, <3>2
  <2> QED
    BY <1>0, <2>6, <2>7, <2>8 DEF LaneInv
<1>3. ASSUME NEW r \in RunIds, NEW o \in Outcomes, CompleteRun(r, o)
      PROVE  LaneInv'
  <2>1. CASE ~Retained(r)
    BY <1>0, <1>3, <2>1
       DEF CompleteRun, LaneInv, HolderOwnsLane, RunningRowHolds,
           RunningJobHolds, RunLane
  <2>2. CASE Retained(r)
    <3>1. /\ ReportOutcome(r, o)
          /\ UNCHANGED <<nextRun, runJob>>
      BY <1>3, <2>2 DEF CompleteRun
    <3>2. /\ runJob[r] \in Jobs /\ RunLane(r) \in Lanes
          /\ \A q \in RunIds : RunLane(q) \in Lanes
          /\ r # NoRun
      BY <1>0 DEF TypeOK, RunLane, RunIds, NoRun
    <3>3. \A m \in Lanes : holder'[m] = IF m = RunLane(r) /\ holder[m] = r
                                       THEN NoRun ELSE holder[m]
      BY <1>0, <3>1, <3>2 DEF ReportOutcome, ReleaseLane, TypeOK
    <3>4. runStatus'[r] # "running"
          /\ \A q \in RunIds : q # r => runStatus'[q] = runStatus[q]
      BY <1>0, <3>1, <3>2, StateAfterType DEF ReportOutcome, TypeOK
    <3>5. jobState'[runJob[r]] # "running"
          /\ \A k \in Jobs : k # runJob[r] => jobState'[k] = jobState[k]
      BY <1>0, <3>1, <3>2, StateAfterType DEF ReportOutcome, TypeOK
    <3>6. HolderOwnsLane'
      BY <3>1, <3>3 DEF LaneInv, HolderOwnsLane, RunLane
    <3>7. RunningRowHolds'
      BY <3>1, <3>2, <3>3, <3>4 DEF LaneInv, RunningRowHolds, RunLane
    <3>8. RunningJobHolds'
      BY <3>1, <3>3, <3>5 DEF LaneInv, RunningJobHolds
    <3> QED
      BY <1>0, <3>6, <3>7, <3>8 DEF LaneInv
  <2> QED
    BY <2>1, <2>2
<1>4. ASSUME NEW r \in RunIds, NEW s \in JobStates \ {"running"},
             SetStatus(r, s)
      PROVE  LaneInv'
  <2>1. /\ UNCHANGED <<nextRun, runJob, holder>>
        /\ \A q \in RunIds : runStatus'[q] = "running" => runStatus[q] = "running"
        /\ \A k \in Jobs : jobState'[k] = "running" => jobState[k] = "running"
    BY <1>0, <1>4 DEF SetStatus, TypeOK
  <2> QED
    BY <1>0, <2>1 DEF LaneInv, HolderOwnsLane, RunningRowHolds, RunningJobHolds,
       RunLane
<1>5. ASSUME NEW i \in 1 .. Len(dead), ReplayDeadLetter(i) PROVE LaneInv'
  <2>1. /\ UNCHANGED <<nextRun, runJob, holder, runStatus>>
        /\ \A k \in Jobs : jobState'[k] = "running" => jobState[k] = "running"
    BY <1>0, <1>5 DEF ReplayDeadLetter, Requeue, TypeOK
  <2> QED
    BY <1>0, <2>1 DEF LaneInv, HolderOwnsLane, RunningRowHolds, RunningJobHolds,
       RunLane
<1>6. ASSUME UNCHANGED <<nextRun, runJob, holder, runStatus, jobState>>
      PROVE  LaneInv'
  BY <1>0, <1>6 DEF LaneInv, HolderOwnsLane, RunningRowHolds, RunningJobHolds,
     RunLane
<1>7. ASSUME NEW r \in RunIds, Abandon(r) PROVE LaneInv'
  BY <1>6, <1>7 DEF Abandon
<1>8. CASE Crash
  BY <1>6, <1>8 DEF Crash
<1>9. CASE Tick
  BY <1>6, <1>9 DEF Tick
<1>10. CASE UNCHANGED vars
  BY <1>6, <1>10 DEF vars
<1>11. ASSUME NEW r \in RunIds, AckRun(r) PROVE LaneInv'
  BY <1>4, <1>11 DEF AckRun, JobStates
<1>12. ASSUME NEW r \in RunIds, NEW s \in MarkStates, MarkRunStatus(r, s)
       PROVE  LaneInv'
  BY <1>4, <1>12 DEF MarkRunStatus
<1> QED
  BY <1>1, <1>2, <1>3, <1>5, <1>7, <1>8, <1>9, <1>10, <1>11, <1>12 DEF Next

\* Whatever crashes or is cancelled, a row or a job shown as running holds its
\* lane, so the sweep of _cleanup_stale_lanes_unlocked can still find it.
THEOREM RunningIsSweepable == Spec => []RunningHoldsLane
<1>1. LaneInv => RunningHoldsLane
  BY DEF LaneInv, RunningRowHolds, RunningJobHolds, RunningHoldsLane
<1> QED
  BY <1>1, InitLaneInv, NextLaneInv, PTL DEF Spec

-----------------------------------------------------------------------------
(* Executors.  Nothing below holds unless an executor is killed before its *)
(* lane can be swept (TimeoutBelowStale).                                  *)

\* A live executor holds its lane, and is younger than its timeout.
LiveHolds ==
  \A r \in alive :
    r <= nextRun /\ holder[RunLane(r)] = r /\ age[r] <= ExecTimeout

LiveInv == LaneInv /\ LiveHolds

\* The sweep never takes a lane from a live executor.
LEMMA SweepSparesTheLiving ==
  ASSUME TimeoutBelowStale, LiveInv, NEW r \in alive
  PROVE  SweptHolder[RunLane(r)] = r
<1>1. r \in RunIds /\ RunLane(r) \in Lanes /\ holder[RunLane(r)] = r
  BY RunplaneAssumption
     DEF LiveInv, LaneInv, TypeOK, LiveHolds, RunLane, RunplaneAssumption
<1>2. AgeCap \in Nat /\ age[r] \in Nat /\ age[r] <= ExecTimeout
  BY <1>1, RunplaneAssumption
     DEF LiveInv, LaneInv, TypeOK, LiveHolds, RunplaneAssumption, AgeCap
<1>3. ~Stale(RunLane(r))
  BY <1>1, <1>2, RunplaneAssumption
     DEF Stale, TimeoutBelowStale, RunplaneAssumption
<1> QED
  BY <1>1, <1>3 DEF SweptHolder

LEMMA InitLiveInv == Init => LiveInv
  BY InitLaneInv DEF Init, LiveInv, LiveHolds

LEMMA NextLiveInv ==
  ASSUME TimeoutBelowStale, LiveInv, [Next]_vars
  PROVE  LiveInv'
<1> USE RunplaneAssumption DEF RunplaneAssumption
<1>0. TypeOK /\ LaneInv /\ LaneInv' /\ alive \subseteq RunIds
  BY NextLaneInv DEF LiveInv, LaneInv, TypeOK
<1>1. CASE EnsureJob
  BY <1>0, <1>1, SweepSparesTheLiving
     DEF EnsureJob, LiveInv, LiveHolds, RunLane
<1>2. ASSUME NEW j \in Jobs, BeginRun(j) PROVE LiveInv'
  <2> DEFINE n == nextRun + 1
             l == LaneOf[j]
  <2>1. /\ n \in RunIds /\ l \in Lanes
        /\ SweptHolder[l] = NoRun
        /\ nextRun' = n
        /\ runJob' = [runJob EXCEPT ![n] = j]
        /\ age' = [age EXCEPT ![n] = 0]
        /\ holder' = [SweptHolder EXCEPT ![l] = n]
        /\ alive' = alive \cup {n}
    BY <1>0, <1>2 DEF BeginRun, TypeOK, RunIds
  <2>2. /\ holder'[l] = n /\ runJob'[n] = j /\ age'[n] = 0
        /\ nextRun \in Nat /\ n = nextRun + 1 /\ l = LaneOf[j]
    BY <1>0, <2>1, SweepType DEF TypeOK
  <2>3. \A m \in Lanes : m # l => holder'[m] = SweptHolder[m]
    BY <2>1, SweepType
  <2>4. \A q \in RunIds : q # n => runJob'[q] = runJob[q] /\ age'[q] = age[q]
    BY <1>0, <2>1 DEF TypeOK
  <2> HIDE DEF n, l
  <2>5. ASSUME NEW r \in alive'
        PROVE  r <= nextRun' /\ holder'[LaneOf[runJob'[r]]] = r /\ age'[r] <= ExecTimeout
    <3>1. CASE r = n
      BY <2>1, <2>2, <3>1 DEF RunIds
    <3>2. CASE r # n
      <4>1. r \in alive /\ r \in RunIds /\ r # NoRun
        BY <1>0, <2>1, <3>2 DEF RunIds, NoRun
      <4>2. r <= nextRun /\ SweptHolder[RunLane(r)] = r /\ age[r] <= ExecTimeout
        BY <4>1, SweepSparesTheLiving DEF LiveInv, LiveHolds
      <4>3. RunLane(r) \in Lanes /\ RunLane(r) # l
        BY <1>0, <2>1, <4>1, <4>2 DEF RunLane, TypeOK
      <4>4. LaneOf[runJob'[r]] = RunLane(r)
        BY <2>4, <3>2, <4>1 DEF RunLane
      <4> QED
        BY <2>1, <2>2, <2>3, <2>4, <3>2, <4>1, <4>2, <4>3, <4>4 DEF RunIds
    <3> QED
      BY <3>1, <3>2
  <2> QED
    BY <1>0, <2>5 DEF LiveInv, LiveHolds, RunLane
<1>3. ASSUME NEW r \in RunIds, NEW o \in Outcomes, CompleteRun(r, o)
      PROVE  LiveInv'
  <2>1. /\ UNCHANGED <<nextRun, runJob, age>>
        /\ alive' = alive \ {r} /\ r \in alive
        /\ holder' = holder \/ holder' = ReleaseLane(r)
    BY <1>3 DEF CompleteRun, ReportOutcome
  <2>2. RunLane(r) \in Lanes /\ holder[RunLane(r)] = r
    BY <1>0, <2>1 DEF RunLane, TypeOK, LiveInv, LiveHolds
  <2>3. ASSUME NEW q \in alive'
        PROVE  holder'[RunLane(q)] = q
    <3>1. holder[RunLane(q)] = q /\ q # r
      BY <2>1 DEF LiveInv, LiveHolds
    <3>2. RunLane(q) # RunLane(r)
      BY <2>2, <3>1
    <3>3. RunLane(q) \in Lanes
      BY <1>0, <2>1 DEF RunLane, TypeOK
    <3> QED
      BY <1>0, <2>1, <2>2, <3>1, <3>2, <3>3 DEF ReleaseLane, TypeOK
  <2> QED
    BY <1>0, <2>1, <2>3 DEF LiveInv, LiveHolds, RunLane
<1>4. ASSUME NEW r \in RunIds, Abandon(r) PROVE LiveInv'
  BY <1>0, <1>4 DEF Abandon, LiveInv, LiveHolds, RunLane
<1>5. CASE Crash
  BY <1>0, <1>5 DEF Crash, LiveInv, LiveHolds
<1>6. CASE Tick
  <2>1. \A r \in alive : age'[r] <= ExecTimeout
    <3> SUFFICES ASSUME NEW r \in alive PROVE age'[r] <= ExecTimeout
      OBVIOUS
    <3>1. r \in RunIds /\ age[r] < ExecTimeout
      BY <1>0, <1>6 DEF Tick
    <3>2. AgeCap \in Nat /\ age[r] \in Nat
      BY <1>0, <3>1 DEF TypeOK, AgeCap
    <3>3. age'[r] = IF r \in Aging /\ age[r] < AgeCap THEN age[r] + 1 ELSE age[r]
      BY <1>6, <3>1 DEF Tick
    <3> QED
      BY <3>1, <3>2, <3>3
  <2> QED
    BY <1>0, <1>6, <2>1 DEF Tick, LiveInv, LiveHolds, RunLane
<1>7. ASSUME UNCHANGED <<nextRun, runJob, age, holder, alive>> PROVE LiveInv'
  BY <1>0, <1>7 DEF LiveInv, LiveHolds, RunLane
<1>8. ASSUME NEW i \in 1 .. Len(dead), ReplayDeadLetter(i) PROVE LiveInv'
  BY <1>7, <1>8 DEF ReplayDeadLetter
<1>9. ASSUME NEW r \in RunIds, AckRun(r) PROVE LiveInv'
  BY <1>7, <1>9 DEF AckRun, SetStatus
<1>10. ASSUME NEW r \in RunIds, NEW s \in MarkStates, MarkRunStatus(r, s)
       PROVE  LiveInv'
  BY <1>7, <1>10 DEF MarkRunStatus, SetStatus
<1>11. CASE UNCHANGED vars
  BY <1>7, <1>11 DEF vars
<1> QED
  BY <1>1, <1>2, <1>3, <1>4, <1>5, <1>6, <1>8, <1>9, <1>10, <1>11 DEF Next

\* One live executor per lane: the lane's holder.
LEMMA LiveInvExcludes ==
  ASSUME LiveInv
  PROVE  ExecutorExclusion
  BY DEF LiveInv, LiveHolds, ExecutorExclusion

\* "Per-lane serialization (one active run per lane)", whatever is cancelled,
\* crashes or is swept, once executors die before their lanes go stale.
THEOREM OneExecutorPerLane ==
  ASSUME TimeoutBelowStale
  PROVE  Spec => []ExecutorExclusion
<1>1. LiveInv /\ [Next]_vars => LiveInv'
  BY NextLiveInv
<1>2. LiveInv => ExecutorExclusion
  BY LiveInvExcludes
<1> QED
  BY <1>1, <1>2, InitLiveInv, PTL DEF Spec

-----------------------------------------------------------------------------
(* The runplane implements LaneMutex                                       *)

\* Steps that move no executor are stutters of LaneMutex.
LEMMA MutexStutter ==
  ASSUME UNCHANGED <<nextRun, runJob, alive>>
  PROVE  UNCHANGED Mutex!vars
  BY DEF Mutex!vars, Inside, RunLane

\* An executor that goes away leaves its lane.
LEMMA MutexLeave ==
  ASSUME LiveInv, UNCHANGED <<nextRun, runJob>>,
         NEW r \in alive, alive' = alive \ {r}
  PROVE  Mutex!Leave(RunLane(r))
<1>1. \A l \in Lanes : {q \in alive' : RunLane(q) = l} =
                        IF l = RunLane(r) THEN {} ELSE Inside(l)
  BY DEF LiveInv, LiveHolds, Inside
<1>2. [l \in Lanes |-> Inside(l)]' =
        [[l \in Lanes |-> Inside(l)] EXCEPT ![RunLane(r)] = {}]
  BY <1>1 DEF Inside, RunLane
<1> QED
  BY <1>2 DEF Mutex!Leave

\* A granted begin_run enters a lane that is empty.
LEMMA MutexEnter ==
  ASSUME TimeoutBelowStale, LiveInv, NEW j \in Jobs, BeginRun(j)
  PROVE  \E l \in Lanes, r \in RunIds : Mutex!Enter(l, r)
<1> DEFINE n == nextRun + 1
           k == LaneOf[j]
<1>0. TypeOK
  BY DEF LiveInv, LaneInv
<1>1. /\ n \in RunIds /\ k \in Lanes
      /\ SweptHolder[k] = NoRun
      /\ nextRun' = n
      /\ runJob' = [runJob EXCEPT ![n] = j]
      /\ alive' = alive \cup {n}
  BY <1>0, RunplaneAssumption
     DEF BeginRun, TypeOK, RunIds, RunplaneAssumption
<1>2. \A q \in alive : q \in RunIds /\ q # n /\ RunLane(q) # k
  BY <1>0, <1>1, SweepSparesTheLiving
     DEF TypeOK, RunIds, NoRun, LiveInv, LiveHolds
<1>3. \A q \in RunIds : LaneOf[runJob'[q]] = IF q = n THEN k ELSE RunLane(q)
  BY <1>0, <1>1 DEF TypeOK, RunLane
<1>4. Inside(k) = {}
  BY <1>2 DEF Inside
<1>5. \A l \in Lanes : {q \in alive' : LaneOf[runJob'[q]] = l} =
                        IF l = k THEN {n} ELSE Inside(l)
  BY <1>1, <1>2, <1>3 DEF Inside
<1>6. [l \in Lanes |-> Inside(l)]' =
        [[l \in Lanes |-> Inside(l)] EXCEPT ![k] = {n}]
  BY <1>5 DEF Inside, RunLane
<1>7. n \notin 1 .. nextRun /\ 1 .. nextRun' = (1 .. nextRun) \cup {n}
  BY <1>0, <1>1 DEF TypeOK
<1>8. Mutex!Enter(k, n)
  BY <1>1, <1>4, <1>6, <1>7 DEF Mutex!Enter
<1> QED
  BY <1>1, <1>8

LEMMA MutexStep ==
  ASSUME TimeoutBelowStale, LiveInv, [Next]_vars
  PROVE  [Mutex!Next]_(Mutex!vars)
<1>0. TypeOK /\ alive \subseteq RunIds
  BY DEF LiveInv, LaneInv, TypeOK
<1>1. ASSUME NEW j \in Jobs, BeginRun(j) PROVE Mutex!Next
  BY <1>1, MutexEnter DEF Mutex!Next
<1>2. ASSUME NEW r \in alive, UNCHANGED <<nextRun, runJob>>,
             alive' = alive \ {r}
      PROVE  Mutex!Next
  <2>1. RunLane(r) \in Lanes
    BY <1>0, RunplaneAssumption DEF TypeOK, RunLane, RunplaneAssumption
  <2> QED
    BY <1>2, <2>1, MutexLeave DEF Mutex!Next
<1>3. ASSUME NEW r \in RunIds, NEW o \in Outcomes, CompleteRun(r, o)
      PROVE  Mutex!Next
  BY <1>2, <1>3 DEF CompleteRun
<1>4. ASSUME NEW r \in RunIds, Abandon(r) PROVE Mutex!Next
  BY <1>2, <1>4 DEF Abandon
<1>5. CASE Crash
  <2>1. [l \in Lanes |-> Inside(l)]' = [l \in Lanes |-> {}]
    BY <1>5 DEF Crash, Inside
  <2>2. Mutex!Restart
    BY <1>5, <2>1 DEF Crash, Mutex!Restart
  <2> QED
    BY <2>2 DEF Mutex!Next
<1>6. CASE EnsureJob \/ Tick \/ UNCHANGED vars
  BY <1>6, MutexStutter DEF EnsureJob, Tick, vars
<1>7. ASSUME NEW r \in RunIds, NEW s, SetStatus(r, s)
      PROVE  UNCHANGED Mutex!vars
  BY <1>7, MutexStutter DEF SetStatus
<1>8. ASSUME NEW i \in 1 .. Len(dead), ReplayDeadLetter(i)
      PROVE  UNCHANGED Mutex!vars
  BY <1>8, MutexStutter DEF ReplayDeadLetter
<1> QED
  BY <1>1, <1>3, <1>4, <1>5, <1>6, <1>7, <1>8
     DEF Next, AckRun, MarkRunStatus

\* The runplane is a mutual exclusion of executors per lane: it lets an
\* executor into a lane only when the lane is empty, and no run twice.
THEOREM RunplaneImplementsMutex ==
  ASSUME TimeoutBelowStale
  PROVE  Spec => ImplementsMutex
<1>1. Init => Mutex!Init
  BY DEF Init, Mutex!Init, Inside
<1>2. LiveInv /\ [Next]_vars => [Mutex!Next]_(Mutex!vars)
  BY MutexStep
<1>3. LiveInv /\ [Next]_vars => LiveInv'
  BY NextLiveInv
<1> QED
  BY <1>1, <1>2, <1>3, InitLiveInv, PTL DEF Spec, Mutex!Spec, ImplementsMutex

-----------------------------------------------------------------------------
(* Dead letters                                                            *)

\* What each letter says of its run and its job.
LetterHolds(d) ==
  /\ d.run <= nextRun
  /\ runJob[d.run] = d.job
  /\ d.run \notin alive
  /\ MaxAttempts[d.job] <= d.failures
  /\ d.failures <= failures[d.job]

\* An earlier letter is of another run and, within a job, of fewer failures.
Precedes(d, e) ==
  d.run # e.run /\ (d.job = e.job => d.failures < e.failures)

AliveBegun == \A r \in alive : r <= nextRun

LettersHold == \A i \in 1 .. Len(dead) : LetterHolds(dead[i])

LettersInOrder ==
  \A i, k \in 1 .. Len(dead) : k < i => Precedes(dead[k], dead[i])

CapKept == Len(dead) <= MaxDead

DeadInv == TypeOK /\ AliveBegun /\ LettersHold /\ LettersInOrder /\ CapKept

\* The elements of a sequence after one was dropped are where they were, or
\* one place before.
LEMMA RemoveAtElements ==
  ASSUME NEW S, NEW s \in Seq(S), NEW i \in 1 .. Len(s)
  PROVE  /\ Len(RemoveAt(s, i)) = Len(s) - 1
         /\ \A k \in 1 .. (Len(s) - 1) :
              RemoveAt(s, i)[k] = IF k < i THEN s[k] ELSE s[k + 1]
<1> DEFINE a == SubSeq(s, 1, i - 1)
           b == SubSeq(s, i + 1, Len(s))
<1>1. /\ a \in Seq(S) /\ Len(a) = i - 1
      /\ \A k \in 1 .. (i - 1) : a[k] = s[k]
  OBVIOUS
<1>2. /\ b \in Seq(S) /\ Len(b) = Len(s) - i
      /\ \A k \in 1 .. (Len(s) - i) : b[k] = s[i + k]
  OBVIOUS
<1>3. RemoveAt(s, i) = a \o b
  BY DEF RemoveAt
<1> HIDE DEF a, b
<1>4. /\ Len(a \o b) = Len(a) + Len(b)
      /\ \A k \in 1 .. (Len(a) + Len(b)) :
           (a \o b)[k] = IF k <= Len(a) THEN a[k] ELSE b[k - Len(a)]
  BY <1>1, <1>2, ConcatProperties
<1>5. Len(s) \in Nat
  OBVIOUS
<1>6. ASSUME NEW k \in 1 .. (Len(s) - 1)
      PROVE  (a \o b)[k] = IF k < i THEN s[k] ELSE s[k + 1]
  <2>1. CASE k < i
    BY <1>1, <1>2, <1>4, <1>5, <2>1
  <2>2. CASE ~(k < i)
    <3>1. k - Len(a) \in 1 .. (Len(s) - i) /\ i + (k - Len(a)) = k + 1
      BY <1>1, <1>5, <2>2
    <3> QED
      <4>1. k \in 1 .. (Len(a) + Len(b)) /\ ~(k <= Len(a))
        BY <1>1, <1>2, <1>5, <2>2
      <4>2. (a \o b)[k] = b[k - Len(a)]
        BY <1>4, <4>1
      <4> QED
        BY <1>2, <2>2, <3>1, <4>2
  <2> QED
    BY <2>1, <2>2
<1> QED
  BY <1>1, <1>2, <1>3, <1>4, <1>5, <1>6

\* The list after a failure: the old letters, without the first one when the
\* cap was reached, and then the new one.
LEMMA PushDeadElements ==
  ASSUME dead \in Seq(DeadRow), NEW row \in DeadRow
  PROVE  \E n \in {0, 1} :
           /\ n <= Len(dead) /\ (n = 1 <=> Len(dead) >= MaxDead)
           /\ Len(PushDead(row)) = Len(dead) + 1 - n
           /\ PushDead(row)[Len(dead) + 1 - n] = row
           /\ \A k \in 1 .. (Len(dead) - n) : PushDead(row)[k] = dead[k + n]
<1>1. CASE Len(dead) >= MaxDead
  <2>1. dead # <<>>
    BY <1>1, RunplaneAssumption DEF RunplaneAssumption
  <2>2. /\ Tail(dead) \in Seq(DeadRow) /\ Len(Tail(dead)) = Len(dead) - 1
        /\ \A k \in 1 .. (Len(dead) - 1) : Tail(dead)[k] = dead[k + 1]
    BY <2>1
  <2>3. /\ Len(PushDead(row)) = Len(dead)
        /\ PushDead(row)[Len(dead)] = row
        /\ \A k \in 1 .. (Len(dead) - 1) : PushDead(row)[k] = dead[k + 1]
    BY <1>1, <2>1, <2>2 DEF PushDead
  <2>4. 1 <= Len(dead)
    BY <2>1
  <2> QED
    BY <1>1, <2>3, <2>4
<1>2. CASE ~(Len(dead) >= MaxDead)
  <2>1. /\ Len(PushDead(row)) = Len(dead) + 1
        /\ PushDead(row)[Len(dead) + 1] = row
        /\ \A k \in 1 .. Len(dead) : PushDead(row)[k] = dead[k]
    BY <1>2 DEF PushDead
  <2> QED
    BY <1>2, <2>1
<1> QED
  BY <1>1, <1>2

LEMMA InitDeadInv == Init => DeadInv
<1> SUFFICES ASSUME Init PROVE DeadInv
  OBVIOUS
<1> QED
  BY InitTypeOK, RunplaneAssumption
     DEF Init, DeadInv, AliveBegun, LettersHold, LettersInOrder, CapKept,
         RunplaneAssumption

\* A failure that exhausts its job's attempts adds the latest letter.
LEMMA ReportLetters ==
  ASSUME DeadInv, NEW r \in alive, NEW o \in Outcomes,
         CompleteRun(r, o), ReportOutcome(r, o)
  PROVE  LettersHold' /\ LettersInOrder' /\ CapKept'
<1> PICK j : j = runJob[r]
  OBVIOUS
<1> PICK row : row = [run |-> r, job |-> j, failures |-> failures[j] + 1]
  OBVIOUS
<1>1. /\ r \in RunIds /\ r <= nextRun /\ j \in Jobs /\ failures[j] \in Nat
      /\ dead \in Seq(DeadRow)
      /\ \A i \in 1 .. Len(dead) : dead[i] \in DeadRow
      /\ MaxAttempts[j] \in Nat
  BY RunplaneAssumption
     DEF DeadInv, TypeOK, AliveBegun, RunplaneAssumption
<1>2. row \in DeadRow
  BY <1>1 DEF DeadRow
<1>3. /\ UNCHANGED <<nextRun, runJob>> /\ alive' = alive \ {r}
      /\ failures' = [failures EXCEPT ![j] = IF o.ok THEN @ ELSE @ + 1]
      /\ dead' = IF Exhausted(j, o) THEN PushDead(row) ELSE dead
  BY DEF CompleteRun, ReportOutcome
<1>4. \A k \in Jobs : failures[k] \in Nat /\ failures'[k] \in Nat
                      /\ failures[k] <= failures'[k]
  BY <1>3 DEF DeadInv, TypeOK
<1>5. ASSUME NEW d \in DeadRow, LetterHolds(d) PROVE LetterHolds(d)'
  BY <1>3, <1>4, <1>5 DEF LetterHolds, DeadRow
<1>6. CASE ~Exhausted(j, o)
  BY <1>1, <1>3, <1>5, <1>6
     DEF DeadInv, LettersHold, LettersInOrder, Precedes, CapKept
<1>7. CASE Exhausted(j, o)
  <2>1. /\ failures'[j] = failures[j] + 1
        /\ MaxAttempts[j] <= failures[j] + 1
    BY <1>1, <1>3, <1>7 DEF Exhausted, DeadInv, TypeOK
  <2>2. LetterHolds(row)'
    BY <1>1, <1>3, <2>1 DEF LetterHolds
  <2>3. ASSUME NEW i \in 1 .. Len(dead) PROVE Precedes(dead[i], row)
    <3>1. dead[i] \in DeadRow /\ LetterHolds(dead[i])
      BY <1>1 DEF DeadInv, LettersHold
    <3>2. dead[i].failures \in Nat /\ dead[i].run # r
      BY <3>1 DEF LetterHolds, DeadRow
    <3>3. dead[i].job = j => dead[i].failures < failures[j] + 1
      BY <1>1, <3>1, <3>2 DEF LetterHolds
    <3> QED
      BY <3>2, <3>3 DEF Precedes
  <2>4. PICK n \in {0, 1} :
           /\ n <= Len(dead) /\ (n = 1 <=> Len(dead) >= MaxDead)
           /\ Len(dead') = Len(dead) + 1 - n
           /\ dead'[Len(dead) + 1 - n] = row
           /\ \A k \in 1 .. (Len(dead) - n) : dead'[k] = dead[k + n]
    BY <1>1, <1>2, <1>3, <1>7, PushDeadElements
  <2>5. LettersHold'
    <3> SUFFICES ASSUME NEW i \in 1 .. Len(dead') PROVE LetterHolds(dead[i])'
      BY DEF LettersHold
    <3>1. CASE i = Len(dead) + 1 - n
      BY <2>2, <2>4, <3>1
    <3>2. CASE i # Len(dead) + 1 - n
      <4>1. i \in 1 .. (Len(dead) - n) /\ i + n \in 1 .. Len(dead)
        BY <1>1, <2>4, <3>2
      <4>2. dead'[i] = dead[i + n]
        BY <2>4, <4>1
      <4>3. dead[i + n] \in DeadRow /\ LetterHolds(dead[i + n])
        BY <1>1, <4>1 DEF DeadInv, LettersHold
      <4> QED
        BY <1>3, <1>4, <4>2, <4>3 DEF LetterHolds, DeadRow
    <3> QED
      BY <3>1, <3>2
  <2>6. LettersInOrder'
    <3> SUFFICES ASSUME NEW i \in 1 .. Len(dead'), NEW k \in 1 .. Len(dead'),
                        k < i
                 PROVE  Precedes(dead'[k], dead'[i])
      BY DEF LettersInOrder, Precedes
    <3>1. /\ k \in 1 .. (Len(dead) - n) /\ k + n \in 1 .. Len(dead)
          /\ dead'[k] = dead[k + n]
      BY <1>1, <2>4
    <3>2. CASE i = Len(dead) + 1 - n
      BY <2>3, <2>4, <3>1, <3>2
    <3>3. CASE i # Len(dead) + 1 - n
      <4>1. Len(dead) \in Nat /\ Len(dead') = Len(dead) + 1 - n
        BY <1>1, <2>4
      <4>2. i \in 1 .. (Len(dead) - n) /\ i + n \in 1 .. Len(dead) /\ k + n < i + n
        BY <3>3, <4>1
      <4>3. dead'[i] = dead[i + n]
        BY <2>4, <4>2
      <4> QED
        BY <3>1, <4>2, <4>3 DEF DeadInv, LettersInOrder
    <3> QED
      BY <3>2, <3>3
  <2>7. CapKept'
    BY <1>1, <2>4, RunplaneAssumption DEF DeadInv, CapKept, RunplaneAssumption
  <2> QED
    BY <2>5, <2>6, <2>7
<1> QED
  BY <1>6, <1>7

\* A replay takes one letter out and leaves the others in order.
LEMMA ReplayLetters ==
  ASSUME DeadInv, NEW i \in 1 .. Len(dead), ReplayDeadLetter(i)
  PROVE  LettersHold' /\ LettersInOrder' /\ CapKept'
<1>1. /\ UNCHANGED <<nextRun, runJob, alive, failures>>
      /\ dead' = RemoveAt(dead, i) /\ dead \in Seq(DeadRow)
  BY DEF ReplayDeadLetter, DeadInv, TypeOK
<1>2. /\ Len(dead') = Len(dead) - 1
      /\ \A k \in 1 .. (Len(dead) - 1) :
           dead'[k] = IF k < i THEN dead[k] ELSE dead[k + 1]
  BY <1>1, RemoveAtElements
<1>3. Len(dead) \in Nat
  BY <1>1
<1> DEFINE from(k) == IF k < i THEN k ELSE k + 1
<1>4. \A k \in 1 .. Len(dead') :
        from(k) \in 1 .. Len(dead) /\ dead'[k] = dead[from(k)]
  BY <1>2, <1>3
<1>5. \A k, m \in 1 .. Len(dead') : k < m => from(k) < from(m)
  BY <1>2, <1>3
<1> HIDE DEF from
<1>6. LettersHold'
  BY <1>1, <1>4 DEF DeadInv, LettersHold, LetterHolds
<1>7. LettersInOrder'
  BY <1>4, <1>5 DEF DeadInv, LettersInOrder, Precedes
<1>8. CapKept'
  BY <1>2, <1>3, RunplaneAssumption DEF DeadInv, CapKept, RunplaneAssumption
<1> QED
  BY <1>6, <1>7, <1>8

LEMMA NextDeadInv == DeadInv /\ [Next]_vars => DeadInv'
<1> SUFFICES ASSUME DeadInv, [Next]_vars PROVE DeadInv'
  OBVIOUS
<1>0. TypeOK /\ TypeOK' /\ nextRun \in Nat /\ alive \subseteq RunIds
      /\ \A r \in RunIds : r \in Nat
  <2>1. TypeOK /\ TypeOK'
    BY NextTypeOK DEF DeadInv
  <2> QED
    BY <2>1 DEF TypeOK, RunIds
<1>1. ASSUME UNCHANGED <<nextRun, runJob, failures, dead>>,
             alive' \subseteq alive
      PROVE  DeadInv'
  BY <1>0, <1>1
     DEF DeadInv, AliveBegun, LettersHold, LettersInOrder, LetterHolds, Precedes,
         CapKept
<1>2. CASE EnsureJob \/ Crash \/ Tick
  BY <1>1, <1>2 DEF EnsureJob, Crash, Tick
<1>3. CASE UNCHANGED vars
  BY <1>1, <1>3 DEF vars
<1>4. ASSUME NEW r \in RunIds, Abandon(r) PROVE DeadInv'
  BY <1>1, <1>4 DEF Abandon
<1>5. ASSUME NEW r \in RunIds, NEW s, SetStatus(r, s) PROVE DeadInv'
  BY <1>1, <1>5 DEF SetStatus
<1>6. ASSUME NEW j \in Jobs, BeginRun(j) PROVE DeadInv'
  <2>1. /\ nextRun' = nextRun + 1 /\ alive' = alive \cup {nextRun + 1}
        /\ UNCHANGED <<failures, dead>>
        /\ \A r \in RunIds : r # nextRun + 1 => runJob'[r] = runJob[r]
    BY <1>0, <1>6 DEF BeginRun, TypeOK
  <2>2. AliveBegun'
    BY <1>0, <2>1 DEF DeadInv, AliveBegun
  <2>3. LettersHold'
    <3> SUFFICES ASSUME NEW i \in 1 .. Len(dead) PROVE LetterHolds(dead[i])'
      BY <2>1 DEF LettersHold
    <3>1. LetterHolds(dead[i]) /\ dead[i].run \in RunIds
      <4>1. dead[i] \in DeadRow
        BY <1>0 DEF TypeOK
      <4> QED
        BY <4>1 DEF DeadInv, LettersHold, DeadRow
    <3>2. dead[i].run # nextRun + 1
      BY <1>0, <3>1 DEF LetterHolds
    <3> QED
      BY <1>0, <2>1, <3>1, <3>2 DEF LetterHolds
  <2>4. LettersInOrder'
    BY <2>1 DEF DeadInv, LettersInOrder, Precedes
  <2> QED
    BY <1>0, <2>1, <2>2, <2>3, <2>4 DEF DeadInv, CapKept
<1>7. ASSUME NEW r \in RunIds, NEW o \in Outcomes, CompleteRun(r, o)
      PROVE  DeadInv'
  <2>1. CASE ~Retained(r)
    BY <1>1, <1>7, <2>1 DEF CompleteRun
  <2>2. CASE Retained(r)
    <3>1. r \in alive /\ ReportOutcome(r, o)
      BY <1>7, <2>2 DEF CompleteRun
    <3>2. AliveBegun'
      BY <1>7 DEF CompleteRun, DeadInv, AliveBegun
    <3> QED
      BY <1>0, <1>7, <3>1, <3>2, ReportLetters DEF DeadInv
  <2> QED
    BY <2>1, <2>2
<1>8. ASSUME NEW i \in 1 .. Len(dead), ReplayDeadLetter(i) PROVE DeadInv'
  <2>1. AliveBegun'
    BY <1>8 DEF ReplayDeadLetter, DeadInv, AliveBegun
  <2> QED
    BY <1>0, <1>8, <2>1, ReplayLetters DEF DeadInv
<1> QED
  BY <1>2, <1>3, <1>4, <1>5, <1>6, <1>7, <1>8
     DEF Next, AckRun, MarkRunStatus

\* However completions, replays, evictions by the cap, cancellations and
\* crashes interleave, a letter names a finished run that exhausted its job,
\* and a job's letters are in the order of its failures: the last match that
\* replay_dead_letter takes is the most recent failure.
THEOREM LettersAreOrdered == Spec => []DeadLettersOrdered
<1>1. DeadInv => DeadLettersOrdered
  <2> SUFFICES ASSUME DeadInv PROVE DeadLettersOrdered
    OBVIOUS
  <2>1. Len(dead) \in Nat
    BY DEF DeadInv, TypeOK
  <2> QED
    BY <2>1 DEF DeadInv, LettersHold, LetterHolds, LettersInOrder, Precedes,
       DeadLettersOrdered
<1> QED
  BY <1>1, InitDeadInv, NextDeadInv, PTL DEF Spec

\* What was in the list and is there no longer left by a replay that made its
\* job due, or was the oldest letter of a full list that a new one displaced.
LEMMA LetterLeaves ==
  ASSUME DeadInv, [Next]_vars, NEW i \in 1 .. Len(dead),
         dead[i] \notin {dead'[k] : k \in 1 .. Len(dead')}
  PROVE  \/ jobState'[dead[i].job] = "due" /\ Len(dead') = Len(dead) - 1
         \/ i = 1 /\ Len(dead) = MaxDead /\ Len(dead') = MaxDead
<1>0. /\ dead \in Seq(DeadRow) /\ Len(dead) \in Nat /\ dead[i] \in DeadRow
      /\ jobState \in [Jobs -> JobStates] /\ failures \in [Jobs -> Nat]
      /\ runJob \in [RunIds -> Jobs]
  BY DEF DeadInv, TypeOK
<1>1. dead' # dead
  OBVIOUS
<1>2. CASE \E m \in 1 .. Len(dead) : ReplayDeadLetter(m)
  <2>1. PICK m \in 1 .. Len(dead) : ReplayDeadLetter(m)
    BY <1>2
  <2>2. /\ Len(dead') = Len(dead) - 1
        /\ \A k \in 1 .. (Len(dead) - 1) :
             dead'[k] = IF k < m THEN dead[k] ELSE dead[k + 1]
    BY <1>0, <2>1, RemoveAtElements DEF ReplayDeadLetter
  <2>3. i = m
    <3>1. CASE i < m
      <4>1. i \in 1 .. (Len(dead) - 1) /\ i \in 1 .. Len(dead')
        BY <1>0, <2>2, <3>1
      <4> QED
        BY <2>2, <3>1, <4>1
    <3>2. CASE i > m
      <4>1. i - 1 \in 1 .. (Len(dead) - 1) /\ ~(i - 1 < m) /\ (i - 1) + 1 = i
        BY <1>0, <3>2
      <4> QED
        BY <2>2, <4>1
    <3> QED
      BY <3>1, <3>2
  <2>4. jobState'[dead[i].job] = "due"
    BY <1>0, <2>1, <2>3 DEF ReplayDeadLetter, Requeue, DeadRow
  <2> QED
    BY <2>2, <2>4
<1>3. CASE \E r \in RunIds, o \in Outcomes : CompleteRun(r, o)
  <2>1. PICK r \in RunIds, o \in Outcomes : CompleteRun(r, o)
    BY <1>3
  <2>2. PICK row : row = [run |-> r, job |-> runJob[r],
                          failures |-> failures[runJob[r]] + 1]
    OBVIOUS
  <2>3. row \in DeadRow
    BY <1>0, <2>2 DEF DeadRow
  <2>4. dead' = PushDead(row)
    BY <1>1, <2>1, <2>2 DEF CompleteRun, ReportOutcome
  <2>5. PICK n \in {0, 1} :
           /\ n <= Len(dead) /\ (n = 1 <=> Len(dead) >= MaxDead)
           /\ Len(dead') = Len(dead) + 1 - n
           /\ \A k \in 1 .. (Len(dead) - n) : dead'[k] = dead[k + n]
    BY <1>0, <2>3, <2>4, PushDeadElements
  <2>6. ~(i - n \in 1 .. (Len(dead) - n))
    <3> SUFFICES ASSUME i - n \in 1 .. (Len(dead) - n) PROVE FALSE
      OBVIOUS
    <3>1. dead'[i - n] = dead[i] /\ i - n \in 1 .. Len(dead')
      BY <1>0, <2>5
    <3> QED
      BY <3>1
  <2>7. i = 1 /\ n = 1
    BY <1>0, <2>6
  <2> QED
    BY <1>0, <2>5, <2>7, RunplaneAssumption
       DEF DeadInv, CapKept, RunplaneAssumption
<1> QED
  BY <1>1, <1>2, <1>3
     DEF Next, vars, EnsureJob, BeginRun, Abandon, Crash, AckRun, MarkRunStatus,
         SetStatus, Tick

\* No call makes a dead letter disappear unnoticed: it leaves by its replay,
\* which makes its job due, or because newer ones fill the list to its cap.
THEOREM NoLetterVanishes == Spec => DeadLetterLeavesByReplayOrCap
<1>1. DeadInv /\ [Next]_vars =>
        [\A i \in 1 .. Len(dead) :
           dead[i] \notin {dead'[k] : k \in 1 .. Len(dead')} =>
             \/ jobState'[dead[i].job] = "due" /\ Len(dead') = Len(dead) - 1
             \/ i = 1 /\ Len(dead) = MaxDead /\ Len(dead') = MaxDead]_vars
  BY LetterLeaves
<1> QED
  BY <1>1, InitDeadInv, NextDeadInv, PTL
     DEF Spec, DeadLetterLeavesByReplayOrCap
=============================================================================

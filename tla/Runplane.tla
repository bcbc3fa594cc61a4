------------------------------ MODULE Runplane ------------------------------
(***************************************************************************)
(* The autonomy runplane: durable jobs, runs, dead letters and active      *)
(* lanes of src/src/core/runtime/autonomy_runplane.py.  Every public       *)
(* method of AutonomyRunplane holds one RLock from _load_state to          *)
(* _save_state and the file is replaced atomically, so each method is one  *)
(* action.  A refused call returns before _save_state and changes nothing. *)
(*                                                                         *)
(* A run row is identified by its position in the order of begin_run       *)
(* calls (the code draws a fresh uuid).  The callers are modelled by       *)
(* `alive': the runs whose executor has not yet called complete_run.       *)
(* Fields that no method reads back (attempt_count, success_count, the     *)
(* timestamps and texts of a row) are left out.                            *)
(***************************************************************************)
EXTENDS Integers, Sequences, SequencesExt

CONSTANTS
  Jobs,         \* job identifiers, e.g. executor.week1
  Lanes,        \* lane keys, e.g. executor:week1
  LaneOf,       \* the lane key every caller passes for a job
  MaxAttempts,  \* max_attempts of a job row
  MaxRuns,      \* retention cap of the run list (self._max_runs)
  MaxDead,      \* retention cap of the dead letters (self._max_dead_letters)
  StaleAfter,   \* self._stale_lane_seconds, in clock ticks
  ExecTimeout,  \* the longest an executor lives before it completes its run
  MarkStates,   \* statuses passed to mark_run_status
  RunBound      \* bound: number of runs begun in a behaviour

JobStates == {"planned", "due", "deferred", "running", "delivered", "acked",
              "escalated", "closed", "failed", "dead_letter"}

ASSUME RunplaneAssumption ==
  /\ Jobs # {}
  /\ LaneOf \in [Jobs -> Lanes]
  /\ MaxAttempts \in [Jobs -> Nat \ {0}]
  /\ MaxRuns \in Nat \ {0}
  /\ MaxDead \in Nat \ {0}
  /\ StaleAfter \in Nat \ {0}
  /\ ExecTimeout \in Nat \ {0}
  /\ MarkStates \subseteq JobStates \ {"running"}
  /\ RunBound \in Nat

RunIds == 1 .. RunBound
NoRun  == 0

\* A row that was never appended, or that the retention cap has dropped.
AbsentStatus == {"none", "evicted"}

\* Ages saturate once both thresholds have passed.
AgeCap == IF StaleAfter > ExecTimeout THEN StaleAfter ELSE ExecTimeout

VARIABLES
  nextRun,    \* number of runs begun so far
  runJob,     \* job of every run begun
  runStatus,  \* status of every retained run row
  age,        \* time since started_at_utc, for runs that hold a lane or live
  holder,     \* run holding each active lane, NoRun when the lane is free
  jobState,   \* state of every job row
  failures,   \* failure_count
  dead,       \* dead letters, oldest first
  alive       \* runs whose executor will still report

vars == <<nextRun, runJob, runStatus, age, holder, jobState, failures, dead,
          alive>>

DeadRow == [run : RunIds, job : Jobs, failures : Nat]

TypeOK ==
  /\ nextRun \in 0 .. RunBound
  /\ runJob \in [RunIds -> Jobs]
  /\ runStatus \in [RunIds -> JobStates \cup AbsentStatus]
  /\ age \in [RunIds -> 0 .. AgeCap]
  /\ holder \in [Lanes -> RunIds \cup {NoRun}]
  /\ jobState \in [Jobs -> JobStates]
  /\ failures \in [Jobs -> Nat]
  /\ dead \in Seq(DeadRow)
  /\ alive \in SUBSET RunIds

\* The job recorded for a run that has not begun is immaterial.
Init ==
  /\ nextRun = 0
  /\ runJob = [r \in RunIds |-> CHOOSE j \in Jobs : TRUE]
  /\ runStatus = [r \in RunIds |-> "none"]
  /\ age = [r \in RunIds |-> 0]
  /\ holder = [l \in Lanes |-> NoRun]
  /\ jobState = [j \in Jobs |-> "planned"]
  /\ failures = [j \in Jobs |-> 0]
  /\ dead = <<>>
  /\ alive = {}

-----------------------------------------------------------------------------
\* _find_run_index_unlocked succeeds exactly for the retained rows.
Retained(r) == runStatus[r] \notin AbsentStatus

RunLane(r) == LaneOf[runJob[r]]

\* Mutated forms: every active lane counts as stale; a lane counts as stale
\* one tick early.
StaleAtOnce(l) == holder[l] # NoRun
StaleEarly(l) == holder[l] # NoRun /\ age[holder[l]] >= StaleAfter - 1

\* _cleanup_stale_lanes_unlocked: the lane's run started too long ago.
Stale(l) == holder[l] # NoRun /\ age[holder[l]] >= StaleAfter

SweptRuns == {holder[l] : l \in {k \in Lanes : Stale(k)}}

\* Mutated forms: the sweep forgets the job row; it forgets the lane.
SweepJobsSkipped == jobState
SweepLanesSkipped == holder

\* The rows, jobs and lanes as the sweep leaves them in the loaded state.
SweptStatus ==
  [r \in RunIds |-> IF r \in SweptRuns /\ Retained(r) THEN "failed"
                    ELSE runStatus[r]]
SweptJobs ==
  [j \in Jobs |-> IF \E r \in SweptRuns : runJob[r] = j THEN "due"
                  ELSE jobState[j]]
SweptHolder == [l \in Lanes |-> IF Stale(l) THEN NoRun ELSE holder[l]]

\* The run list after one more row: only the last MaxRuns rows stay.
AppendRow(rows, r) ==
  [q \in RunIds |-> IF q = r THEN "running"
                    ELSE IF q + MaxRuns <= r THEN "evicted" ELSE rows[q]]

\* ensure_job: creates the row (its default is Init's) and saves the sweep.
EnsureJob ==
  /\ runStatus' = SweptStatus
  /\ jobState' = SweptJobs
  /\ holder' = SweptHolder
  /\ UNCHANGED <<nextRun, runJob, age, failures, dead, alive>>

\* begin_run when the lane is free after the sweep.  When it is busy the
\* method returns before _save_state, so even the sweep is forgotten.
BeginRun(j) ==
  LET r == nextRun + 1
      l == LaneOf[j]
  IN /\ nextRun < RunBound
     /\ SweptHolder[l] = NoRun
     /\ nextRun' = r
     /\ runJob' = [runJob EXCEPT ![r] = j]
     /\ runStatus' = AppendRow(SweptStatus, r)
     /\ age' = [age EXCEPT ![r] = 0]
     /\ holder' = [SweptHolder EXCEPT ![l] = r]
     /\ jobState' = [SweptJobs EXCEPT ![j] = "running"]
     /\ alive' = alive \cup {r}
     /\ UNCHANGED <<failures, dead>>

-----------------------------------------------------------------------------
\* What the callers report: delivered, a transient failure, a deferral, or
\* a failure that a retry cannot cure.
Outcomes ==
  { [ok |-> TRUE,  status |-> "delivered", retryable |-> FALSE],
    [ok |-> FALSE, status |-> "failed",    retryable |-> TRUE],
    [ok |-> FALSE, status |-> "deferred",  retryable |-> TRUE],
    [ok |-> FALSE, status |-> "failed",    retryable |-> FALSE] }

\* Mutated form: the limit is ignored.
ExhaustedAtOnce(j, o) == ~o.ok /\ ~o.retryable

\* The failure that exhausts a job's attempts.
Exhausted(j, o) ==
  ~o.ok /\ ~o.retryable /\ failures[j] + 1 >= MaxAttempts[j]

\* A run gives the lane back only if it still holds it.
ReleaseLane(r) ==
  IF holder[RunLane(r)] = r THEN [holder EXCEPT ![RunLane(r)] = NoRun]
  ELSE holder

\* dead_letters.append followed by the trim to the newest MaxDead rows.
PushDead(row) ==
  IF Len(dead) >= MaxDead THEN Append(Tail(dead), row) ELSE Append(dead, row)

\* The job's state once a run of it has reported.
StateAfter(j, o) ==
  IF Exhausted(j, o) THEN "dead_letter"
  ELSE IF ~o.ok /\ o.retryable THEN "due" ELSE o.status

\* complete_run for a retained row.
ReportOutcome(r, o) ==
  LET j == runJob[r] IN
  /\ runStatus' = [runStatus EXCEPT ![r] =
                     IF Exhausted(j, o) THEN "dead_letter" ELSE o.status]
  /\ holder' = ReleaseLane(r)
  /\ jobState' = [jobState EXCEPT ![j] = StateAfter(j, o)]
  /\ failures' = [failures EXCEPT ![j] = IF o.ok THEN @ ELSE @ + 1]
  /\ dead' = IF Exhausted(j, o)
             THEN PushDead([run |-> r, job |-> j, failures |-> failures[j] + 1])
             ELSE dead

\* complete_run: a row dropped by the cap is run_not_found and nothing is
\* saved.  Either way the executor is done with the run.
CompleteRun(r, o) ==
  /\ r \in alive
  /\ alive' = alive \ {r}
  /\ \/ Retained(r) /\ ReportOutcome(r, o)
     \/ ~Retained(r) /\ UNCHANGED <<runStatus, holder, jobState, failures, dead>>
  /\ UNCHANGED <<nextRun, runJob, age>>

\* The executor is cancelled (CancelledError is re-raised past
\* complete_run), or complete_run itself raises.
Abandon(r) ==
  /\ r \in alive
  /\ alive' = alive \ {r}
  /\ UNCHANGED <<nextRun, runJob, runStatus, age, holder, jobState, failures,
                 dead>>

\* The process dies and restarts on the saved file.
Crash ==
  /\ alive # {}
  /\ alive' = {}
  /\ UNCHANGED <<nextRun, runJob, runStatus, age, holder, jobState, failures,
                 dead>>

-----------------------------------------------------------------------------
SetStatus(r, s) ==
  /\ Retained(r)
  /\ runStatus' = [runStatus EXCEPT ![r] = s]
  /\ jobState' = [jobState EXCEPT ![runJob[r]] = s]
  /\ UNCHANGED <<nextRun, runJob, age, holder, failures, dead, alive>>

\* ack_run, by run id or by an alias of it: any retained row may be acked,
\* whatever its status or its job's.
AckRun(r) == SetStatus(r, "acked")

\* mark_run_status, with the statuses of MarkStates.
MarkRunStatus(r, s) == SetStatus(r, s)

\* Mutated form: the row is dropped without requeueing its job.
RequeueForgotten(j) == jobState

Requeue(j) == [jobState EXCEPT ![j] = "due"]

\* replay_dead_letter of the row at position i.  failure_count is kept, and
\* so is the state of a run of the job that is executing right now.
ReplayDeadLetter(i) ==
  /\ jobState' = Requeue(dead[i].job)
  /\ dead' = RemoveAt(dead, i)
  /\ UNCHANGED <<nextRun, runJob, runStatus, age, holder, failures, alive>>

\* Runs whose age matters: an executor lives, or a lane is held.
Aging == alive \cup ({holder[l] : l \in Lanes} \ {NoRun})

\* One clock tick.  wait_for kills an executor after ExecTimeout, so a live
\* run reports before it grows older than that.
Tick ==
  /\ \A r \in alive : age[r] < ExecTimeout
  /\ age' = [r \in RunIds |-> IF r \in Aging /\ age[r] < AgeCap
                              THEN age[r] + 1 ELSE age[r]]
  /\ UNCHANGED <<nextRun, runJob, runStatus, holder, jobState, failures, dead,
                 alive>>

Next ==
  \/ EnsureJob
  \/ \E j \in Jobs : BeginRun(j)
  \/ \E r \in RunIds, o \in Outcomes : CompleteRun(r, o)
  \/ \E r \in RunIds : Abandon(r)
  \/ Crash
  \/ \E r \in RunIds : AckRun(r)
  \/ \E r \in RunIds, s \in MarkStates : MarkRunStatus(r, s)
  \/ \E i \in 1 .. Len(dead) : ReplayDeadLetter(i)
  \/ Tick

Spec == Init /\ [][Next]_vars

(***************************************************************************)
(* Fairness.  Time passes; a live executor reports or is given up (its     *)
(* subprocess is awaited with a timeout); and the autonomy pulse keeps     *)
(* asking for every job, which is what runs the sweep.                     *)
(***************************************************************************)
Reports(r) == Abandon(r) \/ \E o \in Outcomes : CompleteRun(r, o)

FairSpec ==
  /\ Spec
  /\ WF_vars(Tick)
  /\ \A r \in RunIds : WF_vars(Reports(r))
  /\ \A j \in Jobs : WF_vars(BeginRun(j))

-----------------------------------------------------------------------------
\* A run and its executor are old enough to be swept only past this bound.
TimeoutBelowStale == ExecTimeout < StaleAfter

\* "Per-lane serialization (one active run per lane)": two executors whose
\* runs share a lane are never alive together, across every interleaving of
\* completion, cancellation, restart and sweep.
ExecutorExclusion ==
  \A r, q \in alive : RunLane(r) = RunLane(q) => r = q

\* A row shown as running, or a job shown as running, holds its lane, so the
\* sweep can still find it: nothing is left "running" for ever by a crash.
\* An operator's mark_run_status("running") is excluded by MarkStates.
RunningHoldsLane ==
  /\ \A r \in RunIds : runStatus[r] = "running" => holder[RunLane(r)] = r
  /\ \A j \in Jobs : jobState[j] = "running" =>
       \E l \in Lanes : holder[l] # NoRun /\ runJob[holder[l]] = j

\* Dead letters name finished runs of their job that exhausted its attempts,
\* and those of one job are in the order of its failures.  replay_dead_letter
\* by job id relies on it: the last match is the most recent failure.
DeadLettersOrdered ==
  \A i \in 1 .. Len(dead) :
    LET d == dead[i] IN
    /\ runJob[d.run] = d.job
    /\ d.run \notin alive
    /\ MaxAttempts[d.job] <= d.failures
    /\ d.failures <= failures[d.job]
    /\ \A k \in 1 .. (i - 1) :
         /\ dead[k].run # d.run
         /\ dead[k].job = d.job => dead[k].failures < d.failures

\* A dead letter disappears only by its replay, which makes the job due
\* again, or because newer ones fill the list to its cap.
DeadLetterLeavesByReplayOrCap ==
  [][\A i \in 1 .. Len(dead) :
       dead[i] \notin {dead'[k] : k \in 1 .. Len(dead')} =>
         \/ jobState'[dead[i].job] = "due" /\ Len(dead') = Len(dead) - 1
         \/ i = 1 /\ Len(dead) = MaxDead /\ Len(dead') = MaxDead]_vars

\* Restart-safe stale lane cleanup: whatever happened to its executor, a run
\* does not keep its lane for ever, as long as jobs are still asked for.
LaneReleased ==
  \A l \in Lanes, r \in RunIds :
    (holder[l] = r) ~> (holder[l] # r \/ nextRun = RunBound)

\* The runplane implements a mutual exclusion of executors per lane.
Inside(l) == {r \in alive : RunLane(r) = l}
Mutex == INSTANCE LaneMutex WITH inside <- [l \in Lanes |-> Inside(l)],
                                 Runs <- RunIds, entered <- 1 .. nextRun
ImplementsMutex == Mutex!Spec
=============================================================================

--------------------------- MODULE ProactiveLanes ---------------------------
(***************************************************************************)
(* The proactive side-effect lanes of ProactiveManager                     *)
(* (src/src/core/runtime/proactive_manager.py): execute_proactive_action   *)
(* and the lane and queue helpers it calls.                                *)
(*                                                                         *)
(* Callers are threads: the sentinel's poll thread, the event loop that    *)
(* runs the autonomy pulse, a do-not-disturb release.  Each helper holds   *)
(* _proactive_lane_lock for its whole body and is one action; the lock is  *)
(* dropped between them, so calls of different threads interleave there.   *)
(* The drain at the end of an execution calls execute_proactive_action     *)
(* again as its last statement, so a thread needs no call stack.           *)
(***************************************************************************)
EXTENDS Integers, Sequences, FiniteSets, SequencesExt

CONSTANTS
  Threads,     \* threads that execute proactive actions
  Actions,     \* recommendations, by action_id
  Lanes,       \* lane keys, action_type:scope
  LaneOf,      \* _build_proactive_lane_key
  QueueMax,    \* _proactive_lane_queue_max
  Repeated,    \* recommendations the pulse finds pending and submits again
  SubmitBound  \* bound: submissions of one repeated recommendation

ASSUME LanesAssumption ==
  /\ LaneOf \in [Actions -> Lanes]
  /\ QueueMax \in Nat \ {0}
  /\ Repeated \subseteq Actions
  /\ SubmitBound \in Nat

Free == "free"
Nothing == "nothing"
ASSUME MarkersAreNoActions == Free \notin Actions /\ Nothing \notin Actions

VARIABLES
  active,     \* _active_proactive_lanes: the action holding each lane
  queue,      \* _proactive_lane_queues
  pc,         \* where each thread is in execute_proactive_action
  job,        \* the recommendation it executes
  submits,    \* how often each recommendation was handed over
  pending,    \* repeated recommendations not yet marked executed
  runs,       \* how often the handler of each recommendation was started
  swallowed   \* history: how often a drain took out the action just completed

vars == <<active, queue, pc, job, submits, pending, runs, swallowed>>

Places == {"idle", "entering", "enqueueing", "running", "leaving", "draining"}

TypeOK ==
  /\ active \in [Lanes -> Actions \cup {Free}]
  /\ queue \in [Lanes -> Seq(Actions)]
  /\ pc \in [Threads -> Places]
  /\ job \in [Threads -> Actions \cup {Nothing}]
  /\ \A t \in Threads : pc[t] # "idle" => job[t] \in Actions
  /\ submits \in [Actions -> Nat]
  /\ pending \subseteq Repeated
  /\ runs \in [Actions -> Nat]
  /\ swallowed \in [Lanes -> Nat]

Init ==
  /\ active = [l \in Lanes |-> Free]
  /\ queue = [l \in Lanes |-> <<>>]
  /\ pc = [t \in Threads |-> "idle"]
  /\ job = [t \in Threads |-> Nothing]
  /\ submits = [a \in Actions |-> 0]
  /\ pending = Repeated
  /\ runs = [a \in Actions |-> 0]
  /\ swallowed = [l \in Lanes |-> 0]

-----------------------------------------------------------------------------
MyLane(t) == LaneOf[job[t]]

Goto(t, place) == pc' = [pc EXCEPT ![t] = place]

\* handle_proactive_recommendation: from the sentinel's callback when the
\* recommendation is created, or from _process_sentinel_recommendations,
\* which scans what is still pending in a later pulse.
Submit(t, a) ==
  /\ pc[t] = "idle"
  /\ submits[a] = 0 \/ (a \in pending /\ submits[a] < SubmitBound)
  /\ Goto(t, "entering")
  /\ job' = [job EXCEPT ![t] = a]
  /\ submits' = [submits EXCEPT ![a] = @ + 1]
  /\ UNCHANGED <<active, queue, pending, runs, swallowed>>

\* Mutated form: the lane is not looked at.
MayEnterAlways(t) == TRUE

\* The lane is free, or held by this very action.
MayEnter(t) == active[MyLane(t)] \in {Free, job[t]}

\* _try_enter_proactive_lane, and the start of the handler when it succeeds.
TryEnter(t) ==
  /\ pc[t] = "entering"
  /\ IF MayEnter(t)
     THEN /\ active' = [active EXCEPT ![MyLane(t)] = job[t]]
          /\ runs' = [runs EXCEPT ![job[t]] = @ + 1]
          /\ Goto(t, "running")
     ELSE /\ Goto(t, "enqueueing")
          /\ UNCHANGED <<active, runs>>
  /\ UNCHANGED <<queue, job, submits, pending, swallowed>>

LastN(q, n) == IF Len(q) > n THEN SubSeq(q, Len(q) - n + 1, Len(q)) ELSE q

\* An action already waiting keeps its place; past the cap the oldest goes.
Enqueued(q, a) ==
  IF \E i \in 1 .. Len(q) : q[i] = a THEN q ELSE LastN(Append(q, a), QueueMax)

\* _enqueue_proactive_lane_action; the caller returns "queued_lane".
Enqueue(t) ==
  /\ pc[t] = "enqueueing"
  /\ queue' = [queue EXCEPT ![MyLane(t)] = Enqueued(@, job[t])]
  /\ Goto(t, "idle")
  /\ job' = [job EXCEPT ![t] = Nothing]
  /\ UNCHANGED <<active, submits, pending, runs, swallowed>>

\* execute_recommendation returns: mark_executed after the handler, or the
\* handler raised and the recommendation stays pending.
HandlerDone(t, ok) ==
  /\ pc[t] = "running"
  /\ pending' = IF ok THEN pending \ {job[t]} ELSE pending
  /\ Goto(t, "leaving")
  /\ UNCHANGED <<active, queue, job, submits, runs, swallowed>>

\* Mutated form: the lane is not given back.
Kept(t) == active

Freed(t) ==
  IF active[MyLane(t)] = job[t] THEN [active EXCEPT ![MyLane(t)] = Free]
  ELSE active

\* _leave_proactive_lane, in the finally block: on success and on failure.
Leave(t) ==
  /\ pc[t] = "leaving"
  /\ active' = Freed(t)
  /\ Goto(t, "draining")
  /\ UNCHANGED <<queue, job, submits, pending, runs, swallowed>>

\* Mutated form: the head is read and left in the queue.
PeekedOnly(q) == q

Popped(q) == IF q = <<>> THEN q ELSE Tail(q)

\* The popped action is executed unless it is the one just completed: then
\* the drain returns, whatever waits behind it.
ExecutesNext(q, a) == q # <<>> /\ Head(q) # a
Swallows(q, a) == q # <<>> /\ Head(q) = a

\* Mutated form: nothing is drained.
DrainSkipped(t) ==
  /\ pc[t] = "draining"
  /\ Goto(t, "idle")
  /\ job' = [job EXCEPT ![t] = Nothing]
  /\ UNCHANGED <<active, queue, submits, pending, runs, swallowed>>

\* _drain_queued_proactive_lane.
Drain(t) ==
  LET q == queue[MyLane(t)] IN
  /\ pc[t] = "draining"
  /\ queue' = [queue EXCEPT ![MyLane(t)] = Popped(q)]
  /\ IF ExecutesNext(q, job[t])
     THEN job' = [job EXCEPT ![t] = Head(q)] /\ Goto(t, "entering")
     ELSE job' = [job EXCEPT ![t] = Nothing] /\ Goto(t, "idle")
  /\ swallowed' = [swallowed EXCEPT ![MyLane(t)] =
                     @ + IF Swallows(q, job[t]) THEN 1 ELSE 0]
  /\ UNCHANGED <<active, submits, pending, runs>>

Next ==
  \E t \in Threads :
    \/ \E a \in Actions : Submit(t, a)
    \/ TryEnter(t)
    \/ Enqueue(t)
    \/ \E ok \in BOOLEAN : HandlerDone(t, ok)
    \/ Leave(t)
    \/ Drain(t)

Spec == Init /\ [][Next]_vars

\* Once a thread is inside execute_proactive_action it keeps running: the
\* handlers are synchronous calls that return.
Advance(t) ==
  \/ TryEnter(t)
  \/ Enqueue(t)
  \/ \E ok \in BOOLEAN : HandlerDone(t, ok)
  \/ Leave(t)
  \/ Drain(t)

FairSpec == Spec /\ \A t \in Threads : WF_vars(Advance(t))

-----------------------------------------------------------------------------
Executing(t) == pc[t] \in {"running", "leaving"}

\* "Lane collision produces lane_busy instead of race conditions": side
\* effects of a lane are serial, except where the pulse submits a
\* recommendation of that lane a second time while it executes.
SerialUnlessRepeated ==
  \A t, u \in Threads :
    Executing(t) /\ Executing(u) /\ MyLane(t) = MyLane(u) =>
      t = u \/ \E a \in Repeated : LaneOf[a] = MyLane(t)

\* "Exception-safe lane release": the lane is never held by an action that no
\* thread is executing, however handlers end and repeated entries overlap.
HolderIsExecuting ==
  \A l \in Lanes : active[l] # Free =>
    \E t \in Threads : job[t] = active[l] /\ Executing(t)

\* A recommendation submitted once has its side effect at most once, through
\* every path of refusal, queueing, draining and queueing again.
AtMostOnce == \A a \in Actions \ Repeated : runs[a] <= 1

Waiting(a) == \E i \in 1 .. Len(queue[LaneOf[a]]) : queue[LaneOf[a]][i] = a

\* What waits behind a busy lane gets its turn (or is displaced by the cap):
\* the executions of a lane hand over to one another until the queue is empty,
\* as long as no drain takes out the very action it completed.  Then it stops
\* there, and what waits behind stays on the free lane: that takes an action
\* submitted again, so on a lane without repeated ones there is no exception.
BusyLaneServesQueue ==
  \A a \in Actions :
    LET l == LaneOf[a] IN
    \A n \in 0 .. SubmitBound * Cardinality(Repeated) :
      (Waiting(a) /\ active[l] # Free /\ swallowed[l] = n) ~>
        (~Waiting(a) \/ (swallowed[l] > n /\ \E r \in Repeated : LaneOf[r] = l))

\* A queued action is never left behind on a lane that nobody is working on:
\* once the lane is released its queue drains.
NoStrandedQueue ==
  \A l \in Lanes : queue[l] # <<>> =>
    \E t \in Threads : pc[t] # "idle" /\ MyLane(t) = l
=============================================================================

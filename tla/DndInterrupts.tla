---------------------------- MODULE DndInterrupts ----------------------------
(***************************************************************************)
(* Interrupts deferred by Do Not Disturb: can_interrupt, queue_interrupt,  *)
(* disable_dnd and the InterruptQueue of src/src/context/dnd_mode.py, with *)
(* their caller handle_proactive_recommendation of                         *)
(* src/src/core/runtime/proactive_manager.py.                              *)
(*                                                                         *)
(* The level in force changes under the callers' feet: the user, the end   *)
(* of a timed DND, the time of day and the calendar all set it, and none   *)
(* of the checks below holds a lock.  How get_status derives it is left    *)
(* out, and so is _pending_proactive_actions, which nothing reads back.    *)
(* InterruptQueue._lock is held by deliver_all across the callbacks.       *)
(*                                                                         *)
(* The names that Reachout has too begin with Dnd, so that the proofs may  *)
(* extend both.                                                            *)
(***************************************************************************)
EXTENDS Integers, Sequences, FiniteSets, SequencesExt

CONSTANTS
  Threads,     \* the sentinel's poll thread, the event loop
  Recs,        \* recommendations that do not bypass DND
  UrgencyOf,   \* urgency by priority, priority_to_urgency
  Levels,      \* levels that come into force
  QueueMax,    \* InterruptQueue._max_size
  HandBound    \* bound: times a recommendation is handed over

UrgencyRank ==
  [routine |-> 0, low |-> 1, medium |-> 2, high |-> 3, critical |-> 4]
LevelRank == [off |-> 0, low |-> 1, medium |-> 2, high |-> 3, critical |-> 4]

ASSUME DndAssumption ==
  /\ UrgencyOf \in [Recs -> DOMAIN UrgencyRank]
  /\ Levels \subseteq DOMAIN LevelRank
  /\ "off" \in Levels
  /\ QueueMax \in Nat \ {0}
  /\ HandBound \in Nat

Nobody == "nobody"
Nothing == "nothing"
ASSUME MarkersAreFresh == Nobody \notin Threads /\ Nothing \notin Recs

VARIABLES
  level,     \* the level get_status reports
  queue,     \* InterruptQueue._queue; delivered items stay in it
  lock,      \* the thread inside deliver_all
  pending,   \* recommendations neither executed nor acknowledged
  handed,    \* how often each recommendation was handed over
  runs,      \* how often each recommendation was executed
  pc, job    \* where each thread is, and with which recommendation

dndVars == <<level, queue, lock, pending, handed, runs, pc, job>>

Places == {"idle", "checking", "queueing", "adding", "executing", "acquiring",
           "delivering"}

Item == [rec : Recs, delivered : BOOLEAN]

DndTypeOK ==
  /\ level \in Levels
  /\ queue \in Seq(Item) /\ Len(queue) <= QueueMax
  /\ lock \in Threads \cup {Nobody}
  /\ pending \subseteq Recs
  /\ handed \in [Recs -> 0 .. HandBound]
  /\ runs \in [Recs -> Nat]
  /\ pc \in [Threads -> Places]
  /\ job \in [Threads -> Recs \cup {Nothing}]

DndInit ==
  /\ level \in Levels
  /\ queue = <<>>
  /\ lock = Nobody
  /\ pending = Recs
  /\ handed = [r \in Recs |-> 0]
  /\ runs = [r \in Recs |-> 0]
  /\ pc = [t \in Threads |-> "idle"]
  /\ job = [t \in Threads |-> Nothing]

-----------------------------------------------------------------------------
Goto(t, place) == pc' = [pc EXCEPT ![t] = place]

\* Mutated form: the strongest level lets nothing through, as its comment says.
AllowedUnlessCritical(u) ==
  level # "critical" /\ UrgencyRank[u] >= LevelRank[level]

\* can_interrupt: every level lets its own urgency and the higher ones pass.
\* The comments of DNDLevel say less: "high" should pass critical items only,
\* and "critical" nothing.
Allowed(u) == UrgencyRank[u] >= LevelRank[level]

HandOver(t, r) ==
  /\ pc[t] = "idle"
  /\ handed[r] < HandBound
  /\ handed' = [handed EXCEPT ![r] = @ + 1]
  /\ job' = [job EXCEPT ![t] = r]
  /\ Goto(t, "checking")
  /\ UNCHANGED <<level, queue, lock, pending, runs>>

\* The sentinel's callback for a new recommendation.
Recommend(t, r) == handed[r] = 0 /\ HandOver(t, r)

\* A later pulse scans what is still pending, when it may interrupt at all.
Pulse(t, r) == r \in pending /\ Allowed("high") /\ HandOver(t, r)

\* handle_proactive_recommendation: execute now, or queue.
Check(t) ==
  /\ pc[t] = "checking"
  /\ Goto(t, IF Allowed(UrgencyOf[job[t]]) THEN "executing" ELSE "queueing")
  /\ UNCHANGED <<level, queue, lock, pending, handed, runs, job>>

\* queue_interrupt asks again, and delivers at once when the answer changed.
QueueInterrupt(t) ==
  /\ pc[t] = "queueing"
  /\ Goto(t, IF Allowed(UrgencyOf[job[t]]) THEN "executing" ELSE "adding")
  /\ UNCHANGED <<level, queue, lock, pending, handed, runs, job>>

\* get_status tests _manual_dnd and unpacks it without a lock; when it is
\* cleared in between the unpacking raises and the caller gives up.
CheckRaises(t) ==
  /\ pc[t] \in {"checking", "queueing"}
  /\ Goto(t, "idle")
  /\ job' = [job EXCEPT ![t] = Nothing]
  /\ UNCHANGED <<level, queue, lock, pending, handed, runs>>

Critical(item) == UrgencyOf[item.rec] = "critical"

\* The order of the sort: critical items first, each kind by age.
SortsBefore(q, i, k) ==
  \/ Critical(q[i]) /\ ~Critical(q[k])
  \/ (Critical(q[i]) <=> Critical(q[k])) /\ i < k

\* The place that the sort gives the i-th item, and the sorted queue.
Place(q, i) == 1 + Cardinality({k \in 1 .. Len(q) : SortsBefore(q, k, i)})
Sorted(q) ==
  [n \in 1 .. Len(q) |-> q[CHOOSE i \in 1 .. Len(q) : Place(q, i) = n]]

\* Mutated form: no cap.
Untrimmed(q) == q

\* Over the cap the items are sorted, and the last QueueMax stay.
Trimmed(q) ==
  IF Len(q) <= QueueMax THEN q
  ELSE SubSeq(Sorted(q), Len(q) - QueueMax + 1, Len(q))

\* InterruptQueue.add.
Add(t) ==
  /\ pc[t] = "adding"
  /\ lock = Nobody
  /\ queue' = Trimmed(Append(queue, [rec |-> job[t], delivered |-> FALSE]))
  /\ Goto(t, "idle")
  /\ job' = [job EXCEPT ![t] = Nothing]
  /\ UNCHANGED <<level, lock, pending, handed, runs>>

\* execute_proactive_action, directly or as the callback of an interrupt: the
\* recommendation is done when its handler succeeds.  ProactiveLanes models
\* what happens inside.
Execute(t, ok) ==
  /\ pc[t] = "executing"
  /\ runs' = [runs EXCEPT ![job[t]] = @ + 1]
  /\ pending' = IF ok THEN pending \ {job[t]} ELSE pending
  /\ Goto(t, IF lock = t THEN "delivering" ELSE "idle")
  /\ job' = [job EXCEPT ![t] = Nothing]
  /\ UNCHANGED <<level, queue, lock, handed>>

\* enable_dnd, the end of a timed DND, a rule that starts or stops to apply.
SetLevel(l) ==
  /\ level' = l
  /\ UNCHANGED <<queue, lock, pending, handed, runs, pc, job>>

\* disable_dnd: the rules alone decide the level, then everything queued is
\* delivered whatever that level is.
Disable(t, l) ==
  /\ pc[t] = "idle"
  /\ level' = l
  /\ Goto(t, "acquiring")
  /\ UNCHANGED <<queue, lock, pending, handed, runs, job>>

\* deliver_all takes the queue's lock.
Acquire(t) ==
  /\ pc[t] = "acquiring"
  /\ lock = Nobody
  /\ lock' = t
  /\ Goto(t, "delivering")
  /\ UNCHANGED <<level, queue, pending, handed, runs, job>>

Undelivered == {i \in 1 .. Len(queue) : ~queue[i].delivered}

\* Mutated forms: the item is not marked; the newest is delivered first.
MarkForgotten(i) == queue
NewestFirst == CHOOSE i \in Undelivered : \A k \in Undelivered : k <= i

Marked(i) == [queue EXCEPT ![i].delivered = TRUE]

Oldest == CHOOSE i \in Undelivered : \A k \in Undelivered : i <= k

\* Mutated form: the item is marked by mark_delivered, which takes the lock.
DeliverReentering(t) ==
  /\ pc[t] = "delivering" /\ lock = Nobody
  /\ Undelivered # {}
  /\ queue' = Marked(Oldest)
  /\ job' = [job EXCEPT ![t] = queue[Oldest].rec]
  /\ Goto(t, "executing")
  /\ UNCHANGED <<level, lock, pending, handed, runs>>

\* The next item is marked and then its callback is called, the lock held.
Deliver(t) ==
  /\ pc[t] = "delivering"
  /\ Undelivered # {}
  /\ queue' = Marked(Oldest)
  /\ job' = [job EXCEPT ![t] = queue[Oldest].rec]
  /\ Goto(t, "executing")
  /\ UNCHANGED <<level, lock, pending, handed, runs>>

Release(t) ==
  /\ pc[t] = "delivering"
  /\ Undelivered = {}
  /\ lock' = Nobody
  /\ Goto(t, "idle")
  /\ UNCHANGED <<level, queue, pending, handed, runs, job>>

\* The steps of a call that has begun.
Advance(t) ==
  \/ Check(t)
  \/ QueueInterrupt(t)
  \/ CheckRaises(t)
  \/ Add(t)
  \/ \E ok \in BOOLEAN : Execute(t, ok)
  \/ Acquire(t)
  \/ Deliver(t)
  \/ Release(t)

DndNext ==
  \/ \E l \in Levels : SetLevel(l)
  \/ \E t \in Threads :
       \/ \E r \in Recs : Recommend(t, r) \/ Pulse(t, r)
       \/ \E l \in Levels : Disable(t, l)
       \/ Advance(t)

DndSpec == DndInit /\ [][DndNext]_dndVars

\* Calls that have begun go on, and the pulse keeps scanning.
DndFairSpec ==
  /\ DndSpec
  /\ \A t \in Threads : WF_dndVars(Advance(t))
  /\ WF_dndVars(\E t \in Threads, r \in Recs : Pulse(t, r))

-----------------------------------------------------------------------------
Queued(r) == \E i \in Undelivered : queue[i].rec = r

\* The cap drops "the oldest non-urgent items".  The sort that precedes it
\* would drop critical items first; it is right only because can_interrupt
\* lets them pass at every level, so none is ever queued.  With the levels of
\* DNDLevel's comments ("Suppress everything") a critical item would wait here,
\* and a full queue would lose it before a routine one.
CapDropsTheOldest ==
  [][Len(queue') = Len(queue) /\ queue' # queue =>
       \/ \E i \in Undelivered : queue' = Marked(i)
       \/ Front(queue') = Tail(queue)]_dndVars

\* Delivered items are the oldest in the queue, so the cap drops them before
\* it drops an interrupt the user has not seen.
DeliveredFirst ==
  \A i, k \in 1 .. Len(queue) :
    i < k /\ queue[k].delivered => queue[i].delivered

\* Whatever the level does between the two checks, the queueing and the
\* delivery, one handover of a recommendation executes it at most once.
OneExecutionPerHandover == \A r \in Recs : runs[r] <= handed[r]

\* "DND disabled. Queued interrupts delivered.": switching DND off reaches
\* every interrupt queued before, although the callbacks run under the lock.
DisableDelivers ==
  \A r \in Recs :
    (Queued(r) /\ \E t \in Threads : pc[t] = "acquiring") ~> ~Queued(r)
=============================================================================

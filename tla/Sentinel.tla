------------------------------- MODULE Sentinel -------------------------------
(***************************************************************************)
(* From a noticed change to a settled recommendation: the sentinel's poll  *)
(* thread (src/src/planning/sentinel_engine.py) fires triggers, creates or *)
(* merges recommendations and hands new ones over at once, while the pulse *)
(* of the autonomy cycle                                                   *)
(* (src/src/core/runtime/proactive_manager.py) hands over again whatever   *)
(* is still pending.                                                       *)
(*                                                                         *)
(* Changes of what a trigger watches are counted: version v is the v-th    *)
(* change that a poll noticed.  A handler looks at the watched thing       *)
(* itself, so a run covers every version up to the moment it looks.  All   *)
(* triggers are IMMEDIATE, as all those of the runtime are.  The lanes and *)
(* the deferred interrupts behind a hand-over are ProactiveLanes and       *)
(* DndInterrupts; here they may leave a recommendation pending.            *)
(***************************************************************************)
EXTENDS Integers, Sequences, FiniteSets, SequencesExt

CONSTANTS
  Triggers,
  NoTrigger,
  Rank,          \* the priority of each trigger's recommendations
  Ungated,       \* triggers whose actions pass the initiative gate unseen
  MaxPerCycle,   \* VERA_PROACTIVE_MAX_PER_CYCLE
  SuppressLimit, \* VERA_PROACTIVE_SUPPRESSION_AUTO_ACK_COUNT
  ChangeBound,   \* bound: changes noticed
  FaultBound     \* bound: failed runs, queued hand-overs, type cooldowns

Threads == {"poller", "pulse"}

ASSUME SentinelAssumption ==
  /\ NoTrigger \notin Triggers
  /\ Rank \in [Triggers -> Nat]
  /\ Ungated \subseteq Triggers
  /\ MaxPerCycle \in Nat \ {0}
  /\ SuppressLimit \in Nat \ {0}
  /\ ChangeBound \in Nat /\ FaultBound \in Nat

VARIABLES
  version,    \* changes a poll has noticed
  fired,      \* the newest version the trigger fired on
  quiet,      \* an event of its kind came within the dedup window or cooldown
  recs,       \* recommendations, by number
  acked,      \* acknowledged
  executed,   \* marked executed
  expired,    \* past expires_at
  firing,     \* the trigger whose recommendation the poll thread makes
  pc,         \* the step each thread is at
  rec,        \* the recommendation it works on, 0 for none
  looked,     \* the version there was when its handler began
  list,       \* what the pulse still has to look at
  done,       \* executions of this pass
  reason,     \* of the refusal the pulse has just met
  loaded,     \* the newest version a successful run has covered
  late,       \* history: the newest version merged into a running action
  faults      \* faults so far

engine == <<version, fired, quiet>>
pool == <<recs, acked, executed, expired>>
vars == <<engine, pool, firing, pc, rec, looked, list, done, reason, loaded, late, faults>>

Ids == 1 .. Len(recs)

Pending(r) == r \notin acked \cup executed \cup expired

RecType == [trigger : Triggers, upto : Nat, suppressions : Nat, held : BOOLEAN]

TypeOK ==
  /\ version \in [Triggers -> Nat] /\ fired \in [Triggers -> Nat]
  /\ quiet \in [Triggers -> BOOLEAN]
  /\ recs \in Seq(RecType)
  /\ acked \subseteq Ids /\ executed \subseteq Ids /\ expired \subseteq Ids
  /\ firing \in Triggers \cup {NoTrigger}
  /\ pc \in [Threads -> {"idle", "handle", "gate", "run", "again", "scan"}]
  /\ rec \in [Threads -> {0} \cup Ids]
  /\ looked \in [Threads -> Nat]
  /\ list \in Seq(Ids) /\ done \in Nat
  /\ reason \in {"none", "cooldown", "repeat"}
  /\ loaded \in [Triggers -> Nat] /\ late \in [Triggers -> Nat]
  /\ faults \in 0 .. FaultBound

Init ==
  /\ version = [x \in Triggers |-> 0] /\ fired = version
  /\ quiet = [x \in Triggers |-> FALSE]
  /\ recs = <<>> /\ acked = {} /\ executed = {} /\ expired = {}
  /\ firing = NoTrigger
  /\ pc = [t \in Threads |-> "idle"]
  /\ rec = [t \in Threads |-> 0] /\ looked = [t \in Threads |-> 0]
  /\ list = <<>> /\ done = 0 /\ reason = "none"
  /\ loaded = version /\ late = version
  /\ faults = 0

-----------------------------------------------------------------------------
Idle(t) == pc' = [pc EXCEPT ![t] = "idle"] /\ rec' = [rec EXCEPT ![t] = 0]

Noticed == FoldFunction(+, 0, version)

\* A poll finds a change and emits its event.  A repetition within the dedup
\* window is dropped, and so is what comes during the trigger's cooldown.
Notice(x) ==
  /\ pc["poller"] = "idle" /\ firing = NoTrigger
  /\ Noticed < ChangeBound
  /\ version' = [version EXCEPT ![x] = @ + 1]
  /\ \/ quiet[x] /\ UNCHANGED <<fired, quiet, firing>>
     \/ /\ quiet' = [quiet EXCEPT ![x] = TRUE]
        /\ fired' = [fired EXCEPT ![x] = version'[x]]
        /\ firing' = x
  /\ UNCHANGED <<pool, pc, rec, looked, list, done, reason, loaded, late, faults>>

Running(r) == \E t \in Threads : pc[t] = "run" /\ rec[t] = r

\* Mutated form: what is put off takes no more events.
MergeTargetsReady(x) ==
  {r \in Ids : recs[r].trigger = x /\ Pending(r) /\ ~recs[r].held}

MergeTargets(x) == {r \in Ids : recs[r].trigger = x /\ Pending(r)}

\* create_or_merge_recommendation, under the lock.  A merge adds the events
\* and nothing else: the refusals so far and the back-off stay.  Only a new
\* recommendation is handed over at once.
Merge ==
  /\ firing # NoTrigger
  /\ firing' = NoTrigger
  /\ IF MergeTargets(firing) # {}
     THEN LET r == CHOOSE s \in MergeTargets(firing) : TRUE IN
          /\ recs' = [recs EXCEPT ![r].upto = fired[firing]]
          /\ late' = IF Running(r)
                     THEN [late EXCEPT ![firing] = fired[firing]] ELSE late
          /\ UNCHANGED <<pc, rec>>
     ELSE /\ recs' = Append(recs, [trigger |-> firing, upto |-> fired[firing],
                                   suppressions |-> 0, held |-> FALSE])
          /\ pc' = [pc EXCEPT !["poller"] = "handle"]
          /\ rec' = [rec EXCEPT !["poller"] = Len(recs')]
          /\ UNCHANGED late
  /\ UNCHANGED <<engine, acked, executed, expired, looked, list, done, reason,
                 loaded, faults>>

-----------------------------------------------------------------------------
ScanLimit == 2 * MaxPerCycle

\* The pulse lists what is pending, by priority and age, and cuts the list.
Before(r, s) ==
  \/ Rank[recs[r].trigger] > Rank[recs[s].trigger]
  \/ Rank[recs[r].trigger] = Rank[recs[s].trigger] /\ r < s

BeginPass ==
  /\ pc["pulse"] = "idle"
  /\ LET pending == {r \in Ids : Pending(r)}
         size == IF Cardinality(pending) < ScanLimit THEN Cardinality(pending)
                 ELSE ScanLimit
     IN \E first \in [1 .. size -> pending] :
          /\ pending # {}
          /\ \A i \in 1 .. size :
               /\ \A k \in i + 1 .. size : Before(first[i], first[k])
               /\ \A r \in pending \ Range(first) : Before(first[i], r)
          /\ list' = first
  /\ pc' = [pc EXCEPT !["pulse"] = "scan"]
  /\ done' = 0
  /\ UNCHANGED <<engine, pool, firing, rec, looked, reason, loaded, late, faults>>

Scan ==
  /\ pc["pulse"] = "scan"
  /\ \/ /\ list = <<>> \/ done >= MaxPerCycle
        /\ Idle("pulse")
        /\ list' = <<>>
     \/ /\ list # <<>> /\ done < MaxPerCycle
        /\ recs[Head(list)].held
        /\ list' = Tail(list)
        /\ UNCHANGED <<pc, rec>>
     \/ /\ list # <<>> /\ done < MaxPerCycle
        /\ ~recs[Head(list)].held
        /\ list' = Tail(list)
        /\ pc' = [pc EXCEPT !["pulse"] = "handle"]
        /\ rec' = [rec EXCEPT !["pulse"] = Head(list)]
  /\ UNCHANGED <<engine, pool, firing, looked, done, reason, loaded, late, faults>>

\* handle_proactive_recommendation returns: the poll thread goes back to its
\* sources, the pulse to its list.
Return(t, executions) ==
  /\ pc' = [pc EXCEPT ![t] = IF t = "pulse" THEN "scan" ELSE "idle"]
  /\ rec' = [rec EXCEPT ![t] = 0]
  /\ done' = IF t = "pulse" THEN done + executions ELSE done

\* Its probe finds nothing to do and acknowledges, or the retry is put off.
Handle(t) ==
  /\ pc[t] = "handle"
  /\ LET r == rec[t] IN
     \/ /\ recs[r].trigger \notin Ungated
        /\ acked' = acked \cup {r}
        /\ Return(t, 1)
     \/ /\ recs[r].held
        /\ Return(t, 0)
        /\ UNCHANGED acked
     \/ /\ ~recs[r].held
        /\ pc' = [pc EXCEPT ![t] = "gate"]
        /\ UNCHANGED <<acked, rec, done>>
  /\ UNCHANGED <<engine, recs, executed, expired, firing, looked, list, reason,
                 loaded, late, faults>>

\* A repeated refusal ends in an acknowledgement, unless the action type is
\* cooling down.
GivenUp(r, why) == why = "repeat" /\ recs[r].suppressions + 1 >= SuppressLimit

\* One more refusal; unless it is given up, the retry is put off.
Suppressed(row, up) == [row EXCEPT !.suppressions = @ + 1, !.held = ~up]

\* _record_suppressed_recommendation; one that has grown old is given up
\* before the count is reached.
RecordSuppressed(r, why) ==
  \E old \in BOOLEAN :
    LET up == GivenUp(r, why) \/ (old /\ why = "repeat") IN
    /\ recs' = [recs EXCEPT ![r] = Suppressed(@, up)]
    /\ acked' = IF up THEN acked \cup {r} ELSE acked

\* The initiative gate refuses: the type cools down, or the action repeats
\* a recent one or disturbs an active partner.
Refuse(t) ==
  /\ pc[t] = "gate"
  /\ recs[rec[t]].trigger \notin Ungated
  /\ \E why \in {"cooldown", "repeat"} :
       /\ why = "cooldown" => faults < FaultBound
       /\ faults' = IF why = "cooldown" THEN faults + 1 ELSE faults
       /\ RecordSuppressed(rec[t], why)
       /\ IF t = "pulse"
          THEN /\ reason' = why
               /\ pc' = [pc EXCEPT ![t] = "again"]
               /\ UNCHANGED <<rec, done>>
          ELSE Return(t, 0) /\ UNCHANGED reason
  /\ UNCHANGED <<engine, executed, expired, firing, looked, list, loaded, late>>

\* The pulse records the refusal that the hand-over has recorded already.
RecordAgain ==
  /\ pc["pulse"] = "again"
  /\ RecordSuppressed(rec["pulse"], reason)
  /\ reason' = "none"
  /\ Return("pulse", 0)
  /\ UNCHANGED <<engine, executed, expired, firing, looked, list, loaded, late, faults>>

\* A deferred interrupt or a busy lane takes it: it stays pending here.
Queue(t) ==
  /\ pc[t] = "gate"
  /\ faults < FaultBound
  /\ faults' = faults + 1
  /\ Return(t, 0)
  /\ UNCHANGED <<engine, pool, firing, looked, list, reason, loaded, late>>

BeginRun(t) ==
  /\ pc[t] = "gate"
  /\ pc' = [pc EXCEPT ![t] = "run"]
  /\ looked' = [looked EXCEPT ![t] = version[recs[rec[t]].trigger]]
  /\ UNCHANGED <<engine, pool, firing, rec, list, done, reason, loaded, late, faults>>

\* Mutated form: a failed run, too, marks the recommendation executed.
MarkedAnyway(r, ok) == executed \cup {r}

\* Mutated form: the number of the next recommendation is marked.
MarkedNext(r, ok) == IF ok THEN executed \cup {r + 1} ELSE executed

Marked(r, ok) == IF ok THEN executed \cup {r} ELSE executed

\* The handler looked at the thing some time between its call and now.
EndRun(t) ==
  /\ pc[t] = "run"
  /\ LET r == rec[t]  x == recs[r].trigger IN
     \E ok \in BOOLEAN, seen \in {looked[t], version[x]} :
       /\ ~ok => faults < FaultBound
       /\ faults' = IF ok THEN faults ELSE faults + 1
       /\ loaded' = IF ok /\ seen > loaded[x]
                    THEN [loaded EXCEPT ![x] = seen] ELSE loaded
       /\ executed' = Marked(r, ok)
       /\ Return(t, IF ok THEN 1 ELSE 0)
  /\ looked' = [looked EXCEPT ![t] = 0]
  /\ UNCHANGED <<engine, recs, acked, expired, firing, list, reason, late>>

-----------------------------------------------------------------------------
\* Mutated form: retry_not_before is not cleared.
RetryStaysPutOff(r) == recs[r].held /\ UNCHANGED vars

\* Time passes: a back-off, a cooldown and dedup window, 24 hours.
RetryIsDue(r) ==
  /\ recs[r].held
  /\ recs' = [recs EXCEPT ![r].held = FALSE]
  /\ UNCHANGED <<engine, acked, executed, expired, firing, pc, rec, looked, list,
                 done, reason, loaded, late, faults>>

QuietEnds(x) ==
  /\ quiet[x]
  /\ quiet' = [quiet EXCEPT ![x] = FALSE]
  /\ UNCHANGED <<version, fired, pool, firing, pc, rec, looked, list, done,
                 reason, loaded, late, faults>>

Expire(r) ==
  /\ Pending(r)
  /\ faults < FaultBound
  /\ faults' = faults + 1
  /\ expired' = expired \cup {r}
  /\ UNCHANGED <<engine, recs, acked, executed, firing, pc, rec, looked, list,
                 done, reason, loaded, late>>

Advance(t) == Handle(t) \/ Refuse(t) \/ Queue(t) \/ BeginRun(t) \/ EndRun(t)

Next ==
  \/ \E x \in Triggers : Notice(x) \/ QuietEnds(x)
  \/ Merge \/ BeginPass \/ Scan \/ RecordAgain
  \/ \E t \in Threads : Advance(t)
  \/ \E r \in Ids : RetryIsDue(r) \/ Expire(r)

Spec == Init /\ [][Next]_vars

\* Both threads go on, the cycle keeps pulsing, and a back-off ends.
Fairness ==
  /\ \A t \in Threads : WF_vars(Advance(t))
  /\ WF_vars(Merge) /\ WF_vars(BeginPass) /\ WF_vars(Scan) /\ WF_vars(RecordAgain)
  /\ \A r \in 1 .. ChangeBound :
       WF_vars(r \in Ids /\ RetryIsDue(r))

FairSpec == Spec /\ Fairness

-----------------------------------------------------------------------------
\* However refusals, failures, expiry and executions by both threads fall,
\* the events of a trigger gather in one recommendation: there are never two
\* of it to be acted on.
OneOpenPerTrigger ==
  \A r, s \in Ids : Pending(r) /\ Pending(s) /\ recs[r].trigger = recs[s].trigger
                    => r = s

\* A change its trigger fired on is not forgotten: a run has covered it, or
\* it waits in a recommendation, or was set aside with one, or it came while
\* the action was running already.
NoFiringVanishes ==
  \A x \in Triggers :
    \/ fired[x] <= loaded[x] \/ firing = x \/ late[x] = fired[x]
    \/ \E r \in Ids : /\ recs[r].trigger = x /\ recs[r].upto = fired[x]
                      /\ r \notin executed \ (acked \cup expired)

\* Every recommendation comes to an end: refusals by count, by success or by
\* the end of its day, with pulses that skip what is put off.
Settles == \A r \in 1 .. ChangeBound :
             r \in Ids ~> r \in Ids /\ ~Pending(r)
=============================================================================

--------------------------- MODULE SentinelProofs ---------------------------
(***************************************************************************)
(* Proofs about the sentinel and its hand-overs, for any set of triggers   *)
(* and ranks, any budgets and any bounds.                                  *)
(***************************************************************************)
EXTENDS Sentinel, FiniteSetTheorems, TLAPS

Engaged(t) == pc[t] \in {"handle", "gate", "run", "again"}

\* A thread that hands over has something in hand.
EngagedHasRec == \A t \in Threads : Engaged(t) => rec[t] # 0

Typed == TypeOK /\ EngagedHasRec

-----------------------------------------------------------------------------
(* Type correctness                                                        *)

LEMMA InitTyped == Init => Typed
<1> SUFFICES ASSUME Init PROVE Typed
  OBVIOUS
<1>1. Ids = {} \/ Ids = 1 .. 0
  BY DEF Init, Ids
<1>2. recs \in Seq(RecType) /\ list \in Seq(Ids)
  BY DEF Init
<1> QED
  BY <1>2, SentinelAssumption
     DEF Init, Typed, TypeOK, EngagedHasRec, Engaged, Threads,
         SentinelAssumption

\* What changes fields of rows, and no more, keeps the numbers.
LEMMA SameNumbers ==
  ASSUME TypeOK, recs' \in Seq(RecType), Len(recs') = Len(recs)
  PROVE  Ids' = Ids
  BY DEF Ids

\* A number names a recommendation.
LEMMA RecTyped ==
  ASSUME TypeOK, NEW r \in Ids
  PROVE  recs[r] \in RecType
  BY DEF TypeOK, Ids

\* Both threads return to a place and drop what they had in hand.
LEMMA ReturnTyped ==
  ASSUME Typed, NEW t \in Threads, NEW n \in {0, 1}, Return(t, n), Ids' = Ids
  PROVE  /\ pc' \in [Threads -> {"idle", "handle", "gate", "run", "again", "scan"}]
         /\ rec' \in [Threads -> {0} \cup Ids']
         /\ done' \in Nat
         /\ EngagedHasRec'
  BY DEF Return, Typed, TypeOK, EngagedHasRec, Engaged

LEMMA SuppressedTyped ==
  ASSUME NEW row \in RecType, NEW up \in BOOLEAN
  PROVE  /\ Suppressed(row, up) \in RecType
         /\ Suppressed(row, up).trigger = row.trigger
         /\ Suppressed(row, up).upto = row.upto
<1> PICK count \in Nat : count = row.suppressions + 1
  BY DEF RecType
<1> PICK put \in BOOLEAN : put = ~up
  OBVIOUS
<1>1. Suppressed(row, up) = [row EXCEPT !.suppressions = count, !.held = put]
  BY Zenon DEF Suppressed
<1> QED
  BY <1>1 DEF RecType

LEMMA RecordSuppressedTyped ==
  ASSUME TypeOK, NEW r \in Ids, NEW why, RecordSuppressed(r, why)
  PROVE  /\ recs' \in Seq(RecType) /\ Len(recs') = Len(recs)
         /\ \A s \in Ids : /\ recs'[s].trigger = recs[s].trigger
                           /\ recs'[s].upto = recs[s].upto
         /\ acked' \subseteq Ids /\ acked \subseteq acked'
<1>1. PICK up \in BOOLEAN :
        /\ recs' = [recs EXCEPT ![r] = Suppressed(recs[r], up)]
        /\ acked' = IF up THEN acked \cup {r} ELSE acked
  BY DEF RecordSuppressed, GivenUp
<1>2. recs \in Seq(RecType) /\ recs[r] \in RecType /\ acked \subseteq Ids
  BY DEF TypeOK, Ids
<1> PICK row : row = Suppressed(recs[r], up)
  OBVIOUS
<1>3. row \in RecType /\ row.trigger = recs[r].trigger /\ row.upto = recs[r].upto
  BY <1>2, SuppressedTyped
<1>4. recs' = [recs EXCEPT ![r] = row]
  BY <1>1
<1>5. /\ recs' \in Seq(RecType) /\ Len(recs') = Len(recs)
      /\ \A s \in Ids : recs'[s] = IF s = r THEN row ELSE recs[s]
  BY <1>2, <1>3, <1>4 DEF Ids
<1> QED
  BY <1>1, <1>2, <1>3, <1>5

LEMMA AdvanceTyped ==
  ASSUME Typed, NEW t \in Threads, Advance(t)
  PROVE  Typed'
<1>0. TypeOK /\ (Engaged(t) => rec[t] \in Ids)
  BY DEF Typed, TypeOK, EngagedHasRec
<1>1. CASE Handle(t)
  <2>1. Ids' = Ids
    BY <1>1 DEF Handle, Ids
  <2>2. rec[t] \in Ids
    BY <1>0, <1>1 DEF Handle, Engaged
  <2>3. CASE acked' = acked \cup {rec[t]} /\ Return(t, 1)
    BY <1>0, <1>1, <2>1, <2>2, <2>3, ReturnTyped DEF Handle, Typed, TypeOK, engine
  <2>4. CASE Return(t, 0) /\ UNCHANGED acked
    BY <1>0, <1>1, <2>1, <2>4, ReturnTyped DEF Handle, Typed, TypeOK, engine
  <2>5. CASE pc' = [pc EXCEPT ![t] = "gate"] /\ UNCHANGED <<acked, rec, done>>
    BY <1>0, <1>1, <2>1, <2>2, <2>5
       DEF Handle, Typed, TypeOK, engine, EngagedHasRec, Engaged
  <2> QED
    BY <1>1, <2>3, <2>4, <2>5 DEF Handle
<1>2. CASE Refuse(t)
  <2>1. rec[t] \in Ids
    BY <1>0, <1>2 DEF Refuse, Engaged
  <2>2. PICK why \in {"cooldown", "repeat"} :
          /\ why = "cooldown" => faults < FaultBound
          /\ faults' = IF why = "cooldown" THEN faults + 1 ELSE faults
          /\ RecordSuppressed(rec[t], why)
          /\ IF t = "pulse"
             THEN /\ reason' = why
                  /\ pc' = [pc EXCEPT ![t] = "again"]
                  /\ UNCHANGED <<rec, done>>
             ELSE Return(t, 0) /\ UNCHANGED reason
    BY <1>2 DEF Refuse
  <2>3. /\ recs' \in Seq(RecType) /\ Ids' = Ids /\ acked' \subseteq Ids'
    BY <1>0, <2>1, <2>2, RecordSuppressedTyped, SameNumbers
  <2>4. faults' \in 0 .. FaultBound
    BY <1>0, <2>2, SentinelAssumption DEF TypeOK, SentinelAssumption
  <2>5. /\ pc' \in [Threads -> {"idle", "handle", "gate", "run", "again", "scan"}]
        /\ rec' \in [Threads -> {0} \cup Ids'] /\ done' \in Nat
        /\ EngagedHasRec' /\ reason' \in {"none", "cooldown", "repeat"}
    <3>1. CASE t = "pulse"
      <4>1. /\ pc' = [pc EXCEPT ![t] = "again"]
            /\ rec' = rec /\ done' = done
            /\ reason' \in {"cooldown", "repeat"}
        BY <2>2, <3>1
      <4>2. rec[t] # 0
        BY <2>1 DEF Ids
      <4>3. EngagedHasRec'
        BY <1>0, <4>1, <4>2 DEF Typed, TypeOK, EngagedHasRec, Engaged
      <4> QED
        BY <1>0, <2>3, <4>1, <4>3 DEF TypeOK
    <3>2. CASE t # "pulse"
      BY <1>0, <2>2, <2>3, <3>2, ReturnTyped DEF TypeOK
    <3> QED
      BY <3>1, <3>2
  <2> QED
    BY <1>0, <1>2, <2>3, <2>4, <2>5 DEF Refuse, Typed, TypeOK, engine
<1>3. CASE Queue(t)
  <2>1. Ids' = Ids /\ faults' \in 0 .. FaultBound
    BY <1>0, <1>3, SentinelAssumption DEF Queue, Ids, pool, TypeOK, SentinelAssumption
  <2> QED
    BY <1>0, <1>3, <2>1, ReturnTyped DEF Queue, Typed, TypeOK, engine, pool
<1>4. CASE BeginRun(t)
  <2>1. rec[t] \in Ids /\ Ids' = Ids
    BY <1>0, <1>4 DEF BeginRun, Engaged, pool, Ids
  <2>2. recs[rec[t]].trigger \in Triggers
    BY <2>1, RecTyped DEF Typed, RecType
  <2>3. looked' \in [Threads -> Nat]
    BY <1>0, <1>4, <2>2 DEF BeginRun, TypeOK
  <2> QED
    BY <1>0, <1>4, <2>1, <2>3
       DEF BeginRun, Typed, TypeOK, engine, pool, EngagedHasRec, Engaged
<1>5. CASE EndRun(t)
  <2>1. rec[t] \in Ids /\ Ids' = Ids
    BY <1>0, <1>5 DEF EndRun, Engaged, Ids
  <2>2. recs[rec[t]].trigger \in Triggers
    BY <2>1, RecTyped DEF Typed, RecType
  <2>3. PICK ok \in BOOLEAN, seen \in {looked[t], version[recs[rec[t]].trigger]} :
          /\ ~ok => faults < FaultBound
          /\ faults' = IF ok THEN faults ELSE faults + 1
          /\ loaded' = IF ok /\ seen > loaded[recs[rec[t]].trigger]
                       THEN [loaded EXCEPT ![recs[rec[t]].trigger] = seen]
                       ELSE loaded
          /\ executed' = Marked(rec[t], ok)
          /\ Return(t, IF ok THEN 1 ELSE 0)
    BY <1>5 DEF EndRun
  <2>4. faults' \in 0 .. FaultBound
    BY <1>0, <2>3, SentinelAssumption DEF TypeOK, SentinelAssumption
  <2>5. loaded' \in [Triggers -> Nat] /\ looked' \in [Threads -> Nat]
    BY <1>0, <1>5, <2>2, <2>3 DEF TypeOK, EndRun
  <2>6. executed' \subseteq Ids
    BY <1>0, <2>1, <2>3 DEF TypeOK, Marked
  <2>7. /\ pc' \in [Threads -> {"idle", "handle", "gate", "run", "again", "scan"}]
        /\ rec' \in [Threads -> {0} \cup Ids'] /\ done' \in Nat
        /\ EngagedHasRec'
    BY <2>1, <2>3, ReturnTyped
  <2> QED
    BY <1>0, <1>5, <2>1, <2>4, <2>5, <2>6, <2>7
       DEF EndRun, Typed, TypeOK, engine
<1> QED
  BY <1>1, <1>2, <1>3, <1>4, <1>5 DEF Advance

LEMMA MergeTyped ==
  ASSUME Typed, Merge
  PROVE  /\ Typed'
         /\ \A s \in Ids : s \in Ids' /\ recs'[s].trigger = recs[s].trigger
<1>0. TypeOK /\ firing \in Triggers /\ firing' = NoTrigger
  BY DEF Typed, TypeOK, Merge
<1>1. CASE MergeTargets(firing) # {}
  <2> DEFINE r == CHOOSE s \in MergeTargets(firing) : TRUE
             row == [recs[r] EXCEPT !.upto = fired[firing]]
  <2>1. r \in Ids /\ recs[r] \in RecType /\ recs \in Seq(RecType)
    BY <1>0, <1>1 DEF MergeTargets, TypeOK, Ids
  <2>2. /\ recs' = [recs EXCEPT ![r].upto = fired[firing]]
        /\ late' = IF Running(r)
                   THEN [late EXCEPT ![firing] = fired[firing]] ELSE late
        /\ UNCHANGED <<pc, rec>>
    BY <1>1 DEF Merge
  <2>3. row \in RecType /\ row.trigger = recs[r].trigger
    BY <1>0, <2>1 DEF TypeOK, RecType
  <2>4. recs' = [recs EXCEPT ![r] = row]
    BY <2>2
  <2> HIDE DEF r, row
  <2>5. /\ recs' \in Seq(RecType) /\ Len(recs') = Len(recs)
        /\ \A s \in Ids : recs'[s] = IF s = r THEN row ELSE recs[s]
    BY <2>1, <2>3, <2>4 DEF Ids
  <2>6. late' \in [Triggers -> Nat]
    BY <1>0, <2>2 DEF TypeOK
  <2>7. Ids' = Ids
    BY <1>0, <2>5, SameNumbers
  <2>8. Typed'
    BY <1>0, <2>2, <2>5, <2>6, <2>7
       DEF Merge, Typed, TypeOK, engine, EngagedHasRec, Engaged
  <2> QED
    BY <2>3, <2>5, <2>7, <2>8
<1>2. CASE MergeTargets(firing) = {}
  <2> DEFINE row == [trigger |-> firing, upto |-> fired[firing],
                     suppressions |-> 0, held |-> FALSE]
  <2>1. /\ recs' = Append(recs, row)
        /\ pc' = [pc EXCEPT !["poller"] = "handle"]
        /\ rec' = [rec EXCEPT !["poller"] = Len(recs')]
        /\ UNCHANGED late
    BY <1>2 DEF Merge
  <2>2. row \in RecType
    BY <1>0 DEF TypeOK, RecType
  <2> HIDE DEF row
  <2>3. /\ recs' \in Seq(RecType) /\ Len(recs') = Len(recs) + 1
        /\ \A s \in Ids : recs'[s] = recs[s]
        /\ Len(recs) \in Nat
    BY <1>0, <2>1, <2>2 DEF TypeOK, Ids
  <2>4. Ids \subseteq Ids' /\ Len(recs') \in Ids' /\ Len(recs') # 0
    BY <2>3 DEF Ids
  <2>5. rec' \in [Threads -> {0} \cup Ids'] /\ EngagedHasRec'
    BY <1>0, <2>1, <2>4 DEF Typed, TypeOK, EngagedHasRec, Engaged
  <2>6. list \in Seq(Ids')
    BY <1>0, <2>4 DEF TypeOK
  <2> QED
    BY <1>0, <2>1, <2>3, <2>4, <2>5, <2>6 DEF Merge, Typed, TypeOK, engine
<1> QED
  BY <1>1, <1>2

\* The pulse's list holds numbers of recommendations.
LEMMA BeginPassTyped == Typed /\ BeginPass => Typed'
<1> SUFFICES ASSUME Typed, BeginPass PROVE Typed'
  OBVIOUS
<1> DEFINE pending == {r \in Ids : Pending(r)}
           size == IF Cardinality(pending) < ScanLimit THEN Cardinality(pending)
                   ELSE ScanLimit
<1>1. Len(recs) \in Nat
  BY DEF Typed, TypeOK
<1>2. IsFiniteSet(pending)
  <2>1. IsFiniteSet(Ids)
    BY <1>1, FS_Interval DEF Ids
  <2> QED
    BY <2>1, FS_Subset
<1>3. Cardinality(pending) \in Nat /\ ScanLimit \in Nat
  BY <1>2, FS_CardinalityType, SentinelAssumption
     DEF ScanLimit, SentinelAssumption
<1>4. list' \in [1 .. size -> pending] /\ Ids' = Ids
  BY DEF BeginPass, pool, Ids
<1>5. size \in Nat /\ pending \subseteq Ids
  BY <1>3
<1> HIDE DEF pending, size
<1>6. list' \in Seq(Ids)
  BY <1>4, <1>5
<1> QED
  BY <1>4, <1>6 DEF BeginPass, Typed, TypeOK, engine, pool, EngagedHasRec, Engaged

LEMMA ScanTyped == Typed /\ Scan => Typed'
<1> SUFFICES ASSUME Typed, Scan PROVE Typed'
  OBVIOUS
<1>1. Ids' = Ids /\ list \in Seq(Ids) /\ Ids \subseteq Nat \ {0}
  BY DEF Scan, pool, Ids, Typed, TypeOK
<1>2. \/ Idle("pulse")
      \/ UNCHANGED <<pc, rec>>
      \/ /\ list # <<>>
         /\ pc' = [pc EXCEPT !["pulse"] = "handle"]
         /\ rec' = [rec EXCEPT !["pulse"] = Head(list)]
  BY DEF Scan
<1>5. list' \in Seq(Ids)
  <2>1. <<>> \in Seq(Ids) /\ (list # <<>> => Tail(list) \in Seq(Ids))
    BY <1>1
  <2>2. list' = <<>> \/ (list # <<>> /\ list' = Tail(list))
    BY DEF Scan
  <2> QED
    BY <2>1, <2>2
<1>3. list # <<>> => Head(list) \in Ids
  BY <1>1
<1>4. /\ pc' \in [Threads -> {"idle", "handle", "gate", "run", "again", "scan"}]
      /\ rec' \in [Threads -> {0} \cup Ids] /\ EngagedHasRec'
  <2>0. "pulse" \in Threads
    BY DEF Threads
  <2>1. CASE Idle("pulse")
    BY <2>0, <2>1 DEF Idle, Typed, TypeOK, EngagedHasRec, Engaged
  <2>2. CASE UNCHANGED <<pc, rec>>
    BY <2>2 DEF Typed, TypeOK, EngagedHasRec, Engaged
  <2>3. CASE /\ list # <<>>
             /\ pc' = [pc EXCEPT !["pulse"] = "handle"]
             /\ rec' = [rec EXCEPT !["pulse"] = Head(list)]
    BY <1>1, <1>3, <2>0, <2>3 DEF Typed, TypeOK, EngagedHasRec, Engaged
  <2> QED
    BY <1>2, <2>1, <2>2, <2>3
<1> QED
  BY <1>1, <1>4, <1>5 DEF Scan, Typed, TypeOK, engine, pool

LEMMA NextTyped == Typed /\ [Next]_vars => Typed'
<1> SUFFICES ASSUME Typed, [Next]_vars PROVE Typed'
  OBVIOUS
<1> USE SentinelAssumption DEF SentinelAssumption
<1>1. ASSUME NEW x \in Triggers, Notice(x) PROVE Typed'
  <2>1. version' \in [Triggers -> Nat]
    BY <1>1 DEF Notice, Typed, TypeOK
  <2>2. fired' \in [Triggers -> Nat] /\ quiet' \in [Triggers -> BOOLEAN]
        /\ firing' \in Triggers \cup {NoTrigger}
    BY <1>1, <2>1 DEF Notice, Typed, TypeOK
  <2> QED
    BY <1>1, <2>1, <2>2
       DEF Notice, Typed, TypeOK, pool, Ids, EngagedHasRec, Engaged
<1>2. ASSUME NEW x \in Triggers, QuietEnds(x) PROVE Typed'
  BY <1>2 DEF QuietEnds, Typed, TypeOK, pool, Ids, EngagedHasRec, Engaged
<1>3. CASE RecordAgain
  <2>1. rec["pulse"] \in Ids /\ "pulse" \in Threads /\ TypeOK
    BY <1>3 DEF RecordAgain, Typed, TypeOK, EngagedHasRec, Engaged, Threads
  <2>2. recs' \in Seq(RecType) /\ Ids' = Ids /\ acked' \subseteq Ids'
    BY <1>3, <2>1, RecordSuppressedTyped, SameNumbers DEF RecordAgain
  <2> QED
    BY <1>3, <2>1, <2>2, ReturnTyped DEF RecordAgain, Typed, TypeOK, engine
<1>4. ASSUME NEW r \in Ids, RetryIsDue(r) PROVE Typed'
  <2> DEFINE row == [recs[r] EXCEPT !.held = FALSE]
  <2>1. recs \in Seq(RecType) /\ recs[r] \in RecType
    BY DEF Typed, TypeOK, Ids
  <2>2. row \in RecType /\ recs' = [recs EXCEPT ![r] = row]
    BY <1>4, <2>1 DEF RecType, RetryIsDue
  <2> HIDE DEF row
  <2>3. recs' \in Seq(RecType) /\ Len(recs') = Len(recs)
    BY <2>1, <2>2 DEF Ids
  <2>4. Ids' = Ids
    BY <2>3, SameNumbers DEF Typed
  <2> QED
    BY <1>4, <2>3, <2>4 DEF RetryIsDue, Typed, TypeOK, engine, EngagedHasRec, Engaged
<1>5. ASSUME NEW r \in Ids, Expire(r) PROVE Typed'
  BY <1>5 DEF Expire, Typed, TypeOK, engine, Ids, EngagedHasRec, Engaged
<1>6. CASE UNCHANGED vars
  BY <1>6 DEF vars, engine, pool, Typed, TypeOK, Ids, EngagedHasRec, Engaged
<1> QED
  BY <1>1, <1>2, <1>3, <1>4, <1>5, <1>6, MergeTyped, BeginPassTyped, ScanTyped,
     AdvanceTyped DEF Next

\* Versions, recommendations, lists and what the threads have in hand keep
\* their types: no thread works on a recommendation that does not exist.
THEOREM TypeCorrect == Spec => []TypeOK
<1>1. Typed => TypeOK
  BY DEF Typed
<1> QED
  BY <1>1, InitTyped, NextTyped, PTL DEF Spec

-----------------------------------------------------------------------------
(* One open recommendation per trigger                                     *)

\* Steps other than a merge make no recommendation, change nobody's trigger
\* or events, and open nothing that was settled.
Settling ==
  /\ Ids' = Ids
  /\ \A r \in Ids : /\ recs'[r].trigger = recs[r].trigger
                    /\ recs'[r].upto = recs[r].upto
  /\ acked \subseteq acked' /\ executed \subseteq executed'
  /\ expired \subseteq expired'

LEMMA SameRecsSettle ==
  ASSUME UNCHANGED recs, acked \subseteq acked', executed \subseteq executed',
         expired \subseteq expired'
  PROVE  Settling
  BY DEF Settling, Ids

LEMMA RefusalSettles ==
  ASSUME TypeOK, NEW r \in Ids, NEW why, RecordSuppressed(r, why),
         UNCHANGED <<executed, expired>>
  PROVE  Settling
<1>1. /\ recs' \in Seq(RecType) /\ Len(recs') = Len(recs)
      /\ \A s \in Ids : /\ recs'[s].trigger = recs[s].trigger
                        /\ recs'[s].upto = recs[s].upto
      /\ acked \subseteq acked'
  BY RecordSuppressedTyped
<1> QED
  BY <1>1, SameNumbers DEF Settling

LEMMA AdvanceSettles ==
  ASSUME Typed, NEW t \in Threads, Advance(t)
  PROVE  Settling
<1>1. CASE Handle(t)
  BY <1>1, SameRecsSettle DEF Handle
<1>2. CASE Refuse(t)
  <2>1. rec[t] \in Ids
    BY <1>2 DEF Refuse, Typed, TypeOK, EngagedHasRec, Engaged
  <2> QED
    BY <1>2, <2>1, RefusalSettles DEF Refuse, Typed
<1>3. CASE Queue(t) \/ BeginRun(t)
  BY <1>3, SameRecsSettle DEF Queue, BeginRun, pool
<1>4. CASE EndRun(t)
  <2>1. UNCHANGED <<recs, acked, expired>> /\ executed \subseteq executed'
    BY <1>4 DEF EndRun, Marked
  <2> QED
    BY <2>1, SameRecsSettle
<1> QED
  BY <1>1, <1>2, <1>3, <1>4 DEF Advance

LEMMA OthersSettle ==
  ASSUME Typed, [Next]_vars
  PROVE  Settling \/ Merge
<1>1. ASSUME NEW x \in Triggers, Notice(x) \/ QuietEnds(x) PROVE Settling
  BY <1>1, SameRecsSettle DEF Notice, QuietEnds, pool
<1>2. CASE BeginPass \/ Scan
  BY <1>2, SameRecsSettle DEF BeginPass, Scan, pool
<1>3. CASE RecordAgain
  <2>1. rec["pulse"] \in Ids
    BY <1>3 DEF RecordAgain, Typed, TypeOK, EngagedHasRec, Engaged, Threads
  <2> QED
    BY <1>3, <2>1, RefusalSettles DEF RecordAgain, Typed
<1>4. ASSUME NEW r \in Ids, RetryIsDue(r) PROVE Settling
  <2>1. /\ recs \in Seq(RecType) /\ recs[r] \in RecType
        /\ recs' = [recs EXCEPT ![r].held = FALSE]
        /\ UNCHANGED <<acked, executed, expired>>
    BY <1>4, RecTyped DEF RetryIsDue, Typed, TypeOK
  <2>2. Len(recs') = Len(recs)
    BY <2>1
  <2>3. \A s \in Ids : /\ recs'[s].trigger = recs[s].trigger
                       /\ recs'[s].upto = recs[s].upto
    BY <2>1 DEF Ids, RecType
  <2> QED
    BY <2>1, <2>2, <2>3 DEF Settling, Ids
<1>5. ASSUME NEW r \in Ids, Expire(r) PROVE Settling
  BY <1>5, SameRecsSettle DEF Expire
<1>6. CASE UNCHANGED vars
  BY <1>6, SameRecsSettle DEF vars, pool
<1> QED
  BY <1>1, <1>2, <1>3, <1>4, <1>5, <1>6, AdvanceSettles DEF Next

\* What a merge does: it adds the events to an open recommendation, or makes
\* one with the next number.
AddsTo(r) ==
  /\ recs[r].trigger = firing /\ Pending(r) /\ Ids' = Ids
  /\ recs'[r].upto = fired[firing]
  /\ \A s \in Ids \ {r} : recs'[s] = recs[s]
  /\ UNCHANGED <<pc, rec>>
  /\ late' = IF Running(r) THEN [late EXCEPT ![firing] = fired[firing]] ELSE late

Makes(n) ==
  /\ \A r \in Ids : ~(recs[r].trigger = firing /\ Pending(r))
  /\ Ids' = Ids \cup {n} /\ n \notin Ids
  /\ recs'[n].trigger = firing /\ recs'[n].upto = fired[firing]
  /\ \A s \in Ids : recs'[s] = recs[s]
  /\ pc'["poller"] = "handle"
  /\ pc'["pulse"] = pc["pulse"] /\ rec'["pulse"] = rec["pulse"]
  /\ UNCHANGED late

LEMMA MergeAdds ==
  ASSUME Typed, Merge
  PROVE  /\ UNCHANGED <<acked, executed, expired>>
         /\ (\E r \in Ids : AddsTo(r)) \/ Makes(Len(recs) + 1)
<1>0. recs \in Seq(RecType) /\ Len(recs) \in Nat /\ TypeOK
  BY DEF Typed, TypeOK
<1>1. UNCHANGED <<acked, executed, expired>>
  BY DEF Merge
<1>2. CASE MergeTargets(firing) # {}
  <2>1. PICK r : r = CHOOSE s \in MergeTargets(firing) : TRUE
    OBVIOUS
  <2>2. r \in Ids /\ recs[r].trigger = firing /\ Pending(r)
    BY <1>2, <2>1 DEF MergeTargets
  <2>3. /\ recs' = [recs EXCEPT ![r].upto = fired[firing]]
        /\ late' = IF Running(r)
                   THEN [late EXCEPT ![firing] = fired[firing]] ELSE late
        /\ UNCHANGED <<pc, rec>>
    BY <1>2, <2>1 DEF Merge
  <2>4. recs[r] \in RecType
    BY <1>0, <2>2, RecTyped
  <2>5. /\ Len(recs') = Len(recs) /\ recs'[r].upto = fired[firing]
        /\ \A s \in Ids \ {r} : recs'[s] = recs[s]
    BY <1>0, <2>2, <2>3, <2>4 DEF Ids, RecType
  <2> QED
    BY <1>1, <2>2, <2>3, <2>5 DEF Ids, AddsTo
<1>3. CASE MergeTargets(firing) = {}
  <2> DEFINE row == [trigger |-> firing, upto |-> fired[firing],
                     suppressions |-> 0, held |-> FALSE]
  <2>1. /\ recs' = Append(recs, row)
        /\ pc' = [pc EXCEPT !["poller"] = "handle"]
        /\ rec' = [rec EXCEPT !["poller"] = Len(recs')]
        /\ UNCHANGED late
    BY <1>3 DEF Merge
  <2>2. /\ Len(recs') = Len(recs) + 1 /\ recs'[Len(recs) + 1] = row
        /\ \A s \in Ids : recs'[s] = recs[s]
    <3> HIDE DEF row
    <3> QED
      BY <1>0, <2>1 DEF Ids
  <2>3. Ids' = Ids \cup {Len(recs) + 1} /\ Len(recs) + 1 \notin Ids
    BY <1>0, <2>2 DEF Ids
  <2>4. /\ pc'["poller"] = "handle" /\ pc'["pulse"] = pc["pulse"]
        /\ rec'["pulse"] = rec["pulse"]
    BY <1>0, <2>1 DEF TypeOK, Threads
  <2>5. \A r \in Ids : ~(recs[r].trigger = firing /\ Pending(r))
    BY <1>3 DEF MergeTargets
  <2> QED
    <3>1. /\ recs'[Len(recs) + 1].trigger = firing
          /\ recs'[Len(recs) + 1].upto = fired[firing]
      BY <2>2
    <3>2. /\ \A s \in Ids : recs'[s] = recs[s]
          /\ UNCHANGED late
      BY <2>1, <2>2
    <3>3. Makes(Len(recs) + 1)
      BY <2>3, <2>4, <2>5, <3>1, <3>2 DEF Makes
    <3> QED
      BY <1>1, <3>3
<1> QED
  BY <1>2, <1>3

\* Whatever is refused, run, retried, expired or acknowledged by both threads,
\* the events of a trigger gather in one open recommendation.
THEOREM EventsGather == Spec => []OneOpenPerTrigger
<1>1. Init => OneOpenPerTrigger
  BY DEF Init, OneOpenPerTrigger, Ids
<1>2. Typed /\ OneOpenPerTrigger /\ [Next]_vars => OneOpenPerTrigger'
  <2> SUFFICES ASSUME Typed, OneOpenPerTrigger, [Next]_vars
               PROVE  OneOpenPerTrigger'
    OBVIOUS
  <2>1. CASE Settling
    BY <2>1 DEF Settling, OneOpenPerTrigger, Pending
  <2>2. CASE Merge
    <3>1. \A s \in Ids : recs'[s].trigger = recs[s].trigger
      BY <2>2, MergeTyped
    <3>2. UNCHANGED <<acked, executed, expired>>
      BY <2>2, MergeAdds
    <3>3. CASE \E r \in Ids : AddsTo(r)
      BY <3>1, <3>2, <3>3 DEF AddsTo, OneOpenPerTrigger, Pending
    <3>4. CASE Makes(Len(recs) + 1)
      BY <3>1, <3>2, <3>4 DEF Makes, OneOpenPerTrigger, Pending
    <3> QED
      BY <2>2, <3>3, <3>4, MergeAdds
  <2> QED
    BY <2>1, <2>2, OthersSettle
<1> QED
  BY <1>1, <1>2, InitTyped, NextTyped, PTL DEF Spec

-----------------------------------------------------------------------------
(* Nothing that fired is forgotten                                         *)

\* A trigger fires on versions noticed, and merges what fired.
Ordered ==
  /\ \A x \in Triggers : fired[x] <= version[x] /\ late[x] <= fired[x]
  /\ \A r \in Ids : recs[r].upto <= fired[recs[r].trigger]

\* A run looked after everything in its recommendation was noticed, unless
\* that was merged into it since.
RunCovers ==
  \A t \in Threads : pc[t] = "run" =>
    \/ recs[rec[t]].upto <= looked[t]
    \/ recs[rec[t]].upto <= late[recs[rec[t]].trigger]

KeptInv == Typed /\ Ordered /\ RunCovers /\ NoFiringVanishes

\* Steps that neither fire, merge, begin a run nor end one.
Aside ==
  /\ Settling
  /\ UNCHANGED <<version, fired, firing, late, executed, loaded>>
  /\ \A t \in Threads : pc'[t] = "run" =>
       pc[t] = "run" /\ rec'[t] = rec[t] /\ looked'[t] = looked[t]

LEMMA AsideKeeps ==
  ASSUME KeptInv, Aside
  PROVE  Ordered' /\ RunCovers' /\ NoFiringVanishes'
<1>1. Ordered'
  BY DEF KeptInv, Aside, Settling, Ordered
<1>2. RunCovers'
  <2> SUFFICES ASSUME NEW t \in Threads, pc'[t] = "run"
               PROVE  \/ recs'[rec'[t]].upto <= looked'[t]
                      \/ recs'[rec'[t]].upto <= late'[recs'[rec'[t]].trigger]
    BY DEF RunCovers
  <2>1. pc[t] = "run" /\ rec'[t] = rec[t] /\ looked'[t] = looked[t] /\ late' = late
    BY DEF Aside
  <2>2. rec[t] \in Ids
    BY <2>1 DEF KeptInv, Typed, TypeOK, EngagedHasRec, Engaged
  <2> QED
    BY <2>1, <2>2 DEF Aside, Settling, KeptInv, RunCovers
<1>3. NoFiringVanishes'
  BY DEF KeptInv, Aside, Settling, NoFiringVanishes
<1> QED
  BY <1>1, <1>2, <1>3

LEMMA BeginRunKeeps ==
  ASSUME KeptInv, NEW t \in Threads, BeginRun(t)
  PROVE  Ordered' /\ RunCovers' /\ NoFiringVanishes'
<1>1. /\ UNCHANGED <<version, fired, firing, late, loaded, recs, acked, executed,
                     expired, rec>>
      /\ Ids' = Ids /\ pc[t] = "gate"
      /\ pc' = [pc EXCEPT ![t] = "run"]
      /\ looked' = [looked EXCEPT ![t] = version[recs[rec[t]].trigger]]
  BY DEF BeginRun, engine, pool, Ids
<1>2. rec[t] \in Ids /\ recs[rec[t]] \in RecType
  BY <1>1, RecTyped DEF KeptInv, Typed, TypeOK, EngagedHasRec, Engaged
<1>3. recs[rec[t]].upto <= version[recs[rec[t]].trigger]
  <2> PICK row \in RecType : row = recs[rec[t]]
    BY <1>2
  <2>1. /\ row.upto \in Nat /\ row.trigger \in Triggers
        /\ fired[row.trigger] \in Nat /\ version[row.trigger] \in Nat
    BY DEF RecType, KeptInv, Typed, TypeOK
  <2>2. row.upto <= fired[row.trigger] /\ fired[row.trigger] <= version[row.trigger]
    BY <1>2, <2>1 DEF KeptInv, Ordered
  <2> QED
    BY <2>1, <2>2
<1>4. RunCovers'
  <2> SUFFICES ASSUME NEW u \in Threads, pc'[u] = "run"
               PROVE  \/ recs[rec[u]].upto <= looked'[u]
                      \/ recs[rec[u]].upto <= late[recs[rec[u]].trigger]
    BY <1>1 DEF RunCovers
  <2>1. CASE u = t
    BY <1>1, <1>3, <2>1 DEF KeptInv, Typed, TypeOK
  <2>2. CASE u # t
    BY <1>1, <2>2 DEF KeptInv, Typed, TypeOK, RunCovers
  <2> QED
    BY <2>1, <2>2
<1>5. Ordered' /\ NoFiringVanishes'
  BY <1>1 DEF KeptInv, Ordered, NoFiringVanishes
<1> QED
  BY <1>4, <1>5

\* A successful run has seen what its recommendation was made of.
LEMMA EndRunKeeps ==
  ASSUME KeptInv, NEW t \in Threads, EndRun(t)
  PROVE  Ordered' /\ RunCovers' /\ NoFiringVanishes'
<1> PICK r : r = rec[t]
  OBVIOUS
<1> PICK x : x = recs[r].trigger
  OBVIOUS
<1>1. /\ UNCHANGED <<version, fired, firing, late, recs, acked, expired>>
      /\ Ids' = Ids /\ pc[t] = "run"
      /\ looked' = [looked EXCEPT ![t] = 0]
  BY DEF EndRun, engine, Ids
<1>2. r \in Ids /\ recs[r] \in RecType
  BY <1>1, RecTyped DEF KeptInv, Typed, TypeOK, EngagedHasRec, Engaged
<1>3. /\ x \in Triggers /\ recs[r].upto \in Nat
      /\ \A y \in Triggers : /\ fired[y] \in Nat /\ version[y] \in Nat
                             /\ loaded[y] \in Nat /\ late[y] \in Nat
      /\ looked[t] \in Nat
  BY <1>2 DEF RecType, KeptInv, Typed, TypeOK
<1>4. PICK ok \in BOOLEAN, seen \in {looked[t], version[x]} :
        /\ loaded' = IF ok /\ seen > loaded[x]
                     THEN [loaded EXCEPT ![x] = seen] ELSE loaded
        /\ executed' = Marked(r, ok)
        /\ Return(t, IF ok THEN 1 ELSE 0)
  BY DEF EndRun
<1>5. /\ \A y \in Triggers : loaded'[y] \in Nat /\ loaded[y] <= loaded'[y]
      /\ ok => seen <= loaded'[x]
  <2>1. seen \in Nat /\ loaded \in [Triggers -> Nat]
    BY <1>3 DEF KeptInv, Typed, TypeOK
  <2>2. CASE ok /\ seen > loaded[x]
    BY <1>3, <1>4, <2>1, <2>2
  <2>3. CASE ~(ok /\ seen > loaded[x])
    BY <1>3, <1>4, <2>1, <2>3
  <2> QED
    BY <2>2, <2>3
<1>6. RunCovers'
  <2>1. \A u \in Threads : pc'[u] = "run" =>
          pc[u] = "run" /\ rec'[u] = rec[u] /\ looked'[u] = looked[u]
    BY <1>1, <1>4 DEF Return, KeptInv, Typed, TypeOK
  <2> QED
    BY <1>1, <2>1 DEF KeptInv, RunCovers
<1>7. NoFiringVanishes'
  <2> SUFFICES ASSUME NEW y \in Triggers,
                      ~(fired[y] <= loaded'[y]), firing # y, late[y] # fired[y]
               PROVE  \E s \in Ids : /\ recs[s].trigger = y
                                     /\ recs[s].upto = fired[y]
                                     /\ s \notin executed' \ (acked \cup expired)
    BY <1>1 DEF NoFiringVanishes
  <2>1. ~(fired[y] <= loaded[y])
    BY <1>3, <1>5
  <2>2. PICK s \in Ids : /\ recs[s].trigger = y /\ recs[s].upto = fired[y]
                         /\ s \notin executed \ (acked \cup expired)
    BY <2>1 DEF KeptInv, NoFiringVanishes
  <2>3. ok => s # r
    <3> SUFFICES ASSUME ok, s = r PROVE FALSE
      OBVIOUS
    <3>1. x = y /\ recs[r].upto = fired[y]
      BY <2>2
    <3>2. fired[y] <= looked[t] \/ fired[y] <= late[y]
      BY <1>1, <3>1 DEF KeptInv, RunCovers
    <3>3. late[y] <= fired[y] /\ fired[y] <= version[y]
      BY DEF KeptInv, Ordered
    <3>4. fired[y] <= looked[t]
      BY <1>3, <3>2, <3>3
    <3>5. seen = looked[t] \/ seen = version[y]
      BY <3>1
    <3>6. seen <= loaded'[y] /\ loaded'[y] \in Nat
      BY <1>3, <1>4, <1>5, <3>1 DEF KeptInv, Typed, TypeOK
    <3> QED
      BY <1>3, <3>3, <3>4, <3>5, <3>6
  <2> QED
    BY <1>4, <2>2, <2>3 DEF Marked
<1>8. Ordered'
  BY <1>1 DEF KeptInv, Ordered
<1> QED
  BY <1>6, <1>7, <1>8

LEMMA MergeKeeps ==
  ASSUME KeptInv, Merge
  PROVE  Ordered' /\ RunCovers' /\ NoFiringVanishes'
<1>0. /\ Typed /\ firing \in Triggers /\ firing' = NoTrigger
      /\ UNCHANGED <<version, fired, loaded, looked, acked, executed, expired>>
      /\ \A y \in Triggers : fired[y] \in Nat /\ late[y] \in Nat
      /\ fired[firing] \in Nat
  BY DEF Merge, KeptInv, Typed, TypeOK, engine
<1>1. ASSUME NEW r \in Ids, AddsTo(r)
      PROVE  Ordered' /\ RunCovers' /\ NoFiringVanishes'
  <2>1. /\ Ids' = Ids /\ recs[r].trigger = firing /\ Pending(r)
        /\ recs'[r].upto = fired[firing] /\ recs'[r].trigger = firing
        /\ \A s \in Ids \ {r} : recs'[s] = recs[s]
        /\ UNCHANGED <<pc, rec>>
    BY <1>0, <1>1, MergeTyped DEF AddsTo
  <2>2. /\ \A y \in Triggers : late[y] <= late'[y] /\ late'[y] <= fired[y]
        /\ \A y \in Triggers \ {firing} : late'[y] = late[y]
        /\ Running(r) => late'[firing] = fired[firing]
    BY <1>0, <1>1 DEF AddsTo, KeptInv, Typed, TypeOK, Ordered
  <2>3. Ordered'
    BY <1>0, <2>1, <2>2 DEF KeptInv, Ordered
  <2>4. RunCovers'
    <3> SUFFICES ASSUME NEW t \in Threads, pc[t] = "run"
                 PROVE  \/ recs'[rec[t]].upto <= looked[t]
                        \/ recs'[rec[t]].upto <= late'[recs'[rec[t]].trigger]
      BY <1>0, <2>1 DEF RunCovers
    <3>1. rec[t] \in Ids
      BY <1>0 DEF Typed, TypeOK, EngagedHasRec, Engaged
    <3>2. CASE rec[t] = r
      <4>1. Running(r)
        BY <3>2 DEF Running
      <4> QED
        BY <1>0, <2>1, <2>2, <3>2, <4>1
    <3>3. CASE rec[t] # r
      <4>1. recs'[rec[t]] = recs[rec[t]]
        BY <2>1, <3>1, <3>3
      <4>2. recs[rec[t]].trigger \in Triggers /\ recs[rec[t]].upto \in Nat
        BY <1>0, <3>1, RecTyped DEF Typed, RecType
      <4>3. \/ recs[rec[t]].upto <= looked[t]
            \/ recs[rec[t]].upto <= late[recs[rec[t]].trigger]
        BY DEF KeptInv, RunCovers
      <4>4. /\ late[recs[rec[t]].trigger] \in Nat
            /\ late'[recs[rec[t]].trigger] \in Nat
            /\ late[recs[rec[t]].trigger] <= late'[recs[rec[t]].trigger]
        BY <1>0, <2>2, <4>2, MergeTyped DEF Typed, TypeOK
      <4> QED
        BY <4>1, <4>2, <4>3, <4>4
    <3> QED
      BY <3>2, <3>3
  <2>5. NoFiringVanishes'
    <3> SUFFICES ASSUME NEW y \in Triggers,
                        ~(fired[y] <= loaded[y]), late'[y] # fired[y]
                 PROVE  \E s \in Ids : /\ recs'[s].trigger = y
                                       /\ recs'[s].upto = fired[y]
                                       /\ s \notin executed \ (acked \cup expired)
      BY <1>0, <2>1 DEF NoFiringVanishes
    <3>1. CASE y = firing
      BY <2>1, <3>1 DEF Pending
    <3>2. CASE y # firing
      <4>1. PICK s \in Ids : /\ recs[s].trigger = y /\ recs[s].upto = fired[y]
                             /\ s \notin executed \ (acked \cup expired)
        BY <2>2, <3>2 DEF KeptInv, NoFiringVanishes
      <4>2. recs'[s] = recs[s]
        BY <2>1, <3>2, <4>1
      <4> QED
        BY <4>1, <4>2
    <3> QED
      BY <3>1, <3>2
  <2> QED
    BY <2>3, <2>4, <2>5
<1>2. CASE Makes(Len(recs) + 1)
  <2> PICK n : n = Len(recs) + 1
    OBVIOUS
  <2>1. /\ Ids' = Ids \cup {n} /\ n \notin Ids
        /\ recs'[n].trigger = firing /\ recs'[n].upto = fired[firing]
        /\ \A s \in Ids : recs'[s] = recs[s]
        /\ pc'["poller"] = "handle"
        /\ pc'["pulse"] = pc["pulse"] /\ rec'["pulse"] = rec["pulse"]
        /\ late' = late
    BY <1>2 DEF Makes
  <2>2. Ordered'
    BY <1>0, <2>1 DEF KeptInv, Ordered
  <2>3. RunCovers'
    <3> SUFFICES ASSUME pc["pulse"] = "run"
                 PROVE  \/ recs'[rec["pulse"]].upto <= looked["pulse"]
                        \/ recs'[rec["pulse"]].upto <=
                             late[recs'[rec["pulse"]].trigger]
      BY <1>0, <2>1 DEF RunCovers, Threads
    <3>1. rec["pulse"] \in Ids
      BY <1>0 DEF Typed, TypeOK, EngagedHasRec, Engaged, Threads
    <3> QED
      BY <2>1, <3>1 DEF KeptInv, RunCovers, Threads
  <2>4. NoFiringVanishes'
    <3> SUFFICES ASSUME NEW y \in Triggers,
                        ~(fired[y] <= loaded[y]), late[y] # fired[y]
                 PROVE  \E s \in Ids' : /\ recs'[s].trigger = y
                                        /\ recs'[s].upto = fired[y]
                                        /\ s \notin executed \ (acked \cup expired)
      BY <1>0, <2>1 DEF NoFiringVanishes
    <3>1. CASE y = firing
      BY <1>0, <2>1, <3>1 DEF Typed, TypeOK
    <3>2. CASE y # firing
      BY <2>1, <3>2 DEF KeptInv, NoFiringVanishes
    <3> QED
      BY <3>1, <3>2
  <2> QED
    BY <2>2, <2>3, <2>4
<1> QED
  BY <1>0, <1>1, <1>2, MergeAdds

LEMMA NoticeKeeps ==
  ASSUME KeptInv, NEW x \in Triggers, Notice(x)
  PROVE  Ordered' /\ RunCovers' /\ NoFiringVanishes'
<1>1. /\ UNCHANGED <<recs, acked, executed, expired, pc, rec, looked, loaded, late>>
      /\ Ids' = Ids /\ firing = NoTrigger
      /\ version' = [version EXCEPT ![x] = @ + 1]
      /\ \/ UNCHANGED <<fired, firing>>
         \/ fired' = [fired EXCEPT ![x] = version'[x]] /\ firing' = x
  BY DEF Notice, pool, Ids
<1>2. /\ \A y \in Triggers : /\ version[y] \in Nat /\ fired[y] \in Nat
                             /\ late[y] \in Nat
      /\ \A y \in Triggers : version'[y] = IF y = x THEN version[y] + 1 ELSE version[y]
      /\ \A y \in Triggers : fired'[y] = fired[y]
                             \/ (fired'[y] = version[y] + 1 /\ y = x /\ firing' = y)
  BY <1>1 DEF KeptInv, Typed, TypeOK
<1>3. \A y \in Triggers : fired[y] <= fired'[y] /\ fired'[y] \in Nat
                          /\ fired'[y] <= version'[y]
  BY <1>2 DEF KeptInv, Ordered
<1>4. Ordered'
  <2>1. \A y \in Triggers : fired'[y] <= version'[y] /\ late[y] <= fired'[y]
    BY <1>2, <1>3 DEF KeptInv, Ordered
  <2>2. ASSUME NEW r \in Ids
        PROVE  recs[r].upto <= fired'[recs[r].trigger]
    <3>1. recs[r].trigger \in Triggers /\ recs[r].upto \in Nat
      BY RecTyped DEF KeptInv, Typed, RecType
    <3> QED
      BY <1>2, <1>3, <3>1 DEF KeptInv, Ordered
  <2> QED
    BY <1>1, <2>1, <2>2 DEF Ordered
<1>5. RunCovers'
  BY <1>1 DEF KeptInv, RunCovers
<1>6. NoFiringVanishes'
  <2> SUFFICES ASSUME NEW y \in Triggers,
                      ~(fired'[y] <= loaded[y]), firing' # y, late[y] # fired'[y]
               PROVE  \E s \in Ids : /\ recs[s].trigger = y
                                     /\ recs[s].upto = fired'[y]
                                     /\ s \notin executed \ (acked \cup expired)
    BY <1>1 DEF NoFiringVanishes
  <2>1. fired'[y] = fired[y] /\ firing # y
    BY <1>1, <1>2, SentinelAssumption DEF SentinelAssumption
  <2> QED
    BY <2>1 DEF KeptInv, NoFiringVanishes
<1> QED
  BY <1>4, <1>5, <1>6

LEMMA OthersAside ==
  ASSUME KeptInv, [Next]_vars
  PROVE  \/ Aside \/ Merge
         \/ \E x \in Triggers : Notice(x)
         \/ \E t \in Threads : BeginRun(t) \/ EndRun(t)
<1>0. Typed /\ (Settling \/ Merge) /\ pc \in [Threads ->
        {"idle", "handle", "gate", "run", "again", "scan"}]
  BY OthersSettle DEF KeptInv, Typed, TypeOK
<1>1. ASSUME NEW t \in Threads, NEW n, Return(t, n), UNCHANGED looked
      PROVE  \A u \in Threads : pc'[u] = "run" =>
               pc[u] = "run" /\ rec'[u] = rec[u] /\ looked'[u] = looked[u]
  BY <1>0, <1>1 DEF Return, Typed, TypeOK
<1>2. ASSUME NEW t \in Threads, Handle(t) \/ Queue(t) \/ Refuse(t), Settling
      PROVE  Aside
  <2>1. UNCHANGED <<version, fired, firing, late, executed, loaded, looked>>
    BY <1>2 DEF Handle, Queue, Refuse, engine, pool
  <2>2. \/ \E n \in {0, 1} : Return(t, n)
        \/ pc' = [pc EXCEPT ![t] = "gate"] /\ rec' = rec
        \/ pc' = [pc EXCEPT ![t] = "again"] /\ rec' = rec
    BY <1>2 DEF Handle, Queue, Refuse
  <2> QED
    BY <1>0, <1>1, <1>2, <2>1, <2>2 DEF Aside
<1>3. ASSUME BeginPass \/ Scan, Settling PROVE Aside
  <2>1. UNCHANGED <<version, fired, firing, late, executed, loaded, looked>>
    BY <1>3 DEF BeginPass, Scan, engine, pool
  <2>2. \E place \in {"scan", "idle", "handle"} :
          \/ pc' = pc /\ rec' = rec
          \/ /\ pc' = [pc EXCEPT !["pulse"] = place]
             /\ rec'["poller"] = rec["poller"]
    BY <1>0, <1>3 DEF BeginPass, Scan, Idle, Typed, TypeOK, Threads
  <2> QED
    BY <1>0, <1>3, <2>1, <2>2 DEF Aside, Threads
<1>4. ASSUME RecordAgain, Settling PROVE Aside
  <2>1. UNCHANGED <<version, fired, firing, late, executed, loaded, looked>>
    BY <1>4 DEF RecordAgain, engine
  <2> QED
    BY <1>1, <1>4, <2>1 DEF RecordAgain, Aside, Threads
<1>5. ASSUME NEW r \in Ids, RetryIsDue(r) \/ Expire(r), Settling PROVE Aside
  BY <1>5 DEF RetryIsDue, Expire, Aside, engine
<1>6. ASSUME NEW x \in Triggers, QuietEnds(x), Settling PROVE Aside
  BY <1>6 DEF QuietEnds, Aside, pool
<1>7. ASSUME UNCHANGED vars, Settling PROVE Aside
  BY <1>7 DEF vars, engine, pool, Aside
<1> QED
  BY <1>0, <1>2, <1>3, <1>4, <1>5, <1>6, <1>7 DEF Next, Advance

\* Whatever both threads run, are refused, put off, give up or merge, a change
\* its trigger fired on is covered by a run, waits in a recommendation, was set
\* aside with one, or came into an action that was running already.
THEOREM FiringsAreKept == Spec => []NoFiringVanishes
<1>1. Init => Ordered /\ RunCovers /\ NoFiringVanishes
  BY DEF Init, Ordered, RunCovers, NoFiringVanishes, Ids, Threads
<1>2. Init => KeptInv
  BY <1>1, InitTyped DEF KeptInv
<1>3. KeptInv /\ [Next]_vars => KeptInv'
  <2> SUFFICES ASSUME KeptInv, [Next]_vars PROVE KeptInv'
    OBVIOUS
  <2>1. Typed'
    BY NextTyped DEF KeptInv
  <2>2. Ordered' /\ RunCovers' /\ NoFiringVanishes'
    BY OthersAside, AsideKeeps, MergeKeeps, NoticeKeeps, BeginRunKeeps,
       EndRunKeeps
  <2> QED
    BY <2>1, <2>2 DEF KeptInv
<1>4. KeptInv => NoFiringVanishes
  BY DEF KeptInv
<1> QED
  BY <1>2, <1>3, <1>4, PTL DEF Spec
=============================================================================

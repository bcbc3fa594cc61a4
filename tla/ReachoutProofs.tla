---------------------------- MODULE ReachoutProofs ----------------------------
(***************************************************************************)
(* Proofs about what reaches the user.                                     *)
(*                                                                         *)
(* The reach-outs, for any number of them, any bound of the marks a pass   *)
(* may make, any scan of the log and any number of faults; and, in the     *)
(* last part, the interrupts that Do Not Disturb holds back, for any       *)
(* threads, recommendations, urgencies, levels and cap of the queue.       *)
(***************************************************************************)
EXTENDS Reachout, DndInterrupts, FiniteSetTheorems, WellFoundedInduction,
        TLAPS

\* Nothing is known of a reach-out before it is sent.
OnlySent ==
  /\ last <= sent /\ task.run <= sent
  /\ \A r \in pushed \cup logged \cup held : r <= sent

\* Every call but those of the escalation is about a reach-out, and a record
\* that is being made is of one that nobody has acknowledged.
Recording ==
  /\ task.call \notin {"idle", "escalate"} => task.run \in Reachouts
  /\ task.call \in {"begin", "complete"} => task.run \notin logged

\* The run of a lane that is kept was never completed.
HeldIsIncomplete ==
  \A r \in held :
    \/ task.call = "complete" /\ task.run = r
    \/ <<"complete", r>> \in cut

\* A reach-out without a row has its record before it, or lost it.
RowOrCut ==
  \A r \in Reachouts :
    r <= sent /\ status[r] = "none" =>
      \/ task.call = "begin" /\ task.run = r
      \/ <<"begin", r>> \in cut

\* What a loop has still to mark is as it was when it was listed.
ListedAreOpen ==
  task.call \in {"close", "escalate"} =>
    \A q \in task.todo : status[q] \in {"delivered", "escalated"}

ReachoutInv ==
  /\ TypeOK /\ OnlySent /\ Recording /\ HeldIsIncomplete /\ RowOrCut
  /\ ListedAreOpen /\ AckIsKept

LEMMA LongestIs ==
  Longest \in Nat /\ \A n \in Nat : AtMost(n, Longest) \in 0 .. Longest
  BY ReachoutAssumption DEF Longest, AtMost, ReachoutAssumption

LEMMA InitReachoutInv == Init => ReachoutInv
<1> SUFFICES ASSUME Init PROVE ReachoutInv
  OBVIOUS
<1>1. TypeOK
  <2>1. 0 \in 0 .. SendBound /\ 0 \in 0 .. FaultBound /\ 0 \in 0 .. 2
    BY ReachoutAssumption DEF ReachoutAssumption
  <2>2. kind \in [Reachouts -> Kinds]
    BY ReachoutAssumption DEF Init, ReachoutAssumption
  <2>3. log \in Seq(Reachouts) /\ Len(log) <= LogScan
    BY ReachoutAssumption DEF Init, ReachoutAssumption
  <2>4. task \in Task
    BY DEF Init, Idle, Task, Calls, NoReachout
  <2>5. status \in [Reachouts -> Statuses]
    BY DEF Init, Statuses
  <2>6. others \in [Reachouts -> 0 .. Longest]
    BY LongestIs DEF Init
  <2> QED
    BY <2>1, <2>2, <2>3, <2>4, <2>5, <2>6 DEF Init, TypeOK, NoReachout
<1>2. OnlySent /\ Recording /\ HeldIsIncomplete /\ RowOrCut
  BY ReachoutAssumption
     DEF Init, OnlySent, Recording, HeldIsIncomplete, RowOrCut, Idle,
         NoReachout, Reachouts, ReachoutAssumption
<1>3. ListedAreOpen /\ AckIsKept
  BY DEF Init, ListedAreOpen, AckIsKept, Idle
<1> QED
  BY <1>1, <1>2, <1>3 DEF ReachoutInv

-----------------------------------------------------------------------------
(* Tasks                                                                   *)

LEMMA IdleIs ==
  /\ Idle \in Task
  /\ Idle.call = "idle" /\ Idle.run = NoReachout /\ Idle.todo = {}
  BY DEF Idle, Task

LEMMA CallIs ==
  ASSUME NEW c \in Calls, NEW r \in Reachouts
  PROVE  /\ Call(c, r) \in Task
         /\ Call(c, r).call = c /\ Call(c, r).run = r
         /\ Call(c, r).todo = {}
  BY DEF Call, Idle, Task

LEMMA SentAre ==
  ASSUME TypeOK
  PROVE  sent \in Nat /\ (\A r \in Reachouts : r \in Nat)
  BY ReachoutAssumption DEF TypeOK, Reachouts, ReachoutAssumption

\* Marking is an update of one row and of the loop that made it.
LEMMA MarkIs ==
  ASSUME TypeOK, NEW r \in Reachouts, NEW s \in Statuses,
         ~LoopIsOver, Mark(r, s)
  PROVE  /\ status' \in [Reachouts -> Statuses] /\ task' \in Task
         /\ status' = [status EXCEPT ![r] = s]
         /\ task'.call = task.call /\ task'.run = task.run
         /\ task'.todo = task.todo \ {r}
<1>1. task.quota \in Nat /\ task.quota # 0
  BY DEF TypeOK, Task, LoopIsOver
<1>2. task.quota - 1 \in Nat
  BY <1>1
<1>3. /\ status' = [status EXCEPT ![r] = s]
      /\ task' = [task EXCEPT !.todo = @ \ {r}, !.quota = @ - 1]
  BY DEF Mark
<1> QED
  BY <1>2, <1>3 DEF TypeOK, Task

LEMMA SweptIs ==
  ASSUME TypeOK, NEW stale \in SUBSET held
  PROVE  /\ Swept(stale) \in [Reachouts -> Statuses]
         /\ \A r \in Reachouts :
              Swept(stale)[r] = IF r \in stale THEN "failed" ELSE status[r]
  BY DEF TypeOK, Swept, Statuses

-----------------------------------------------------------------------------
(* A handler that starts, and leaves the rows alone.                       *)

LEMMA SendKeepsInv == ReachoutInv /\ Send => ReachoutInv'
<1> SUFFICES ASSUME ReachoutInv, Send PROVE ReachoutInv'
  OBVIOUS
<1> USE DEF ReachoutInv
<1>1. /\ task = Idle /\ sent < SendBound /\ sent' = sent + 1
      /\ last' = sent' /\ past' = 0 /\ task' = Call("begin", sent')
      /\ UNCHANGED <<kind, pushed, status, held, others, due, log, logged,
                     cut, missed, faults>>
  BY DEF Send, history
<1>2. sent' \in Reachouts /\ sent' \in 0 .. SendBound /\ sent' > sent
  BY <1>1, SentAre, ReachoutAssumption DEF Reachouts, ReachoutAssumption
<1>3. /\ task' \in Task /\ task'.call = "begin" /\ task'.run = sent'
  BY <1>1, <1>2, CallIs DEF Calls
<1>4. TypeOK'
  BY <1>1, <1>2, <1>3 DEF TypeOK
<1>5. OnlySent'
  BY <1>1, <1>2, <1>3, SentAre DEF OnlySent, TypeOK
<1>6. Recording'
  BY <1>1, <1>2, <1>3, SentAre DEF Recording, OnlySent
<1>7. HeldIsIncomplete'
  BY <1>1, <1>3, IdleIs DEF HeldIsIncomplete
<1>8. RowOrCut'
  <2> SUFFICES ASSUME NEW r \in Reachouts, r <= sent', status[r] = "none"
               PROVE  r = sent' \/ <<"begin", r>> \in cut
    BY <1>1, <1>3 DEF RowOrCut
  <2>1. r = sent' \/ r <= sent
    BY <1>1, SentAre
  <2> QED
    BY <2>1, <1>1, IdleIs DEF RowOrCut
<1>9. ListedAreOpen' /\ AckIsKept'
  BY <1>1, <1>3, IdleIs DEF ListedAreOpen, AckIsKept
<1> QED
  BY <1>4, <1>5, <1>6, <1>7, <1>8, <1>9

\* A handler that starts when none runs, about a reach-out that was sent or
\* about what it listed.
LEMMA HandleKeepsInv ==
  ASSUME ReachoutInv, NEW t \in Task, Handle(t),
         task.call \notin {"begin", "complete", "ack"},
         t.call \notin {"begin", "complete"},
         t.call \notin {"idle", "escalate"} => t.run \in Reachouts,
         t.run <= sent,
         t.call \in {"close", "escalate"} =>
           \A q \in t.todo : status[q] \in {"delivered", "escalated"}
  PROVE  ReachoutInv'
<1> USE DEF ReachoutInv
<1>1. /\ task' = t
      /\ UNCHANGED <<kind, sent, pushed, status, held, others, due, log,
                     last, past, logged, cut, missed, faults>>
  BY DEF Handle, memory, history
<1>2. TypeOK' /\ OnlySent'
  BY <1>1 DEF TypeOK, OnlySent
<1>3. Recording' /\ HeldIsIncomplete' /\ RowOrCut'
  BY <1>1 DEF Recording, HeldIsIncomplete, RowOrCut
<1>4. ListedAreOpen' /\ AckIsKept'
  BY <1>1 DEF ListedAreOpen, AckIsKept
<1> QED
  BY <1>2, <1>3, <1>4

LEMMA CallKeepsInv ==
  ASSUME ReachoutInv, task = Idle, NEW r \in Reachouts, r <= sent,
         NEW c \in {"log", "ack"}, Handle(Call(c, r))
  PROVE  ReachoutInv'
<1>1. /\ Call(c, r) \in Task /\ Call(c, r).call = c /\ Call(c, r).run = r
  BY CallIs DEF Calls
<1>2. task.call = "idle"
  BY IdleIs
<1> QED
  BY <1>1, <1>2, HandleKeepsInv

LEMMA AckKeepsInv == ReachoutInv /\ Ack => ReachoutInv'
<1> SUFFICES ASSUME ReachoutInv, Ack PROVE ReachoutInv'
  OBVIOUS
<1>1. ASSUME NEW r \in Reachouts, NativeAck(r) PROVE ReachoutInv'
  <2>1. task = Idle /\ r <= sent /\ Handle(Call("log", r))
    BY <1>1 DEF NativeAck, ReachoutInv, OnlySent
  <2> QED
    BY <2>1, CallKeepsInv
<1>2. ASSUME NEW r \in Reachouts, task = Idle, r <= sent, AckOnce(r)
      PROVE  ReachoutInv'
  <2>1. CASE InLog(r)
    <3>1. Handle(Call("ack", r))
      BY <1>2, <2>1 DEF AckOnce
    <3> QED
      BY <1>2, <3>1, CallKeepsInv
  <2>2. CASE ~InLog(r)
    <3>1. Handle(Call("log", r))
      BY <1>2, <2>2 DEF AckOnce
    <3> QED
      BY <1>2, <3>1, CallKeepsInv
  <2> QED
    BY <2>1, <2>2
<1>3. ASSUME NEW r \in Reachouts, RegisterExplicit(r) PROVE ReachoutInv'
  BY <1>2, <1>3 DEF RegisterExplicit, ReachoutInv, OnlySent
<1>4. last # NoReachout => last \in Reachouts /\ last <= sent
  BY DEF ReachoutInv, TypeOK, OnlySent
<1>5. CASE RegisterProxy
  BY <1>4, <1>5, CallKeepsInv DEF RegisterProxy
<1>6. CASE SessionActivity
  BY <1>2, <1>4, <1>6 DEF SessionActivity
<1> QED
  BY <1>1, <1>3, <1>5, <1>6 DEF Ack

LEMMA EscalationKeepsInv ==
  ReachoutInv /\ (BeginEscalation \/ EscalationEnds) => ReachoutInv'
<1> SUFFICES ASSUME ReachoutInv, BeginEscalation \/ EscalationEnds
             PROVE  ReachoutInv'
  OBVIOUS
<1>1. NoReachout <= sent
  BY SentAre DEF ReachoutInv, NoReachout
<1>2. CASE BeginEscalation
  <2> DEFINE t == [call |-> "escalate", run |-> NoReachout,
                   todo |-> Unanswered, quota |-> MaxPerCycle]
  <2>1. task = Idle /\ Handle(t)
    BY <1>2 DEF BeginEscalation
  <2>2. /\ Unanswered \subseteq Reachouts
        /\ \A q \in Unanswered : status[q] = "delivered"
    BY DEF Unanswered, ReachoutInv, TypeOK
  <2>3. t \in Task
    BY <2>2, ReachoutAssumption DEF Task, Calls, ReachoutAssumption
  <2>4. /\ t.call = "escalate" /\ t.run = NoReachout /\ t.todo = Unanswered
    OBVIOUS
  <2>5. task.call = "idle"
    BY <2>1, IdleIs
  <2> HIDE DEF t
  <2> QED
    BY <1>1, <2>1, <2>2, <2>3, <2>4, <2>5, HandleKeepsInv
<1>3. CASE EscalationEnds
  BY <1>1, <1>3, IdleIs, HandleKeepsInv DEF EscalationEnds
<1> QED
  BY <1>2, <1>3

-----------------------------------------------------------------------------
(* The calls that change a row.                                            *)

LEMMA BeginKeepsInv == ReachoutInv /\ Begin => ReachoutInv'
<1> SUFFICES ASSUME ReachoutInv, Begin PROVE ReachoutInv'
  OBVIOUS
<1> USE DEF ReachoutInv
<1> DEFINE r == task.run
<1>1. PICK stale \in SUBSET held :
        /\ status' = [Swept(stale) EXCEPT ![r] = "running"]
        /\ held' = (held \ stale) \cup {r}
  BY DEF Begin
<1>2. /\ task.call = "begin" /\ task' = Call("complete", r)
      /\ UNCHANGED <<kind, sent, pushed, others, due, log, last, past,
                     logged, cut, missed, faults>>
  BY DEF Begin, memory, history
<1>3. r \in Reachouts /\ r \notin logged /\ r <= sent
  BY <1>2 DEF Recording, OnlySent
<1>4. task' \in Task /\ task'.call = "complete" /\ task'.run = r
  BY <1>2, <1>3, CallIs DEF Calls
<1>5. /\ status' \in [Reachouts -> Statuses]
      /\ status'[r] = "running"
      /\ \A q \in Reachouts \ {r} :
           status'[q] = IF q \in stale THEN "failed" ELSE status[q]
  BY <1>1, <1>3, SweptIs DEF Statuses
<1>6. \A q \in held : <<"complete", q>> \in cut
  BY <1>2 DEF HeldIsIncomplete
<1> HIDE DEF r
<1>7. TypeOK'
  BY <1>1, <1>2, <1>3, <1>4, <1>5 DEF TypeOK
<1>8. OnlySent' /\ Recording'
  BY <1>1, <1>2, <1>3, <1>4 DEF OnlySent, Recording
<1>9. HeldIsIncomplete'
  BY <1>1, <1>2, <1>4, <1>6 DEF HeldIsIncomplete
<1>10. RowOrCut'
  BY <1>2, <1>4, <1>5 DEF RowOrCut, r
<1>11. ListedAreOpen'
  BY <1>4 DEF ListedAreOpen
<1>12. AckIsKept'
  <2> SUFFICES ASSUME NEW q \in logged
               PROVE  \/ status'[q] = "acked"
                      \/ \E c \in {"begin", "complete", "ack"} : <<c, q>> \in cut
    BY <1>2 DEF AckIsKept
  <2>1. q \in Reachouts \ {r}
    BY <1>3 DEF TypeOK
  <2>2. CASE q \in stale
    BY <1>6, <2>2
  <2>3. CASE q \notin stale
    BY <1>2, <1>5, <2>1, <2>3 DEF AckIsKept
  <2> QED
    BY <2>2, <2>3
<1> QED
  BY <1>7, <1>8, <1>9, <1>10, <1>11, <1>12

\* A record is over: nothing of it is left but the row.
LEMMA CompleteKeepsInv == ReachoutInv /\ Complete => ReachoutInv'
<1> SUFFICES ASSUME ReachoutInv, Complete PROVE ReachoutInv'
  OBVIOUS
<1> USE DEF ReachoutInv
<1> DEFINE r == task.run
           listed == Superseded(r, [status EXCEPT ![r] = "delivered"])
           t == [call |-> "close", run |-> r, todo |-> listed,
                 quota |-> MaxToClose]
<1>1. /\ task.call = "complete" /\ held' = held \ {r}
      /\ missed' \in SUBSET Reachouts
      /\ UNCHANGED <<kind, sent, others, due, log, last, past, logged, cut,
                     faults>>
  BY DEF Complete, Missed, TypeOK, memory, history
<1>2. r \in Reachouts /\ r \notin logged /\ r <= sent
  BY <1>1 DEF Recording, OnlySent
<1>3. PICK s \in {"failed", "delivered"} :
        /\ status' = [status EXCEPT ![r] = s]
        /\ \/ pushed' = pushed \cup {r} /\ task' = Idle
           \/ pushed' = pushed /\ task' = t
  BY DEF Complete, EndRecord
<1>4. /\ status' \in [Reachouts -> Statuses]
      /\ status'[r] # "none"
      /\ \A q \in Reachouts \ {r} : status'[q] = status[q]
  BY <1>2, <1>3 DEF TypeOK, Statuses
<1>5. /\ t \in Task /\ t.call = "close" /\ t.run = r
      /\ \A q \in t.todo : q \in Reachouts \ {r}
                           /\ status[q] \in {"delivered", "escalated"}
  <2>1. /\ listed \subseteq Reachouts \ {r}
        /\ \A q \in listed : status[q] \in {"delivered", "escalated"}
    BY DEF Superseded, Open
  <2> QED
    BY <1>2, <2>1, ReachoutAssumption DEF Task, Calls, ReachoutAssumption
<1>6. \A q \in held' : <<"complete", q>> \in cut
  BY <1>1 DEF HeldIsIncomplete
<1>7. NoReachout <= sent
  BY SentAre DEF NoReachout
<1> HIDE DEF r, t
<1>8. TypeOK'
  BY <1>1, <1>2, <1>3, <1>4, <1>5, IdleIs DEF TypeOK
<1>9. OnlySent' /\ Recording'
  BY <1>1, <1>2, <1>3, <1>5, <1>7, IdleIs DEF OnlySent, Recording
<1>10. HeldIsIncomplete'
  BY <1>1, <1>6 DEF HeldIsIncomplete
<1>11. RowOrCut'
  BY <1>1, <1>4 DEF RowOrCut
<1>12. ListedAreOpen'
  BY <1>3, <1>4, <1>5, IdleIs DEF ListedAreOpen
<1>13. AckIsKept'
  BY <1>1, <1>2, <1>4 DEF AckIsKept, TypeOK
<1> QED
  BY <1>8, <1>9, <1>10, <1>11, <1>12, <1>13

\* A loop marks what is still as it was listed, never an acknowledged row.
LEMMA LoopKeepsInv == ReachoutInv /\ (CloseNext \/ EscalateNext) => ReachoutInv'
<1> SUFFICES ASSUME ReachoutInv, CloseNext \/ EscalateNext PROVE ReachoutInv'
  OBVIOUS
<1> USE DEF ReachoutInv
<1>1. PICK r \in task.todo, s \in {"closed", "escalated"} : Mark(r, s)
  BY DEF CloseNext, EscalateNext
<1>2. /\ task.call \in {"close", "escalate"} /\ ~LoopIsOver
      /\ UNCHANGED <<kind, sent, pushed, held, others, due, log, last, past,
                     logged, cut, missed, faults>>
  BY DEF CloseNext, EscalateNext, memory, history
<1>3. r \in Reachouts /\ status[r] \in {"delivered", "escalated"}
  BY <1>1, <1>2 DEF ListedAreOpen, TypeOK, Task
<1>4. /\ status' \in [Reachouts -> Statuses] /\ task' \in Task
      /\ status' = [status EXCEPT ![r] = s]
      /\ task'.call = task.call /\ task'.run = task.run
      /\ task'.todo = task.todo \ {r}
  BY <1>1, <1>2, <1>3, MarkIs DEF Statuses
<1>5. \A q \in Reachouts : status'[q] = IF q = r THEN s ELSE status[q]
  BY <1>4 DEF TypeOK
<1>6. TypeOK' /\ OnlySent'
  BY <1>2, <1>4 DEF TypeOK, OnlySent
<1>7. Recording' /\ HeldIsIncomplete'
  BY <1>2, <1>4 DEF Recording, HeldIsIncomplete
<1>8. RowOrCut'
  BY <1>1, <1>2, <1>4, <1>5 DEF RowOrCut
<1>9. ListedAreOpen'
  <2>1. task.todo \subseteq Reachouts
    BY DEF TypeOK, Task
  <2> QED
    BY <1>2, <1>4, <1>5, <2>1 DEF ListedAreOpen
<1>10. AckIsKept'
  <2> SUFFICES ASSUME NEW q \in logged
               PROVE  \/ status'[q] = "acked"
                      \/ \E c \in {"begin", "complete", "ack"} : <<c, q>> \in cut
    BY <1>2 DEF AckIsKept
  <2> QED
    BY <1>2, <1>3, <1>5 DEF AckIsKept, TypeOK
<1> QED
  BY <1>6, <1>7, <1>8, <1>9, <1>10

LEMMA CloseEndsKeepsInv == ReachoutInv /\ CloseEnds => ReachoutInv'
<1> SUFFICES ASSUME ReachoutInv, CloseEnds PROVE ReachoutInv'
  OBVIOUS
<1> USE DEF ReachoutInv
<1>1. /\ task.call = "close" /\ task' = Idle
      /\ pushed' = pushed \cup {task.run}
      /\ UNCHANGED <<kind, sent, status, held, others, due, log, last, past,
                     logged, cut, missed, faults>>
  BY DEF CloseEnds, EndRecord, memory, history
<1>2. task.run \in Reachouts /\ task.run <= sent /\ NoReachout <= sent
  BY <1>1, SentAre DEF Recording, OnlySent, NoReachout
<1>3. TypeOK' /\ OnlySent'
  BY <1>1, <1>2, IdleIs DEF TypeOK, OnlySent
<1>4. Recording' /\ HeldIsIncomplete' /\ RowOrCut'
  BY <1>1, IdleIs DEF Recording, HeldIsIncomplete, RowOrCut
<1>5. ListedAreOpen' /\ AckIsKept'
  BY <1>1, IdleIs DEF ListedAreOpen, AckIsKept
<1> QED
  BY <1>3, <1>4, <1>5

LEMMA AppendLogKeepsInv == ReachoutInv /\ AppendLog => ReachoutInv'
<1> SUFFICES ASSUME ReachoutInv, AppendLog PROVE ReachoutInv'
  OBVIOUS
<1> USE DEF ReachoutInv
<1>1. /\ task.call = "log" /\ task' = Call("ack", task.run)
      /\ logged' = logged \cup {task.run}
      /\ log' = IF Len(log) = LogScan THEN Append(Tail(log), task.run)
                ELSE Append(log, task.run)
      /\ UNCHANGED <<kind, sent, pushed, status, held, others, due, last,
                     past, cut, missed, faults>>
  BY DEF AppendLog, memory
<1>2. task.run \in Reachouts /\ task.run <= sent
  BY <1>1 DEF Recording, OnlySent
<1>3. task' \in Task /\ task'.call = "ack" /\ task'.run = task.run
  BY <1>1, <1>2, CallIs DEF Calls
<1>4. log' \in Seq(Reachouts) /\ Len(log') <= LogScan
  <2>1. log \in Seq(Reachouts) /\ Len(log) \in Nat /\ Len(log) <= LogScan
    BY DEF TypeOK
  <2>2. LogScan \in Nat \ {0}
    BY ReachoutAssumption DEF ReachoutAssumption
  <2>3. CASE Len(log) = LogScan
    <3>1. log # <<>>
      BY <2>2, <2>3
    <3>2. Tail(log) \in Seq(Reachouts) /\ Len(Tail(log)) = Len(log) - 1
      BY <2>1, <3>1
    <3> QED
      BY <1>1, <1>2, <2>1, <2>2, <2>3, <3>2
  <2>4. CASE Len(log) # LogScan
    BY <1>1, <1>2, <2>1, <2>2, <2>4
  <2> QED
    BY <2>3, <2>4
<1>5. TypeOK' /\ OnlySent'
  BY <1>1, <1>2, <1>3, <1>4 DEF TypeOK, OnlySent
<1>6. Recording' /\ HeldIsIncomplete' /\ RowOrCut'
  BY <1>1, <1>2, <1>3 DEF Recording, HeldIsIncomplete, RowOrCut
<1>7. ListedAreOpen' /\ AckIsKept'
  BY <1>1, <1>3 DEF ListedAreOpen, AckIsKept
<1> QED
  BY <1>5, <1>6, <1>7

LEMMA AckRunKeepsInv == ReachoutInv /\ AckRun => ReachoutInv'
<1> SUFFICES ASSUME ReachoutInv, AckRun PROVE ReachoutInv'
  OBVIOUS
<1> USE DEF ReachoutInv
<1>1. /\ task.call = "ack" /\ task' = Idle
      /\ status' = [status EXCEPT ![task.run] =
                      IF @ = "none" THEN @ ELSE "acked"]
      /\ UNCHANGED <<kind, sent, pushed, held, others, due, log, last, past,
                     logged, cut, missed, faults>>
  BY DEF AckRun, memory, history
<1>2. task.run \in Reachouts /\ task.run <= sent /\ NoReachout <= sent
  BY <1>1, SentAre DEF Recording, OnlySent, NoReachout
<1>3. /\ status' \in [Reachouts -> Statuses]
      /\ \A q \in Reachouts :
           status'[q] = IF q = task.run /\ status[q] # "none" THEN "acked"
                        ELSE status[q]
  BY <1>1, <1>2 DEF TypeOK, Statuses
<1>4. TypeOK' /\ OnlySent'
  BY <1>1, <1>2, <1>3, IdleIs DEF TypeOK, OnlySent
<1>5. Recording' /\ HeldIsIncomplete' /\ RowOrCut'
  BY <1>1, <1>3, IdleIs DEF Recording, HeldIsIncomplete, RowOrCut
<1>6. ListedAreOpen'
  BY <1>1, IdleIs DEF ListedAreOpen
<1>7. AckIsKept'
  <2> SUFFICES ASSUME NEW q \in logged
               PROVE  \/ status'[q] = "acked"
                      \/ \E c \in {"begin", "complete", "ack"} : <<c, q>> \in cut
    BY <1>1 DEF AckIsKept
  <2>1. q \in Reachouts /\ q <= sent
    BY DEF TypeOK, OnlySent
  <2>2. CASE status[q] = "none"
    BY <1>1, <2>1, <2>2 DEF RowOrCut
  <2>3. CASE status[q] # "none"
    BY <1>1, <1>3, <2>1, <2>3 DEF AckIsKept
  <2> QED
    BY <2>2, <2>3
<1> QED
  BY <1>4, <1>5, <1>6, <1>7

-----------------------------------------------------------------------------
(* Time, and what goes wrong.                                              *)

LEMMA TimeKeepsInv ==
  ReachoutInv /\ (WindowPasses \/ \E r \in Reachouts : BecomesDue(r))
    => ReachoutInv'
<1> SUFFICES ASSUME ReachoutInv,
                    WindowPasses \/ \E r \in Reachouts : BecomesDue(r)
             PROVE  ReachoutInv'
  OBVIOUS
<1> USE DEF ReachoutInv
<1>1. /\ due' \in SUBSET Reachouts /\ past' \in 0 .. 2
      /\ UNCHANGED <<kind, sent, pushed, status, held, others, log, last,
                     task, logged, cut, missed, faults>>
  BY DEF WindowPasses, BecomesDue, TypeOK, memory, history
<1>2. TypeOK' /\ OnlySent'
  BY <1>1 DEF TypeOK, OnlySent
<1>3. Recording' /\ HeldIsIncomplete' /\ RowOrCut' /\ ListedAreOpen' /\ AckIsKept'
  BY <1>1 DEF Recording, HeldIsIncomplete, RowOrCut, ListedAreOpen, AckIsKept
<1> QED
  BY <1>2, <1>3

LEMMA OthersKeepInv == ReachoutInv /\ OtherDelivered => ReachoutInv'
<1> SUFFICES ASSUME ReachoutInv, OtherDelivered PROVE ReachoutInv'
  OBVIOUS
<1> USE DEF ReachoutInv
<1>1. /\ UNCHANGED <<kind, sent, pushed, status, held, due, log, last, past,
                     task, logged, cut, missed, faults>>
  BY DEF OtherDelivered, memory, history
<1>2. PICK from \in Reachouts, n \in Bursts :
        others' = [r \in Reachouts |->
                     IF r <= from /\ status[r] \in {"running", "delivered"}
                     THEN AtMost(others[r] + n, Longest) ELSE others[r]]
  BY DEF OtherDelivered
<1>3. others' \in [Reachouts -> 0 .. Longest]
  <2>1. ASSUME NEW r \in Reachouts
        PROVE  /\ others[r] \in 0 .. Longest
               /\ AtMost(others[r] + n, Longest) \in 0 .. Longest
    <3>1. n \in Nat /\ others[r] \in 0 .. Longest
      BY ReachoutAssumption DEF TypeOK, ReachoutAssumption
    <3> QED
      BY <3>1, LongestIs
  <2> QED
    BY <1>2, <2>1
<1>4. TypeOK' /\ OnlySent'
  BY <1>1, <1>3 DEF TypeOK, OnlySent
<1>5. Recording' /\ HeldIsIncomplete' /\ RowOrCut' /\ ListedAreOpen' /\ AckIsKept'
  BY <1>1 DEF Recording, HeldIsIncomplete, RowOrCut, ListedAreOpen, AckIsKept
<1> QED
  BY <1>4, <1>5

LEMMA SweepKeepsInv == ReachoutInv /\ Sweep => ReachoutInv'
<1> SUFFICES ASSUME ReachoutInv, Sweep PROVE ReachoutInv'
  OBVIOUS
<1> USE DEF ReachoutInv
<1>1. PICK stale \in SUBSET held :
        status' = Swept(stale) /\ held' = held \ stale
  BY DEF Sweep
<1>2. /\ task.call = "idle"
      /\ UNCHANGED <<kind, sent, pushed, others, due, log, last, past, task,
                     logged, cut, missed, faults>>
  BY IdleIs DEF Sweep, memory, history
<1>3. /\ status' \in [Reachouts -> Statuses]
      /\ \A q \in Reachouts :
           status'[q] = IF q \in stale THEN "failed" ELSE status[q]
  BY <1>1, SweptIs
<1>4. \A q \in held : <<"complete", q>> \in cut
  BY <1>2 DEF HeldIsIncomplete
<1>5. TypeOK' /\ OnlySent'
  BY <1>1, <1>2, <1>3 DEF TypeOK, OnlySent
<1>6. Recording' /\ HeldIsIncomplete' /\ RowOrCut'
  BY <1>1, <1>2, <1>3 DEF Recording, HeldIsIncomplete, RowOrCut
<1>7. ListedAreOpen'
  BY <1>2 DEF ListedAreOpen
<1>8. AckIsKept'
  <2> SUFFICES ASSUME NEW q \in logged
               PROVE  \/ status'[q] = "acked"
                      \/ \E c \in {"begin", "complete", "ack"} : <<c, q>> \in cut
    BY <1>2 DEF AckIsKept
  <2>1. CASE q \in stale
    BY <1>4, <2>1
  <2>2. CASE q \notin stale
    BY <1>2, <1>3, <2>2 DEF AckIsKept, TypeOK
  <2> QED
    BY <2>1, <2>2
<1> QED
  BY <1>5, <1>6, <1>7, <1>8

\* What a record or an acknowledgement had still to do is remembered as cut.
LEMMA FaultKeepsInv == ReachoutInv /\ (CallFails \/ Crash) => ReachoutInv'
<1> SUFFICES ASSUME ReachoutInv, CallFails \/ Crash PROVE ReachoutInv'
  OBVIOUS
<1> USE DEF ReachoutInv
<1>1. /\ faults < FaultBound /\ faults' = faults + 1
      /\ cut' = IF task.call \in {"begin", "complete", "close", "ack"}
                THEN cut \cup {<<task.call, task.run>>} ELSE cut
      /\ task' = Idle
      /\ UNCHANGED <<kind, sent, status, held, others, due, log, logged,
                     missed>>
  BY DEF CallFails, Crash, CutShort
<1>2. /\ last' \in {last, NoReachout} /\ past' \in {past, 0}
      /\ \/ pushed' = pushed
         \/ /\ task.call \in {"begin", "complete", "close"}
            /\ pushed' = pushed \cup {task.run}
  BY DEF CallFails, Crash, memory
<1>3. task.call \in {"begin", "complete", "close", "ack"}
        => task.run \in Reachouts
  BY DEF Recording
<1>4. cut' \in SUBSET (Calls \X Reachouts)
  BY <1>1, <1>3 DEF TypeOK, Calls
<1>5. faults' \in 0 .. FaultBound
  BY <1>1, ReachoutAssumption DEF TypeOK, ReachoutAssumption
<1>6. TypeOK'
  BY <1>1, <1>2, <1>3, <1>4, <1>5, IdleIs DEF TypeOK
<1>7. OnlySent'
  <2>1. NoReachout <= sent
    BY SentAre DEF NoReachout
  <2> QED
    BY <1>1, <1>2, <2>1, IdleIs DEF OnlySent
<1>8. Recording' /\ HeldIsIncomplete' /\ RowOrCut'
  BY <1>1, IdleIs DEF Recording, HeldIsIncomplete, RowOrCut
<1>9. ListedAreOpen' /\ AckIsKept'
  BY <1>1, IdleIs DEF ListedAreOpen, AckIsKept
<1> QED
  BY <1>6, <1>7, <1>8, <1>9

-----------------------------------------------------------------------------
LEMMA NextKeepsInv == ReachoutInv /\ [Next]_vars => ReachoutInv'
<1> SUFFICES ASSUME ReachoutInv, [Next]_vars PROVE ReachoutInv'
  OBVIOUS
<1>1. CASE Step
  BY <1>1, BeginKeepsInv, CompleteKeepsInv, LoopKeepsInv, CloseEndsKeepsInv,
     AppendLogKeepsInv, AckRunKeepsInv, EscalationKeepsInv DEF Step
<1>2. CASE UNCHANGED vars
  <2>1. UNCHANGED <<kind, sent, pushed, status, held, others, due, log,
                    last, past, task, logged, cut, missed, faults>>
    BY <1>2 DEF vars, memory, history
  <2> QED
    BY <2>1 DEF ReachoutInv, TypeOK, OnlySent, Recording, HeldIsIncomplete,
                RowOrCut, ListedAreOpen, AckIsKept
<1> QED
  BY <1>1, <1>2, SendKeepsInv, AckKeepsInv, EscalationKeepsInv, TimeKeepsInv,
     OthersKeepInv, SweepKeepsInv, FaultKeepsInv DEF Next

LEMMA InvAlways == Spec => []ReachoutInv
  BY InitReachoutInv, NextKeepsInv, PTL DEF Spec

\* Every state of the reach-outs has its types: rows and lanes of reach-outs,
\* a log that never outgrows what is scanned, a handler at one of its calls.
THEOREM TypeCorrect == Spec => []TypeOK
<1>1. ReachoutInv => TypeOK
  BY DEF ReachoutInv
<1> QED
  BY <1>1, InvAlways, PTL

\* For any number of reach-outs, acknowledgements, sweeps and faults: what
\* the acknowledgement log holds, the runplane holds too, unless a call that
\* makes or acknowledges the row was never made.
THEOREM AcknowledgementsAreKept == Spec => []AckIsKept
<1>1. ReachoutInv => AckIsKept
  BY DEF ReachoutInv
<1> QED
  BY <1>1, InvAlways, PTL
-----------------------------------------------------------------------------
(***************************************************************************)
(* How many reach-outs are open.  A record opens one more, and then closes *)
(* at least one of those it has listed; when it has listed none, only      *)
(* those that some closing missed are open beside its own.  If it is cut   *)
(* short before, the cut is a new one, for no record of a reach-out is cut *)
(* short twice.                                                            *)
(***************************************************************************)
OpenOnes == {r \in Reachouts : Open(r)}
Cuts == {c \in cut : c[1] = "close"}
Allowance == 1 + Cardinality(Cuts) + Cardinality(missed)

\* The closings that were cut short are of older reach-outs than the one that
\* is being recorded.
CutsBefore ==
  \A c \in Cuts :
    /\ c[2] <= sent
    /\ task.call \in {"begin", "complete", "close"} => c[2] < task.run

\* Until its first mark the record is about to close one of the open ones, if
\* there is any beside its own.
Closing ==
  /\ task.todo \subseteq OpenOnes /\ task.quota <= MaxToClose
  /\ Cardinality(OpenOnes) <= 1 + Allowance
  /\ IF task.quota = MaxToClose
     THEN OpenOnes \subseteq task.todo \cup {task.run} \cup missed
     ELSE Cardinality(OpenOnes) <= Allowance

FewOpen ==
  IF task.call = "close" THEN Closing ELSE Cardinality(OpenOnes) <= Allowance

OpenInv == CutsBefore /\ FewOpen

LEMMA FinitelyMany ==
  ASSUME NEW S \in SUBSET (Calls \X Reachouts)
  PROVE  LET T == {c \in S : c[1] = "close"} IN
         /\ IsFiniteSet(Reachouts)
         /\ IsFiniteSet(T) /\ Cardinality(T) \in Nat
         /\ \A c \in T : c = <<"close", c[2]>> /\ c[2] \in Reachouts
<1> DEFINE T == {c \in S : c[1] = "close"}
<1>1. IsFiniteSet(Reachouts)
  BY ReachoutAssumption, FS_Interval DEF Reachouts, ReachoutAssumption
<1>2. \A c \in T : c = <<"close", c[2]>> /\ c[2] \in Reachouts
  OBVIOUS
<1>3. IsFiniteSet({"close"} \X Reachouts)
  BY <1>1, FS_Product, FS_Singleton
<1>4. T \subseteq {"close"} \X Reachouts
  BY <1>2
<1> HIDE DEF T
<1>5. IsFiniteSet(T) /\ Cardinality(T) \in Nat
  BY <1>3, <1>4, FS_Subset, FS_CardinalityType
<1> QED
  BY <1>1, <1>2, <1>5 DEF T

LEMMA OpenAreFinite ==
  ASSUME TypeOK
  PROVE  /\ IsFiniteSet(OpenOnes) /\ Cardinality(OpenOnes) \in Nat
         /\ IsFiniteSet(Cuts) /\ Cardinality(Cuts) \in Nat
         /\ IsFiniteSet(missed) /\ Cardinality(missed) \in Nat
         /\ Allowance \in Nat
         /\ \A c \in Cuts : c = <<"close", c[2]>> /\ c[2] \in Reachouts
<1>1. /\ IsFiniteSet(Reachouts)
      /\ IsFiniteSet(Cuts) /\ Cardinality(Cuts) \in Nat
      /\ \A c \in Cuts : c = <<"close", c[2]>> /\ c[2] \in Reachouts
  BY FinitelyMany DEF TypeOK, Cuts
<1>2. IsFiniteSet(OpenOnes) /\ Cardinality(OpenOnes) \in Nat
  BY <1>1, FS_Subset, FS_CardinalityType DEF OpenOnes
<1>3. IsFiniteSet(missed) /\ Cardinality(missed) \in Nat
  BY <1>1, FS_Subset, FS_CardinalityType DEF TypeOK
<1> QED
  BY <1>1, <1>2, <1>3 DEF Allowance

\* No more are open, and no cut is forgotten.
LEMMA NoMoreOpen ==
  ASSUME TypeOK, TypeOK', OpenOnes' \subseteq OpenOnes, cut \subseteq cut',
         missed' = missed
  PROVE  /\ Cardinality(OpenOnes') <= Cardinality(OpenOnes)
         /\ Cardinality(OpenOnes') \in Nat /\ Cardinality(OpenOnes) \in Nat
         /\ Allowance \in Nat /\ Allowance' \in Nat /\ Allowance <= Allowance'
<1>1. /\ Cardinality(OpenOnes') <= Cardinality(OpenOnes)
      /\ Cardinality(OpenOnes') \in Nat
  BY OpenAreFinite, FS_Subset, FS_CardinalityType
<1>2. IsFiniteSet(Cuts') /\ Cardinality(Cuts') \in Nat
  BY FinitelyMany DEF TypeOK, Cuts
<1>3. Cuts \subseteq Cuts'
  BY DEF Cuts
<1>4. Cardinality(Cuts) <= Cardinality(Cuts')
  BY <1>2, <1>3, FS_Subset
<1>5. Cardinality(missed') = Cardinality(missed)
  OBVIOUS
<1>6. /\ Cardinality(Cuts) \in Nat /\ Cardinality(missed) \in Nat
      /\ Cardinality(OpenOnes) \in Nat
  BY OpenAreFinite
<1> QED
  BY <1>1, <1>2, <1>4, <1>5, <1>6 DEF Allowance

\* A step outside the closing loop that opens none and cuts nothing short.
LEMMA QuietKeepsOpen ==
  ASSUME ReachoutInv, ReachoutInv', OpenInv, task.call # "close",
         OpenOnes' \subseteq OpenOnes, UNCHANGED <<cut, missed>>,
         sent <= sent',
         task'.call # "close",
         task'.call \in {"begin", "complete"} =>
           \/ task'.run > sent
           \/ task'.run = task.run /\ task.call \in {"begin", "complete"}
  PROVE  OpenInv'
<1>0. TypeOK /\ TypeOK' /\ sent \in Nat /\ sent' \in Int
  BY SentAre DEF ReachoutInv, TypeOK
<1>1. Cuts' = Cuts /\ \A c \in Cuts : c[2] \in Nat
  BY <1>0, OpenAreFinite, SentAre DEF Cuts
<1>2. CutsBefore'
  <2>1. task'.call = "begin" \/ task'.call = "complete" => task'.run \in Int
    BY SentAre DEF ReachoutInv, Recording, TypeOK, Reachouts
  <2> QED
    BY <1>0, <1>1, <2>1 DEF OpenInv, CutsBefore
<1>3. FewOpen'
  BY <1>0, NoMoreOpen DEF OpenInv, FewOpen
<1> QED
  BY <1>2, <1>3 DEF OpenInv

\* The rows are left alone, or none gets a status that is open.
LEMMA OpensNone ==
  ASSUME UNCHANGED kind,
         \A r \in Reachouts : \/ status'[r] \notin {"delivered", "escalated"}
                              \/ status[r] \in {"delivered", "escalated"}
  PROVE  OpenOnes' \subseteq OpenOnes
  BY DEF OpenOnes, Open, Asks

LEMMA QuietStepsKeepOpen ==
  ASSUME ReachoutInv, ReachoutInv', OpenInv,
         Send \/ Ack \/ BeginEscalation \/ EscalationEnds \/ AppendLog
  PROVE  OpenInv'
<1>1. UNCHANGED <<kind, status, cut, missed>> /\ task.call # "close"
  BY IdleIs
     DEF Send, Ack, NativeAck, RegisterExplicit, RegisterProxy,
         SessionActivity, AckOnce, BeginEscalation, EscalationEnds, Handle,
         AppendLog, history
<1>2. OpenOnes' \subseteq OpenOnes
  BY <1>1 DEF OpenOnes, Open, Asks
<1>3. CASE Send
  <2>1. sent' = sent + 1 /\ sent' \in Reachouts /\ task' = Call("begin", sent')
    BY <1>3, SentAre, ReachoutAssumption
       DEF Send, Reachouts, ReachoutInv, ReachoutAssumption, TypeOK
  <2>2. task'.call = "begin" /\ task'.run = sent'
    BY <2>1, CallIs DEF Calls
  <2> QED
    BY <1>1, <1>2, <2>1, <2>2, SentAre, QuietKeepsOpen DEF ReachoutInv
<1>4. ASSUME sent' = sent,
             task' = Idle \/ task'.call = "escalate"
               \/ \E c \in {"log", "ack"}, r \in Reachouts : task' = Call(c, r)
      PROVE  OpenInv'
  <2>1. task'.call \in {"idle", "escalate", "log", "ack"}
    BY <1>4, IdleIs, CallIs DEF Calls
  <2> QED
    BY <1>1, <1>2, <1>4, <2>1, SentAre, QuietKeepsOpen DEF ReachoutInv
<1>5. ASSUME NEW r \in Reachouts, AckOnce(r) PROVE OpenInv'
  BY <1>4, <1>5 DEF AckOnce, Handle
<1>6. last # NoReachout => last \in Reachouts
  BY DEF ReachoutInv, TypeOK
<1>7. CASE Ack
  BY <1>4, <1>5, <1>6, <1>7
     DEF Ack, NativeAck, RegisterExplicit, RegisterProxy, SessionActivity, Handle
<1>8. CASE BeginEscalation \/ EscalationEnds
  BY <1>4, <1>8 DEF BeginEscalation, EscalationEnds, Handle
<1>9. CASE AppendLog
  <2>1. task.run \in Reachouts /\ task' = Call("ack", task.run) /\ sent' = sent
    BY <1>9 DEF AppendLog, ReachoutInv, Recording
  <2> QED
    BY <1>4, <2>1
<1> QED
  BY <1>3, <1>7, <1>8, <1>9

\* The calls that change a row outside the closing loop, but for the one that
\* delivers it.
LEMMA RowsKeepOpen ==
  ASSUME ReachoutInv, ReachoutInv', OpenInv,
         Begin \/ AckRun \/ EscalateNext \/ Sweep
  PROVE  OpenInv'
<1>0. /\ UNCHANGED <<kind, sent, cut, missed>> /\ task.call # "close"
      /\ sent \in Nat /\ TypeOK
  BY SentAre, IdleIs
     DEF Begin, AckRun, EscalateNext, Sweep, history, ReachoutInv
<1>1. ASSUME \A r \in Reachouts :
               \/ status'[r] \notin {"delivered", "escalated"}
               \/ status[r] \in {"delivered", "escalated"},
             \/ task'.call \notin {"begin", "complete", "close"}
             \/ /\ task'.call = "complete" /\ task.call = "begin"
                /\ task'.run = task.run
      PROVE  OpenInv'
  <2>1. OpenOnes' \subseteq OpenOnes
    BY <1>0, <1>1, OpensNone
  <2> QED
    BY <1>0, <1>1, <2>1, QuietKeepsOpen
<1>2. CASE Begin
  <2>1. PICK stale \in SUBSET held :
          status' = [Swept(stale) EXCEPT ![task.run] = "running"]
    BY <1>2 DEF Begin
  <2>2. /\ task.call = "begin" /\ task.run \in Reachouts
        /\ task' = Call("complete", task.run)
    BY <1>2 DEF Begin, ReachoutInv, Recording
  <2>3. task'.call = "complete" /\ task'.run = task.run
    BY <2>2, CallIs DEF Calls
  <2>4. \A r \in Reachouts :
          \/ status'[r] \notin {"delivered", "escalated"}
          \/ status[r] \in {"delivered", "escalated"}
    BY <1>0, <2>1, <2>2, SweptIs
  <2> QED
    BY <1>1, <2>2, <2>3, <2>4
<1>3. CASE AckRun
  <2>1. /\ task' = Idle /\ task.run \in Reachouts
        /\ status' = [status EXCEPT ![task.run] =
                        IF @ = "none" THEN @ ELSE "acked"]
    BY <1>3 DEF AckRun, ReachoutInv, Recording
  <2>2. \A r \in Reachouts :
          \/ status'[r] \notin {"delivered", "escalated"}
          \/ status[r] \in {"delivered", "escalated"}
    BY <1>0, <2>1 DEF TypeOK
  <2> QED
    BY <1>1, <2>1, <2>2, IdleIs
<1>4. CASE EscalateNext
  <2>1. PICK r \in task.todo : Mark(r, "escalated")
    BY <1>4 DEF EscalateNext
  <2>2. /\ task.call = "escalate" /\ ~LoopIsOver /\ r \in Reachouts
        /\ status[r] \in {"delivered", "escalated"}
    BY <1>4, <2>1 DEF EscalateNext, ReachoutInv, ListedAreOpen, TypeOK, Task
  <2>3. /\ status' = [status EXCEPT ![r] = "escalated"]
        /\ task'.call = "escalate"
    BY <1>0, <2>1, <2>2, MarkIs DEF Statuses
  <2>4. \A q \in Reachouts :
          \/ status'[q] \notin {"delivered", "escalated"}
          \/ status[q] \in {"delivered", "escalated"}
    BY <1>0, <2>2, <2>3 DEF TypeOK
  <2> QED
    BY <1>1, <2>3, <2>4
<1>5. CASE Sweep
  <2>1. PICK stale \in SUBSET held : status' = Swept(stale)
    BY <1>5 DEF Sweep
  <2>2. task' = Idle
    BY <1>5 DEF Sweep
  <2>3. \A r \in Reachouts :
          \/ status'[r] \notin {"delivered", "escalated"}
          \/ status[r] \in {"delivered", "escalated"}
    BY <1>0, <2>1, SweptIs
  <2> QED
    BY <1>1, <2>2, <2>3, IdleIs
<1> QED
  BY <1>2, <1>3, <1>4, <1>5

\* The delivery opens one more, and lists all the others.
LEMMA CompleteKeepsOpen ==
  ASSUME ReachoutInv, ReachoutInv', OpenInv, Complete
  PROVE  OpenInv'
<1> DEFINE r == task.run
<1>0. /\ task.call = "complete" /\ UNCHANGED <<kind, sent, cut>>
      /\ TypeOK /\ TypeOK' /\ r \in Reachouts
  BY DEF Complete, history, ReachoutInv, Recording
<1>1. /\ IsFiniteSet(OpenOnes) /\ Cardinality(OpenOnes) \in Nat
      /\ Allowance \in Nat
      /\ Cardinality(OpenOnes) <= Allowance
  BY <1>0, OpenAreFinite DEF OpenInv, FewOpen
<1>2. CASE /\ status' = [status EXCEPT ![r] = "failed"] /\ task' = Idle
           /\ missed' = missed
  <2>1. \A q \in Reachouts :
          \/ status'[q] \notin {"delivered", "escalated"}
          \/ status[q] \in {"delivered", "escalated"}
    BY <1>0, <1>2 DEF TypeOK
  <2>2. OpenOnes' \subseteq OpenOnes
    BY <1>0, <2>1, OpensNone
  <2> QED
    BY <1>0, <1>2, <2>2, IdleIs, SentAre, QuietKeepsOpen
<1> DEFINE rows == [status EXCEPT ![r] = "delivered"]
           listed == Superseded(r, rows)
<1>3. CASE /\ status' = rows /\ missed' = missed \cup Missed(r, rows)
           /\ task' = [call |-> "close", run |-> r,
                       todo |-> listed, quota |-> MaxToClose]
  <2>1. /\ task'.call = "close" /\ task'.run = r
        /\ task'.todo = listed /\ task'.quota = MaxToClose
        /\ MaxToClose \in Nat
    BY <1>3, ReachoutAssumption DEF ReachoutAssumption
  <2>2. \A q \in Reachouts \ {r} : Open(q)' <=> Open(q)
    BY <1>0, <1>3 DEF TypeOK, Open, Asks
  <2>3. /\ OpenOnes' \subseteq OpenOnes \cup {r}
        /\ listed \subseteq OpenOnes'
        /\ OpenOnes' \subseteq listed \cup {r} \cup missed'
    BY <1>3, <2>2 DEF OpenOnes, Superseded, Missed
  <2> DEFINE more == Cardinality(OpenOnes \cup {r})
  <2>4. IsFiniteSet(OpenOnes \cup {r}) /\ more \in Nat
    BY <1>1, FS_AddElement, FS_CardinalityType
  <2>5. more = Cardinality(OpenOnes) \/ more = Cardinality(OpenOnes) + 1
    BY <1>1, FS_AddElement, Zenon
  <2>6. Cardinality(OpenOnes') <= more /\ Cardinality(OpenOnes') \in Nat
    BY <2>3, <2>4, FS_Subset, FS_CardinalityType
  <2> HIDE DEF more
  <2>7. Cardinality(OpenOnes') <= 1 + Allowance'
    <3>1. IsFiniteSet(Reachouts) /\ missed' \in SUBSET Reachouts
      BY <1>0, FinitelyMany DEF TypeOK
    <3>2. IsFiniteSet(missed') /\ Cardinality(missed') \in Nat
      BY <3>1, FS_Subset, FS_CardinalityType
    <3>3. /\ Cardinality(missed) \in Nat /\ Cardinality(Cuts) \in Nat
          /\ Cardinality(missed) <= Cardinality(missed')
      BY <1>0, <1>3, <3>2, FS_Subset, OpenAreFinite
    <3>4. Cuts' = Cuts
      BY <1>0 DEF Cuts
    <3>5. Allowance' \in Nat /\ Allowance <= Allowance'
      BY <3>2, <3>3, <3>4 DEF Allowance
    <3> QED
      BY <1>1, <2>4, <2>5, <2>6, <3>5
  <2> HIDE DEF listed
  <2>8. FewOpen'
    BY <2>1, <2>3, <2>7 DEF FewOpen, Closing
  <2>9. CutsBefore'
    BY <1>0, <2>1 DEF OpenInv, CutsBefore, Cuts
  <2> QED
    BY <2>8, <2>9 DEF OpenInv
<1> QED
  BY <1>2, <1>3 DEF Complete, EndRecord

\* Each mark of the closing loop closes one that is open.
LEMMA CloseKeepsOpen ==
  ASSUME ReachoutInv, ReachoutInv', OpenInv, CloseNext
  PROVE  OpenInv'
<1>1. PICK r \in task.todo : Mark(r, "closed")
  BY DEF CloseNext
<1>2. /\ task.call = "close" /\ ~LoopIsOver
      /\ UNCHANGED <<kind, sent, cut, missed>>
      /\ TypeOK /\ TypeOK' /\ Closing
  BY DEF CloseNext, history, ReachoutInv, OpenInv, FewOpen
<1>3. r \in Reachouts /\ r \in OpenOnes
  BY <1>1, <1>2 DEF Closing, OpenOnes
<1>4. /\ status' = [status EXCEPT ![r] = "closed"]
      /\ task'.call = "close" /\ task'.run = task.run
      /\ task'.todo = task.todo \ {r}
  BY <1>1, <1>2, <1>3, MarkIs DEF Statuses
<1>5. task'.quota = task.quota - 1 /\ task.quota \in Nat /\ MaxToClose \in Nat
  BY <1>1, <1>2, ReachoutAssumption DEF Mark, TypeOK, Task, ReachoutAssumption
<1>6. \A q \in Reachouts : Open(q)' <=> Open(q) /\ q # r
  BY <1>2, <1>3, <1>4 DEF TypeOK, Open, Asks
<1>7. OpenOnes' = OpenOnes \ {r}
  BY <1>6 DEF OpenOnes
<1>8. /\ IsFiniteSet(OpenOnes) /\ Cardinality(OpenOnes) \in Nat
      /\ Allowance \in Nat /\ Allowance' = Allowance
  BY <1>2, OpenAreFinite DEF Allowance, Cuts
<1>9. Cardinality(OpenOnes') = Cardinality(OpenOnes) - 1
  BY <1>3, <1>7, <1>8, FS_RemoveElement
<1>10. Cardinality(OpenOnes') <= Allowance'
  BY <1>2, <1>8, <1>9 DEF Closing
<1>11. /\ task'.todo \subseteq OpenOnes'
       /\ task'.quota <= MaxToClose /\ task'.quota # MaxToClose
  BY <1>2, <1>4, <1>5, <1>7 DEF Closing
<1>12. Cardinality(OpenOnes') <= 1 + Allowance'
  BY <1>8, <1>9, <1>10
<1>13. FewOpen'
  BY <1>4, <1>10, <1>11, <1>12 DEF FewOpen, Closing
<1>14. CutsBefore'
  BY <1>2, <1>4 DEF OpenInv, CutsBefore, Cuts
<1> QED
  BY <1>13, <1>14 DEF OpenInv

\* A record whose loop is over has closed one, or found no other.
LEMMA CloseEndsKeepsOpen ==
  ASSUME ReachoutInv, ReachoutInv', OpenInv, CloseEnds
  PROVE  OpenInv'
<1>1. /\ task.call = "close" /\ LoopIsOver /\ task' = Idle
      /\ UNCHANGED <<kind, sent, status, cut, missed>> /\ TypeOK /\ Closing
  BY DEF CloseEnds, EndRecord, history, ReachoutInv, OpenInv, FewOpen
<1>2. /\ IsFiniteSet(OpenOnes) /\ Cardinality(OpenOnes) \in Nat
      /\ Cardinality(Cuts) \in Nat /\ MaxToClose # 0
      /\ IsFiniteSet(missed) /\ Cardinality(missed) \in Nat
  BY <1>1, OpenAreFinite, ReachoutAssumption DEF ReachoutAssumption
<1>3. Cardinality(OpenOnes) <= Allowance
  <2>1. CASE task.quota # MaxToClose
    BY <1>1, <2>1 DEF Closing
  <2>2. CASE task.quota = MaxToClose
    <3> DEFINE most == missed \cup {task.run}
    <3>1. OpenOnes \subseteq most
      BY <1>1, <1>2, <2>2 DEF Closing, LoopIsOver
    <3>2. /\ IsFiniteSet(most) /\ Cardinality(most) \in Nat
          /\ \/ Cardinality(most) = Cardinality(missed)
             \/ Cardinality(most) = Cardinality(missed) + 1
      BY <1>2, FS_AddElement, FS_CardinalityType, Zenon
    <3> HIDE DEF most
    <3>3. Cardinality(OpenOnes) <= Cardinality(most)
      BY <3>1, <3>2, FS_Subset
    <3> QED
      BY <1>2, <3>2, <3>3 DEF Allowance
  <2> QED
    BY <2>1, <2>2
<1>4. FewOpen'
  BY <1>1, <1>3, IdleIs DEF FewOpen, OpenOnes, Open, Asks, Allowance, Cuts
<1>5. CutsBefore'
  BY <1>1, IdleIs DEF OpenInv, CutsBefore, Cuts
<1> QED
  BY <1>4, <1>5 DEF OpenInv

\* A closing that is cut short is the first one of its reach-out.
LEMMA FaultKeepsOpen ==
  ASSUME ReachoutInv, ReachoutInv', OpenInv, CallFails \/ Crash
  PROVE  OpenInv'
<1>1. /\ cut' = IF task.call \in {"begin", "complete", "close", "ack"}
                THEN cut \cup {<<task.call, task.run>>} ELSE cut
      /\ task' = Idle
      /\ UNCHANGED <<kind, sent, status, missed>>
      /\ TypeOK /\ TypeOK'
  BY DEF CallFails, Crash, CutShort, ReachoutInv
<1>2. OpenOnes' = OpenOnes /\ cut \subseteq cut'
  BY <1>1 DEF OpenOnes, Open, Asks
<1>3. /\ Cardinality(OpenOnes) \in Nat /\ Allowance \in Nat
      /\ Allowance' \in Nat /\ Allowance <= Allowance'
  BY <1>1, <1>2, NoMoreOpen
<1>4. CASE task.call = "close"
  <2>1. Cuts' = Cuts \cup {<<"close", task.run>>}
    BY <1>1, <1>4 DEF Cuts
  <2>2. /\ <<"close", task.run>> \notin Cuts
        /\ task.run <= sent /\ task.run \in Nat
    BY <1>4, SentAre DEF OpenInv, CutsBefore, ReachoutInv, OnlySent, Recording
  <2>3. /\ IsFiniteSet(Cuts) /\ Cardinality(Cuts) \in Nat
        /\ Cardinality(missed) \in Nat
    BY <1>1, OpenAreFinite
  <2>4. Cardinality(Cuts') = Cardinality(Cuts) + 1
    BY <2>1, <2>2, <2>3, FS_AddElement
  <2>5. Cardinality(OpenOnes) <= Allowance'
    BY <1>1, <1>3, <1>4, <2>3, <2>4 DEF OpenInv, FewOpen, Closing, Allowance
  <2>6. FewOpen'
    BY <1>1, <1>2, <2>5, IdleIs DEF FewOpen
  <2>7. CutsBefore'
    BY <1>1, <2>1, <2>2, IdleIs DEF OpenInv, CutsBefore
  <2> QED
    BY <2>6, <2>7 DEF OpenInv
<1>5. CASE task.call # "close"
  <2>1. Cuts' = Cuts
    BY <1>1, <1>5 DEF Cuts
  <2>2. CutsBefore'
    BY <1>1, <2>1, IdleIs DEF OpenInv, CutsBefore
  <2>3. FewOpen'
    BY <1>1, <1>2, <1>5, <2>1, IdleIs DEF OpenInv, FewOpen, Allowance
  <2> QED
    BY <2>2, <2>3 DEF OpenInv
<1> QED
  BY <1>4, <1>5

LEMMA InitOpenInv == Init => OpenInv
<1> SUFFICES ASSUME Init PROVE OpenInv
  OBVIOUS
<1>1. OpenOnes = {} /\ Cuts = {}
  BY DEF Init, OpenOnes, Open, Cuts
<1>2. Cardinality(OpenOnes) <= Allowance
  BY <1>1, FS_EmptySet DEF Init, Allowance
<1> QED
  BY <1>1, <1>2, IdleIs DEF Init, OpenInv, CutsBefore, FewOpen

LEMMA NextKeepsOpen ==
  ASSUME ReachoutInv, ReachoutInv', OpenInv, [Next]_vars
  PROVE  OpenInv'
<1>1. CASE UNCHANGED <<kind, sent, status, cut, missed, task>>
  BY <1>1
     DEF OpenInv, CutsBefore, FewOpen, Closing, OpenOnes, Open, Asks,
         Allowance, Cuts
<1>2. ASSUME WindowPasses \/ (\E r \in Reachouts : BecomesDue(r))
               \/ OtherDelivered \/ UNCHANGED vars
      PROVE  OpenInv'
  BY <1>1, <1>2 DEF WindowPasses, BecomesDue, OtherDelivered, vars, history
<1>3. CASE Step
  BY <1>3, RowsKeepOpen, CompleteKeepsOpen, CloseKeepsOpen, CloseEndsKeepsOpen,
     QuietStepsKeepOpen DEF Step
<1> QED
  BY <1>2, <1>3, QuietStepsKeepOpen, RowsKeepOpen, FaultKeepsOpen DEF Next

\* For any number of reach-outs, any limit of marks and any faults: between
\* handlers one reach-out is open at most, and one more for each closing that
\* a failed call or a death of the process cut short and for each reach-out
\* that a closing did not find among the newest rows of its status.
THEOREM OneIsOpen == Spec => []OneOpenReachout
<1>1. Init => ReachoutInv /\ OpenInv
  BY InitReachoutInv, InitOpenInv
<1>2. ReachoutInv /\ OpenInv /\ [Next]_vars => (ReachoutInv /\ OpenInv)'
  BY NextKeepsInv, NextKeepsOpen
<1>3. ReachoutInv /\ OpenInv => OneOpenReachout
  BY IdleIs DEF OpenInv, FewOpen, OneOpenReachout, OpenOnes, Allowance, Cuts
<1> QED
  BY <1>1, <1>2, <1>3, PTL DEF Spec

-----------------------------------------------------------------------------
(***************************************************************************)
(* The deferred interrupts                                                 *)
(***************************************************************************)

\* The entries of a queue that are about r and not delivered, and the threads
\* that carry r.
Unseen(q, r) == {i \in 1 .. Len(q) : ~q[i].delivered /\ q[i].rec = r}
CarriersOf(jobs, r) == {t \in Threads : jobs[t] = r}

\* A thread has a recommendation in hand just between taking it and leaving it
\* in the queue, executing it or giving it up.
JobHeld ==
  \A t \in Threads :
    job[t] = Nothing <=> pc[t] \in {"idle", "acquiring", "delivering"}

\* Every level lets critical items pass: none is queued or about to be.
NoneCritical ==
  /\ \A i \in 1 .. Len(queue) : ~Critical(queue[i])
  /\ \A t \in Threads : pc[t] = "adding" => UrgencyOf[job[t]] # "critical"

\* Each handover is an execution, a thread that carries the recommendation or
\* an entry that is not delivered, or it was given up or dropped.
Accounted ==
  \A r \in Recs :
    /\ IsFiniteSet(CarriersOf(job, r))
    /\ runs[r] + Cardinality(CarriersOf(job, r)) + Cardinality(Unseen(queue, r))
         <= handed[r]

DndInv ==
  /\ DndTypeOK /\ JobHeld /\ NoneCritical /\ DeliveredFirst /\ Accounted

-----------------------------------------------------------------------------
(* The queue                                                               *)

LEMMA OldestOne ==
  ASSUME NEW S \in SUBSET Nat, S # {}
  PROVE  \E i \in S : \A k \in S : i <= k
<1> DEFINE Less == {p \in Nat \X Nat : p[1] < p[2]}
<1>1. IsWellFoundedOn(Less, Nat)
  BY NatLessThanWellFounded, Zenon DEF OpToRel
<1>2. PICK i \in S : \A k \in S : <<k, i>> \notin Less
  BY <1>1, WFMin
<1>3. ASSUME NEW k \in S, k < i PROVE FALSE
  BY <1>2, <1>3
<1>4. i \in Nat /\ S \subseteq Nat
  OBVIOUS
<1> QED
  BY <1>3, <1>4

\* The oldest undelivered item is one, and those before it are delivered.
LEMMA OldestIs ==
  ASSUME DndTypeOK, Undelivered # {}
  PROVE  /\ Oldest \in 1 .. Len(queue) /\ ~queue[Oldest].delivered
         /\ \A k \in 1 .. Len(queue) :
              ~queue[k].delivered => Oldest <= k
<1>1. Undelivered \subseteq Nat
  BY DEF Undelivered
<1>2. \E i \in Undelivered : \A k \in Undelivered : i <= k
  BY <1>1, OldestOne
<1>3. /\ Oldest \in Undelivered
      /\ \A k \in Undelivered : Oldest <= k
  BY <1>2 DEF Oldest
<1> QED
  BY <1>3 DEF Undelivered

\* Where nothing is critical the sort leaves every item in its place.
LEMMA SortIs ==
  ASSUME NEW q \in Seq(Item),
         \A i \in 1 .. Len(q) : ~Critical(q[i])
  PROVE  Sorted(q) = q
<1>1. ASSUME NEW i \in 1 .. Len(q) PROVE Place(q, i) = i
  <2> DEFINE S == {k \in 1 .. Len(q) : SortsBefore(q, k, i)}
  <2>1. S = 1 .. i - 1
    BY DEF SortsBefore
  <2>2. Cardinality(1 .. i - 1) = i - 1
    BY FS_Interval
  <2>3. Place(q, i) = 1 + Cardinality(S)
    BY DEF Place
  <2> HIDE DEF S
  <2> QED
    BY <2>1, <2>2, <2>3
<1>2. ASSUME NEW n \in 1 .. Len(q)
      PROVE  (CHOOSE i \in 1 .. Len(q) : Place(q, i) = n) = n
  BY <1>1
<1>3. Sorted(q) = [n \in 1 .. Len(q) |-> q[n]]
  <2> DEFINE from(n) == CHOOSE i \in 1 .. Len(q) : Place(q, i) = n
  <2>1. Sorted(q) = [n \in 1 .. Len(q) |-> q[from(n)]]
    BY DEF Sorted
  <2>2. \A n \in 1 .. Len(q) : from(n) = n
    BY <1>2
  <2> HIDE DEF from
  <2> QED
    BY <2>1, <2>2
<1> QED
  BY <1>3

LEMMA TrimIs ==
  ASSUME NEW q \in Seq(Item), Len(q) = QueueMax + 1,
         \A i \in 1 .. Len(q) : ~Critical(q[i])
  PROVE  Trimmed(q) = Tail(q)
<1>1. QueueMax \in Nat \ {0}
  BY DndAssumption
<1>2. Trimmed(q) = SubSeq(q, Len(q) - QueueMax + 1, Len(q))
  BY <1>1, SortIs DEF Trimmed
<1>3. Len(q) - QueueMax + 1 = 2
  BY <1>1
<1>4. SubSeq(q, 2, Len(q)) = Tail(q)
  BY <1>1
<1> QED
  BY <1>2, <1>3, <1>4

\* What an item does to the queue: it is the last one, and the others move up
\* by one when the queue was full.
Moved(q, p, item, d) ==
  /\ p \in Seq(Item) /\ Len(p) = Len(q) + 1 - d
  /\ \A i \in 1 .. Len(p) : p[i] = IF i + d <= Len(q) THEN q[i + d] ELSE item

LEMMA AddIs ==
  ASSUME DndInv, NEW t \in Threads, Add(t)
  PROVE  LET item == [rec |-> job[t], delivered |-> FALSE] IN
         /\ job[t] \in Recs /\ item \in Item /\ ~Critical(item)
         /\ \/ Len(queue) < QueueMax /\ Moved(queue, queue', item, 0)
            \/ /\ Len(queue) = QueueMax /\ Moved(queue, queue', item, 1)
               /\ queue' = Tail(Append(queue, item))
<1> DEFINE item == [rec |-> job[t], delivered |-> FALSE]
           q == Append(queue, item)
<1>1. /\ queue \in Seq(Item) /\ Len(queue) <= QueueMax
      /\ QueueMax \in Nat \ {0}
  BY DndAssumption DEF DndInv, DndTypeOK
<1>2. job[t] \in Recs /\ UrgencyOf[job[t]] # "critical"
  BY DEF Add, DndInv, JobHeld, NoneCritical, DndTypeOK
<1>3. item \in Item /\ ~Critical(item)
  BY <1>2 DEF Item, Critical
<1>4. queue' = Trimmed(q)
  BY DEF Add
<1> HIDE DEF item
<1>5. /\ q \in Seq(Item) /\ Len(q) = Len(queue) + 1
      /\ \A i \in 1 .. Len(q) : q[i] = IF i <= Len(queue) THEN queue[i] ELSE item
  BY <1>1, <1>3
<1>6. CASE Len(queue) < QueueMax
  <2>1. queue' = q
    BY <1>1, <1>4, <1>5, <1>6 DEF Trimmed
  <2>2. Moved(queue, queue', item, 0)
    BY <1>1, <1>5, <2>1 DEF Moved
  <2> QED
    BY <1>2, <1>3, <1>6, <2>2 DEF item
<1>7. CASE Len(queue) = QueueMax
  <2>1. \A i \in 1 .. Len(q) : ~Critical(q[i])
    BY <1>1, <1>3, <1>5 DEF DndInv, NoneCritical
  <2>2. queue' = Tail(q)
    BY <1>1, <1>4, <1>5, <1>7, <2>1, TrimIs
  <2> HIDE DEF q
  <2>3. q # <<>>
    BY <1>1, <1>5
  <2>4. /\ Tail(q) \in Seq(Item) /\ Len(Tail(q)) = Len(q) - 1
        /\ \A i \in 1 .. Len(q) - 1 : Tail(q)[i] = q[i + 1]
    BY <1>5, <2>3
  <2>5. Moved(queue, queue', item, 1)
    BY <1>1, <1>5, <2>2, <2>4 DEF Moved
  <2> QED
    BY <1>2, <1>3, <1>7, <2>2, <2>5 DEF item, q
<1>8. Len(queue) < QueueMax \/ Len(queue) = QueueMax
  BY <1>1
<1> QED
  BY <1>6, <1>7, <1>8

-----------------------------------------------------------------------------
(* Counting                                                                *)

LEMMA UnseenIs ==
  ASSUME NEW q \in Seq(Item), NEW r
  PROVE  IsFiniteSet(Unseen(q, r)) /\ Cardinality(Unseen(q, r)) \in Nat
<1>1. IsFiniteSet(1 .. Len(q))
  BY FS_Interval
<1>2. IsFiniteSet(Unseen(q, r))
  BY <1>1, FS_Subset DEF Unseen
<1> QED
  BY <1>2, FS_CardinalityType

\* One more of what is added, and possibly one less of what is dropped.
LEMMA MovedCounts ==
  ASSUME NEW q \in Seq(Item), NEW p \in Seq(Item), NEW item,
         NEW d \in {0, 1}, Moved(q, p, item, d), NEW r
  PROVE  /\ Cardinality(Unseen(p, r)) <= Cardinality(Unseen(q, r)) + 1
         /\ item.rec # r =>
              Cardinality(Unseen(p, r)) <= Cardinality(Unseen(q, r))
<1> DEFINE n == Len(q) + 1
           T == IF item.rec = r THEN Unseen(q, r) \cup {n} ELSE Unseen(q, r)
           f == [i \in Unseen(p, r) |-> i + d]
<1>0. Len(q) \in Nat /\ Len(p) \in Nat
  OBVIOUS
<1>1. ASSUME NEW i \in Unseen(p, r) PROVE i + d \in T
  <2>1. /\ i \in 1 .. Len(p) /\ ~p[i].delivered /\ p[i].rec = r
        /\ i + d \in 1 .. Len(q) + 1
    BY <1>0 DEF Unseen, Moved
  <2>2. CASE i + d <= Len(q)
    <3>1. p[i] = q[i + d] /\ i + d \in 1 .. Len(q)
      BY <1>0, <2>1, <2>2 DEF Moved
    <3>2. i + d \in Unseen(q, r)
      BY <2>1, <3>1 DEF Unseen
    <3> QED
      BY <3>2
  <2>3. CASE ~(i + d <= Len(q))
    BY <1>0, <2>1, <2>3 DEF Moved
  <2> QED
    BY <2>2, <2>3
<1>2. f \in Injection(Unseen(p, r), T)
  <2>1. f \in [Unseen(p, r) -> T]
    BY <1>1
  <2>2. \A i, k \in Unseen(p, r) : f[i] = f[k] => i = k
    BY DEF Unseen
  <2> QED
    BY <2>1, <2>2 DEF Injection, IsInjective
<1>3. IsFiniteSet(Unseen(q, r)) /\ Cardinality(Unseen(q, r)) \in Nat
  BY UnseenIs
<1>4. n \notin Unseen(q, r)
  BY <1>0 DEF Unseen
<1>5. /\ IsFiniteSet(Unseen(q, r) \cup {n})
      /\ Cardinality(Unseen(q, r) \cup {n}) = Cardinality(Unseen(q, r)) + 1
  BY <1>3, <1>4, FS_AddElement
<1> HIDE DEF f, n
<1>6. CASE item.rec = r
  <2>1. Cardinality(Unseen(p, r)) <= Cardinality(Unseen(q, r) \cup {n})
    BY <1>2, <1>5, <1>6, FS_Injection
  <2> QED
    BY <1>5, <1>6, <2>1
<1>7. CASE item.rec # r
  <2>1. Cardinality(Unseen(p, r)) <= Cardinality(Unseen(q, r))
    BY <1>2, <1>3, <1>7, FS_Injection
  <2>2. Cardinality(Unseen(p, r)) \in Nat
    BY UnseenIs
  <2> QED
    BY <1>3, <2>1, <2>2
<1> QED
  BY <1>6, <1>7

LEMMA MarkedCounts ==
  ASSUME DndTypeOK, NEW i \in 1 .. Len(queue), ~queue[i].delivered,
         queue' = Marked(i), NEW r
  PROVE  /\ queue' \in Seq(Item) /\ Len(queue') = Len(queue)
         /\ \A k \in 1 .. Len(queue) :
              /\ queue'[k].rec = queue[k].rec
              /\ queue'[k].delivered <=> k = i \/ queue[k].delivered
         /\ Cardinality(Unseen(queue', r)) =
              IF queue[i].rec = r THEN Cardinality(Unseen(queue, r)) - 1
                                  ELSE Cardinality(Unseen(queue, r))
<1>1. queue' = [queue EXCEPT ![i].delivered = TRUE] /\ queue \in Seq(Item)
  BY DEF Marked, DndTypeOK
<1> DEFINE item == [queue[i] EXCEPT !.delivered = TRUE]
<1>2. queue' = [queue EXCEPT ![i] = item]
  BY <1>1
<1>3. item \in Item /\ item.rec = queue[i].rec /\ item.delivered
  <2>1. queue[i] \in Item
    BY <1>1
  <2> QED
    BY <2>1 DEF Item
<1> HIDE DEF item
<1>4. /\ queue' \in Seq(Item) /\ Len(queue') = Len(queue)
      /\ \A k \in 1 .. Len(queue) :
           queue'[k] = IF k = i THEN item ELSE queue[k]
  <2>1. queue \in [1 .. Len(queue) -> Item] /\ Len(queue) \in Nat
    BY <1>1
  <2>2. queue' \in [1 .. Len(queue) -> Item]
    BY <1>2, <1>3, <2>1
  <2>3. queue' \in Seq(Item) /\ Len(queue') = Len(queue)
    BY <2>1, <2>2
  <2> QED
    BY <1>2, <2>1, <2>3
<1>5. \A k \in 1 .. Len(queue) :
        /\ queue'[k].rec = queue[k].rec
        /\ queue'[k].delivered <=> k = i \/ queue[k].delivered
  BY <1>1, <1>3, <1>4 DEF Item
<1>6. Unseen(queue', r) = Unseen(queue, r) \ {i}
  BY <1>4, <1>5 DEF Unseen
<1>7. i \in Unseen(queue, r) <=> queue[i].rec = r
  BY DEF Unseen
<1>8. Cardinality(Unseen(queue, r) \ {i}) =
        IF i \in Unseen(queue, r) THEN Cardinality(Unseen(queue, r)) - 1
                                  ELSE Cardinality(Unseen(queue, r))
  BY <1>1, UnseenIs, FS_RemoveElement
<1> QED
  BY <1>4, <1>5, <1>6, <1>7, <1>8

\* A thread that takes r is one more carrier of it, and of nothing else.
LEMMA TakeCounts ==
  ASSUME NEW jobs \in [Threads -> Recs \cup {Nothing}],
         NEW t \in Threads, NEW r \in Recs, jobs[t] # r, NEW s \in Recs,
         s = r \/ jobs[t] # s,
         IsFiniteSet(CarriersOf(jobs, s))
  PROVE  LET taken == CarriersOf([jobs EXCEPT ![t] = r], s) IN
         /\ IsFiniteSet(taken)
         /\ Cardinality(taken) = IF s = r THEN Cardinality(CarriersOf(jobs, s)) + 1
                                 ELSE Cardinality(CarriersOf(jobs, s))
<1> DEFINE taken == CarriersOf([jobs EXCEPT ![t] = r], s)
<1>1. CASE s = r
  <2>1. taken = CarriersOf(jobs, s) \cup {t} /\ t \notin CarriersOf(jobs, s)
    BY <1>1 DEF CarriersOf
  <2>2. /\ IsFiniteSet(CarriersOf(jobs, s) \cup {t})
        /\ Cardinality(CarriersOf(jobs, s) \cup {t})
             = Cardinality(CarriersOf(jobs, s)) + 1
    BY <2>1, FS_AddElement
  <2> QED
    BY <1>1, <2>1, <2>2
<1>2. CASE s # r
  <2>1. taken = CarriersOf(jobs, s)
    BY <1>2 DEF CarriersOf
  <2> QED
    BY <1>2, <2>1
<1> QED
  BY <1>1, <1>2

LEMMA DropCounts ==
  ASSUME NEW jobs \in [Threads -> Recs \cup {Nothing}],
         NEW t \in Threads, NEW s \in Recs, IsFiniteSet(CarriersOf(jobs, s))
  PROVE  LET left == CarriersOf([jobs EXCEPT ![t] = Nothing], s) IN
         /\ IsFiniteSet(left)
         /\ Cardinality(left) = IF s = jobs[t]
                                THEN Cardinality(CarriersOf(jobs, s)) - 1
                                ELSE Cardinality(CarriersOf(jobs, s))
<1> DEFINE left == CarriersOf([jobs EXCEPT ![t] = Nothing], s)
<1>1. left = CarriersOf(jobs, s) \ {t}
  BY MarkersAreFresh DEF CarriersOf
<1>2. t \in CarriersOf(jobs, s) <=> s = jobs[t]
  BY DEF CarriersOf
<1> QED
  BY <1>1, <1>2, FS_RemoveElement

-----------------------------------------------------------------------------
(* Every step keeps the invariant of the deferred interrupts               *)

\* What Accounted speaks of are numbers.
LEMMA NumbersOf ==
  ASSUME DndInv, NEW r \in Recs
  PROVE  /\ IsFiniteSet(CarriersOf(job, r))
         /\ Cardinality(CarriersOf(job, r)) \in Nat
         /\ Cardinality(Unseen(queue, r)) \in Nat
         /\ runs[r] \in Nat /\ handed[r] \in Nat
         /\ runs[r] + Cardinality(CarriersOf(job, r))
              + Cardinality(Unseen(queue, r)) <= handed[r]
<1>1. /\ queue \in Seq(Item) /\ runs \in [Recs -> Nat]
      /\ handed \in [Recs -> 0 .. HandBound]
  BY DEF DndInv, DndTypeOK
<1>2. /\ IsFiniteSet(CarriersOf(job, r))
      /\ runs[r] + Cardinality(CarriersOf(job, r))
           + Cardinality(Unseen(queue, r)) <= handed[r]
  BY DEF DndInv, Accounted
<1>3. Cardinality(CarriersOf(job, r)) \in Nat
  BY <1>2, FS_CardinalityType
<1>4. Cardinality(Unseen(queue, r)) \in Nat
  BY <1>1, UnseenIs
<1> QED
  BY <1>1, <1>2, <1>3, <1>4

\* There is no level at which a critical item waits.
LEMMA CriticalPasses ==
  ASSUME level \in Levels, NEW r \in Recs, ~Allowed(UrgencyOf[r])
  PROVE  UrgencyOf[r] # "critical"
<1>1. level \in {"off", "low", "medium", "high", "critical"}
  BY DndAssumption DEF LevelRank
<1>2. LevelRank[level] \in 0 .. 4
  BY <1>1 DEF LevelRank
<1> QED
  BY <1>2 DEF Allowed, UrgencyRank

LEMMA InitDnd ==
  ASSUME DndInit
  PROVE  DndInv
<1> USE DEF DndInit
<1>1. DndTypeOK
  BY DndAssumption DEF DndTypeOK, Places
<1>2. JobHeld
  BY DEF JobHeld
<1>3. NoneCritical /\ DeliveredFirst
  BY DEF NoneCritical, DeliveredFirst
<1>4. Accounted
  <2> SUFFICES ASSUME NEW r \in Recs
               PROVE  /\ IsFiniteSet(CarriersOf(job, r))
                      /\ runs[r] + Cardinality(CarriersOf(job, r))
                           + Cardinality(Unseen(queue, r)) <= handed[r]
    BY DEF Accounted
  <2>1. CarriersOf(job, r) = {} /\ Unseen(queue, r) = {}
    BY MarkersAreFresh DEF CarriersOf, Unseen
  <2>2. IsFiniteSet({}) /\ Cardinality({}) = 0
    BY FS_EmptySet
  <2>3. /\ IsFiniteSet(CarriersOf(job, r)) /\ Cardinality(CarriersOf(job, r)) = 0
        /\ Cardinality(Unseen(queue, r)) = 0
    BY <2>1, <2>2, Zenon
  <2>4. runs[r] = 0 /\ handed[r] = 0
    OBVIOUS
  <2> HIDE DEF DndInit
  <2> QED
    BY <2>3, <2>4
<1> QED
  BY <1>1, <1>2, <1>3, <1>4 DEF DndInv

\* A handover is counted, and a thread carries it.
LEMMA HandOverKeeps ==
  ASSUME DndInv, NEW t \in Threads, NEW r \in Recs,
         HandOver(t, r)
  PROVE  DndInv'
<1> USE DEF HandOver, Goto
<1>1. DndTypeOK /\ JobHeld /\ NoneCritical /\ DeliveredFirst
  BY DEF DndInv
<1>2. job[t] = Nothing /\ job[t] # r
  BY <1>1, MarkersAreFresh DEF JobHeld
<1>3. DndTypeOK'
  BY <1>1, DndAssumption DEF DndTypeOK, Places
<1>4. JobHeld' /\ NoneCritical'
  BY <1>1, MarkersAreFresh DEF JobHeld, NoneCritical, DndTypeOK, Critical
<1>5. DeliveredFirst'
  BY <1>1 DEF DeliveredFirst
<1>6. Accounted'
  <2> SUFFICES ASSUME NEW s \in Recs
               PROVE  /\ IsFiniteSet(CarriersOf(job', s))
                      /\ runs'[s] + Cardinality(CarriersOf(job', s))
                           + Cardinality(Unseen(queue', s)) <= handed'[s]
    BY DEF Accounted
  <2>1. /\ job \in [Threads -> Recs \cup {Nothing}]
        /\ job[t] # s
    BY <1>1, <1>2, MarkersAreFresh DEF DndTypeOK
  <2>2. /\ IsFiniteSet(CarriersOf(job', s))
        /\ Cardinality(CarriersOf(job', s)) =
             IF s = r THEN Cardinality(CarriersOf(job, s)) + 1
                      ELSE Cardinality(CarriersOf(job, s))
    BY <1>2, <2>1, NumbersOf, TakeCounts
  <2>3. handed'[s] = IF s = r THEN handed[s] + 1 ELSE handed[s]
    BY <1>1 DEF DndTypeOK
  <2> QED
    BY <2>2, <2>3, NumbersOf
<1> QED
  BY <1>3, <1>4, <1>5, <1>6 DEF DndInv

\* What neither touches the queue nor hands over keeps the accounts, when no
\* recommendation is carried by more threads.
LEMMA GivenUpKeeps ==
  ASSUME DndInv, NEW t \in Threads,
         job' = [job EXCEPT ![t] = Nothing],
         UNCHANGED <<queue, handed, runs>>
  PROVE  Accounted'
<1> SUFFICES ASSUME NEW s \in Recs
             PROVE  /\ IsFiniteSet(CarriersOf(job', s))
                    /\ runs'[s] + Cardinality(CarriersOf(job', s))
                         + Cardinality(Unseen(queue', s)) <= handed'[s]
  BY DEF Accounted
<1>1. job \in [Threads -> Recs \cup {Nothing}]
  BY DEF DndInv, DndTypeOK
<1>2. /\ IsFiniteSet(CarriersOf(job', s))
      /\ Cardinality(CarriersOf(job', s)) =
           IF s = job[t] THEN Cardinality(CarriersOf(job, s)) - 1
                         ELSE Cardinality(CarriersOf(job, s))
  BY <1>1, NumbersOf, DropCounts
<1> QED
  BY <1>2, NumbersOf

LEMMA CheckKeeps ==
  ASSUME DndInv, NEW t \in Threads,
         Check(t) \/ QueueInterrupt(t)
  PROVE  DndInv'
<1> USE DEF Check, QueueInterrupt, Goto
<1>1. DndTypeOK /\ JobHeld /\ NoneCritical /\ DeliveredFirst /\ Accounted
  BY DEF DndInv
<1>2. job[t] \in Recs
  BY <1>1 DEF JobHeld, DndTypeOK
<1>3. \E place \in {"executing", "queueing", "adding"} :
        /\ pc' = [pc EXCEPT ![t] = place]
        /\ place = "adding" => UrgencyOf[job[t]] # "critical"
  <2>1. ~Allowed(UrgencyOf[job[t]]) => UrgencyOf[job[t]] # "critical"
    BY <1>1, <1>2, CriticalPasses DEF DndTypeOK
  <2> QED
    BY <2>1
<1>4. UNCHANGED <<level, queue, lock, pending, handed, runs, job>>
  OBVIOUS
<1>5. pc[t] \in {"checking", "queueing"}
  OBVIOUS
<1> USE DEF Places
<1>6. DndTypeOK'
  BY <1>1, <1>3, <1>4 DEF DndTypeOK
<1>7. JobHeld'
  BY <1>1, <1>3, <1>4, <1>5 DEF JobHeld, DndTypeOK
<1>8. NoneCritical'
  BY <1>1, <1>3, <1>4 DEF NoneCritical, DndTypeOK, Critical
<1>9. DeliveredFirst' /\ Accounted'
  BY <1>1, <1>4 DEF DeliveredFirst, Accounted
<1> QED
  BY <1>6, <1>7, <1>8, <1>9 DEF DndInv

LEMMA RaiseKeeps ==
  ASSUME DndInv, NEW t \in Threads, CheckRaises(t)
  PROVE  DndInv'
<1> USE DEF CheckRaises, Goto
<1>1. DndTypeOK /\ JobHeld /\ NoneCritical /\ DeliveredFirst
  BY DEF DndInv
<1>2. DndTypeOK'
  BY <1>1 DEF DndTypeOK, Places
<1>3. JobHeld'
  BY <1>1 DEF JobHeld, DndTypeOK
<1>4. NoneCritical'
  BY <1>1 DEF NoneCritical, DndTypeOK, Critical
<1>5. DeliveredFirst'
  BY <1>1 DEF DeliveredFirst
<1>6. Accounted'
  BY GivenUpKeeps
<1> QED
  BY <1>2, <1>3, <1>4, <1>5, <1>6 DEF DndInv

\* An item is queued: it is not critical, it is not delivered, and the oldest
\* leaves when there is no room.
LEMMA AddKeeps ==
  ASSUME DndInv, NEW t \in Threads, Add(t)
  PROVE  DndInv'
<1> DEFINE item == [rec |-> job[t], delivered |-> FALSE]
<1>1. /\ pc[t] = "adding" /\ pc' = [pc EXCEPT ![t] = "idle"]
      /\ job' = [job EXCEPT ![t] = Nothing]
      /\ UNCHANGED <<level, lock, pending, handed, runs>>
  BY DEF Add, Goto
<1>2. DndTypeOK /\ JobHeld /\ NoneCritical /\ DeliveredFirst
  BY DEF DndInv
<1>3. PICK d \in {0, 1} :
        /\ Moved(queue, queue', item, d)
        /\ Len(queue) + 1 - d <= QueueMax
  <2>1. /\ Len(queue) \in Nat /\ Len(queue) <= QueueMax
        /\ QueueMax \in Nat
    BY <1>2, DndAssumption DEF DndTypeOK
  <2> QED
    BY <2>1, AddIs
<1>4. job[t] \in Recs /\ ~Critical(item) /\ item.rec = job[t]
      /\ ~item.delivered
  BY AddIs
<1> HIDE DEF item
<1>5. queue \in Seq(Item) /\ queue' \in Seq(Item)
      /\ Len(queue') = Len(queue) + 1 - d
  BY <1>2, <1>3 DEF Moved, DndTypeOK
<1>6. \A i \in 1 .. Len(queue') :
        \/ /\ i + d \in 1 .. Len(queue) /\ queue'[i] = queue[i + d]
        \/ i + d = Len(queue) + 1 /\ queue'[i] = item
  BY <1>3, <1>5 DEF Moved
<1>7. DndTypeOK'
  BY <1>1, <1>2, <1>3, <1>5 DEF DndTypeOK, Places
<1>8. JobHeld'
  BY <1>1, <1>2 DEF JobHeld, DndTypeOK
<1>9. NoneCritical'
  <2>1. \A i \in 1 .. Len(queue') : ~Critical(queue'[i])
    BY <1>2, <1>4, <1>6 DEF NoneCritical
  <2>2. \A s \in Threads : pc'[s] = "adding" => UrgencyOf[job'[s]] # "critical"
    BY <1>1, <1>2 DEF NoneCritical, DndTypeOK
  <2> QED
    BY <2>1, <2>2 DEF NoneCritical, Critical
<1>10. DeliveredFirst'
  <2> SUFFICES ASSUME NEW i \in 1 .. Len(queue'), NEW k \in 1 .. Len(queue'),
                      i < k, queue'[k].delivered
               PROVE  queue'[i].delivered
    BY DEF DeliveredFirst
  <2>1. k + d \in 1 .. Len(queue) /\ queue'[k] = queue[k + d]
    BY <1>4, <1>6
  <2>2. i + d \in 1 .. Len(queue) /\ queue'[i] = queue[i + d]
    BY <1>5, <1>6, <2>1
  <2>3. i + d < k + d
    BY <1>5
  <2> QED
    BY <1>2, <2>1, <2>2, <2>3 DEF DeliveredFirst
<1>11. Accounted'
  <2> SUFFICES ASSUME NEW s \in Recs
               PROVE  /\ IsFiniteSet(CarriersOf(job', s))
                      /\ runs'[s] + Cardinality(CarriersOf(job', s))
                           + Cardinality(Unseen(queue', s)) <= handed'[s]
    BY DEF Accounted
  <2>1. job \in [Threads -> Recs \cup {Nothing}]
    BY <1>2 DEF DndTypeOK
  <2>2. /\ IsFiniteSet(CarriersOf(job', s))
        /\ Cardinality(CarriersOf(job', s)) =
             IF s = job[t] THEN Cardinality(CarriersOf(job, s)) - 1
                           ELSE Cardinality(CarriersOf(job, s))
    BY <1>1, <2>1, NumbersOf, DropCounts
  <2>3. /\ Cardinality(Unseen(queue', s)) <= Cardinality(Unseen(queue, s)) + 1
        /\ item.rec # s =>
             Cardinality(Unseen(queue', s)) <= Cardinality(Unseen(queue, s))
    BY <1>3, <1>5, MovedCounts
  <2>4. Cardinality(Unseen(queue', s)) \in Nat
    BY <1>5, UnseenIs
  <2> QED
    BY <1>1, <1>4, <2>2, <2>3, <2>4, NumbersOf
<1> QED
  BY <1>7, <1>8, <1>9, <1>10, <1>11 DEF DndInv

\* A carrier becomes an execution.
LEMMA ExecuteKeeps ==
  ASSUME DndInv, NEW t \in Threads, NEW ok \in BOOLEAN,
         Execute(t, ok)
  PROVE  DndInv'
<1>1. /\ pc[t] = "executing"
      /\ \E place \in {"delivering", "idle"} : pc' = [pc EXCEPT ![t] = place]
      /\ job' = [job EXCEPT ![t] = Nothing]
      /\ runs' = [runs EXCEPT ![job[t]] = @ + 1]
      /\ UNCHANGED <<level, queue, lock, handed>>
  BY DEF Execute, Goto
<1>2. DndTypeOK /\ JobHeld /\ NoneCritical /\ DeliveredFirst
  BY DEF DndInv
<1>3. job[t] \in Recs
  BY <1>1, <1>2 DEF JobHeld, DndTypeOK
<1>4. pending' \subseteq Recs
  BY <1>2 DEF Execute, DndTypeOK
<1>5. DndTypeOK'
  BY <1>1, <1>2, <1>3, <1>4 DEF DndTypeOK, Places
<1>6. JobHeld'
  BY <1>1, <1>2 DEF JobHeld, DndTypeOK
<1>7. NoneCritical'
  BY <1>1, <1>2 DEF NoneCritical, DndTypeOK, Critical
<1>8. DeliveredFirst'
  BY <1>1, <1>2 DEF DeliveredFirst
<1>9. Accounted'
  <2> SUFFICES ASSUME NEW s \in Recs
               PROVE  /\ IsFiniteSet(CarriersOf(job', s))
                      /\ runs'[s] + Cardinality(CarriersOf(job', s))
                           + Cardinality(Unseen(queue', s)) <= handed'[s]
    BY DEF Accounted
  <2>1. job \in [Threads -> Recs \cup {Nothing}]
    BY <1>2 DEF DndTypeOK
  <2>2. /\ IsFiniteSet(CarriersOf(job', s))
        /\ Cardinality(CarriersOf(job', s)) =
             IF s = job[t] THEN Cardinality(CarriersOf(job, s)) - 1
                           ELSE Cardinality(CarriersOf(job, s))
    BY <1>1, <2>1, NumbersOf, DropCounts
  <2>3. runs'[s] = IF s = job[t] THEN runs[s] + 1 ELSE runs[s]
    BY <1>1, <1>2, <1>3 DEF DndTypeOK
  <2> QED
    BY <1>1, <2>2, <2>3, NumbersOf
<1> QED
  BY <1>5, <1>6, <1>7, <1>8, <1>9 DEF DndInv

\* The level, the lock and a thread that carries nothing before or after.
LEMMA IdleKeeps ==
  ASSUME DndInv,
         UNCHANGED <<queue, pending, handed, runs, job>>,
         level' \in Levels, lock' \in Threads \cup {Nobody},
         \/ UNCHANGED pc
         \/ \E t \in Threads :
              \E place \in {"idle", "acquiring", "delivering"} :
                /\ pc[t] \in {"idle", "acquiring", "delivering"}
                /\ pc' = [pc EXCEPT ![t] = place]
  PROVE  DndInv'
<1>1. DndTypeOK /\ JobHeld /\ NoneCritical /\ DeliveredFirst /\ Accounted
  BY DEF DndInv
<1>2. DndTypeOK'
  BY <1>1 DEF DndTypeOK, Places
<1>3. JobHeld'
  BY <1>1 DEF JobHeld, DndTypeOK
<1>4. NoneCritical'
  BY <1>1 DEF NoneCritical, DndTypeOK, Critical
<1>5. DeliveredFirst' /\ Accounted'
  BY <1>1 DEF DeliveredFirst, Accounted
<1> QED
  BY <1>2, <1>3, <1>4, <1>5 DEF DndInv

\* An undelivered entry becomes a carrier.
LEMMA DeliverKeeps ==
  ASSUME DndInv, NEW t \in Threads, Deliver(t)
  PROVE  DndInv'
<1> DEFINE o == Oldest
           r == queue[o].rec
<1>1. /\ pc[t] = "delivering" /\ Undelivered # {}
      /\ queue' = Marked(o)
      /\ job' = [job EXCEPT ![t] = r]
      /\ pc' = [pc EXCEPT ![t] = "executing"]
      /\ UNCHANGED <<level, lock, pending, handed, runs>>
  BY DEF Deliver, Goto
<1>2. DndTypeOK /\ JobHeld /\ NoneCritical /\ DeliveredFirst
  BY DEF DndInv
<1>3. /\ o \in 1 .. Len(queue) /\ ~queue[o].delivered
      /\ \A k \in 1 .. Len(queue) : ~queue[k].delivered => o <= k
  BY <1>1, <1>2, OldestIs
<1> HIDE DEF o
<1>4. queue \in Seq(Item) /\ r \in Recs
  <2>1. queue \in Seq(Item)
    BY <1>2 DEF DndTypeOK
  <2>2. queue[o] \in Item
    BY <1>3, <2>1
  <2> QED
    BY <2>1, <2>2 DEF Item
<1>5. job[t] = Nothing /\ job[t] \notin Recs
  BY <1>1, <1>2, MarkersAreFresh DEF JobHeld
<1>6. \A s \in Recs :
        /\ queue' \in Seq(Item) /\ Len(queue') = Len(queue)
        /\ \A k \in 1 .. Len(queue) :
             /\ queue'[k].rec = queue[k].rec
             /\ queue'[k].delivered <=> k = o \/ queue[k].delivered
        /\ Cardinality(Unseen(queue', s)) =
             IF r = s THEN Cardinality(Unseen(queue, s)) - 1
                      ELSE Cardinality(Unseen(queue, s))
  BY <1>1, <1>2, <1>3, MarkedCounts
<1>7. /\ queue' \in Seq(Item) /\ Len(queue') = Len(queue)
      /\ \A k \in 1 .. Len(queue) :
           /\ queue'[k].rec = queue[k].rec
           /\ queue'[k].delivered <=> k = o \/ queue[k].delivered
  BY <1>4, <1>6
<1> HIDE DEF r
<1>8. DndTypeOK'
  BY <1>1, <1>2, <1>4, <1>7 DEF DndTypeOK, Places
<1>9. JobHeld'
  BY <1>1, <1>2, <1>4, <1>5 DEF JobHeld, DndTypeOK
<1>10. NoneCritical'
  <2>1. \A i \in 1 .. Len(queue') : ~Critical(queue'[i])
    BY <1>2, <1>7 DEF NoneCritical, Critical
  <2>2. \A s \in Threads : pc'[s] = "adding" => UrgencyOf[job'[s]] # "critical"
    BY <1>1, <1>2 DEF NoneCritical, DndTypeOK
  <2> QED
    BY <2>1, <2>2 DEF NoneCritical, Critical
<1>11. DeliveredFirst'
  <2> SUFFICES ASSUME NEW i \in 1 .. Len(queue), NEW k \in 1 .. Len(queue),
                      i < k, queue'[k].delivered
               PROVE  queue'[i].delivered
    BY <1>7 DEF DeliveredFirst
  <2>1. CASE k = o
    <3>1. queue[i].delivered
      BY <1>3, <2>1
    <3> QED
      BY <1>7, <3>1
  <2>2. CASE k # o
    BY <1>2, <1>7, <2>2 DEF DeliveredFirst
  <2> QED
    BY <2>1, <2>2
<1>12. Accounted'
  <2> SUFFICES ASSUME NEW s \in Recs
               PROVE  /\ IsFiniteSet(CarriersOf(job', s))
                      /\ runs'[s] + Cardinality(CarriersOf(job', s))
                           + Cardinality(Unseen(queue', s)) <= handed'[s]
    BY DEF Accounted
  <2>1. job \in [Threads -> Recs \cup {Nothing}] /\ job[t] # r /\ job[t] # s
    BY <1>2, <1>4, <1>5 DEF DndTypeOK
  <2>2. /\ IsFiniteSet(CarriersOf(job', s))
        /\ Cardinality(CarriersOf(job', s)) =
             IF s = r THEN Cardinality(CarriersOf(job, s)) + 1
                      ELSE Cardinality(CarriersOf(job, s))
    BY <1>1, <1>4, <2>1, NumbersOf, TakeCounts
  <2> QED
    BY <1>1, <1>6, <2>2, NumbersOf
<1> QED
  BY <1>8, <1>9, <1>10, <1>11, <1>12 DEF DndInv

LEMMA NextKeepsDnd ==
  ASSUME DndInv, [DndNext]_dndVars
  PROVE  DndInv'
<1>1. DndTypeOK /\ JobHeld
  BY DEF DndInv
<1>2. ASSUME NEW l \in Levels, SetLevel(l) PROVE DndInv'
  <2>1. /\ UNCHANGED <<queue, lock, pending, handed, runs, pc, job>>
        /\ level' \in Levels /\ lock' \in Threads \cup {Nobody}
    BY <1>1, <1>2 DEF SetLevel, DndTypeOK
  <2> QED
    BY <2>1, IdleKeeps
<1>3. ASSUME NEW t \in Threads, NEW r \in Recs,
             Recommend(t, r) \/ Pulse(t, r)
      PROVE  DndInv'
  BY <1>3, HandOverKeeps DEF Recommend, Pulse
<1>4. ASSUME NEW t \in Threads, NEW l \in Levels, Disable(t, l)
      PROVE  DndInv'
  <2>1. /\ UNCHANGED <<queue, lock, pending, handed, runs, job>>
        /\ level' \in Levels /\ lock' \in Threads \cup {Nobody}
        /\ pc[t] = "idle" /\ pc' = [pc EXCEPT ![t] = "acquiring"]
    BY <1>1, <1>4 DEF Disable, DndTypeOK, Goto
  <2> QED
    BY <2>1, IdleKeeps
<1>5. ASSUME NEW t \in Threads, Acquire(t) PROVE DndInv'
  <2>1. /\ UNCHANGED <<queue, pending, handed, runs, job>>
        /\ level' \in Levels /\ lock' \in Threads \cup {Nobody}
        /\ pc[t] = "acquiring" /\ pc' = [pc EXCEPT ![t] = "delivering"]
    BY <1>1, <1>5 DEF Acquire, DndTypeOK, Goto
  <2> QED
    BY <2>1, IdleKeeps
<1>6. ASSUME NEW t \in Threads, Release(t) PROVE DndInv'
  <2>1. /\ UNCHANGED <<queue, pending, handed, runs, job>>
        /\ level' \in Levels /\ lock' \in Threads \cup {Nobody}
        /\ pc[t] = "delivering" /\ pc' = [pc EXCEPT ![t] = "idle"]
    BY <1>1, <1>6 DEF Release, DndTypeOK, Goto
  <2> QED
    BY <2>1, IdleKeeps
<1>7. CASE UNCHANGED dndVars
  <2>1. /\ UNCHANGED <<queue, pending, handed, runs, job, pc>>
        /\ level' \in Levels /\ lock' \in Threads \cup {Nobody}
    BY <1>1, <1>7 DEF dndVars, DndTypeOK
  <2> QED
    BY <2>1, IdleKeeps
<1> QED
  BY <1>2, <1>3, <1>4, <1>5, <1>6, <1>7, CheckKeeps, RaiseKeeps, AddKeeps,
     ExecuteKeeps, DeliverKeeps DEF DndNext, Advance

LEMMA DndInvariant == DndSpec => []DndInv
<1>1. DndInit => DndInv
  BY InitDnd
<1>2. DndInv /\ [DndNext]_dndVars => DndInv'
  BY NextKeepsDnd
<1> QED
  BY <1>1, <1>2, PTL DEF DndSpec

\* Every thread of the deferred interrupts is where its code can be, and the
\* queue keeps within the cap of InterruptQueue.add.
THEOREM InterruptsTyped == DndSpec => []DndTypeOK
<1>1. DndInv => DndTypeOK
  BY DEF DndInv
<1> QED
  BY <1>1, DndInvariant, PTL

\* deliver_all marks from the front and the cap drops from the front, so the
\* delivered items of the queue are always its oldest ones.
THEOREM OldestAreDelivered == DndSpec => []DeliveredFirst
<1>1. DndInv => DeliveredFirst
  BY DEF DndInv
<1> QED
  BY <1>1, DndInvariant, PTL

\* However often the level changes between the checks of can_interrupt, the
\* queue and the threads, a handover is executed at most once.
THEOREM HandoversAreExecutedOnce == DndSpec => []OneExecutionPerHandover
<1>1. DndInv => OneExecutionPerHandover
  <2> SUFFICES ASSUME DndInv, NEW r \in Recs PROVE runs[r] <= handed[r]
    BY DEF OneExecutionPerHandover
  <2> QED
    BY NumbersOf
<1> QED
  BY <1>1, DndInvariant, PTL

\* The cap of InterruptQueue.add never drops a critical item nor a newer one
\* than the oldest: its sort, which puts the critical items in front, where
\* they are cut off, has none to move.
THEOREM CapIsByAge == DndSpec => CapDropsTheOldest
<1> DEFINE Kept ==
      Len(queue') = Len(queue) /\ queue' # queue =>
        \/ \E i \in Undelivered : queue' = Marked(i)
        \/ Front(queue') = Tail(queue)
<1>1. ASSUME DndInv, [DndNext]_dndVars PROVE Kept \/ UNCHANGED dndVars
  <2>1. DndTypeOK
    BY <1>1 DEF DndInv
  <2>2. ASSUME NEW t \in Threads, Add(t), Len(queue') = Len(queue)
        PROVE  Front(queue') = Tail(queue)
    <3> DEFINE item == [rec |-> job[t], delivered |-> FALSE]
    <3>1. /\ item \in Item
          /\ \/ Moved(queue, queue', item, 0)
             \/ Len(queue) = QueueMax /\ queue' = Tail(Append(queue, item))
      BY <1>1, <2>2, AddIs
    <3> HIDE DEF item
    <3>2. queue \in Seq(Item) /\ QueueMax \in Nat \ {0}
      BY <2>1, DndAssumption DEF DndTypeOK
    <3>3. Len(queue) = QueueMax /\ queue' = Tail(Append(queue, item))
      BY <2>2, <3>1, <3>2 DEF Moved
    <3>4. Front(queue') = SubSeq(queue', 1, Len(queue') - 1)
      BY DEF Front
    <3>5. /\ queue' \in Seq(Item)
          /\ \A i \in 1 .. Len(queue) - 1 : queue'[i] = queue[i + 1]
      BY <3>1, <3>2, <3>3
    <3>6. Tail(queue) = [i \in 1 .. Len(queue) - 1 |-> queue[i + 1]]
      <4>1. queue # <<>>
        BY <3>2, <3>3
      <4>2. /\ Tail(queue) \in Seq(Item)
            /\ Len(Tail(queue)) = Len(queue) - 1
            /\ \A i \in 1 .. Len(queue) - 1 : Tail(queue)[i] = queue[i + 1]
        BY <3>2, <4>1
      <4> DEFINE tail == Tail(queue)
      <4> HIDE DEF tail
      <4>3. /\ tail \in Seq(Item) /\ Len(tail) = Len(queue) - 1
            /\ \A i \in 1 .. Len(queue) - 1 : tail[i] = queue[i + 1]
        BY <4>2 DEF tail
      <4>4. tail = [i \in 1 .. Len(queue) - 1 |-> queue[i + 1]]
        BY <4>3
      <4> QED
        BY <4>4 DEF tail
    <3>7. SubSeq(queue', 1, Len(queue') - 1)
            = [i \in 1 .. Len(queue) - 1 |-> queue'[i]]
      BY <2>2, <3>2, <3>5
    <3> QED
      BY <3>4, <3>5, <3>6, <3>7
  <2>3. ASSUME NEW t \in Threads, Deliver(t)
        PROVE  \E i \in Undelivered : queue' = Marked(i)
    <3>1. queue' = Marked(Oldest) /\ Undelivered # {}
      BY <2>3 DEF Deliver
    <3>2. Oldest \in Undelivered
      BY <2>1, <3>1, OldestIs DEF Undelivered
    <3> QED
      BY <3>1, <3>2
  <2>4. \/ UNCHANGED queue
        \/ \E t \in Threads : Add(t) \/ Deliver(t)
    BY <1>1 DEF DndNext, Advance, SetLevel, Recommend, Pulse, HandOver,
       Disable, Check, QueueInterrupt, CheckRaises, Execute, Acquire, Release,
       dndVars
  <2> QED
    BY <2>2, <2>3, <2>4
<1>2. DndInv /\ [DndNext]_dndVars => [Kept]_dndVars
  BY <1>1
<1> QED
  BY <1>2, DndInvariant, PTL DEF DndSpec, CapDropsTheOldest
=============================================================================

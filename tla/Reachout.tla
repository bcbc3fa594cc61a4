------------------------------- MODULE Reachout -------------------------------
(***************************************************************************)
(* From a reach-out that the inner life has sent to the end of its run:    *)
(* the delivery record kept for it (src/src/api/server.py), the push       *)
(* acknowledgement log, the three ways an acknowledgement arrives, and the *)
(* escalation of what nobody acknowledged                                  *)
(* (src/src/core/runtime/proactive_manager.py).                            *)
(*                                                                         *)
(* All of it runs in handlers of one event loop, and none awaits between   *)
(* its first and its last change: handlers do not interleave.  But each    *)
(* change is a file of its own, the runplane's or the log's, so a step is  *)
(* one such call, and a failed call or the death of the process ends a     *)
(* handler between two of them.  The runplane is reduced to the rows of    *)
(* its delivery runs; a reach-out stands for its own run, which the code   *)
(* finds by alias.  Of the other rows only those are counted that fill the *)
(* lists of delivered runs; those that leave again are not.  The           *)
(* operator's mark_run_status and the retention cap are in Runplane.       *)
(***************************************************************************)
EXTENDS Integers, Sequences, FiniteSets

CONSTANTS
  MaxToClose,  \* max_to_close
  CloseScan,   \* rows of a status that a closing lists: 200
  MaxPerCycle, \* VERA_AUTONOMY_ACK_SLA_MAX_ESCALATIONS_PER_CYCLE
  SlaScan,     \* VERA_AUTONOMY_ACK_SLA_SCAN_LIMIT
  LogScan,     \* max_scan_lines of the acknowledgement log
  SendBound,   \* bound: reach-outs sent
  Deliveries,  \* bound: how the reach-outs may be delivered, one by one
  Bursts,      \* bound: how many other runs may be delivered at a time
  FaultBound   \* bound: failed calls and deaths of the process

Reachouts == 1 .. SendBound
NoReachout == 0

\* No channel took it; only channels took it that nobody acknowledges; an
\* acknowledgement is expected.
Kinds == {"unroutable", "plain", "acknowledged"}

ASSUME ReachoutAssumption ==
  /\ MaxToClose \in Nat \ {0}
  /\ MaxPerCycle \in Nat \ {0}
  /\ CloseScan \in Nat \ {0}
  /\ SlaScan \in Nat \ {0}
  /\ LogScan \in Nat \ {0}
  /\ SendBound \in Nat
  /\ Deliveries \subseteq [Reachouts -> Kinds]
  /\ Bursts \subseteq Nat
  /\ FaultBound \in Nat

Statuses == {"none", "running", "delivered", "failed", "acked", "escalated",
             "closed"}
Calls == {"begin", "complete", "close", "log", "ack", "escalate"}

VARIABLES
  kind,    \* how each reach-out is delivered
  sent,    \* reach-outs sent so far
  pushed,  \* those whose push, with the run id in it, went out
  status,  \* the status of its row in the runplane
  held,    \* the runs whose lane is not given back
  others,  \* delivered rows of other runs that are newer than its row
  due,     \* delivered longer ago than VERA_AUTONOMY_ACK_SLA_SECONDS
  log,     \* the lines of the acknowledgement log that a scan still reads
  last,    \* last_reachout_event, in memory
  past,    \* proxy windows it has outlived: native register, then session
  task,    \* the next call of the running handler
  logged,  \* history: reach-outs with a line in the log
  cut,     \* history: the calls that were never made, and for which reach-out
  missed,  \* history: open reach-outs that a closing did not list
  faults   \* faults so far

memory == <<last, past>>
history == <<logged, cut, missed, faults>>
vars == <<kind, sent, pushed, status, held, others, due, log, memory, task,
          history>>

\* A task: the next call, the reach-out it is about, and, for a loop, what
\* it still has to mark and how many marks it may still make.
Task == [call : Calls \cup {"idle"}, run : Reachouts \cup {NoReachout},
         todo : SUBSET Reachouts, quota : Nat]
Idle == [call |-> "idle", run |-> NoReachout, todo |-> {}, quota |-> 0]
Call(c, r) == [Idle EXCEPT !.call = c, !.run = r]

\* Counts that are compared with the lengths of the lists stop there.
Longest == IF CloseScan > SlaScan THEN CloseScan ELSE SlaScan
AtMost(n, bound) == IF n > bound THEN bound ELSE n

TypeOK ==
  /\ kind \in [Reachouts -> Kinds]
  /\ sent \in 0 .. SendBound
  /\ pushed \in SUBSET Reachouts
  /\ status \in [Reachouts -> Statuses]
  /\ held \in SUBSET Reachouts
  /\ others \in [Reachouts -> 0 .. Longest]
  /\ due \in SUBSET Reachouts
  /\ log \in Seq(Reachouts) /\ Len(log) <= LogScan
  /\ last \in Reachouts \cup {NoReachout}
  /\ past \in 0 .. 2
  /\ task \in Task
  /\ logged \in SUBSET Reachouts
  /\ cut \in SUBSET (Calls \X Reachouts)
  /\ missed \in SUBSET Reachouts
  /\ faults \in 0 .. FaultBound

Init ==
  /\ kind \in Deliveries
  /\ sent = 0 /\ pushed = {}
  /\ status = [r \in Reachouts |-> "none"]
  /\ held = {}
  /\ others = [r \in Reachouts |-> 0]
  /\ due = {}
  /\ log = <<>>
  /\ last = NoReachout /\ past = 0
  /\ task = Idle
  /\ logged = {} /\ cut = {} /\ missed = {} /\ faults = 0

-----------------------------------------------------------------------------
(***************************************************************************)
(* The record of a delivery.                                               *)
(***************************************************************************)
\* The event "innerlife.reached_out" comes after the channels have the
\* message: _track_innerlife_reachout remembers it and starts its record.
Send ==
  /\ task = Idle /\ sent < SendBound
  /\ sent' = sent + 1
  /\ last' = sent' /\ past' = 0
  /\ task' = Call("begin", sent')
  /\ UNCHANGED <<kind, pushed, status, held, others, due, log, history>>

\* The record is over, and the next subscriber sends the push.
EndRecord ==
  /\ task' = Idle
  /\ pushed' = pushed \cup {task.run}

\* The sweep of stale lanes fails their runs, whatever their status is by
\* then.
Swept(stale) ==
  [r \in Reachouts |-> IF r \in stale THEN "failed" ELSE status[r]]

\* begin_run, in a lane of its own, after the sweep.
Begin ==
  /\ task.call = "begin"
  /\ \E stale \in SUBSET held :
       /\ status' = [Swept(stale) EXCEPT ![task.run] = "running"]
       /\ held' = (held \ stale) \cup {task.run}
  /\ task' = Call("complete", task.run)
  /\ UNCHANGED <<kind, sent, pushed, others, due, log, memory, history>>

Asks(r) == kind[r] = "acknowledged"
Open(r) == Asks(r) /\ status[r] \in {"delivered", "escalated"}

\* list_runs(limit, status_filter) has the row of q: the newest rows of its
\* status come first, whatever they are the rows of.
Listed(q, limit, rows) ==
  Cardinality({p \in Reachouts : p > q /\ rows[p] = rows[q]})
    + (IF rows[q] = "delivered" THEN others[q] ELSE 0) < limit

\* Mutated form: the escalated ones are forgotten.
SupersededDelivered(r, rows) ==
  {q \in Reachouts \ {r} :
     Open(q) /\ rows[q] = "delivered" /\ Listed(q, CloseScan, rows)}

\* _close_superseded_reachout_runs, its lists.
Superseded(r, rows) ==
  {q \in Reachouts \ {r} : Open(q) /\ Listed(q, CloseScan, rows)}

\* The open ones that the lists leave out.
Missed(r, rows) ==
  {q \in Reachouts \ {r} : Open(q) /\ ~Listed(q, CloseScan, rows)}

\* complete_run: a retryable failure when no channel took it.
Complete ==
  /\ task.call = "complete"
  /\ held' = held \ {task.run}
  /\ \/ /\ kind[task.run] = "unroutable"
        /\ status' = [status EXCEPT ![task.run] = "failed"]
        /\ EndRecord
        /\ UNCHANGED missed
     \/ /\ kind[task.run] # "unroutable"
        /\ LET rows == [status EXCEPT ![task.run] = "delivered"]
           IN  /\ status' = rows
               /\ task' = [call |-> "close", run |-> task.run,
                           todo |-> Superseded(task.run, rows),
                           quota |-> MaxToClose]
               /\ missed' = missed \cup Missed(task.run, rows)
        /\ UNCHANGED pushed
  /\ UNCHANGED <<kind, sent, others, due, log, memory, logged, cut, faults>>

\* One turn of a loop that marks r.
Mark(r, s) ==
  /\ status' = [status EXCEPT ![r] = s]
  /\ task' = [task EXCEPT !.todo = @ \ {r}, !.quota = @ - 1]

LoopIsOver == task.todo = {} \/ task.quota = 0

\* The delivered ones come first, then the escalated ones, newest first.
ClosesBefore(r, q) ==
  \/ status[r] = "delivered" /\ status[q] = "escalated"
  \/ status[r] = status[q] /\ r >= q

CloseNext ==
  /\ task.call = "close" /\ ~LoopIsOver
  /\ \E r \in task.todo :
       /\ \A q \in task.todo : ClosesBefore(r, q)
       /\ Mark(r, "closed")
  /\ UNCHANGED <<kind, sent, pushed, held, others, due, log, memory, history>>

CloseEnds ==
  /\ task.call = "close" /\ LoopIsOver
  /\ EndRecord
  /\ UNCHANGED <<kind, sent, status, held, others, due, log, memory, history>>

-----------------------------------------------------------------------------
(***************************************************************************)
(* Acknowledgements.                                                       *)
(***************************************************************************)
\* _ack_exists_for_run_id
InLog(r) == \E i \in 1 .. Len(log) : log[i] = r

Handle(t) ==
  /\ task' = t
  /\ UNCHANGED <<kind, sent, pushed, status, held, others, due, log, memory,
                 history>>

\* push_native_ack: always one more line, then the runplane.
NativeAck(r) ==
  /\ task = Idle /\ r \in pushed
  /\ Handle(Call("log", r))

\* Another line, or only the repair of the row when the log has one.
AckOnce(r) == Handle(Call(IF InLog(r) THEN "ack" ELSE "log", r))

\* A device that registers and names the run it was woken by.
RegisterExplicit(r) == task = Idle /\ r \in pushed /\ AckOnce(r)

\* A device that registers soon after the last reach-out: the row is not
\* repaired when the log has a line.
RegisterProxy ==
  /\ task = Idle /\ last # NoReachout /\ past = 0
  /\ ~InLog(last)
  /\ Handle(Call("log", last))

\* session_activity, also of a user who answers an older message.
SessionActivity ==
  /\ task = Idle /\ last # NoReachout /\ past < 2
  /\ AckOnce(last)

\* _append_push_ack; older lines leave the scan.
AppendLog ==
  /\ task.call = "log"
  /\ log' = IF Len(log) = LogScan THEN Append(Tail(log), task.run)
            ELSE Append(log, task.run)
  /\ logged' = logged \cup {task.run}
  /\ task' = Call("ack", task.run)
  /\ UNCHANGED <<kind, sent, pushed, status, held, others, due, memory, cut,
                 missed, faults>>

\* ack_run: any status but that of a row that is not there.
AckRun ==
  /\ task.call = "ack"
  /\ status' = [status EXCEPT ![task.run] = IF @ = "none" THEN @ ELSE "acked"]
  /\ task' = Idle
  /\ UNCHANGED <<kind, sent, pushed, held, others, due, log, memory, history>>

-----------------------------------------------------------------------------
(***************************************************************************)
(* Escalation, in the autonomy cycle.                                      *)
(***************************************************************************)
\* Mutated forms: the listing keeps every status; only the reach-out still
\* in memory is looked at.
UnansweredAny == {r \in due : Asks(r)}
UnansweredLast == {r \in due : Asks(r) /\ status[r] = "delivered" /\ r = last}

\* What _auto_escalate_stale_deliveries finds eligible, in the list it asks for.
Unanswered ==
  {r \in due : Asks(r) /\ status[r] = "delivered" /\ Listed(r, SlaScan, status)}

BeginEscalation ==
  /\ task = Idle /\ Unanswered # {}
  /\ Handle([call |-> "escalate", run |-> NoReachout, todo |-> Unanswered,
             quota |-> MaxPerCycle])

EscalateNext ==
  /\ task.call = "escalate" /\ ~LoopIsOver
  /\ \E r \in task.todo :
       /\ \A q \in task.todo : r <= q
       /\ Mark(r, "escalated")
  /\ UNCHANGED <<kind, sent, pushed, held, others, due, log, memory, history>>

EscalationEnds ==
  /\ task.call = "escalate" /\ LoopIsOver
  /\ Handle(Idle)

-----------------------------------------------------------------------------
(***************************************************************************)
(* Time, and what goes wrong.                                              *)
(***************************************************************************)
BecomesDue(r) ==
  /\ status[r] = "delivered" /\ r \notin due
  /\ due' = due \cup {r}
  /\ UNCHANGED <<kind, sent, pushed, status, held, others, log, memory, task,
                 history>>

WindowPasses ==
  /\ task = Idle /\ last # NoReachout /\ past < 2
  /\ past' = past + 1
  /\ UNCHANGED <<kind, sent, pushed, status, held, others, due, log, last, task,
                 history>>

\* Runs of somebody else are delivered, whatever handler runs.  They began
\* after the reach-outs up to `from`, so the list of delivered rows has them
\* before theirs.
OtherDelivered ==
  /\ \E from \in Reachouts, n \in Bursts :
       others' = [r \in Reachouts |->
                    IF r <= from /\ status[r] \in {"running", "delivered"}
                    THEN AtMost(others[r] + n, Longest) ELSE others[r]]
  /\ UNCHANGED <<kind, sent, pushed, status, held, due, log, memory, task,
                 history>>

\* The sweep in a begin_run or ensure_job of somebody else.
Sweep ==
  /\ task = Idle
  /\ \E stale \in SUBSET held \ {{}} :
       /\ status' = Swept(stale)
       /\ held' = held \ stale
  /\ UNCHANGED <<kind, sent, pushed, others, due, log, memory, task, history>>

\* What a handler had still to do for its own reach-out is never done.  A
\* line that is not written is no acknowledgement, and the next cycle
\* escalates what this one has not.
CutShort ==
  /\ faults < FaultBound
  /\ faults' = faults + 1
  /\ cut' = IF task.call \in {"begin", "complete", "close", "ack"}
            THEN cut \cup {<<task.call, task.run>>} ELSE cut

\* The call raises.  The handler's caller suppresses that, and the push of a
\* reach-out goes out all the same.
CallFails ==
  /\ task # Idle /\ ~(task.call \in {"close", "escalate"} /\ LoopIsOver)
  /\ CutShort
  /\ task' = Idle
  /\ pushed' = IF task.call \in {"begin", "complete", "close"}
               THEN pushed \cup {task.run} ELSE pushed
  /\ UNCHANGED <<kind, sent, status, held, others, due, log, memory, logged,
                 missed>>

\* The process dies, in a handler or between two, and restarts.
Crash ==
  /\ CutShort
  /\ task' = Idle
  /\ last' = NoReachout /\ past' = 0
  /\ UNCHANGED <<kind, sent, pushed, status, held, others, due, log, logged,
                 missed>>

-----------------------------------------------------------------------------
Step == Begin \/ Complete \/ CloseNext \/ CloseEnds \/ AppendLog \/ AckRun
        \/ EscalateNext \/ EscalationEnds

Ack == \/ \E r \in Reachouts : NativeAck(r) \/ RegisterExplicit(r)
       \/ RegisterProxy \/ SessionActivity

Next ==
  \/ Send
  \/ Step
  \/ Ack
  \/ BeginEscalation
  \/ \E r \in Reachouts : BecomesDue(r)
  \/ Sweep \/ OtherDelivered
  \/ WindowPasses
  \/ CallFails
  \/ Crash

Spec == Init /\ [][Next]_vars

\* A handler runs to its end, time passes, and the event loop gives the
\* autonomy cycle its turn however many requests come.
FairSpec ==
  /\ Spec
  /\ WF_vars(Step)
  /\ SF_vars(BeginEscalation)
  /\ \A r \in Reachouts : WF_vars(BecomesDue(r))

-----------------------------------------------------------------------------
\* An acknowledgement in the log is in the runplane too, for ever: neither a
\* newer reach-out nor an escalation nor a sweep overwrites it, unless the
\* row was never completed or its acknowledgement never reached the row.
AckIsKept ==
  \A r \in logged :
    \/ status[r] = "acked"
    \/ task.call = "ack" /\ task.run = r
    \/ \E c \in {"begin", "complete", "ack"} : <<c, r>> \in cut

\* A new reach-out closes the older ones: between handlers at most one is
\* open, and one more for each record whose closing was cut short and for each
\* reach-out that a closing did not see, because newer rows of the same status
\* filled its list of CloseScan.
OneOpenReachout ==
  task = Idle =>
    Cardinality({r \in Reachouts : Open(r)})
      <= 1 + Cardinality({c \in cut : c[1] = "close"}) + Cardinality(missed)

\* A delivered reach-out that asks for an acknowledgement does not stay
\* delivered: it is acknowledged, superseded or escalated.  The exception is
\* one that in the end stays beyond the SlaScan newest delivered rows, those
\* of other runs among them.
Beyond(r) == status[r] = "delivered" /\ ~Listed(r, SlaScan, status)
DeliveredSettles ==
  \A r \in Reachouts :
    \/ <>[]Beyond(r)
    \/ (Asks(r) /\ status[r] = "delivered") ~> status[r] # "delivered"
=============================================================================

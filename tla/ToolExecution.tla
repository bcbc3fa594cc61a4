----------------------------- MODULE ToolExecution -----------------------------
(***************************************************************************)
(* The execution of tools: ToolOrchestrator.execute_tool with its cache,   *)
(* quota, retries and fallbacks (src/src/core/runtime/                     *)
(* tool_orchestrator.py), the decisions of ErrorHandler                    *)
(* (src/src/orchestration/error_handler.py), and the AsyncToolExecutor     *)
(* below it (src/src/orchestration/async_tool_executor.py): its slots, its *)
(* tasks and their deadlines.                                              *)
(*                                                                         *)
(* Calls and tasks are coroutines of one event loop: a step ends at an     *)
(* await.  The loop itself stands still while one of them, or a request of *)
(* the API, lists the tools of the MCP servers: each list is asked for and *)
(* awaited under a lock without a deadline.  The tool of an MCP server     *)
(* works behind a thread, and works on when its task is over.  One key and *)
(* one window of the quota (src/src/observability/tool_quota.py) are       *)
(* modelled; what the cache holds and what the safety checks say is left   *)
(* open.                                                                   *)
(***************************************************************************)
EXTENDS Integers, Sequences, FiniteSets

CONSTANTS
  Calls,          \* calls of execute_tool from outside, each made once
  Tools,
  Requested,      \* the tool that each call asks for
  Fallbacks,      \* TOOL_FALLBACKS: for each tool, those tried instead of it
  Limited, Limit, \* the tools that share a quota key, and what it allows
  MaxRetries,     \* max_retries: attempts of one tool
  MaxDepth,       \* max_fallback_depth
  MaxConcurrent,  \* max_concurrent: slots of the executor
  FaultBound      \* bound: failures that the tools report, and mistakes

ASSUME ToolAssumption ==
  /\ Requested \in [Calls -> Tools]
  /\ Fallbacks \in [Tools -> Seq(Tools)]
  /\ Limited \subseteq Tools
  /\ Limit \in Nat \ {0}      \* a limit of 0 is none
  /\ MaxRetries \in Nat \ {0}
  /\ MaxDepth \in Nat
  /\ MaxConcurrent \in Nat
  /\ FaultBound \in Nat

\* How ErrorHandler tells failures apart; the unknown ones are treated like
\* the permanent ones.
Failures == {"transient", "permanent", "partial"}

\* A task of the executor: one attempt of one tool for one call.
Tasks == Calls \X Tools \X (1 .. MaxRetries)

Places == {"new", "waiting", "retry", "fallback", "done"}

VARIABLES
  pc,       \* where each call is
  chain,    \* the tools it tried, the last one being the one it tries now
  attempt,  \* attempt_number of that one
  status,   \* ToolTask.status; a task that is pending counts as running
  slots,    \* pending_calls
  answer,   \* what the tool itself came to, in time or too late
  overdue,  \* the tasks whose timeout has passed
  mistaken, \* history: those that ended with what their tool did not answer
  used,     \* the count of the quota
  blocked   \* the event loop waits for a list of tools

calls == <<pc, chain, attempt>>
tasks == <<status, slots>>
doubts == <<overdue, mistaken>>
vars == <<calls, tasks, answer, doubts, used, blocked>>

TypeOK ==
  /\ pc \in [Calls -> Places]
  /\ chain \in [Calls -> Seq(Tools)]
  /\ attempt \in [Calls -> 1 .. MaxRetries]
  /\ status \in [Tasks -> {"none", "running", "completed", "failed",
                           "timeout"}]
  /\ slots \in SUBSET Tasks
  /\ answer \in [Tasks -> {"none", "ok"} \cup Failures]
  /\ overdue \in SUBSET Tasks
  /\ mistaken \in SUBSET Tasks
  /\ used \in 0 .. Limit
  /\ blocked \in BOOLEAN

Init ==
  /\ pc = [c \in Calls |-> "new"]
  /\ chain = [c \in Calls |-> <<>>]
  /\ attempt = [c \in Calls |-> 1]
  /\ status = [t \in Tasks |-> "none"]
  /\ slots = {}
  /\ answer = [t \in Tasks |-> "none"]
  /\ overdue = {}
  /\ mistaken = {}
  /\ used = 0
  /\ blocked = FALSE

-----------------------------------------------------------------------------
Current(c) == chain[c][Len(chain[c])]
Task(c) == <<c, Current(c), attempt[c]>>

Go(c, place) == pc' = [pc EXCEPT ![c] = place]
End(c) == Go(c, "done") /\ UNCHANGED <<chain, attempt>>

-----------------------------------------------------------------------------
(***************************************************************************)
(* What becomes of a call whose tool failed.  tried and n are its chain    *)
(* and its attempt at that moment.                                         *)
(***************************************************************************)
Retries(n, failure) == failure = "transient" /\ n < MaxRetries

\* available_fallbacks[0]
IsNextTool(tried, tool) ==
  LET options == Fallbacks[tried[Len(tried)]]
      fresh(i) == \A k \in 1 .. Len(tried) : tried[k] # options[i]
  IN  \E i \in 1 .. Len(options) :
        /\ options[i] = tool /\ fresh(i)
        /\ \A j \in 1 .. i - 1 : ~fresh(j)

FallsBack(tried, n, failure, tool) ==
  /\ failure # "partial" /\ ~Retries(n, failure)
  /\ Len(tried) <= MaxDepth
  /\ IsNextTool(tried, tool)

\* decide_recovery and what execute_tool does with it.  A partial failure is
\* to be degraded, but no partial result ever comes with it: it ends the call.
Fail(c, tried, n, failure) ==
  \/ /\ Retries(n, failure)
     /\ Go(c, "retry")
     /\ chain' = [chain EXCEPT ![c] = tried]
     /\ attempt' = [attempt EXCEPT ![c] = n + 1]
  \/ \E tool \in Tools :
       /\ FallsBack(tried, n, failure, tool)
       /\ Go(c, "fallback")
       /\ chain' = [chain EXCEPT ![c] = Append(tried, tool)]
       /\ attempt' = [attempt EXCEPT ![c] = 1]
  \/ /\ ~Retries(n, failure)
     /\ \A tool \in Tools : ~FallsBack(tried, n, failure, tool)
     /\ Go(c, "done")
     /\ chain' = [chain EXCEPT ![c] = tried]
     /\ attempt' = [attempt EXCEPT ![c] = n]

\* invoke_tool, for an attempt of the last tool tried: a full pool is a
\* failure that no pattern matches.
Invoke(c, tried, n) ==
  LET task == <<c, tried[Len(tried)], n>>
  IN  \/ /\ Cardinality(slots) < MaxConcurrent
         /\ status' = [status EXCEPT ![task] = "running"]
         /\ slots' = slots \cup {task}
         /\ Go(c, "waiting")
         /\ chain' = [chain EXCEPT ![c] = tried]
         /\ attempt' = [attempt EXCEPT ![c] = n]
      \/ /\ Cardinality(slots) >= MaxConcurrent
         /\ Fail(c, tried, n, "permanent")
         /\ UNCHANGED tasks

-----------------------------------------------------------------------------
(***************************************************************************)
(* A call.                                                                 *)
(***************************************************************************)
\* Mutated form: the last one allowed is allowed once more.
AllowsOneMore(tool) == tool \in Limited => used <= Limit

\* check_and_record: whether the quota has room for one more.
Allows(tool) == tool \in Limited => used < Limit

Record(tool) ==
  used' = IF tool \in Limited THEN used + 1 ELSE used

\* execute_tool for the last tool tried, up to its first attempt; a result
\* in the cache, the safety checks and the quota end it here.
Execute(c, tried) ==
  LET tool == tried[Len(tried)]
  IN  \/ /\ Allows(tool)
         /\ Record(tool)
         /\ Invoke(c, tried, 1)
      \/ /\ Go(c, "done")
         /\ chain' = [chain EXCEPT ![c] = tried]
         /\ UNCHANGED <<attempt, tasks, used>>

Begin(c) ==
  /\ pc[c] = "new"
  /\ Execute(c, <<Requested[c]>>)
  /\ UNCHANGED <<answer, doubts, blocked>>

\* Timers of one loop fire in order: a back-off that began at the timeout of
\* a task ends after that task has timed out too.
LateAreSettled(c) == \A t \in slots \cap overdue : t[1] # c

FallBack(c) ==
  /\ pc[c] = "fallback" /\ LateAreSettled(c)
  /\ Execute(c, chain[c])
  /\ UNCHANGED <<answer, doubts, blocked>>

Retry(c) ==
  /\ pc[c] = "retry" /\ LateAreSettled(c)
  /\ Invoke(c, chain[c], attempt[c])
  /\ UNCHANGED <<answer, doubts, used, blocked>>

\* Mutated form: a task is waited for until it runs.
SettledEarly(t) == status[t] # "none"

\* wait_for_task leaves its loop.
Settled(t) == status[t] \notin {"none", "running"}

\* What a failure can look like.  A timeout of the executor says so, and that
\* is transient; a mistake can say anything.
Verdicts(t) ==
  CASE status[t] # "failed" -> {"transient"}
    [] status[t] = "failed" /\ t \in mistaken -> Failures
    [] status[t] = "failed" /\ t \notin mistaken -> {answer[t]}

Succeed(c) ==
  /\ pc[c] = "waiting" /\ status[Task(c)] = "completed"
  /\ End(c)
  /\ UNCHANGED <<tasks, answer, doubts, used, blocked>>

NoticeFailure(c) ==
  /\ pc[c] = "waiting" /\ Settled(Task(c)) /\ status[Task(c)] # "completed"
  /\ \E failure \in Verdicts(Task(c)) : Fail(c, chain[c], attempt[c], failure)
  /\ UNCHANGED <<tasks, answer, doubts, used, blocked>>

\* wait_for_task measures the same timeout as the task, from a little before.
WaitTimesOut(c) ==
  /\ pc[c] = "waiting" /\ Task(c) \in overdue /\ ~Settled(Task(c))
  /\ Fail(c, chain[c], attempt[c], "transient")
  /\ UNCHANGED <<tasks, answer, doubts, used, blocked>>

\* The coroutine that wanted the result is cancelled: the model bridge, which
\* has a timeout of its own for each tool, or the request behind it.
Cancel(c) ==
  /\ pc[c] \in {"waiting", "retry", "fallback"}
  /\ End(c)
  /\ UNCHANGED <<tasks, answer, doubts, used, blocked>>

-----------------------------------------------------------------------------
(***************************************************************************)
(* A task of the executor.                                                 *)
(***************************************************************************)
\* Mutated form: the slot is given back only after a success.
FreedOnSuccess(t) == IF answer[t] = "ok" THEN slots \ {t} ELSE slots

\* The finally clause of _execute_tool.
Freed(t) == slots \ {t}

Finish(t) ==
  /\ status[t] = "running" /\ answer[t] # "none"
  /\ status' = [status EXCEPT ![t] = IF answer[t] = "ok" THEN "completed"
                                     ELSE "failed"]
  /\ slots' = Freed(t)
  /\ UNCHANGED <<calls, answer, doubts, used, blocked>>

\* wait_for gives the tool up, even one whose answer is just coming in.
TimeOut(t) ==
  /\ status[t] = "running" /\ t \in overdue
  /\ status' = [status EXCEPT ![t] = "timeout"]
  /\ slots' = Freed(t)
  /\ UNCHANGED <<calls, answer, doubts, used, blocked>>

Faults == mistaken \cup {t \in Tasks : answer[t] \in Failures}

\* What ends the wait is not from the tool, which may have done what it is for
\* and may still do it: an error notification of its server is raised, and a
\* request of the server under the same id is taken for an empty answer.
Mistake(t) ==
  /\ status[t] = "running" /\ Cardinality(Faults) < FaultBound
  /\ \E result \in {"completed", "failed"} :
       status' = [status EXCEPT ![t] = result]
  /\ slots' = Freed(t)
  /\ mistaken' = mistaken \cup {t}
  /\ UNCHANGED <<calls, answer, overdue, used, blocked>>

\* The tool does what it is for, or fails; that of an MCP server also after
\* the timeout or the mistake, when nobody reads its failure.
Work(t) ==
  /\ answer[t] = "none"
  /\ status[t] \in {"running", "timeout"} \/ t \in mistaken
  /\ \E result \in {"ok"} \cup Failures :
       /\ result = "ok" \/ (status[t] = "running"
                             /\ Cardinality(Faults) < FaultBound)
       /\ answer' = [answer EXCEPT ![t] = result]
  /\ UNCHANGED <<calls, tasks, doubts, used, blocked>>

TimePasses(t) ==
  /\ status[t] = "running" /\ t \notin overdue
  /\ overdue' = overdue \cup {t}
  /\ UNCHANGED <<calls, tasks, answer, mistaken, used, blocked>>

-----------------------------------------------------------------------------
(***************************************************************************)
(* The event loop.                                                         *)
(***************************************************************************)
\* get_available_tools, in the handler of a task or elsewhere on the loop; it
\* returns when every server has answered or its timeout has passed, unless
\* the lock of a connection is never given back.
Block ==
  /\ ~blocked /\ blocked' = TRUE
  /\ UNCHANGED <<calls, tasks, answer, doubts, used>>

Unblock ==
  /\ blocked /\ blocked' = FALSE
  /\ UNCHANGED <<calls, tasks, answer, doubts, used>>

CallStep(c) ==
  /\ ~blocked
  /\ \/ Begin(c) \/ FallBack(c) \/ Retry(c)
     \/ Succeed(c) \/ NoticeFailure(c) \/ WaitTimesOut(c)

TaskStep(t) == ~blocked /\ (Finish(t) \/ TimeOut(t))

Next ==
  \/ \E c \in Calls : CallStep(c) \/ (~blocked /\ Cancel(c))
  \/ \E t \in Tasks : \/ TaskStep(t) \/ (~blocked /\ Mistake(t))
                      \/ Work(t) \/ TimePasses(t)
  \/ Block \/ Unblock

Spec == Init /\ [][Next]_vars

\* The event loop runs what is ready whenever it does not stand still, however
\* often it does (strong fairness), and time passes.  As each call makes
\* finitely many steps, it need not be fair to each.  Nothing is assumed of
\* the tools, and not that a loop that stands still ever goes on.
FairSpec ==
  /\ Spec
  /\ SF_vars(\E c \in Calls : CallStep(c))
  /\ SF_vars(\E t \in Tasks : TaskStep(t))
  /\ WF_vars(\E t \in Tasks : TimePasses(t))

-----------------------------------------------------------------------------
\* What one call wants is done twice, by a retry or by a fallback, only if an
\* attempt was overdue or ended with what its tool did not answer: no attempt
\* follows one that succeeded in time, and none runs beside one that still
\* has time, unless a server or its connection misleads the code.
DoneTwiceNeedsDoubt ==
  \A t, u \in Tasks :
    t[1] = u[1] /\ t # u /\ answer[t] = "ok" /\ answer[u] = "ok"
      => {t, u} \cap (overdue \cup mistaken) # {}

\* The quota counts calls, not attempts, and every fallback is counted too: the
\* tools of a key are started at most max_retries times for each call it allows.
StartsWithinQuota ==
  Cardinality({t \in Tasks : t[2] \in Limited /\ status[t] # "none"})
    <= Limit * MaxRetries

\* In the end every call is over and every slot of the executor is free again,
\* whatever the tools do and whoever stops waiting: retries and fallbacks run
\* out, in every combination, and a hanging tool is given up.  The exception
\* is an event loop that stands still for ever.
ComesToRest ==
  \/ <>[]blocked
  \/ <>[](slots = {} /\ \A c \in Calls : pc[c] = "done")
=============================================================================

-------------------------- MODULE ToolExecutionProofs --------------------------
(***************************************************************************)
(* Proofs about the execution of tools, for any number of calls, tools,    *)
(* slots, retries and fallbacks.                                           *)
(***************************************************************************)
EXTENDS ToolExecution, FiniteSetTheorems, TLAPS

\* A call that has begun tries some tool.
Tries == \A c \in Calls : pc[c] # "new" => Len(chain[c]) > 0

\* An attempt that went over its time, or ended with what is not its answer.
Doubtful(t) == t \in overdue \cup mistaken

\* An attempt that still has time and did not fail.
Fresh(t) == ~Doubtful(t) /\ status[t] \in {"running", "completed"}

\* What was done beyond doubt is not taken for a failure.
DoneInTime ==
  \A t \in Tasks : answer[t] = "ok" /\ ~Doubtful(t) => Fresh(t)

TimedOutLate == \A t \in Tasks : status[t] = "timeout" => t \in overdue

\* A call waits for its only fresh attempt, or waits for nothing any more.
FreshIsAwaited ==
  \A t \in Tasks : Fresh(t) =>
    pc[t[1]] = "done" \/ (pc[t[1]] = "waiting" /\ t = Task(t[1]))

OneIsFresh ==
  \A t, u \in Tasks : t[1] = u[1] /\ Fresh(t) /\ Fresh(u) => t = u

ToolInv ==
  /\ TypeOK /\ Tries /\ DoneInTime /\ TimedOutLate
  /\ FreshIsAwaited /\ OneIsFresh

LEMMA InitToolInv == Init => ToolInv
<1> SUFFICES ASSUME Init PROVE ToolInv
  OBVIOUS
<1>1. 1 \in 1 .. MaxRetries /\ 0 \in 0 .. Limit
  BY ToolAssumption DEF ToolAssumption
<1>2. chain \in [Calls -> Seq(Tools)]
  BY DEF Init
<1>3. TypeOK
  BY <1>1, <1>2 DEF Init, TypeOK, Places
<1>4. Tries /\ DoneInTime /\ TimedOutLate /\ FreshIsAwaited /\ OneIsFresh
  BY DEF Init, Tries, DoneInTime, TimedOutLate, FreshIsAwaited, OneIsFresh,
         Fresh, Doubtful
<1> QED
  BY <1>3, <1>4 DEF ToolInv

-----------------------------------------------------------------------------
(* What one call does to the calls.                                        *)

CallsType ==
  /\ pc \in [Calls -> Places]
  /\ chain \in [Calls -> Seq(Tools)]
  /\ attempt \in [Calls -> 1 .. MaxRetries]

\* The call c goes to one of the places, with a chain, and no other call moves.
Moves(c, places) ==
  /\ pc'[c] \in places
  /\ Len(chain'[c]) > 0
  /\ \A d \in Calls \ {c} :
       pc'[d] = pc[d] /\ chain'[d] = chain[d] /\ attempt'[d] = attempt[d]

LEMMA PlacesAre ==
  {"new", "waiting", "retry", "fallback", "done"} \subseteq Places
  BY DEF Places

\* A call at its place, with what it tries, is well typed.
LEMMA SetCall ==
  ASSUME TypeOK, NEW c \in Calls, NEW place \in Places,
         NEW tried \in Seq(Tools), Len(tried) > 0, NEW n \in 1 .. MaxRetries,
         pc' = [pc EXCEPT ![c] = place],
         chain' = [chain EXCEPT ![c] = tried],
         attempt' = [attempt EXCEPT ![c] = n]
  PROVE  CallsType' /\ Moves(c, {place}) /\ chain'[c] = tried /\ attempt'[c] = n
  BY DEF TypeOK, CallsType, Moves

LEMMA FailMoves ==
  ASSUME TypeOK, NEW c \in Calls, NEW tried \in Seq(Tools), Len(tried) > 0,
         NEW n \in 1 .. MaxRetries, NEW failure, Fail(c, tried, n, failure)
  PROVE  CallsType' /\ Moves(c, {"retry", "fallback", "done"})
<1>1. CASE /\ Retries(n, failure)
           /\ Go(c, "retry")
           /\ chain' = [chain EXCEPT ![c] = tried]
           /\ attempt' = [attempt EXCEPT ![c] = n + 1]
  <2>1. n + 1 \in 1 .. MaxRetries
    BY <1>1, ToolAssumption DEF Retries, ToolAssumption
  <2>2. CallsType' /\ Moves(c, {"retry"})
    BY <1>1, <2>1, SetCall, PlacesAre DEF Go
  <2> QED
    BY <2>2 DEF Moves
<1>2. ASSUME NEW tool \in Tools, Go(c, "fallback"),
             chain' = [chain EXCEPT ![c] = Append(tried, tool)],
             attempt' = [attempt EXCEPT ![c] = 1]
      PROVE  CallsType' /\ Moves(c, {"retry", "fallback", "done"})
  <2>1. Append(tried, tool) \in Seq(Tools) /\ Len(Append(tried, tool)) > 0
    OBVIOUS
  <2>2. 1 \in 1 .. MaxRetries
    BY ToolAssumption DEF ToolAssumption
  <2>3. CallsType' /\ Moves(c, {"fallback"})
    BY <1>2, <2>1, <2>2, SetCall, PlacesAre DEF Go
  <2> QED
    BY <2>3 DEF Moves
<1>3. CASE /\ Go(c, "done")
           /\ chain' = [chain EXCEPT ![c] = tried]
           /\ attempt' = [attempt EXCEPT ![c] = n]
  <2>1. CallsType' /\ Moves(c, {"done"})
    BY <1>3, SetCall, PlacesAre DEF Go
  <2> QED
    BY <2>1 DEF Moves
<1> QED
  BY <1>1, <1>2, <1>3 DEF Fail

LEMMA TaskIs ==
  ASSUME TypeOK, Tries, NEW c \in Calls, pc[c] # "new"
  PROVE  Task(c) \in Tasks /\ Task(c)[1] = c
<1>1. chain[c] \in Seq(Tools) /\ Len(chain[c]) > 0 /\ attempt[c] \in 1 .. MaxRetries
  BY DEF TypeOK, Tries
<1>2. Current(c) \in Tools
  BY <1>1 DEF Current
<1> QED
  BY <1>1, <1>2 DEF Task, Tasks

\* A call that moves without touching a task keeps the invariant if it ends
\* or if none of its attempts is fresh.
LEMMA MoveKeepsInv ==
  ASSUME ToolInv, NEW c \in Calls,
         CallsType', Moves(c, {"retry", "fallback", "done"}),
         UNCHANGED <<status, slots, answer, overdue, mistaken, blocked>>,
         used' \in 0 .. Limit,
         pc'[c] = "done" \/ \A t \in Tasks : t[1] = c => ~Fresh(t)
  PROVE  ToolInv'
<1> USE DEF ToolInv
<1>1. TypeOK'
  BY DEF TypeOK, CallsType
<1>2. Tries'
  BY DEF Tries, Moves
<1>3. \A t \in Tasks : Fresh(t)' <=> Fresh(t)
  BY DEF Fresh, Doubtful
<1>4. DoneInTime' /\ TimedOutLate' /\ OneIsFresh'
  BY <1>3 DEF DoneInTime, TimedOutLate, OneIsFresh, Doubtful
<1>5. FreshIsAwaited'
  <2> SUFFICES ASSUME NEW t \in Tasks, Fresh(t)
               PROVE  pc'[t[1]] = "done" \/ (pc'[t[1]] = "waiting" /\ t = Task(t[1])')
    BY <1>3 DEF FreshIsAwaited
  <2>1. t[1] \in Calls
    BY DEF Tasks
  <2>2. CASE t[1] = c
    BY <2>2
  <2>3. CASE t[1] # c
    <3>1. /\ pc'[t[1]] = pc[t[1]] /\ chain'[t[1]] = chain[t[1]]
          /\ attempt'[t[1]] = attempt[t[1]]
      BY <2>1, <2>3 DEF Moves
    <3>2. Task(t[1])' = Task(t[1])
      BY <3>1 DEF Task, Current
    <3> QED
      BY <3>1, <3>2 DEF FreshIsAwaited
  <2> QED
    BY <2>2, <2>3
<1> QED
  BY <1>1, <1>2, <1>4, <1>5

\* A new attempt is the only fresh one of its call.
LEMMA InvokeKeepsInv ==
  ASSUME ToolInv, NEW c \in Calls, pc[c] \in {"new", "retry", "fallback"},
         NEW tried \in Seq(Tools), Len(tried) > 0, NEW n \in 1 .. MaxRetries,
         Invoke(c, tried, n),
         UNCHANGED <<answer, overdue, mistaken, blocked>>, used' \in 0 .. Limit
  PROVE  ToolInv'
<1> USE DEF ToolInv
<1> DEFINE task == <<c, tried[Len(tried)], n>>
<1>1. \A t \in Tasks : t[1] = c => ~Fresh(t)
  BY DEF FreshIsAwaited
<1>2. CASE Fail(c, tried, n, "permanent") /\ UNCHANGED tasks
  <2>1. CallsType' /\ Moves(c, {"retry", "fallback", "done"})
    BY <1>2, FailMoves
  <2> QED
    BY <1>1, <1>2, <2>1, MoveKeepsInv DEF tasks
<1>3. CASE /\ status' = [status EXCEPT ![task] = "running"]
           /\ slots' = slots \cup {task}
           /\ Go(c, "waiting")
           /\ chain' = [chain EXCEPT ![c] = tried]
           /\ attempt' = [attempt EXCEPT ![c] = n]
  <2>1. task \in Tasks /\ task[1] = c
    BY DEF Tasks
  <2>2. /\ CallsType' /\ Moves(c, {"waiting"})
        /\ chain'[c] = tried /\ attempt'[c] = n
    BY <1>3, SetCall, PlacesAre DEF Go
  <2>3. Task(c)' = task
    BY <2>2 DEF Task, Current
  <2> HIDE DEF task
  <2>4. /\ status' \in [Tasks -> {"none", "running", "completed", "failed",
                                  "timeout"}]
        /\ status'[task] = "running"
        /\ \A t \in Tasks \ {task} : status'[t] = status[t]
    BY <1>3, <2>1 DEF TypeOK
  <2>5. TypeOK' /\ Tries'
    BY <1>3, <2>1, <2>2, <2>4 DEF TypeOK, CallsType, Tries, Moves
  <2>6. \A t \in Tasks \ {task} : Fresh(t)' <=> Fresh(t)
    BY <2>4 DEF Fresh, Doubtful
  <2>7. DoneInTime' /\ TimedOutLate'
    BY <2>4, <2>6 DEF DoneInTime, TimedOutLate, Fresh, Doubtful
  <2>8. OneIsFresh'
    BY <1>1, <2>1, <2>6 DEF OneIsFresh
  <2>9. FreshIsAwaited'
    <3> SUFFICES ASSUME NEW t \in Tasks, Fresh(t)'
                 PROVE  \/ pc'[t[1]] = "done"
                        \/ pc'[t[1]] = "waiting" /\ t = Task(t[1])'
      BY DEF FreshIsAwaited
    <3>1. t[1] \in Calls
      BY DEF Tasks
    <3>2. CASE t = task
      BY <2>1, <2>2, <2>3, <3>2 DEF Moves
    <3>3. CASE t # task
      <4>1. Fresh(t) /\ t[1] # c
        BY <1>1, <2>6, <3>3
      <4>2. /\ pc'[t[1]] = pc[t[1]] /\ chain'[t[1]] = chain[t[1]]
            /\ attempt'[t[1]] = attempt[t[1]]
        BY <2>2, <3>1, <4>1 DEF Moves
      <4>3. Task(t[1])' = Task(t[1])
        BY <4>2 DEF Task, Current
      <4> QED
        BY <4>1, <4>2, <4>3 DEF FreshIsAwaited
    <3> QED
      BY <3>2, <3>3
  <2> QED
    BY <2>5, <2>7, <2>8, <2>9
<1> QED
  BY <1>2, <1>3 DEF Invoke

-----------------------------------------------------------------------------
(* The steps of a call.                                                    *)

LEMMA ExecuteKeepsInv ==
  ASSUME ToolInv, NEW c \in Calls, pc[c] \in {"new", "fallback"},
         NEW tried \in Seq(Tools), Len(tried) > 0,
         Execute(c, tried), UNCHANGED <<answer, overdue, mistaken, blocked>>
  PROVE  ToolInv'
<1> DEFINE tool == tried[Len(tried)]
<1>1. CASE Allows(tool) /\ Record(tool) /\ Invoke(c, tried, 1)
  <2>1. used' \in 0 .. Limit
    BY <1>1, ToolAssumption DEF ToolInv, TypeOK, Allows, Record, ToolAssumption
  <2>2. 1 \in 1 .. MaxRetries
    BY ToolAssumption DEF ToolAssumption
  <2> QED
    BY <1>1, <2>1, <2>2, InvokeKeepsInv
<1>2. CASE /\ Go(c, "done")
           /\ chain' = [chain EXCEPT ![c] = tried]
           /\ UNCHANGED <<attempt, tasks, used>>
  <2>1. CallsType' /\ Moves(c, {"retry", "fallback", "done"}) /\ pc'[c] = "done"
    BY <1>2, PlacesAre DEF ToolInv, TypeOK, CallsType, Moves, Go
  <2>2. used' \in 0 .. Limit /\ UNCHANGED <<status, slots>>
    BY <1>2 DEF ToolInv, TypeOK, tasks
  <2> QED
    BY <2>1, <2>2, MoveKeepsInv
<1> QED
  BY <1>1, <1>2 DEF Execute

LEMMA StartsKeepInv ==
  ASSUME ToolInv, NEW c \in Calls, Begin(c) \/ FallBack(c) \/ Retry(c)
  PROVE  ToolInv'
<1>1. CASE Begin(c)
  <2>1. Requested[c] \in Tools
    BY ToolAssumption DEF ToolAssumption
  <2>2. <<Requested[c]>> \in Seq(Tools) /\ Len(<<Requested[c]>>) > 0
    BY <2>1
  <2> QED
    BY <1>1, <2>2, ExecuteKeepsInv DEF Begin, doubts
<1>2. ASSUME pc[c] # "new"
      PROVE  chain[c] \in Seq(Tools) /\ Len(chain[c]) > 0 /\ attempt[c] \in 1 .. MaxRetries
  BY <1>2 DEF ToolInv, TypeOK, Tries
<1>3. CASE FallBack(c)
  BY <1>2, <1>3, ExecuteKeepsInv DEF FallBack, doubts
<1>4. CASE Retry(c)
  <2>1. used' \in 0 .. Limit
    BY <1>4 DEF Retry, ToolInv, TypeOK
  <2> QED
    BY <1>2, <1>4, <2>1, InvokeKeepsInv DEF Retry, doubts
<1> QED
  BY <1>1, <1>3, <1>4

\* A call that gives up an attempt gives up none that is fresh.
LEMMA FailuresKeepInv ==
  ASSUME ToolInv, NEW c \in Calls, NoticeFailure(c) \/ WaitTimesOut(c)
  PROVE  ToolInv'
<1> USE DEF ToolInv
<1>1. /\ pc[c] = "waiting"
      /\ UNCHANGED <<status, slots, answer, overdue, mistaken, used, blocked>>
      /\ Task(c) \in overdue \/ (Settled(Task(c)) /\ status[Task(c)] # "completed")
  BY DEF NoticeFailure, WaitTimesOut, tasks, doubts
<1>2. PICK failure : Fail(c, chain[c], attempt[c], failure)
  BY DEF NoticeFailure, WaitTimesOut
<1>3. chain[c] \in Seq(Tools) /\ Len(chain[c]) > 0 /\ attempt[c] \in 1 .. MaxRetries
  BY <1>1 DEF TypeOK, Tries
<1>4. CallsType' /\ Moves(c, {"retry", "fallback", "done"})
  BY <1>2, <1>3, FailMoves
<1>5. ~Fresh(Task(c))
  BY <1>1 DEF Fresh, Doubtful, Settled
<1>6. \A t \in Tasks : t[1] = c => ~Fresh(t)
  BY <1>1, <1>5 DEF FreshIsAwaited
<1>7. used' \in 0 .. Limit
  BY <1>1 DEF TypeOK
<1> QED
  BY <1>1, <1>4, <1>6, <1>7, MoveKeepsInv

LEMMA EndsKeepInv ==
  ASSUME ToolInv, NEW c \in Calls, Succeed(c) \/ Cancel(c)
  PROVE  ToolInv'
<1>1. /\ pc[c] # "new" /\ End(c)
      /\ UNCHANGED <<status, slots, answer, overdue, mistaken, used, blocked>>
  BY DEF Succeed, Cancel, tasks, doubts
<1>2. CallsType' /\ Moves(c, {"retry", "fallback", "done"}) /\ pc'[c] = "done"
  BY <1>1, PlacesAre DEF ToolInv, TypeOK, Tries, CallsType, Moves, End, Go
<1>3. used' \in 0 .. Limit
  BY <1>1 DEF ToolInv, TypeOK
<1> QED
  BY <1>1, <1>2, <1>3, MoveKeepsInv

-----------------------------------------------------------------------------
(* The steps of a task.                                                    *)

\* No step of a task makes one fresh that was not, and none moves a call.
LEMMA TaskKeepsInv ==
  ASSUME ToolInv, TypeOK', DoneInTime', TimedOutLate', UNCHANGED calls,
         \A t \in Tasks : Fresh(t)' => Fresh(t)
  PROVE  ToolInv'
<1> USE DEF ToolInv
<1>1. Tries'
  BY DEF Tries, calls
<1>2. OneIsFresh'
  BY DEF OneIsFresh
<1>3. \A c \in Calls : Task(c)' = Task(c) /\ pc'[c] = pc[c]
  BY DEF Task, Current, calls
<1>4. \A t \in Tasks : t[1] \in Calls
  BY DEF Tasks
<1>5. FreshIsAwaited'
  BY <1>3, <1>4 DEF FreshIsAwaited
<1> QED
  BY <1>1, <1>2, <1>5

LEMMA FinishKeepsInv ==
  ASSUME ToolInv, NEW t \in Tasks, Finish(t)
  PROVE  ToolInv'
<1> USE DEF ToolInv
<1>1. PICK s \in {"completed", "failed"} :
        /\ status' = [status EXCEPT ![t] = s]
        /\ answer[t] = "ok" => s = "completed"
  BY DEF Finish
<1>2. /\ status[t] = "running" /\ slots' = slots \ {t}
      /\ UNCHANGED <<calls, answer, overdue, mistaken, used, blocked>>
  BY DEF Finish, Freed, doubts
<1>3. TypeOK'
  BY <1>1, <1>2 DEF TypeOK, calls
<1>4. \A u \in Tasks : status'[u] = IF u = t THEN s ELSE status[u]
  BY <1>1 DEF TypeOK
<1>5. DoneInTime' /\ TimedOutLate'
  BY <1>1, <1>2, <1>4 DEF DoneInTime, TimedOutLate, Fresh, Doubtful
<1>6. \A u \in Tasks : Fresh(u)' => Fresh(u)
  BY <1>2, <1>4 DEF Fresh, Doubtful
<1> QED
  BY <1>2, <1>3, <1>5, <1>6, TaskKeepsInv

LEMMA TimeOutKeepsInv ==
  ASSUME ToolInv, NEW t \in Tasks, TimeOut(t)
  PROVE  ToolInv'
<1> USE DEF ToolInv
<1>1. /\ status' = [status EXCEPT ![t] = "timeout"] /\ slots' = slots \ {t}
      /\ t \in overdue
      /\ UNCHANGED <<calls, answer, overdue, mistaken, used, blocked>>
  BY DEF TimeOut, Freed, doubts
<1>2. TypeOK'
  BY <1>1 DEF TypeOK, calls
<1>3. \A u \in Tasks : status'[u] = IF u = t THEN "timeout" ELSE status[u]
  BY <1>1 DEF TypeOK
<1>4. DoneInTime' /\ TimedOutLate'
  BY <1>1, <1>3 DEF DoneInTime, TimedOutLate, Fresh, Doubtful
<1>5. \A u \in Tasks : Fresh(u)' => Fresh(u)
  BY <1>1, <1>3 DEF Fresh, Doubtful
<1> QED
  BY <1>1, <1>2, <1>4, <1>5, TaskKeepsInv

\* What ends with a mistake is not fresh any more, and not vouched for.
LEMMA MistakeKeepsInv ==
  ASSUME ToolInv, NEW t \in Tasks, Mistake(t)
  PROVE  ToolInv'
<1> USE DEF ToolInv
<1>1. PICK s \in {"completed", "failed"} : status' = [status EXCEPT ![t] = s]
  BY DEF Mistake
<1>2. /\ slots' = slots \ {t} /\ mistaken' = mistaken \cup {t}
      /\ UNCHANGED <<calls, answer, overdue, used, blocked>>
  BY DEF Mistake, Freed
<1>3. TypeOK'
  BY <1>1, <1>2 DEF TypeOK, calls
<1>4. \A u \in Tasks : status'[u] = IF u = t THEN s ELSE status[u]
  BY <1>1 DEF TypeOK
<1>5. DoneInTime' /\ TimedOutLate'
  BY <1>2, <1>4 DEF DoneInTime, TimedOutLate, Fresh, Doubtful
<1>6. \A u \in Tasks : Fresh(u)' => Fresh(u)
  BY <1>2, <1>4 DEF Fresh, Doubtful
<1> QED
  BY <1>2, <1>3, <1>5, <1>6, TaskKeepsInv

LEMMA WorkKeepsInv ==
  ASSUME ToolInv, NEW t \in Tasks, Work(t) \/ TimePasses(t)
  PROVE  ToolInv'
<1> USE DEF ToolInv
<1>1. CASE Work(t)
  <2>1. PICK result \in {"ok"} \cup Failures :
          answer' = [answer EXCEPT ![t] = result]
    BY <1>1 DEF Work
  <2>2. /\ status[t] \in {"running", "timeout"} \/ t \in mistaken
        /\ UNCHANGED <<calls, status, slots, overdue, mistaken, used, blocked>>
    BY <1>1 DEF Work, tasks, doubts
  <2>3. TypeOK'
    BY <2>1, <2>2 DEF TypeOK, calls
  <2>4. \A u \in Tasks : u # t => answer'[u] = answer[u]
    BY <2>1 DEF TypeOK
  <2>5. DoneInTime' /\ TimedOutLate'
    BY <2>2, <2>4 DEF DoneInTime, TimedOutLate, Fresh, Doubtful
  <2>6. \A u \in Tasks : Fresh(u)' => Fresh(u)
    BY <2>2 DEF Fresh, Doubtful
  <2> QED
    BY <2>2, <2>3, <2>5, <2>6, TaskKeepsInv
<1>2. CASE TimePasses(t)
  <2>1. /\ overdue' = overdue \cup {t}
        /\ UNCHANGED <<calls, status, slots, answer, mistaken, used, blocked>>
    BY <1>2 DEF TimePasses, tasks, doubts
  <2>2. TypeOK'
    BY <2>1 DEF TypeOK, calls
  <2>3. DoneInTime' /\ TimedOutLate'
    BY <2>1 DEF DoneInTime, TimedOutLate, Fresh, Doubtful
  <2>4. \A u \in Tasks : Fresh(u)' => Fresh(u)
    BY <2>1 DEF Fresh, Doubtful
  <2> QED
    BY <2>1, <2>2, <2>3, <2>4, TaskKeepsInv
<1> QED
  BY <1>1, <1>2

\* An event loop that stands still or goes on changes nothing else.
LEMMA BlockKeepsInv ==
  ASSUME ToolInv, Block \/ Unblock
  PROVE  ToolInv'
<1> USE DEF ToolInv
<1>1. /\ blocked' \in BOOLEAN
      /\ UNCHANGED <<calls, status, slots, answer, overdue, mistaken, used>>
  BY DEF Block, Unblock, tasks, doubts
<1>2. TypeOK'
  BY <1>1 DEF TypeOK, calls
<1>3. DoneInTime' /\ TimedOutLate' /\ \A t \in Tasks : Fresh(t)' => Fresh(t)
  BY <1>1 DEF DoneInTime, TimedOutLate, Fresh, Doubtful
<1> QED
  BY <1>1, <1>2, <1>3, TaskKeepsInv

-----------------------------------------------------------------------------
LEMMA NextKeepsInv == ToolInv /\ [Next]_vars => ToolInv'
<1> SUFFICES ASSUME ToolInv, [Next]_vars PROVE ToolInv'
  OBVIOUS
<1>1. ASSUME NEW c \in Calls, CallStep(c) \/ Cancel(c) PROVE ToolInv'
  BY <1>1, StartsKeepInv, FailuresKeepInv, EndsKeepInv DEF CallStep
<1>2. ASSUME NEW t \in Tasks,
             TaskStep(t) \/ Mistake(t) \/ Work(t) \/ TimePasses(t)
      PROVE  ToolInv'
  BY <1>2, FinishKeepsInv, TimeOutKeepsInv, MistakeKeepsInv, WorkKeepsInv
     DEF TaskStep
<1>3. CASE Block \/ Unblock
  BY <1>3, BlockKeepsInv
<1>4. CASE UNCHANGED vars
  <2>1. UNCHANGED <<pc, chain, attempt, status, slots, answer, overdue,
                    mistaken, used, blocked>>
    BY <1>4 DEF vars, calls, tasks, doubts
  <2> QED
    BY <2>1 DEF ToolInv, TypeOK, Tries, DoneInTime, TimedOutLate,
                FreshIsAwaited, OneIsFresh, Fresh, Doubtful, Task, Current
<1> QED
  BY <1>1, <1>2, <1>3, <1>4 DEF Next

LEMMA InvAlways == Spec => []ToolInv
  BY InitToolInv, NextKeepsInv, PTL DEF Spec

\* Every state of the execution has its types: places, chains of tools,
\* attempts within max_retries, and a quota that is never overdrawn.
THEOREM TypeCorrect == Spec => []TypeOK
<1>1. ToolInv => TypeOK
  BY DEF ToolInv
<1> QED
  BY <1>1, InvAlways, PTL

\* For any calls, tools, fallbacks and limits: no call has its work done
\* twice, by a retry or by a fallback, unless one of the two attempts overran
\* its timeout or ended with what its tool did not answer.
THEOREM NothingIsDoneTwiceUndoubted == Spec => []DoneTwiceNeedsDoubt
<1>1. ToolInv => DoneTwiceNeedsDoubt
  BY DEF ToolInv, DoneTwiceNeedsDoubt, DoneInTime, OneIsFresh, Doubtful
<1> QED
  BY <1>1, InvAlways, PTL
-----------------------------------------------------------------------------
(***************************************************************************)
(* The quota.  What is counted is a use: a limited tool that a call has    *)
(* tried.  The first attempt of a use is counted by the quota, and the     *)
(* others are attempts of the same use.                                    *)
(***************************************************************************)
Started(c, tool) == \E n \in 1 .. MaxRetries : status[<<c, tool, n>>] # "none"

Uses == {use \in Calls \X Limited : Started(use[1], use[2])}

\* A call that waits or retries has started the tool that it tries.
Attempted ==
  \A c \in Calls :
    /\ pc[c] = "waiting" => status[Task(c)] # "none"
    /\ pc[c] = "retry" => Started(c, Current(c))

UsesCounted == IsFiniteSet(Uses) /\ Cardinality(Uses) <= used

QuotaInv == Attempted /\ UsesCounted

\* No started task goes back to being none.
StaysStarted == \A t \in Tasks : status[t] # "none" => status'[t] # "none"

LEMMA StartedIs ==
  ASSUME TypeOK, Tries, NEW c \in Calls, pc[c] # "new"
  PROVE  /\ Task(c) \in Tasks /\ Task(c) = <<c, Current(c), attempt[c]>>
         /\ Current(c) \in Tools
         /\ status[Task(c)] # "none" => Started(c, Current(c))
<1>1. chain[c] \in Seq(Tools) /\ Len(chain[c]) > 0 /\ attempt[c] \in 1 .. MaxRetries
  BY DEF TypeOK, Tries
<1>2. Current(c) \in Tools
  BY <1>1 DEF Current
<1> QED
  BY <1>1, <1>2 DEF Task, Tasks, Started

LEMMA StartedStays ==
  ASSUME StaysStarted, NEW c \in Calls, NEW tool \in Tools, Started(c, tool)
  PROVE  Started(c, tool)'
  BY DEF StaysStarted, Started, Tasks

\* When one call moves, the others have started what they try as before.
LEMMA OthersAttempted ==
  ASSUME TypeOK, Tries, Attempted, StaysStarted, NEW c \in Calls,
         Moves(c, Places),
         pc'[c] = "waiting" => status'[Task(c)'] # "none",
         pc'[c] = "retry" => Started(c, Current(c))'
  PROVE  Attempted'
<1> SUFFICES ASSUME NEW d \in Calls, d # c
             PROVE  /\ pc'[d] = "waiting" => status'[Task(d)'] # "none"
                    /\ pc'[d] = "retry" => Started(d, Current(d))'
  BY DEF Attempted
<1>1. pc'[d] = pc[d] /\ chain'[d] = chain[d] /\ attempt'[d] = attempt[d]
  BY DEF Moves
<1>2. Current(d)' = Current(d) /\ Task(d)' = Task(d)
  BY <1>1 DEF Current, Task
<1>3. CASE pc[d] = "waiting"
  <2>1. Task(d) \in Tasks /\ status[Task(d)] # "none"
    BY <1>3, StartedIs DEF Attempted
  <2> QED
    BY <1>1, <1>2, <1>3, <2>1 DEF StaysStarted
<1>4. CASE pc[d] = "retry"
  <2>1. Current(d) \in Tools /\ Started(d, Current(d))
    BY <1>4, StartedIs DEF Attempted
  <2>2. Started(d, Current(d))'
    BY <1>2, <2>1, StartedStays DEF Started
  <2> QED
    BY <1>1, <1>4, <2>2
<1> QED
  BY <1>1, <1>3, <1>4

\* The count holds when no use is new, and when one new use is counted.
LEMMA UsesAreCounted ==
  ASSUME UsesCounted, used \in Nat, used' \in Nat, used <= used',
         \/ Uses' \subseteq Uses
         \/ used' = used + 1 /\ \E use : Uses' \subseteq Uses \cup {use}
  PROVE  UsesCounted'
<1> USE DEF UsesCounted
<1>1. Cardinality(Uses) \in Nat
  BY FS_CardinalityType
<1>2. CASE Uses' \subseteq Uses
  <2>1. IsFiniteSet(Uses') /\ Cardinality(Uses') <= Cardinality(Uses)
    BY <1>2, FS_Subset
  <2>2. Cardinality(Uses') \in Nat
    BY <2>1, FS_CardinalityType
  <2> QED
    BY <1>1, <2>1, <2>2
<1>3. ASSUME used' = used + 1, NEW use, Uses' \subseteq Uses \cup {use}
      PROVE  UsesCounted'
  <2> DEFINE more == Cardinality(Uses \cup {use})
  <2>0. IsFiniteSet(Uses \cup {use}) /\ more \in Nat
    BY FS_AddElement, FS_CardinalityType
  <2>1. more = Cardinality(Uses) \/ more = Cardinality(Uses) + 1
    BY FS_AddElement, Zenon
  <2>2. IsFiniteSet(Uses') /\ Cardinality(Uses') <= more
    BY <1>3, <2>0, FS_Subset
  <2>3. Cardinality(Uses') \in Nat
    BY <2>2, FS_CardinalityType
  <2> QED
    BY <1>1, <1>3, <2>0, <2>1, <2>2, <2>3
<1> QED
  BY <1>2, <1>3

\* An invocation starts the task that the call then waits for, or nothing.
LEMMA InvokeStarts ==
  ASSUME TypeOK, NEW c \in Calls,
         NEW tried \in Seq(Tools), Len(tried) > 0, NEW n \in 1 .. MaxRetries,
         Invoke(c, tried, n)
  PROVE  LET task == <<c, tried[Len(tried)], n>> IN
         \/ /\ Moves(c, {"waiting"}) /\ Task(c)' = task /\ task \in Tasks
            /\ status' = [status EXCEPT ![task] = "running"]
         \/ Moves(c, {"fallback", "done"}) /\ UNCHANGED status
<1> DEFINE task == <<c, tried[Len(tried)], n>>
<1>1. CASE /\ status' = [status EXCEPT ![task] = "running"]
           /\ Go(c, "waiting")
           /\ chain' = [chain EXCEPT ![c] = tried]
           /\ attempt' = [attempt EXCEPT ![c] = n]
  <2>1. task \in Tasks
    BY DEF Tasks
  <2>2. Moves(c, {"waiting"}) /\ chain'[c] = tried /\ attempt'[c] = n
    BY <1>1, SetCall, PlacesAre DEF Go
  <2>3. Task(c)' = task
    BY <2>2 DEF Task, Current
  <2> QED
    BY <1>1, <2>1, <2>2, <2>3
<1>2. CASE Fail(c, tried, n, "permanent") /\ UNCHANGED tasks
  <2>1. Moves(c, {"retry", "fallback", "done"})
    BY <1>2, FailMoves
  <2>2. pc'[c] # "retry"
    BY <1>2 DEF Fail, Retries, Go, TypeOK
  <2> QED
    BY <1>2, <2>1, <2>2 DEF Moves, tasks
<1> QED
  BY <1>1, <1>2 DEF Invoke

\* Then what starts is the use of the tool that it tries, if there is a quota
\* on that one.
LEMMA InvokeKeepsQuota ==
  ASSUME ToolInv, QuotaInv, NEW c \in Calls,
         NEW tried \in Seq(Tools), Len(tried) > 0, NEW n \in 1 .. MaxRetries,
         Invoke(c, tried, n), used' \in Nat, used <= used',
         LET tool == tried[Len(tried)] IN
         \/ tool \in Limited => used' = used + 1
         \/ Started(c, tool)
  PROVE  QuotaInv'
<1> DEFINE tool == tried[Len(tried)]  task == <<c, tool, n>>
<1> USE DEF ToolInv, QuotaInv
<1>1. used \in Nat
  BY ToolAssumption DEF TypeOK, ToolAssumption
<1>2. CASE Moves(c, {"fallback", "done"}) /\ UNCHANGED status
  <2>1. StaysStarted /\ Uses' = Uses
    BY <1>2 DEF StaysStarted, Uses, Started
  <2>2. Moves(c, Places) /\ pc'[c] \notin {"waiting", "retry"}
    BY <1>2, PlacesAre DEF Moves
  <2>3. Attempted'
    BY <2>1, <2>2, OthersAttempted
  <2>4. UsesCounted'
    BY <1>1, <2>1, UsesAreCounted
  <2> QED
    BY <2>3, <2>4
<1>3. CASE /\ Moves(c, {"waiting"}) /\ Task(c)' = task /\ task \in Tasks
           /\ status' = [status EXCEPT ![task] = "running"]
  <2>1. /\ status'[task] = "running"
        /\ \A t \in Tasks \ {task} : status'[t] = status[t]
    BY <1>3 DEF TypeOK
  <2>2. Moves(c, Places) /\ pc'[c] = "waiting"
    BY <1>3, PlacesAre DEF Moves
  <2>3. Attempted'
    BY <1>3, <2>1, <2>2, OthersAttempted DEF StaysStarted
  <2>4. Limited \subseteq Tools
    BY ToolAssumption DEF ToolAssumption
  <2>5. Uses' \subseteq Uses \cup {<<c, tool>>}
    <3> SUFFICES ASSUME NEW d \in Calls, NEW u \in Limited, Started(d, u)',
                        <<d, u>> # <<c, tool>>
                 PROVE  Started(d, u)
      BY DEF Uses
    <3>1. \A m \in 1 .. MaxRetries : <<d, u, m>> \in Tasks \ {task}
      BY <2>4 DEF Tasks
    <3> QED
      BY <2>1, <3>1 DEF Started
  <2>6. CASE tool \in Limited /\ ~Started(c, tool)
    BY <1>1, <2>5, <2>6, UsesAreCounted, <2>3
  <2>7. CASE tool \notin Limited \/ Started(c, tool)
    <3>1. Uses' \subseteq Uses
      BY <2>5, <2>7 DEF Uses
    <3> QED
      BY <1>1, <2>3, <3>1, UsesAreCounted
  <2> QED
    BY <2>6, <2>7
<1> QED
  BY <1>2, <1>3, InvokeStarts

LEMMA ExecuteKeepsQuota ==
  ASSUME ToolInv, QuotaInv, NEW c \in Calls,
         NEW tried \in Seq(Tools), Len(tried) > 0, Execute(c, tried)
  PROVE  QuotaInv'
<1> DEFINE tool == tried[Len(tried)]
<1> USE DEF ToolInv
<1>1. used \in Nat
  BY ToolAssumption DEF TypeOK, ToolAssumption
<1>2. CASE Record(tool) /\ Invoke(c, tried, 1)
  <2>1. /\ used' \in Nat /\ used <= used'
        /\ tool \in Limited => used' = used + 1
    BY <1>1, <1>2 DEF Record
  <2>2. 1 \in 1 .. MaxRetries
    BY ToolAssumption DEF ToolAssumption
  <2> QED
    BY <1>2, <2>1, <2>2, InvokeKeepsQuota
<1>3. CASE /\ Go(c, "done")
           /\ chain' = [chain EXCEPT ![c] = tried]
           /\ UNCHANGED <<attempt, tasks, used>>
  <2>1. StaysStarted /\ Uses' = Uses
    BY <1>3 DEF StaysStarted, Uses, Started, tasks
  <2>2. Moves(c, Places) /\ pc'[c] = "done"
    BY <1>3, PlacesAre DEF TypeOK, Moves, Go
  <2>3. Attempted'
    BY <2>1, <2>2, OthersAttempted DEF QuotaInv
  <2>4. UsesCounted'
    BY <1>1, <1>3, <2>1, UsesAreCounted DEF QuotaInv
  <2> QED
    BY <2>3, <2>4 DEF QuotaInv
<1> QED
  BY <1>2, <1>3 DEF Execute

\* A call that gives an attempt up retries the tool of that attempt.
LEMMA FailKeepsQuota ==
  ASSUME ToolInv, QuotaInv, NEW c \in Calls, pc[c] = "waiting",
         NEW failure, Fail(c, chain[c], attempt[c], failure),
         UNCHANGED <<status, used>>
  PROVE  QuotaInv'
<1> USE DEF ToolInv, QuotaInv
<1>1. chain[c] \in Seq(Tools) /\ Len(chain[c]) > 0 /\ attempt[c] \in 1 .. MaxRetries
  BY DEF TypeOK, Tries
<1>2. Moves(c, {"retry", "fallback", "done"})
  BY <1>1, FailMoves
<1>3. StaysStarted /\ Uses' = Uses
  BY DEF StaysStarted, Uses, Started
<1>4. Started(c, Current(c))
  BY StartedIs DEF Attempted
<1>5. pc'[c] = "retry" => chain'[c] = chain[c]
  BY <1>1 DEF Fail, Go, TypeOK
<1>6. pc'[c] = "retry" => Started(c, Current(c))'
  BY <1>4, <1>5 DEF Started, Current
<1>7. Moves(c, Places) /\ pc'[c] # "waiting"
  BY <1>2, PlacesAre DEF Moves
<1>8. Attempted'
  BY <1>3, <1>6, <1>7, OthersAttempted
<1>9. UsesCounted'
  BY <1>3, UsesAreCounted, ToolAssumption DEF TypeOK, ToolAssumption
<1> QED
  BY <1>8, <1>9

LEMMA EndKeepsQuota ==
  ASSUME ToolInv, QuotaInv, NEW c \in Calls, pc[c] # "new", End(c),
         UNCHANGED <<status, used>>
  PROVE  QuotaInv'
<1> USE DEF ToolInv, QuotaInv
<1>1. StaysStarted /\ Uses' = Uses
  BY DEF StaysStarted, Uses, Started
<1>2. Moves(c, Places) /\ pc'[c] = "done"
  BY PlacesAre DEF TypeOK, Tries, Moves, End, Go
<1>3. Attempted'
  BY <1>1, <1>2, OthersAttempted
<1>4. UsesCounted'
  BY <1>1, UsesAreCounted, ToolAssumption DEF TypeOK, ToolAssumption
<1> QED
  BY <1>3, <1>4

LEMMA CallKeepsQuota ==
  ASSUME ToolInv, QuotaInv, NEW c \in Calls, CallStep(c) \/ Cancel(c)
  PROVE  QuotaInv'
<1> USE DEF ToolInv
<1>1. CASE Begin(c)
  <2>1. Requested[c] \in Tools
    BY ToolAssumption DEF ToolAssumption
  <2>2. <<Requested[c]>> \in Seq(Tools) /\ Len(<<Requested[c]>>) > 0
    BY <2>1
  <2> QED
    BY <1>1, <2>2, ExecuteKeepsQuota DEF Begin
<1>2. ASSUME pc[c] # "new"
      PROVE  chain[c] \in Seq(Tools) /\ Len(chain[c]) > 0 /\ attempt[c] \in 1 .. MaxRetries
  BY <1>2 DEF TypeOK, Tries
<1>3. CASE FallBack(c)
  BY <1>2, <1>3, ExecuteKeepsQuota DEF FallBack
<1>4. CASE Retry(c)
  <2>1. Started(c, Current(c))
    BY <1>4 DEF Retry, QuotaInv, Attempted
  <2>2. Started(c, chain[c][Len(chain[c])])
    BY <2>1 DEF Current
  <2>3. used' \in Nat /\ used <= used' /\ pc[c] # "new"
    BY <1>4, ToolAssumption DEF Retry, TypeOK, ToolAssumption
  <2> QED
    BY <1>2, <1>4, <2>2, <2>3, InvokeKeepsQuota DEF Retry
<1>5. CASE NoticeFailure(c)
  BY <1>5, FailKeepsQuota DEF NoticeFailure, tasks
<1>6. CASE WaitTimesOut(c)
  BY <1>6, FailKeepsQuota DEF WaitTimesOut, tasks
<1>7. CASE Succeed(c) \/ Cancel(c)
  <2>1. pc[c] # "new" /\ End(c) /\ UNCHANGED <<status, used>>
    BY <1>7 DEF Succeed, Cancel, tasks
  <2> QED
    BY <2>1, EndKeepsQuota
<1> QED
  BY <1>1, <1>3, <1>4, <1>5, <1>6, <1>7 DEF CallStep

\* The steps of a task start none.
LEMMA TaskKeepsQuota ==
  ASSUME ToolInv, QuotaInv, UNCHANGED <<pc, chain, attempt, used>>,
         \A t \in Tasks : status'[t] = "none" <=> status[t] = "none"
  PROVE  QuotaInv'
<1> USE DEF ToolInv, QuotaInv
<1>1. \A c \in Calls : \A tool \in Tools : Started(c, tool)' <=> Started(c, tool)
  BY DEF Started, Tasks
<1>2. Uses' = Uses
  BY <1>1, ToolAssumption DEF Uses, ToolAssumption
<1>3. UsesCounted'
  BY <1>2, UsesAreCounted, ToolAssumption DEF TypeOK, ToolAssumption
<1>4. Attempted'
  <2> SUFFICES ASSUME NEW c \in Calls, pc[c] # "new"
               PROVE  /\ pc[c] = "waiting" => status'[Task(c)] # "none"
                      /\ pc[c] = "retry" => Started(c, Current(c))'
    BY DEF Attempted, Task, Current
  <2>1. Task(c) \in Tasks /\ Current(c) \in Tools
    BY StartedIs
  <2>2. Current(c)' = Current(c)
    BY DEF Current
  <2> QED
    BY <1>1, <2>1, <2>2 DEF Attempted, Started
<1> QED
  BY <1>3, <1>4

LEMMA InitQuotaInv == Init => QuotaInv
<1> SUFFICES ASSUME Init PROVE QuotaInv
  OBVIOUS
<1>1. Limited \subseteq Tools
  BY ToolAssumption DEF ToolAssumption
<1>2. Uses = {}
  BY <1>1 DEF Uses, Started, Init, Tasks
<1>3. UsesCounted
  BY <1>2, FS_EmptySet DEF UsesCounted, Init
<1>4. Attempted
  BY DEF Attempted, Init
<1> QED
  BY <1>3, <1>4 DEF QuotaInv

LEMMA NextKeepsQuota == ToolInv /\ QuotaInv /\ [Next]_vars => QuotaInv'
<1> SUFFICES ASSUME ToolInv, QuotaInv, [Next]_vars PROVE QuotaInv'
  OBVIOUS
<1>1. ASSUME NEW c \in Calls, CallStep(c) \/ Cancel(c) PROVE QuotaInv'
  BY <1>1, CallKeepsQuota
<1>2. ASSUME NEW t \in Tasks,
             TaskStep(t) \/ Mistake(t) \/ Work(t) \/ TimePasses(t)
      PROVE  QuotaInv'
  <2>1. /\ UNCHANGED <<pc, chain, attempt, used>>
        /\ \/ UNCHANGED status
           \/ /\ status[t] # "none"
              /\ \E s \in {"completed", "failed", "timeout"} :
                   status' = [status EXCEPT ![t] = s]
    BY <1>2 DEF TaskStep, Finish, TimeOut, Mistake, Work, TimePasses, calls,
                tasks
  <2>2. \A u \in Tasks : status'[u] = "none" <=> status[u] = "none"
    BY <2>1 DEF ToolInv, TypeOK
  <2> QED
    BY <2>1, <2>2, TaskKeepsQuota
<1>3. CASE Block \/ Unblock \/ UNCHANGED vars
  BY <1>3, TaskKeepsQuota DEF Block, Unblock, vars, calls, tasks
<1> QED
  BY <1>1, <1>2, <1>3 DEF Next

\* Each use has max_retries attempts at most.
LEMMA UsesBoundStarts ==
  ASSUME ToolInv, QuotaInv
  PROVE  StartsWithinQuota
<1> DEFINE S == {t \in Tasks : t[2] \in Limited /\ status[t] # "none"}
           N == 1 .. MaxRetries
           f == [t \in S |-> <<<<t[1], t[2]>>, t[3]>>]
<1>1. MaxRetries \in Nat /\ Limit \in Nat /\ used \in Nat /\ used <= Limit
  BY ToolAssumption DEF ToolInv, TypeOK, ToolAssumption
<1>2. IsFiniteSet(N) /\ Cardinality(N) = MaxRetries
  BY <1>1, FS_Interval
<1>3. /\ IsFiniteSet(Uses) /\ Cardinality(Uses) \in Nat
      /\ Cardinality(Uses) <= Limit
  BY <1>1, FS_CardinalityType DEF QuotaInv, UsesCounted
<1>4. /\ IsFiniteSet(Uses \X N)
      /\ Cardinality(Uses \X N) = Cardinality(Uses) * MaxRetries
  BY <1>2, <1>3, FS_Product
<1>5. ASSUME NEW t \in S PROVE <<<<t[1], t[2]>>, t[3]>> \in Uses \X N
  <2>1. /\ t[1] \in Calls /\ t[2] \in Limited /\ t[3] \in N
        /\ t = <<t[1], t[2], t[3]>>
    BY DEF Tasks
  <2>2. status[<<t[1], t[2], t[3]>>] # "none"
    BY <2>1
  <2>3. Started(t[1], t[2])
    BY <2>1, <2>2 DEF Started
  <2> QED
    BY <2>1, <2>3 DEF Uses
<1>6. f \in Injection(S, Uses \X N)
  <2>1. f \in [S -> Uses \X N]
    BY <1>5
  <2>2. \A t, u \in S : f[t] = f[u] => t = u
    BY DEF Tasks
  <2> QED
    BY <2>1, <2>2 DEF Injection, IsInjective
<1>7. IsFiniteSet(S) /\ Cardinality(S) <= Cardinality(Uses) * MaxRetries
  BY <1>4, <1>6, FS_Injection
<1>8. Cardinality(S) \in Nat
  BY <1>7, FS_CardinalityType
<1> HIDE DEF S
<1>9. ASSUME NEW a \in Nat, NEW b \in Nat, NEW k \in Nat, a <= b
      PROVE  a * k <= b * k
  <2>1. b * k = a * k + (b - a) * k /\ (b - a) \in Nat
    BY <1>9
  <2>2. (b - a) * k \in Nat
    BY <2>1
  <2> QED
    BY <1>9, <2>1, <2>2
<1>10. Cardinality(Uses) * MaxRetries <= Limit * MaxRetries
  BY <1>1, <1>3, <1>9
<1>11. /\ Cardinality(Uses) * MaxRetries \in Nat
       /\ Limit * MaxRetries \in Nat
  BY <1>1, <1>3
<1>12. Cardinality(S) <= Limit * MaxRetries
  BY <1>7, <1>8, <1>10, <1>11
<1> QED
  BY <1>12 DEF StartsWithinQuota, S

\* For any calls, tools, fallbacks and retries: the tools of a quota key are
\* started max_retries times at most for each call that the quota allows, also
\* when they are fallbacks of one another.
THEOREM QuotaBoundsStarts == Spec => []StartsWithinQuota
<1>1. Init => ToolInv /\ QuotaInv
  BY InitToolInv, InitQuotaInv
<1>2. ToolInv /\ QuotaInv /\ [Next]_vars => (ToolInv /\ QuotaInv)'
  BY NextKeepsInv, NextKeepsQuota
<1>3. ToolInv /\ QuotaInv => StartsWithinQuota
  BY UsesBoundStarts
<1> QED
  BY <1>1, <1>2, <1>3, PTL DEF Spec
=============================================================================

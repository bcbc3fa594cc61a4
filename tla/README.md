# Verification of VERA's proactive core

TLA+ modules, TLC runs and TLAPS proofs for the part of VERA (Versatile Embedded
Reasoning Agent) that acts on its own, from the change a sentinel notices to the
acknowledgement of a reach-out, and for the tools it acts with: their servers,
connections and execution. All paths below are relative to the repository; `PM`
is `src/core/runtime/proactive_manager.py`, `RP`
`src/core/runtime/autonomy_runplane.py`, `SV` `src/api/server.py`, `DN`
`src/context/dnd_mode.py`, `SE` `src/planning/sentinel_engine.py`, `MO`
`src/orchestration/mcp_orchestrator.py`, `TO`
`src/core/runtime/tool_orchestrator.py`, `EH`
`src/orchestration/error_handler.py` and `AX`
`src/orchestration/async_tool_executor.py`.

    tlc -workers 2 -config MCRunplane.cfg MCRunplane     one run
    tlapm RunplaneProofs.tla                             one module's proofs

## 1. Inventory of the system

VERA is one Python process: an aiohttp event loop, a few threads, and JSON files
under `vera_memory/`. The code that decides by itself what to do and when is
`ProactiveManager` and what it is built on.

| Component | State | Operations | Talks to |
|---|---|---|---|
| Autonomy runplane (RP) | `autonomy_runplane.json`: jobs, runs, dead letters, active lanes; one RLock | ensure_job, begin_run, complete_run, ack_run, mark_run_status, replay_dead_letter, listings | called by the executors in PM, by the cycle's replay, by the API |
| Proactive lanes (PM 4766-4969) | `_active_proactive_lanes`, `_proactive_lane_queues`, in memory under one lock | try-enter, enqueue, leave, pop, drain | called by the sentinel thread, the cycle and released interrupts; runs the handlers of SE |
| DND and interrupts (DN) | manual DND and rules in a file; `InterruptQueue` in memory under a plain Lock | enable, disable, get_status, can_interrupt, queue_interrupt, deliver_all | asked by PM before it executes; calls back into PM |
| Autonomy cycle (PM 3437-4203) | `autonomy_cadence_state.json`, the flag `_autonomy_cycle_running` | one cycle; week1 due check; automatic replay; escalation of deliveries | timer thread, start(), API; runplane, lanes, inner life |
| Reachout delivery (SV 3686-3997, 7302-7483) | runs of kind delivery in the runplane, the acknowledgement log, the last reach-out in memory | record, ack, supersede, escalate | native push, sessions, runplane |
| Sentinel engine (SE, PM 3197-3411) | trigger cooldowns, recommendations with their refusals and back-off | poll, fire, merge, hand over, acknowledge, execute | lanes and interrupts behind the hand-over |
| MCP server processes (MO) | `servers`, `connections`, `_starting_servers`, back-offs: dicts without a lock | start, stop, restart, clean up, health pass, stop_all | the threads of tool calls, of the API and of the monitor |
| MCP connections (MO 443-647) | `_io_lock`, request ids, response cache, one pipe | call_tool, ping, list_tools | one server process each |
| Tool execution (TO, EH, AX) | the executor's slots and tasks, the quota file | execute_tool, invoke, wait, retry, fall back | the model bridge above, MO below |
| Event bus (`src/core/services/event_bus.py`) | subscriptions, history, dead letters, worker queue | publish, deliver, replay, start, stop | nearly everything |
| Concurrency sentinel, task DAG | tool queues and cooldowns; task graph | admit, schedule | tool orchestration |
| The rest | see section 8 | | |

What is hard here, and what makes each component correct:

* **Runplane.** A begin and its completion are minutes apart. In between the
  process may die, the executor may be cancelled (the cancellation is re-raised
  past `complete_run`, PM 2310), a later call may sweep the lane as stale, and
  the retention caps may drop the row. *Correct*: one executor per lane; nothing
  stays "running" or keeps its lane for ever; dead letters leave only by replay
  or cap.
* **Lanes.** Each helper takes the lock for itself, so threads interleave
  between them; queues are capped; the same recommendation may be handed over
  again while it is executing. *Correct*: side effects of a lane are serial and
  happen once, a lane is released however a handler ends, a queue is served.
* **Interrupts.** The level is read twice without a lock and may change any
  time; callbacks run under the queue's lock; the queue drops items at its cap.
  *Correct*: nothing runs more often than it was handed over, nothing
  undelivered is dropped before something delivered, ending DND delivers.
* **Cycle.** The whole state file is read, held across awaits of up to ten
  minutes and written back, by two tasks that do not know of each other; what
  was done is durable long before it is recorded. *Correct*: budgets per window,
  replays per job, cooldowns, one cycle at a time, no letter forgotten.
* **Reachout.** The acknowledgement log, the runplane and the memory of the last
  reach-out are three records, changed one after the other by handlers that may
  fail in between; complete, ack, mark and sweep overwrite one another.
  *Correct*: what was acknowledged stays so, a newer reach-out closes the older
  ones, none stays delivered for ever.
* **Sentinel.** The poll thread merges events into a recommendation that the
  event loop may be executing; refusals, back-offs and expiry fall in between.
  *Correct*: one open recommendation per trigger, no change that fired is
  forgotten, every recommendation settles.
* **MCP servers.** Checks and changes of the tables are not atomic, and every
  caller blocks for seconds in between. *Correct*: no running process is lost
  without a race, a claim dies with its start, a shutdown leaves nothing in the
  tables, the monitor heals what broke.
* **MCP connections.** Answers come late, out of order or never, in one pipe for
  all threads. *Correct*: each answer reaches its own request and no other, and
  the lock always comes back.
* **Tool execution.** A tool works on after its timeout, and after an error its server
  did not mean for it; the caller may give up while its task holds a slot; retries and
  fallbacks multiply; the event loop stands still while tools are listed. *Correct*: what
  was done, and reported, in time is not done again, starts stay within the quota, every
  call ends and every slot comes back.
* **Event bus.** Callbacks that publish, bounded histories, a worker raced by
  stop. *Correct*: an event is delivered or dead-lettered.

`PROJECT.json` lists the hazards one by one, at their lines.

## 2. Modules

| Module | Models | Extends / instances |
|---|---|---|
| `Runplane` | RP, with its executors, the clock, crashes | |
| `LaneMutex` | abstract: a mutual exclusion per lane | `Runplane` implements it |
| `ProactiveLanes` | `execute_proactive_action` and its helpers | |
| `DndInterrupts` | the DND table, `queue_interrupt`, the interrupt queue | |
| `AutonomyCycle` | cycle, due check, state file, automatic replay | |
| `Reachout` | delivery records, acknowledgements, escalation | its rows are those of `Runplane` |
| `Sentinel` | triggers, recommendations, the poll thread and the pulse | its hand-overs lead to `ProactiveLanes` and `DndInterrupts` |
| `McpServers` | the processes and table entries of one server name | |
| `McpConnection` | one connection, its threads and its pipe | implements `RequestReply` |
| `RequestReply` | abstract: each request ends once, with its own answer or an error, but for numbers that the server has claimed | |
| `ToolExecution` | `execute_tool`, the error handler, the executor | |
| `MC...`, one for each but the abstract ones | values for TLC | each extends its component |
| `RunplaneProofs`, `ProactiveLanesProofs`, `AutonomyCycleProofs`, `ReachoutProofs`, `SentinelProofs`, `McpServersProofs`, `McpConnectionProofs`, `ToolExecutionProofs` | theorems | each extends its component and TLAPS; `ReachoutProofs` extends `DndInterrupts` as well |

### Runplane

Every public method takes the RLock, loads the file, and saves it atomically
before it returns, so each is one action. A run is named by its position in the
order of `begin_run` calls. `holder[l]` is `active_lanes[l]`, `dead` the list of
dead letters, oldest first. `alive` is not code state: it holds the runs whose
executor (a subprocess awaited by PM) has not reported yet; `CompleteRun` is the
report, `Abandon` the cancellation that skips it, `Crash` the restart that keeps
only the file. The stale sweep (`SweptRuns` and the operators after it) is part
of `BeginRun`. A refused `begin_run` returns before saving and so has no action:
the sweep it did in memory is lost, as in the code. `Tick` ages runs; an
executor does not outlive `ExecTimeout`.

### ProactiveLanes

A thread is at a place (`pc`) in `execute_proactive_action` with a
recommendation (`job`). Places are the points where the lock is not held:
entering, enqueueing after a refusal, running the handler, leaving, draining.
The drain's tail call returns the thread to `entering`. `swallowed` is
history. `Repeated` are the
recommendations that a pulse still finds pending while they execute and hands
over again; the others are handed over once.

### DndInterrupts

`level` is what `get_status` answers. It moves freely (`SetLevel`): the user, a
timed DND that expires, time-of-day and calendar rules all change it, and
nothing the other actions do depends on how. `Disable` is `disable_dnd` with its
`deliver_all`, which takes the queue's lock (`Acquire`) and keeps it across the
callbacks (`Deliver`, `Execute`, `Release`). A thread that hands over a
recommendation passes `Check` (PM 4729), `QueueInterrupt` (DN 842) and `Add`,
and the level may change between any two.

### AutonomyCycle

`saved` is the file, `copy[c]` and `dueCopy` what a cycle and the due check
loaded. `Begin` is the guard, the load and the reset for a new window; `Spend`
and `Pass` are the reflection and the workflow; `Replay` is one pass of
`_auto_replay_dead_letters`; `Save` is the write and the `finally`. A cycle can be
cut at any place: `Fail` (an exception or a cancellation), `TimeOut` (an API
call that waited for it), `Restart`. Time is two facts: the window the clock is
in, and `cooled[j]`, how many of the job's replays are older than the cooldown;
an entry's `last_replay_utc` is the number of the replay it was set at.
Counters that the code only compares with a cap stop at the cap. `spent`,
`woken`, `tried`, `dirty`, `overtaken`, `lost` and `reported` are history: what
was really done, and how often a record of it was lost.

`dead` is the runplane's list of letters, with their job and whether their failure class
is one to replay (PM 1015). A pass looks at the newest `ScanLimit` of them only (`Listed`,
PM 983). `replay_dead_letter` fails only when the letter has left the list in the
meantime, pushed out by another thread's failure.

### Reachout

The handlers run on one event loop and do not await between their first and last
change, so they do not interleave; `task` is the running handler. But each call
into the runplane or the log is a file of its own and a step of its own, and
`CallFails` and `Crash` cut a handler between two of them; `cut` remembers what
was never called. `kind` says who takes the message. `log` is the part of the
acknowledgement log that a scan still reads; `last` and `past` are
`last_reachout_event` and the proxy windows it has outlived. A reach-out stands
for its run, which the code finds by alias. The two passes over old reach-outs list the
newest rows of a status only, and of every kind (`Listed`): `others` counts the delivered
runs of somebody else that are newer than a row (`OtherDelivered`), and `missed`
remembers the open reach-outs that a closing did not list.

### Sentinel

`version[x]` counts the changes a poll noticed, `fired[x]` is the newest one the
trigger fired on. A handler looks at the watched thing itself, so `EndRun` covers
whatever version there was when it looked (`loaded`). The poll thread and the
pulse share `Handle`, `Refuse`, `Queue`, `BeginRun` and `EndRun`; `Scan` and
`RecordAgain` are the pulse's alone. `late` is history: a change merged into an
action that was running already.

### McpServers

The tables are keyed by server name and share nothing between names, so the
entries of one name are modelled. A thread is at a place (`pc`) where the code
blocks or does I/O: between the checks of `start_server` and its claim, at
`Popen`, in the handshake, in the health check, in the waits of `stop_server` and
`_cleanup_server`, in a back-off, in a request. `task` is the operation that called.
`proc` is what each process does: "hung" answers no ping, "stuck" does not read either
and its input pipe is full. A request to a stuck process does not return (`Returns`).
`raced` and `lost` are history.

### McpConnection

`lock` is `_io_lock`, `wire` the pipe with what the parser has buffered, oldest
first, `todo` what the server has not answered. `Take` is the lock and the number,
`Write` the return of write and flush, which may never come while the server lives and
does not read (`Stall` turns `reading` off and on). The wait begins with `TakeCached`, if
there is something under the number. `Receive` is one line read by the waiting thread:
one with its own number, with another's (set aside in `cache`), or an error notification,
which ends the wait. `GiveUp` is the deadline. A line is an answer or a request of the
server (`Claim`), which numbers its requests as it likes; the code looks at the number only.

### ToolExecution

A task is one attempt of one tool for one call. `answer[t]` is what the tool
itself came to, `status[t]` what the executor recorded: they differ when a tool
works on in its thread after its timeout, and when `Mistake` ends the wait with what
the tool did not say. That is the third branch of `McpConnection.Receive` (an error
notification) or its `Claim` (a request of the server under the same number); a history
variable, `mistaken`, remembers it, and the tool may still do its work. A tool that
reports its own failure is taken to have done nothing; one that reports it after its work
was done, as when the answer of a web service is lost, counts as mistaken. `overdue` holds the tasks whose
timeout has passed; both `TimeOut` (the task's own) and `WaitTimesOut` (the caller's,
which is measured from a little earlier) may then come first. The connection measures the
same timeout from later on (vera.py 3990), so it is never the first. `blocked` says that
the event loop is inside `get_available_tools`: no call and no task moves, while tools
work and time passes. Any coroutine of the loop may start that (vera.py 3954, TO 101,
SV 4475), so `Block` has no guard but `~blocked`. `Fail` is the decision of
the error handler with what `execute_tool` makes of it: a retry, a fallback, or the
end. DEGRADE ends the call like a failure, since no caller passes a partial
result. A full pool is a failure that no pattern matches, so it falls back at once.

## 3. Runs

| Run | Question | Bounds | Result |
|---|---|---|---|
| `runplane` | all of the runplane's promises | 2 jobs on 2 lanes, caps of 2, 3 runs, stale 2 > timeout 1 | holds |
| `proactive_lanes` | serial lanes, one side effect, release, progress | 2 threads, 2 lanes, 6 recommendations, queues of 2 | holds |
| `proactive_lanes_stranded` | a released lane drains its queue | same | violated |
| `dnd` | what is deferred comes back once, oldest drops first | 2 threads, 3 recommendations twice each, queue of 2, 3 levels | holds |
| `autonomy_budgets` | one cycle, budgets per window | 2 coroutines, 4 ways to call, 2 windows, 1 disturbance, 1 due check | holds |
| `autonomy_replays` | replays per job, cooldown, letters settle | 1 coroutine, 2 jobs, limit 2, 3 letters of which 2 are listed, 1 disturbance, 1 due check | holds |
| `autonomy_reported` | "continuing in background" | 2 coroutines | violated |
| `reachout` | acks are kept, older ones close, all settle | 3 reach-outs, lists of 2 rows, a scan of 1 line, 1 mark a pass, 1 failure or restart | holds |
| `sentinel` | one open recommendation, nothing fired forgotten, all settle | 2 triggers, 2 changes, 2 faults, 1 execution a pass | holds |
| `mcp_servers` | no process lost, claims end, shutdown, healing | monitor and 1 thread, 3 operations, 2 faults, 2 restarts | holds |
| `mcp_connection` | each answer to its request, lock freed | 3 threads, 3 requests, 1 notification, 1 request of the server | holds |
| `tool_execution` | nothing twice in time, quota, everything ends | 2 calls, 3 tools, 2 attempts, 1 slot, limit 1, 1 failure or mistake | holds |

Why the bounds are enough to make the interesting cases happen. Two executors, a
stale one and a new one, need two runs on one lane; the third fills a
retention cap of 2 so that eviction happens while the evicted run is alive.
One lane has one recommendation more than a holder and a full queue, so that the
cap displaces one, and one of them is handed over twice, with others to wait behind it. The interrupt queue has room for fewer than are handed over.
One disturbance and one due check can each lose a record, and both in one
behaviour lose more than one; a limit of two replays leaves room before and
after. `autonomy_budgets` has no jobs and `autonomy_replays` one way to call a
cycle and no budgets, because budgets and replay entries do not look at one another;
of its two jobs one fails with a class to replay and the other with one that is not, and
three letters, of which a pass lists two, let the second bury the first.
`autonomy_budgets` uses the symmetry of the coroutines; its properties are all
invariants. Three reach-outs leave two for a third to close while a pass marks
one, a scan of one line forgets an older acknowledgement, and a list of two rows is filled
by the other reach-outs or by runs of somebody else, which are delivered two at a time.
One failure or restart is what TLC can afford with these lists; the theorems allow any
number. A second change can be merged while the first is being acted
on, and two triggers of different priority compete for one place. The monitor and
one other thread suffice for every overlap of two operations on one name; three
operations allow a stop in the middle of a restart, and the two faults break both
a process and its successor. With three requests two late answers can be on the
wire before the one that is waited for, and the number that the server claims can be a
past, a present or a future one; three threads let one write and two want the lock. One
slot makes the second call meet a full pool, one allowed use makes a fallback meet a
spent quota, and tools may hang, and the event loop stand still, as often as they like.
One mistake is enough to do twice what is not overdue.

The violation runs each check one sentence of a document, an answer of the API or a
test against what the code does; `PROJECT.json`, "findings", quotes them. What holds
instead is in the passing runs: `BusyLaneServesQueue` for queues (with an exception of its own, below), `OneCycleAtATime`
and the budgets for cycles that are cut short.

Other things the code does that a reader might not expect, all of them in the models:

* A stale-lane threshold below an executor's timeout breaks the exclusion: that is
  why `OneExecutorPerLane` has the proviso.
* A recommendation that is handed over again while it executes runs beside itself
  (PM 4797): the exception in `SerialUnlessRepeated`.
* A drain that takes out the very action it completed, handed over again in the meantime,
  returns there (PM 4851): what waits behind it stays on a free lane. `swallowed` counts it,
  and `BusyLaneServesQueue` excepts it, on lanes with such an action only.
* The comments of `DNDLevel` (DN 69-70) say of HIGH "Suppress all except critical" and of
  CRITICAL "Suppress everything"; `can_interrupt` (DN 794-828) lets every level pass its own
  urgency: urgent items at HIGH, critical ones always. `CapDropsTheOldest` holds because of
  that table. By the comments a critical item would be queued at CRITICAL, and the trim
  (DN 427) would drop it before any routine one: the mutant of that property is this reading.
* When a timed DND expires, nothing delivers the queue (DN 695); only `disable_dnd` does.
* `int(index or -1)` (PM 3556) cannot tell window 0 from none, so startup budgets hold
  in the later windows only (`StartupOncePerLaterWindow`).
* The restart count lies in the record that each restart replaces (MO 1516), so a limit
  above one is met only when restarts overlap: a server that keeps failing is restarted
  for ever.
* A replay pass lists the newest `max(20, 20 * max_per_cycle)` letters of all jobs (PM 983),
  40 by default. Letters of classes that are not replayed and of escalated jobs stay there
  until an operator or the runplane's cap removes them, so when they fill that list, an
  older letter is neither replayed nor escalated. `LettersSettle` has this as its exception
  (`ListBlocked`), and without it is violated.
* What a sentinel notices during a trigger's cooldown or the dedup window is dropped
  (SE 727): `NoFiringVanishes` speaks of what fired.
* Each pulse counts a refusal twice (PM 3292 and 4691).
* The write of a request (MO 579) has no timeout, and `_io_lock` (MO 628, 662, 692) is taken
  without one. A server that stops reading with its pipe full holds the writer and everyone
  who wants the lock for as long as it lives: a health check among them holds up the monitor,
  which would have restarted it, and with it every other server's healing. `Heals` excepts this
  (`CheckStuck`), and so does `NobodyLocksForever` (`Wedged`); both are violated otherwise.
* A request that an MCP server makes (ping, sampling, roots) is never answered, and the code
  tells it from a response by its id alone (MO 541): if the id is the one waited for, the call
  ends with it (`call_tool` then returns an empty result), if it is a later one it is kept and
  ends that later request (MO 508). `KeepsPromise` says that nothing else can be mistaken.
* A reach-out may stay open beside newer ones, or delivered for ever, with nothing failing:
  superseding reads the newest 200 rows of a status (SV 3824) and the escalation the
  newest `VERA_AUTONOMY_ACK_SLA_SCAN_LIMIT` delivered rows (PM 860; 400, at least 20), by
  start and of every kind, and every executor run that succeeds is a delivered row
  (RP 502). `OneOpenReachout` counts what a closing did not list, `DeliveredSettles`
  excepts what in the end stays below the list (`Beyond`); both are violated otherwise.
* A tool may be done twice though no attempt was overdue. An error notification ends the
  wait for an answer (MO 552), `call_tool` raises, the executor records FAILED (AX 273) and
  the error handler retries or falls back (EH 255-335), while the server goes on with the
  first request. `DoneTwiceNeedsDoubt` names this beside the timeouts, and without it is
  violated.
* `get_available_tools` is synchronous, asks every server under its `_io_lock` (MO 1772-1786)
  and runs on the event loop: before each tool of an MCP server (vera.py 3954), in the listing
  of the API (SV 4475) and in the cache of tool sources (TO 101). A hung server stops the
  loop for the timeout of `list_tools`, and for ever if a thread holds that lock in a write
  that does not end. `ComesToRest` excepts a loop that stands still for ever, and without
  that is violated.
* Retries are not counted by the quota: `StartsWithinQuota` has the factor.
* Nothing ever removes the executor's `task_metadata` and `event_queue` entries, or the
  answers set aside in `_response_cache`.

`BudgetPerWindow` and `ReplaysPerJob` allow one excess per lost record, and the
excess does happen: without the term `lost` both are violated, for instance by a
due check that loads, waits for its executor while a cycle spends and saves, and
then writes its older copy of the whole file (PM 2771-2799). In the same way
`OneOpenReachout` allows one more for each supersession cut short and for each reach-out
that one did not list, `AckIsKept` excepts
the calls that were never made, and `LosingNeedsARace` the races.

## 4. Fairness

* Runplane: time passes; an executor reports or is given up, because its
  subprocess is awaited with a timeout; and the pulse keeps asking for every
  job, since the interval timers never stop. Only the last makes the sweep run.
* Lanes: a thread inside `execute_proactive_action` goes on. The handlers are
  synchronous and return.
* DND: a call that has begun goes on, each thread by itself; the pulse keeps
  scanning. Nothing makes the level change.
* Cycle: a cycle and a due check that have begun go on, as every await in them
  has a timeout or ends with the process; cooldowns pass; the cadence timer finds
  no cycle running infinitely often (strong fairness: cycles end, and it fires
  for ever).
* Reach-outs: a handler that has begun makes its next call, time passes, and the
  escalation of the autonomy cycle gets its turn on the event loop however many
  requests come (strong fairness: it can run only between two handlers).
* Sentinel: each thread goes on with what it has begun, the pulse keeps coming,
  and a back-off ends. Changes, faults and expiry are not promised.
* MCP servers: threads run on, because what they block on has a timeout or ends with the
  process, but for a request to a stuck process, whose end has no fairness (`EndCall` and
  `EndHealthCheck` are not enabled); the monitor keeps passing and a back-off ends. Nothing is
  assumed of users or processes.
* MCP connections: a deadline passes, a free lock is taken by each thread that wants it, and a
  write ends if the server dies or reads again and again (strong fairness). The lock is not
  fair, but the model's requests are bounded. Nothing is assumed of a server's reading or
  answering.
* Tools: the event loop runs what is ready whenever it does not stand still, however often
  it does (strong fairness), and time passes. It is not assumed that a loop which stands still
  ever goes on: `Unblock` has no fairness. Nothing is assumed of the tools, which may hang, or
  of the callers, which may give up.

## 5. What is proved

TLAPS checks these for all values of the constants, under the named assumptions
of each module, which TLC evaluates in the runs.

**Runplane** (`RunplaneProofs`).
* `TypeCorrect`.
* `RunningIsSweepable`: `[]RunningHoldsLane`. Not inductive alone: a lane's holder
  must be a retained or evicted run *of that lane* (`HolderOwnsLane`), otherwise a
  completion would free another lane's holder. `LaneInv` conjoins the two with
  running rows and running jobs separately; the sweep is a lemma (`SweepLanes`).
* `OneExecutorPerLane`: `[]ExecutorExclusion`, provided `ExecTimeout < StaleAfter`
  (`TimeoutBelowStale`). The strengthening is `LiveHolds`: a live executor's run
  holds its lane and is no older than the timeout. `SweepSparesTheLiving` is the
  step where the proviso is used; with a threshold below the timeout TLC finds two
  executors in one lane.
* `RunplaneImplementsMutex`: under the same proviso, every behaviour of the runplane
  is one of `LaneMutex`, step by step (`MutexEnter`, `MutexLeave`, `MutexStutter`).
* `LettersAreOrdered`: `[]DeadLettersOrdered`, and `NoLetterVanishes`:
  `DeadLetterLeavesByReplayOrCap`. `DeadInv` says that a letter is of a run that was
  begun and is over and records no more failures than its job has had, that a job's
  letters are in the order of its failures, and that the list keeps its cap. The
  lemmas on sequences say where the elements are after a letter is taken out or the
  oldest ones are trimmed.

**Lanes** (`ProactiveLanesProofs`).
* `TypeCorrect`.
* `HeldLaneIsWorkedOn`: `[]HolderIsExecuting`, with `HolderInItsLane`.
* `SideEffectAtMostOnce`: `[]AtMostOnce`. The invariant `Flow` says that a
  recommendation handed over once is in one place: nowhere yet, in one thread's
  hand, once in one queue, or started. The lemmas on `LastN`, `Enqueued` and
  `Popped` say what the cap and the pop do to a queue without repetitions.
* `SerialOnPlainLanes`: `[]SerialUnlessRepeated`, from `ExecutorHolds`: on a lane
  without repeated recommendations whoever executes is the holder.

**Cycle** (`AutonomyCycleProofs`).
* `TypeCorrect`.
* `GuardExcludes`: `[]OneCycleAtATime`, for every number of coroutines, every way
  of cutting them short, and every restart.
* `BudgetsKept`, `StartupOnce`, `ReplaysBounded`: `[]BudgetPerWindow`,
  `[]StartupOncePerLaterWindow` and `[]ReplaysPerJob`. They are one argument. Each of
  the counts (reflections and workflows of the cadence or of the startup, per window;
  replays, by number and by stamp, per job) is compared with what a state of the file
  admits to (`UsedIn`, `NotedIn`, `CountOf`, `StampOf`). `Accounted` says how far each of
  the three states about (the file, the copy of the cycle under way, the copy of the due
  check) may fall behind: by what was lost, by what the cycle has not saved yet, and,
  for the due check, by what was saved over its head. It is inductive because only one
  cycle is under way (`Exclusion`), and a state of a later window admits to a whole cap of
  the earlier ones. `SomeStateAdmits` then finds a state within the caps (`Sane`) that misses
  no more than `lost`.
* `CooldownsKept`: `CooldownKept`, from the same invariant, with the stamps.

**Reach-outs** (`ReachoutProofs`).
* `TypeCorrect`.
* `AcknowledgementsAreKept`: `[]AckIsKept`. An acknowledgement is overwritten only by
  a call that works from older knowledge, so `ReachoutInv` says what every pending
  call knows: a record is made for a reach-out that nobody acknowledged
  (`Recording`), a loop marks what is still open (`ListedAreOpen`), a kept lane
  belongs to a run that was never completed (`HeldIsIncomplete`, for the sweep), and
  a missing row was never begun (`RowOrCut`, for `ack_run`).
* `OneIsOpen`: `[]OneOpenReachout`. A record opens a reach-out before it closes the
  others, so in between there is one too many; `Closing` says that until the first mark
  the record has still listed all the open ones but its own. If it is cut short, the cut
  counts, because no closing is cut twice: those cut before were of older reach-outs
  (`CutsBefore`). When it has listed none, only those that some closing has missed are
  open beside its own, and the property counts them: a row that was missed once may be
  listed again and use up the marks of a later closing.

**Interrupts** (the last part of `ReachoutProofs`).
* `InterruptsTyped`: `[]DndTypeOK`, with the cap of the queue.
* `OldestAreDelivered`: `[]DeliveredFirst`, `HandoversAreExecutedOnce`:
  `[]OneExecutionPerHandover`, and `CapIsByAge`: `CapDropsTheOldest`. They need one
  another, so `DndInv` is proved as a whole. Its centre is `NoneCritical`: whatever the
  level, `can_interrupt` lets a critical item pass (`CriticalPasses`), so none is queued (by the comments of `DNDLevel` one would be, see section 3);
  then the sort moves nothing (`SortIs`), the cap takes the first item off (`TrimIs`), and
  the order that `DeliveredFirst` speaks of survives. `Accounted` counts each handover
  once: as an execution, as a thread that carries the recommendation or as an entry that
  is not delivered; what was given up or dropped is the slack. A level
  that critical items do not pass, as in the mutant of this run, breaks `NoneCritical`.

**Sentinel** (`SentinelProofs`).
* `TypeCorrect`; a thread that is engaged has a recommendation in hand
  (`EngagedHasRec`).
* `EventsGather`: `[]OneOpenPerTrigger`, for both threads and every way of settling a
  recommendation: what is executed, acknowledged or expired never opens again
  (`Settling`).
* `FiringsAreKept`: `[]NoFiringVanishes`, with `Ordered` (what is loaded, fired and merged
  never runs ahead of what was noticed) and `RunCovers` (a run looks at no less than its
  recommendation held when it began, or what came since is `late`).

**MCP servers** (`McpServersProofs`).
* `TypeCorrect`.
* `ClaimsAreOwned`: `[]ClaimHasAnOwner`.
* `OnlyRacesLose`: `[]LosingNeedsARace`. The strengthening `Alone` is what holds as
  long as no two threads shared an unlocked window: one start at a time, with no
  record under the name until its own, and one clean-up, of the process that the
  name still holds.
* `NothingIsLeftUp`: `[]DownOnceClosed`. `DownInv` says that the flag of `stop_all` goes
  up before it lists what to stop, that a start is inside its `try` as long as it may
  still make an entry, and that when stop_all is over and there is an entry, some thread
  is on its way to delete it.

**MCP connections** (`McpConnectionProofs`).
* `TypeCorrect`.
* `NothingAwaitedIsCached`: `[]CachedIsAbandoned`, from `WaitsLocked` (who writes or waits
  holds the lock) and `Fresh` (no id beyond the last is in use anywhere but by the server).
* `ConnectionKeepsPromise`: every behaviour is one of `RequestReply`, with the
  request a thread waits for as `open`. Each line set aside or on its way is `Lawful`: an
  answer to a request that was made, or a request under a number that the server has
  claimed; so `PromiseEnd` can tell how a call ended.

**Tools** (`ToolExecutionProofs`).
* `TypeCorrect`.
* `NothingIsDoneTwiceUndoubted`: `[]DoneTwiceNeedsDoubt`. `ToolInv` says that an attempt
  which is neither overdue nor mistaken, and runs or succeeded, is the only such one of its
  call and the one the call waits for (`OneIsFresh`, `FreshIsAwaited`), and that what was
  done beyond doubt was not taken for a failure (`DoneInTime`).
* `QuotaBoundsStarts`: `[]StartsWithinQuota`. The quota counts uses, a use being a tool
  that one call tries; `UsesCounted` says that there are no more uses with a started
  attempt than were counted. A retry is no new use, because a call that waits or retries
  has started the tool it tries (`Attempted`). Each use has at most `MaxRetries` tasks.

## 6. Model-checked only

Liveness (`LaneReleased`, `BusyLaneServesQueue`, `DisableDelivers`,
`LettersSettle`, `DeliveredSettles`, `Settles`, `Heals`, `NobodyLocksForever`,
`ComesToRest`) is outside the prover's reach. It is all that is left to TLC alone: a
theorem of section 5 states every invariant and every action property of the passing
runs, and the refinements.

The type invariants of `Runplane`, `ProactiveLanes`, `AutonomyCycle`, `Reachout` and
`ToolExecution` are proved and no longer checked in the runs.

## 7. Plan

1. Done: `Runplane` with `LaneMutex`, `ProactiveLanes`, `DndInterrupts`,
   `AutonomyCycle`; then `Reachout`, `Sentinel`, `McpServers`, `McpConnection` with
   `RequestReply`, and `ToolExecution`; the theorems of section 5.
2. `EventBus`: publish from a callback, history and dead-letter caps, the worker
   thread, stop while the queue is full. Theorem: what is published while the bus runs
   is delivered, dead-lettered or still queued.
3. `ProactiveCore`: `Sentinel` composed with `ProactiveLanes` and `DndInterrupts`, whose
   `Submit` and `Recommend` become the sentinel's hand-over.
4. The confirmations of tools (`_pending_tool_confirmations`, TO 657-712), `ToolAdmission`
   (concurrency sentinel) and `TaskGraph` (task DAG).
5. Proofs: done for every safety property of the runs. What is left is the safety of the
   modules of 2 to 4, and the steps that the liveness properties rest on: that each loop
   has a measure which its steps lower (the marks of a record, the retries and fallbacks
   of a call, the undelivered items of a delivery), as action properties.

A dozen runs are kept, one per question; a new module takes the place of a run whose
point a theorem makes as well.

## 8. Not modelled, and why

* In the modelled components:
  * runplane and cycle: the runplane's listings and SLO snapshots (they change
    nothing); the executors, calendar check, recommendations and audit of a cycle;
    the operator's replay of a letter; and two due checks at once, which the runplane's
    lane keeps apart.
  * lanes and interrupts: the gates in front of a recommendation that need its text
    (initiative score, probes) and the reward bookkeeping after it; how `get_status`
    derives the level, the DND file, `deliver_queued` at shutdown.
  * reach-outs: the channels and push services, the dedup of events, the operator's
    marks and the retention cap (both are in `Runplane`).
  * sentinel: threshold triggers, of which the runtime has none, pause and resume,
    which nothing calls, the HIGH-priority workflow path, the truncation of events.
  * MCP servers: the batches and readiness rules of `start_all`, the polling inside a
    start, more than one name, hung or stuck processes that recover. A process that is in no
    table and no thread's hand is no longer followed; `lost` says that there is one.
  * connections: the parser's bytes, the handshake's notification.
  * tools: the contents of the cache, the safety and confirmation checks (a free
    choice), the budget check, off unless configured, `cancel_task` and
    `check_results`, which the runtime does not call, and the change of the quota's
    window, which gives `used` back. A pending task counts as running. A request
    that `call_tool` repeats after restarting a dead server (MO 1611-1617) is one attempt
    here: a death is noticed only after an error notification, which makes the attempt
    a mistaken one, or a write to a broken pipe, which did nothing; otherwise the end of
    the server's output is read as silence.
* `src/orchestration` beyond this, `src/core/runtime/vera.py` and the rest of the API
  server: wiring, prompting and I/O. Their start, stop, timeouts and restarts are actions
  here.
* `inner_life_engine`, charters, quorum, memory, learning: prompting, text similarity,
  vectors. Outcomes enter as free choices.
* Voice, streaming, safety filters, browser, desktop and PDF tools: device I/O.
* `mcp_server_and_tools` (vendored), `ui`, `scripts`, `services`: not part of the core.

The modules map about one line in a hundred of the repository, which has 200,000 lines in
550 files: most of them are tools, prompts, front ends and scripts without shared state.

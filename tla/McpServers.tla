------------------------------ MODULE McpServers ------------------------------
(***************************************************************************)
(* The life of one MCP server's process under MCPOrchestrator              *)
(* (src/src/orchestration/mcp_orchestrator.py): start_server, stop_server, *)
(* restart_server, _restart_server, _cleanup_server, the health monitor,   *)
(* call_tool with its restart after a crash, and stop_all.                 *)
(*                                                                         *)
(* The tables of the orchestrator are keyed by server name and take no     *)
(* lock, so the entries of one name are modelled.  Every operation runs on *)
(* a thread of its own (asyncio.to_thread, start_all's threads, the        *)
(* monitor's executor).  A step ends where the code blocks or does I/O:    *)
(* that is where another thread may run.                                   *)
(***************************************************************************)
EXTENDS Integers, FiniteSets

CONSTANTS
  Users,        \* threads of start_all, of the HTTP handlers, of tool calls
  Monitor,      \* the thread that runs _run_health_checks
  Pids,         \* processes; one that nothing refers to any more is reused
  NoProc,       \* an absent table entry
  MaxRestarts,  \* config.max_restart_attempts
  FaultBound,   \* bound: processes that die, hang, stop reading, or never come up
  AskBound      \* bound: operations asked for

Threads == Users \cup {Monitor}

ASSUME ServersAssumption ==
  /\ Monitor \notin Users
  /\ NoProc \notin Pids
  /\ MaxRestarts \in Nat
  /\ FaultBound \in Nat
  /\ AskBound \in Nat

VARIABLES
  server,    \* servers[name]: the process its record holds
  conn,      \* connections[name]: the process it talks to
  starting,  \* name \in _starting_servers
  shutdown,  \* _shutdown_requested
  cooling,   \* _autostart_retry_after[name] lies ahead
  proc,      \* what each process does: "up"; "hung", it answers nothing;
             \* "stuck", it does not read either and its input pipe is full;
             \* "dead"
  restarts,  \* restart_count of the record in servers[name]
  pc,        \* the step each thread is at
  task,      \* the operation it runs
  within,    \* threads inside the try block of start_server
  mine,      \* the process it holds in a local variable
  faults,    \* faults so far
  asked,     \* operations asked for so far
  closed,    \* stop_all returned
  raced,     \* history: two threads were in one unlocked window at a time
  lost       \* history: a running process lost its entry

tables == <<server, conn, restarts, starting, cooling>>
threads == <<pc, task, within, mine>>
history == <<raced, lost>>
vars == <<tables, shutdown, proc, threads, faults, asked, closed, history>>

Tasks == {"none", "start", "stop", "restart", "call", "close", "check",
          "reconcile"}
Places == {"idle", "start", "mark", "spawn", "init", "health",
           "pinging", "stop", "stopping", "clean", "cleaning", "restart",
           "backoff", "count", "call", "calling", "broken", "reconcile", "shutdown",
           "list"}

TypeOK ==
  /\ server \in Pids \cup {NoProc} /\ conn \in Pids \cup {NoProc}
  /\ starting \in BOOLEAN /\ shutdown \in BOOLEAN /\ cooling \in BOOLEAN
  /\ proc \in [Pids -> {"up", "hung", "stuck", "dead"}]
  /\ restarts \in Nat
  /\ pc \in [Threads -> Places]
  /\ task \in [Threads -> Tasks]
  /\ within \subseteq Threads
  /\ mine \in [Threads -> Pids \cup {NoProc}]
  /\ faults \in 0 .. FaultBound /\ asked \in 0 .. AskBound
  /\ closed \in BOOLEAN /\ raced \in BOOLEAN /\ lost \in BOOLEAN

Init ==
  /\ server = NoProc /\ conn = NoProc /\ restarts = 0
  /\ starting = FALSE /\ shutdown = FALSE /\ cooling = FALSE
  /\ proc = [p \in Pids |-> "dead"]
  /\ pc = [t \in Threads |-> "idle"]
  /\ task = [t \in Threads |-> "none"]
  /\ within = {}
  /\ mine = [t \in Threads |-> NoProc]
  /\ faults = 0 /\ asked = 0
  /\ closed = FALSE /\ raced = FALSE /\ lost = FALSE

-----------------------------------------------------------------------------
Alive(p) == proc[p] # "dead"

\* The processes that a table or a thread refers to.
Known == ({server, conn} \cup {mine[t] : t \in Threads}) \ {NoProc}

\* A thread moves on, holding a process or none; at "idle" its call is over.
Go(t, place, held) ==
  /\ pc' = [pc EXCEPT ![t] = place]
  /\ mine' = [mine EXCEPT ![t] = held]
  /\ task' = IF place = "idle" THEN [task EXCEPT ![t] = "none"] ELSE task

\* What follows a failed or finished call: the monitor goes on with its pass.
AfterTask(t) == IF task[t] = "check" THEN "reconcile" ELSE "idle"

\* start_server returns; _restart_server goes on to count a success.
AfterStart(t, ok) ==
  IF task[t] \in {"check", "call"} /\ ok THEN "count" ELSE AfterTask(t)

\* The pass of the monitor that asked for the start sets or drops the back-off.
CoolingAfterStart(t, ok) == IF task[t] = "reconcile" THEN ~ok ELSE cooling

AfterStop(t) == IF task[t] = "restart" THEN "start"
                ELSE IF task[t] \in {"check", "call"} THEN "backoff"
                ELSE "idle"

\* stop_all returns with its last stop_server.
ClosedAfterStop(t) == closed \/ task[t] = "close"

\* Mutated forms: the running server is not looked at; the claim survives.
StartVerdictBlind == IF shutdown THEN "refuse" ELSE IF starting THEN "refuse" ELSE "go"
ClaimKept(t) == starting

\* The checks at the top of start_server.
StartVerdict == IF shutdown THEN "refuse"
                ELSE IF server # NoProc THEN "running"
                ELSE IF starting THEN "refuse" ELSE "go"

\* The finally clause of start_server discards the claim, whoever made it.
ClaimAfterExit(t) == FALSE

-----------------------------------------------------------------------------
\* start_server up to the claim: the checks take no lock, and what lies
\* between them and the claim (environment, output) lets others run.
CheckStart(t) ==
  /\ pc[t] = "start"
  /\ IF StartVerdict = "go"
     THEN Go(t, "mark", NoProc) /\ UNCHANGED cooling
     ELSE /\ Go(t, AfterStart(t, StartVerdict = "running"), NoProc)
          /\ cooling' = CoolingAfterStart(t, StartVerdict = "running")
  /\ UNCHANGED <<server, conn, starting, shutdown, proc, restarts, within,
                 faults, asked, closed, history>>

MarkStarting(t) ==
  /\ pc[t] = "mark"
  /\ starting' = TRUE
  /\ within' = within \cup {t}
  /\ raced' = (raced \/ \E u \in Threads \ {t} : pc[u] \in {"mark", "spawn"})
  /\ Go(t, "spawn", NoProc)
  /\ UNCHANGED <<server, conn, cooling, shutdown, proc, restarts, faults,
                 asked, closed, lost>>

\* Leaving the try block of start_server.
ExitStart(t, ok) ==
  /\ within' = within \ {t}
  /\ starting' = ClaimAfterExit(t)
  /\ cooling' = CoolingAfterStart(t, ok)
  /\ Go(t, AfterStart(t, ok), NoProc)

\* Popen, and the new record and connection, whatever was there.
Spawn(t) ==
  /\ pc[t] = "spawn"
  /\ Pids \ Known # {}
  /\ \E s \in {"up", "hung"} :
     LET p == CHOOSE q \in Pids : q \notin Known
     IN  /\ s = "hung" => faults < FaultBound
         /\ faults' = IF s = "hung" THEN faults + 1 ELSE faults
         /\ proc' = [proc EXCEPT ![p] = s]
         /\ server' = p
         /\ conn' = p
  /\ restarts' = 0
  /\ lost' = (lost \/ (server # NoProc /\ Alive(server)))
  /\ Go(t, "init", NoProc)
  /\ UNCHANGED <<starting, cooling, shutdown, within, asked, closed, raced>>

\* Popen raises: the handler cleans up what the name stands for by then.
SpawnFails(t) ==
  /\ pc[t] = "spawn"
  /\ faults < FaultBound
  /\ faults' = faults + 1
  /\ IF server = NoProc
     THEN ExitStart(t, FALSE)
     ELSE Go(t, "clean", NoProc) /\ UNCHANGED <<within, starting, cooling>>
  /\ UNCHANGED <<server, conn, shutdown, proc, restarts, asked, closed, history>>

\* The handshake and the grace period are over, or shutdown cut them short.
Warmed(t) ==
  /\ pc[t] = "init"
  /\ Go(t, IF shutdown THEN "clean" ELSE "health", NoProc)
  /\ UNCHANGED <<tables, shutdown, proc, within, faults, asked,
                 closed, history>>

\* _health_check up to the ping.  A start polls it until its deadline; as no
\* process of the model recovers, the first answer is the last one.
BeginHealthCheck(t) ==
  /\ pc[t] = "health"
  /\ IF server = NoProc \/ conn = NoProc \/ ~Alive(server)
     THEN Go(t, IF t \in within THEN "clean" ELSE "restart", NoProc)
     ELSE Go(t, "pinging", conn)
  /\ UNCHANGED <<tables, shutdown, proc, within, faults, asked,
                 closed, history>>

\* A request to a process has an end: its answer, its timeout, or the death of
\* the process.  Not so if the process is stuck: the write has no timeout, nor
\* has the _io_lock that whoever writes holds.
Returns(p) == proc[p] # "stuck"

\* The ping, and the listing of tools after a ping without answer.
EndHealthCheck(t) ==
  /\ pc[t] = "pinging" /\ Returns(mine[t])
  /\ \/ /\ proc[mine[t]] = "up" /\ t \in within
        /\ ExitStart(t, TRUE)
     \/ /\ proc[mine[t]] = "up" /\ t \notin within
        /\ Go(t, "reconcile", NoProc)
        /\ UNCHANGED <<within, starting, cooling>>
     \/ /\ proc[mine[t]] # "up"
        /\ Go(t, IF t \in within THEN "clean" ELSE "restart", NoProc)
        /\ UNCHANGED <<within, starting, cooling>>
  /\ UNCHANGED <<server, conn, shutdown, proc, restarts, faults, asked,
                 closed, history>>

-----------------------------------------------------------------------------
\* stop_server up to the wait: SIGTERM to the process the name stands for.
BeginStop(t) ==
  /\ pc[t] = "stop"
  /\ IF server = NoProc
     THEN Go(t, AfterStop(t), NoProc) /\ closed' = ClosedAfterStop(t)
     ELSE Go(t, "stopping", server) /\ UNCHANGED closed
  /\ UNCHANGED <<tables, shutdown, proc, within, faults, asked, history>>

\* It exited, or was killed after the timeout.
Stopped(t) ==
  /\ pc[t] = "stopping"
  /\ proc' = [proc EXCEPT ![mine[t]] = "dead"]
  /\ Go(t, "clean", NoProc)
  /\ UNCHANGED <<tables, shutdown, within, faults, asked, closed, history>>

\* Where _cleanup_server returns to.
AfterClean(t) ==
  IF t \in within
  THEN ExitStart(t, FALSE) /\ UNCHANGED closed
  ELSE /\ Go(t, AfterStop(t), NoProc)
       /\ closed' = ClosedAfterStop(t)
       /\ UNCHANGED <<within, starting, cooling>>

\* _cleanup_server looks the process up again, by name.
BeginClean(t) ==
  /\ pc[t] = "clean"
  /\ IF server = NoProc
     THEN conn' = NoProc /\ AfterClean(t) /\ UNCHANGED raced
     ELSE /\ Go(t, "cleaning", server)
          /\ raced' = (raced \/ \E u \in Threads \ {t} : pc[u] = "cleaning")
          /\ UNCHANGED <<conn, within, starting, cooling, closed>>
  /\ UNCHANGED <<server, shutdown, proc, restarts, faults, asked, lost>>

\* Mutated form: the process is taken for stopped without being waited for.
CleanedUpUnwaited(t) == [proc EXCEPT ![mine[t]] = "stopping"]

\* The process a clean-up found under the name is terminated and waited for.
CleanedUp(t) == [proc EXCEPT ![mine[t]] = "dead"]

\* The entries go, whichever process they stand for by now; without one the
\* del raises KeyError, which both callers catch.
EndClean(t) ==
  /\ pc[t] = "cleaning"
  /\ proc' = CleanedUp(t)
  /\ conn' = IF server = NoProc THEN conn ELSE NoProc
  /\ server' = NoProc
  /\ restarts' = 0
  /\ lost' = (lost \/ (server # NoProc /\ proc'[server] # "dead"))
  /\ AfterClean(t)
  /\ UNCHANGED <<shutdown, faults, asked, raced>>

-----------------------------------------------------------------------------
\* _restart_server up to stop_server.
Restart(t) ==
  /\ pc[t] = "restart"
  /\ IF server = NoProc \/ restarts >= MaxRestarts
     THEN Go(t, AfterTask(t), NoProc)
     ELSE Go(t, "stop", NoProc)
  /\ UNCHANGED <<tables, shutdown, proc, within, faults, asked,
                 closed, history>>

\* time.sleep(restart_backoff)
BackOff(t) ==
  /\ pc[t] = "backoff"
  /\ Go(t, "start", NoProc)
  /\ UNCHANGED <<tables, shutdown, proc, within, faults, asked,
                 closed, history>>

\* restart_count of the record now under the name; without one a KeyError
\* ends the monitor's pass or the call.
CountRestart(t) ==
  /\ pc[t] = "count"
  /\ IF server = NoProc
     THEN Go(t, "idle", NoProc) /\ UNCHANGED restarts
     ELSE /\ restarts' = restarts + 1
          /\ Go(t, AfterTask(t), NoProc)
  /\ UNCHANGED <<server, conn, starting, cooling, shutdown, proc, within,
                 faults, asked, closed, history>>

\* call_tool up to the request.
Call(t) ==
  /\ pc[t] = "call"
  /\ Go(t, IF conn = NoProc THEN "idle" ELSE "calling", conn)
  /\ UNCHANGED <<tables, shutdown, proc, within, faults, asked,
                 closed, history>>

\* A request to a dead process fails at once and the process is restarted;
\* every other outcome leaves the tables alone.
EndCall(t) ==
  /\ pc[t] = "calling" /\ Returns(mine[t])
  /\ Go(t, IF Alive(mine[t]) THEN "idle" ELSE "broken", NoProc)
  /\ UNCHANGED <<tables, shutdown, proc, within, faults, asked,
                 closed, history>>

CallBroken(t) ==
  /\ pc[t] = "broken"
  /\ Go(t, IF ~shutdown /\ server # NoProc /\ ~Alive(server)
           THEN "restart" ELSE "idle", NoProc)
  /\ UNCHANGED <<tables, shutdown, proc, within, faults, asked,
                 closed, history>>

\* Mutated form: the flag is raised by nobody.
ShutdownIgnored == shutdown

ShutdownFlag == TRUE

\* request_shutdown, and the flag that stop_all sets again.
RequestShutdown(t) ==
  /\ pc[t] = "shutdown"
  /\ shutdown' = ShutdownFlag
  /\ Go(t, "list", NoProc)
  /\ UNCHANGED <<tables, proc, within, faults, asked, closed, history>>

\* stop_all lists the servers, then stops those it listed.
ListServers(t) ==
  /\ pc[t] = "list"
  /\ IF server = NoProc
     THEN Go(t, "idle", NoProc) /\ closed' = TRUE
     ELSE Go(t, "stop", NoProc) /\ UNCHANGED closed
  /\ UNCHANGED <<tables, shutdown, proc, within, faults, asked, history>>

-----------------------------------------------------------------------------
\* A pass of _run_health_checks lists the servers and looks at this one.
BeginPass ==
  /\ pc[Monitor] = "idle"
  /\ ~shutdown
  /\ pc' = [pc EXCEPT ![Monitor] =
              IF server # NoProc /\ ~starting THEN "health" ELSE "reconcile"]
  /\ task' = [task EXCEPT ![Monitor] = "check"]
  /\ UNCHANGED <<tables, shutdown, proc, within, mine, faults, asked,
                 closed, history>>

\* Mutated form: a server that is missing stays missing.
ReconcileNever ==
  /\ pc[Monitor] = "reconcile"
  /\ Go(Monitor, "idle", NoProc)
  /\ UNCHANGED <<tables, shutdown, proc, within, faults, asked, closed, history>>

\* The second half of the pass starts a configured server that is missing.
Reconcile ==
  /\ pc[Monitor] = "reconcile"
  /\ IF server = NoProc /\ ~starting /\ ~shutdown /\ ~cooling
     THEN /\ pc' = [pc EXCEPT ![Monitor] = "start"]
          /\ task' = [task EXCEPT ![Monitor] = "reconcile"]
          /\ UNCHANGED mine
     ELSE Go(Monitor, "idle", NoProc)
  /\ UNCHANGED <<tables, shutdown, proc, within, faults, asked,
                 closed, history>>

\* The back-off of a failed start runs out.
Elapse ==
  /\ cooling
  /\ cooling' = FALSE
  /\ UNCHANGED <<server, conn, starting, shutdown, proc, restarts, threads,
                 faults, asked, closed, history>>

\* start_all and _start_server_with_timeout stop waiting for a start.
StartTimesOut(t) ==
  /\ t \in within /\ task[t] = "start"
  /\ ~cooling
  /\ cooling' = TRUE
  /\ UNCHANGED <<server, conn, starting, shutdown, proc, restarts, threads,
                 faults, asked, closed, history>>

Entry == [start |-> "start", stop |-> "stop", restart |-> "stop",
          call |-> "call", close |-> "shutdown"]

\* An HTTP handler, start_all, a tool call, or VERA's own stop.
Ask(t, op) ==
  /\ pc[t] = "idle" /\ asked < AskBound
  /\ op = "restart" => ~shutdown
  /\ op = "close" => ~shutdown
  /\ asked' = asked + 1
  /\ pc' = [pc EXCEPT ![t] = Entry[op]]
  /\ task' = [task EXCEPT ![t] = op]
  /\ UNCHANGED <<tables, shutdown, proc, within, mine, faults,
                 closed, history>>

\* A process dies, stops answering, or leaves its input to fill up.
Fault(p) ==
  /\ faults < FaultBound
  /\ faults' = faults + 1
  /\ \/ Alive(p) /\ proc' = [proc EXCEPT ![p] = "dead"]
     \/ proc[p] = "up" /\ proc' = [proc EXCEPT ![p] = "hung"]
     \/ proc[p] \in {"up", "hung"} /\ proc' = [proc EXCEPT ![p] = "stuck"]
  /\ UNCHANGED <<tables, shutdown, threads, asked, closed, history>>

Step(t) ==
  \/ CheckStart(t) \/ MarkStarting(t) \/ Spawn(t) \/ SpawnFails(t) \/ Warmed(t)
  \/ BeginHealthCheck(t) \/ EndHealthCheck(t)
  \/ BeginStop(t) \/ Stopped(t) \/ BeginClean(t) \/ EndClean(t)
  \/ Restart(t) \/ BackOff(t) \/ CountRestart(t)
  \/ Call(t) \/ EndCall(t) \/ CallBroken(t)
  \/ RequestShutdown(t) \/ ListServers(t)

Next ==
  \/ \E t \in Threads : Step(t) \/ StartTimesOut(t)
  \/ \E t \in Users, op \in DOMAIN Entry : Ask(t, op)
  \/ BeginPass \/ Reconcile \/ Elapse
  \/ \E p \in Known : Fault(p)

Spec == Init /\ [][Next]_vars

\* Threads run on unless they write to a stuck process, the monitor keeps
\* passing, and a back-off ends.  Nothing is assumed of the users or of the
\* faults.
Fairness ==
  /\ \A t \in Threads : WF_vars(Step(t))
  /\ WF_vars(BeginPass) /\ WF_vars(Reconcile) /\ WF_vars(Elapse)

FairSpec == Spec /\ Fairness

-----------------------------------------------------------------------------
AtRest == \A t \in Threads : pc[t] = "idle"

\* start_server and _cleanup_server, with failures, timeouts and restarts
\* anywhere, lose track of a running process only if two threads were at once
\* in one of their unlocked windows: between the check and the new record, or
\* between looking a process up and deleting its entry.
LosingNeedsARace == lost => raced

\* The claim that keeps a second start out (_starting_servers) never outlives
\* the start that made it, however that start ends.
ClaimHasAnOwner == starting => within # {}

\* Once stop_all has returned and the calls that were under way are over, no
\* server is left in the tables: a start that overlaps stop_all undoes itself.
DownOnceClosed == closed /\ AtRest => server = NoProc /\ ~starting

\* Unless VERA is shut down, the monitor in the end brings the server up for
\* good, whatever died, hung, failed to start or was stopped, or gives it up:
\* a broken process stays in the table with as many restarts as are allowed.
\* The exception is a health check that never returns: if the monitor's, there
\* are no more passes, for any server; if a start's, its claim stays.
Serving == server # NoProc /\ conn = server /\ proc[server] = "up"
GivenUp == server # NoProc /\ proc[server] # "up" /\ restarts >= MaxRestarts
CheckStuck == \E t \in Threads : pc[t] = "pinging" /\ ~Returns(mine[t])
Heals == <>[](shutdown \/ Serving \/ GivenUp \/ CheckStuck)
=============================================================================

--------------------------- MODULE McpServersProofs ---------------------------
(***************************************************************************)
(* Proofs about the processes of an MCP server, for any number of threads, *)
(* any number of faults and any limit of restarts.                         *)
(***************************************************************************)
EXTENDS McpServers, TLAPS

Procs == Pids \cup {NoProc}

\* As long as no two threads were in one unlocked window, a start is alone
\* from its claim to its end, makes its record where there is none, and a
\* clean-up deletes the entry of the process it looked up.
Alone ==
  /\ ~lost
  /\ \A t, u \in within : t = u
  /\ within # {} => starting
  /\ \A t \in Threads : pc[t] = "mark" => within = {} /\ server = NoProc
  /\ \A t \in Threads : pc[t] = "spawn" => t \in within /\ server = NoProc
  /\ \A t, u \in Threads : pc[t] = "cleaning" /\ pc[u] = "cleaning" => t = u
  /\ \A t \in Threads : pc[t] = "cleaning" => server = mine[t] /\ server # NoProc

ServersInv == TypeOK /\ ClaimHasAnOwner /\ (~raced => Alone)

LEMMA InitServersInv == Init => ServersInv
<1> SUFFICES ASSUME Init PROVE ServersInv
  OBVIOUS
<1>1. TypeOK
  <2>1. 0 \in 0 .. FaultBound /\ 0 \in 0 .. AskBound
    BY ServersAssumption DEF ServersAssumption
  <2>2. /\ pc \in [Threads -> Places]
        /\ task \in [Threads -> Tasks]
        /\ mine \in [Threads -> Pids \cup {NoProc}]
    BY DEF Init, Places, Tasks
  <2> QED
    BY <2>1, <2>2 DEF Init, TypeOK
<1>2. ClaimHasAnOwner
  BY DEF Init, ClaimHasAnOwner
<1>3. Alone
  <2>1. \A t \in Threads : pc[t] = "idle"
    BY DEF Init
  <2> QED
    BY <2>1 DEF Init, Alone
<1> QED
  BY <1>1, <1>2, <1>3 DEF ServersInv

-----------------------------------------------------------------------------
(* Types                                                                   *)

ThreadsType ==
  /\ pc \in [Threads -> Places]
  /\ task \in [Threads -> Tasks]
  /\ mine \in [Threads -> Procs]

LEMMA GoType ==
  ASSUME TypeOK, NEW t \in Threads, NEW place \in Places, NEW held \in Procs,
         Go(t, place, held)
  PROVE  ThreadsType'
<1>1. /\ pc' = [pc EXCEPT ![t] = place]
      /\ mine' = [mine EXCEPT ![t] = held]
      /\ \/ task' = [task EXCEPT ![t] = "none"]
         \/ task' = task
  BY DEF Go
<1> QED
  BY <1>1 DEF TypeOK, ThreadsType, Tasks, Procs

LEMMA PlaceType ==
  ASSUME NEW t
  PROVE  /\ AfterTask(t) \in Places
         /\ \A ok \in BOOLEAN : AfterStart(t, ok) \in {"count", "idle", "reconcile"}
         /\ AfterStop(t) \in {"start", "backoff", "idle"}
         /\ {"count", "idle", "reconcile", "start", "backoff"} \subseteq Places
  BY DEF AfterTask, AfterStart, AfterStop, Places

LEMMA CoolingType ==
  ASSUME TypeOK, NEW t \in Threads, NEW ok \in BOOLEAN
  PROVE  CoolingAfterStart(t, ok) \in BOOLEAN
<1>1. CASE task[t] = "reconcile"
  BY <1>1 DEF CoolingAfterStart
<1>2. CASE task[t] # "reconcile"
  BY <1>2 DEF CoolingAfterStart, TypeOK
<1> QED
  BY <1>1, <1>2

LEMMA ExitType ==
  ASSUME TypeOK, NEW t \in Threads, NEW ok \in BOOLEAN, ExitStart(t, ok)
  PROVE  /\ within' \subseteq Threads /\ starting' = FALSE
         /\ cooling' \in BOOLEAN /\ ThreadsType'
<1>1. /\ within' = within \ {t} /\ starting' = FALSE
      /\ cooling' = CoolingAfterStart(t, ok)
      /\ Go(t, AfterStart(t, ok), NoProc)
  BY DEF ExitStart, ClaimAfterExit
<1>2. AfterStart(t, ok) \in Places /\ NoProc \in Procs
  BY PlaceType DEF Procs
<1> QED
  BY <1>1, <1>2, CoolingType, GoType DEF TypeOK

LEMMA ClosedType ==
  ASSUME TypeOK, NEW t
  PROVE  ClosedAfterStop(t) \in BOOLEAN
  BY DEF ClosedAfterStop, TypeOK

LEMMA CleanType ==
  ASSUME TypeOK, NEW t \in Threads, AfterClean(t)
  PROVE  /\ within' \subseteq Threads /\ starting' \in BOOLEAN
         /\ cooling' \in BOOLEAN /\ closed' \in BOOLEAN /\ ThreadsType'
<1>1. CASE t \in within
  BY <1>1, ExitType DEF AfterClean, TypeOK
<1>2. CASE t \notin within
  <2>1. /\ Go(t, AfterStop(t), NoProc) /\ closed' = ClosedAfterStop(t)
        /\ UNCHANGED <<within, starting, cooling>>
    BY <1>2 DEF AfterClean
  <2>2. AfterStop(t) \in Places /\ NoProc \in Procs
    BY PlaceType DEF Procs
  <2> QED
    BY <2>1, <2>2, GoType, ClosedType DEF TypeOK
<1> QED
  BY <1>1, <1>2

LEMMA MoveType ==
  ASSUME TypeOK, NEW t \in Threads, NEW place \in Places, NEW held \in Procs,
         Go(t, place, held), shutdown' \in BOOLEAN, closed' \in BOOLEAN,
         restarts' \in Nat, cooling' \in BOOLEAN,
         UNCHANGED <<server, conn, starting, proc, within, faults, asked,
                     raced, lost>>
  PROVE  TypeOK'
  BY GoType DEF TypeOK, ThreadsType, Procs

LEMMA MoverType ==
  ASSUME TypeOK, NEW t \in Threads,
         \/ CheckStart(t) \/ Warmed(t) \/ BeginHealthCheck(t) \/ BeginStop(t)
         \/ Restart(t) \/ BackOff(t) \/ CountRestart(t) \/ Call(t)
         \/ EndCall(t) \/ CallBroken(t) \/ RequestShutdown(t) \/ ListServers(t)
  PROVE  TypeOK'
<1> DEFINE Keeps == UNCHANGED <<server, conn, starting, proc, within, faults,
                                asked, raced, lost>>
<1>0. /\ {"mark", "clean", "health", "restart", "pinging", "stopping", "stop",
          "start", "calling", "broken", "list", "idle"} \subseteq Places
      /\ {NoProc, conn, server} \subseteq Procs
      /\ {shutdown, closed, cooling} \subseteq BOOLEAN
      /\ restarts \in Nat /\ restarts + 1 \in Nat
  BY DEF Places, Procs, TypeOK
<1>1. CASE CheckStart(t)
  <2>1. Keeps /\ UNCHANGED <<shutdown, restarts, closed>>
    BY <1>1 DEF CheckStart, history
  <2>2. CASE StartVerdict = "go"
    BY <1>0, <1>1, <2>1, <2>2, MoveType DEF CheckStart
  <2>3. CASE StartVerdict # "go"
    <3> DEFINE ok == StartVerdict = "running"
    <3>1. ok \in BOOLEAN /\ Go(t, AfterStart(t, ok), NoProc)
          /\ cooling' = CoolingAfterStart(t, ok)
      BY <1>1, <2>3 DEF CheckStart
    <3> HIDE DEF ok
    <3>2. AfterStart(t, ok) \in Places /\ cooling' \in BOOLEAN
      BY <3>1, PlaceType, CoolingType
    <3> QED
      BY <1>0, <2>1, <3>1, <3>2, MoveType
  <2> QED
    BY <2>2, <2>3
<1>2. CASE Warmed(t)
  BY <1>0, <1>2, MoveType DEF Warmed, tables, history
<1>3. CASE BeginHealthCheck(t)
  BY <1>0, <1>3, MoveType DEF BeginHealthCheck, tables, history
<1>4. CASE BeginStop(t)
  BY <1>0, <1>4, MoveType, PlaceType, ClosedType
     DEF BeginStop, tables, history
<1>5. CASE Restart(t)
  BY <1>0, <1>5, MoveType, PlaceType DEF Restart, tables, history
<1>6. CASE BackOff(t)
  BY <1>0, <1>6, MoveType DEF BackOff, tables, history
<1>7. CASE CountRestart(t)
  BY <1>0, <1>7, MoveType, PlaceType DEF CountRestart, history
<1>8. CASE Call(t)
  BY <1>0, <1>8, MoveType DEF Call, tables, history
<1>9. CASE CallBroken(t)
  BY <1>0, <1>9, MoveType DEF CallBroken, tables, history
<1>10. CASE RequestShutdown(t)
  BY <1>0, <1>10, MoveType DEF RequestShutdown, ShutdownFlag, tables, history
<1>11. CASE ListServers(t)
  BY <1>0, <1>11, MoveType DEF ListServers, tables, history
<1>12. CASE EndCall(t)
  BY <1>0, <1>12, MoveType DEF EndCall, tables, history
<1> QED
  BY <1>1, <1>2, <1>3, <1>4, <1>5, <1>6, <1>7, <1>8, <1>9, <1>10, <1>11, <1>12

LEMMA StarterType ==
  ASSUME TypeOK, NEW t \in Threads,
         MarkStarting(t) \/ Spawn(t) \/ SpawnFails(t) \/ EndHealthCheck(t)
  PROVE  TypeOK'
<1>0. /\ {"spawn", "init", "clean", "restart", "reconcile"} \subseteq Places
      /\ NoProc \in Procs /\ FaultBound \in Nat /\ faults \in Nat
  BY ServersAssumption DEF Places, Procs, ServersAssumption, TypeOK
<1>1. CASE MarkStarting(t)
  <2>1. ThreadsType'
    BY <1>0, <1>1, GoType DEF MarkStarting
  <2>2. raced' \in BOOLEAN /\ starting' = TRUE
    BY <1>1 DEF MarkStarting
  <2> QED
    BY <1>1, <2>1, <2>2 DEF MarkStarting, TypeOK, ThreadsType, Procs
<1>2. CASE Spawn(t)
  <2>1. PICK s \in {"up", "hung"}, p \in Pids :
          /\ s = "hung" => faults < FaultBound
          /\ faults' = IF s = "hung" THEN faults + 1 ELSE faults
          /\ proc' = [proc EXCEPT ![p] = s]
          /\ server' = p /\ conn' = p
    BY <1>2 DEF Spawn
  <2>2. ThreadsType'
    BY <1>0, <1>2, GoType DEF Spawn
  <2>3. faults' \in 0 .. FaultBound
    BY <1>0, <2>1 DEF TypeOK
  <2>4. lost' \in BOOLEAN /\ restarts' = 0
    BY <1>2 DEF Spawn
  <2>5. proc' \in [Pids -> {"up", "hung", "stuck", "dead"}]
    BY <2>1 DEF TypeOK
  <2> QED
    BY <1>2, <2>1, <2>2, <2>3, <2>4, <2>5 DEF Spawn, TypeOK, ThreadsType, Procs
<1>3. CASE SpawnFails(t)
  <2>1. /\ ThreadsType' /\ within' \subseteq Threads
        /\ starting' \in BOOLEAN /\ cooling' \in BOOLEAN
    BY <1>0, <1>3, GoType, ExitType DEF SpawnFails, TypeOK
  <2>2. faults' \in 0 .. FaultBound
    BY <1>0, <1>3 DEF SpawnFails, TypeOK
  <2> QED
    BY <1>3, <2>1, <2>2 DEF SpawnFails, history, TypeOK, ThreadsType, Procs
<1>4. CASE EndHealthCheck(t)
  <2>1. /\ ThreadsType' /\ within' \subseteq Threads
        /\ starting' \in BOOLEAN /\ cooling' \in BOOLEAN
    BY <1>0, <1>4, GoType, ExitType DEF EndHealthCheck, TypeOK
  <2> QED
    BY <1>4, <2>1 DEF EndHealthCheck, history, TypeOK, ThreadsType, Procs
<1> QED
  BY <1>1, <1>2, <1>3, <1>4

LEMMA StopperType ==
  ASSUME TypeOK, NEW t \in Threads, Stopped(t) \/ BeginClean(t) \/ EndClean(t)
  PROVE  TypeOK'
<1>0. /\ {"clean", "cleaning"} \subseteq Places
      /\ NoProc \in Procs /\ server \in Procs
  BY DEF Places, Procs, TypeOK
<1>1. CASE Stopped(t)
  <2>1. ThreadsType' /\ proc' \in [Pids -> {"up", "hung", "stuck", "dead"}]
    BY <1>0, <1>1, GoType DEF Stopped, TypeOK
  <2> QED
    BY <1>1, <2>1 DEF Stopped, tables, history, TypeOK, ThreadsType, Procs
<1>2. CASE BeginClean(t)
  <2>1. CASE server = NoProc
    <3>1. /\ conn' = NoProc /\ AfterClean(t)
          /\ UNCHANGED <<raced, server, shutdown, proc, restarts, faults,
                         asked, lost>>
      BY <1>2, <2>1 DEF BeginClean
    <3> QED
      BY <3>1, CleanType DEF TypeOK, ThreadsType, Procs
  <2>2. CASE server # NoProc
    <3>1. /\ Go(t, "cleaning", server) /\ raced' \in BOOLEAN
          /\ UNCHANGED <<conn, within, starting, cooling, closed, server,
                         shutdown, proc, restarts, faults, asked, lost>>
      BY <1>2, <2>2 DEF BeginClean
    <3> QED
      BY <1>0, <3>1, GoType DEF TypeOK, ThreadsType, Procs
  <2> QED
    BY <2>1, <2>2
<1>3. CASE EndClean(t)
  <2>1. /\ proc' \in [Pids -> {"up", "hung", "stuck", "dead"}]
        /\ conn' \in Procs /\ server' = NoProc /\ restarts' = 0
        /\ lost' \in BOOLEAN
    BY <1>3 DEF EndClean, CleanedUp, TypeOK, Procs
  <2> QED
    BY <1>3, <2>1, CleanType DEF EndClean, TypeOK, ThreadsType, Procs
<1> QED
  BY <1>1, <1>2, <1>3

LEMMA OtherType ==
  ASSUME TypeOK,
         \/ \E t \in Threads : StartTimesOut(t)
         \/ \E t \in Users, op \in DOMAIN Entry : Ask(t, op)
         \/ BeginPass \/ Reconcile \/ Elapse
         \/ \E p \in Known : Fault(p)
         \/ UNCHANGED vars
  PROVE  TypeOK'
<1>0. /\ Monitor \in Threads /\ Users \subseteq Threads /\ Known \subseteq Procs
      /\ FaultBound \in Nat /\ AskBound \in Nat
      /\ {"idle", "health", "reconcile", "start"} \subseteq Places
      /\ {"check", "reconcile"} \subseteq Tasks /\ NoProc \in Procs
  BY ServersAssumption
     DEF ServersAssumption, Threads, Known, Procs, Places, Tasks, TypeOK
<1>1. ASSUME NEW t \in Threads, StartTimesOut(t) PROVE TypeOK'
  BY <1>1 DEF StartTimesOut, threads, history, TypeOK
<1>2. ASSUME NEW t \in Users, NEW op \in DOMAIN Entry, Ask(t, op)
      PROVE  TypeOK'
  <2>1. op \in Tasks /\ Entry[op] \in Places
    BY DEF Entry, Tasks, Places
  <2>2. asked' \in 0 .. AskBound
    BY <1>0, <1>2 DEF Ask, TypeOK
  <2>3. pc' \in [Threads -> Places] /\ task' \in [Threads -> Tasks]
    BY <1>0, <1>2, <2>1 DEF Ask, TypeOK
  <2> QED
    BY <1>2, <2>2, <2>3 DEF Ask, tables, history, TypeOK
<1>3. CASE BeginPass
  <2>1. pc' \in [Threads -> Places] /\ task' \in [Threads -> Tasks]
    BY <1>0, <1>3 DEF BeginPass, TypeOK
  <2> QED
    BY <1>3, <2>1 DEF BeginPass, tables, history, TypeOK
<1>4. CASE Reconcile
  <2>1. ThreadsType'
    BY <1>0, <1>4, GoType DEF Reconcile, TypeOK, ThreadsType, Procs
  <2> QED
    BY <1>4, <2>1 DEF Reconcile, tables, history, TypeOK, ThreadsType, Procs
<1>5. CASE Elapse
  BY <1>5 DEF Elapse, threads, history, TypeOK
<1>6. ASSUME NEW p \in Known, Fault(p) PROVE TypeOK'
  <2>1. faults' \in 0 .. FaultBound
    BY <1>0, <1>6 DEF Fault, TypeOK
  <2>2. proc' \in [Pids -> {"up", "hung", "stuck", "dead"}]
    BY <1>6 DEF Fault, TypeOK
  <2> QED
    BY <1>6, <2>1, <2>2 DEF Fault, tables, threads, history, TypeOK
<1>7. CASE UNCHANGED vars
  BY <1>7 DEF vars, tables, threads, history, TypeOK
<1> QED
  BY <1>1, <1>2, <1>3, <1>4, <1>5, <1>6, <1>7

LEMMA NextType == TypeOK /\ [Next]_vars => TypeOK'
  BY MoverType, StarterType, StopperType, OtherType DEF Next, Step

-----------------------------------------------------------------------------
(* Claims and races                                                        *)

Race == ClaimHasAnOwner /\ (~raced => Alone)
Windows == {"mark", "spawn", "cleaning"}

\* A thread moves to a place outside the windows and nothing else changes.
LEMMA QuietMove ==
  ASSUME ServersInv, NEW t \in Threads, NEW place, place \notin Windows,
         NEW held,
         pc' = [pc EXCEPT ![t] = place], mine' = [mine EXCEPT ![t] = held],
         UNCHANGED <<server, within, starting, raced, lost>>
  PROVE  Race'
<1>1. \A u \in Threads : pc'[u] \in Windows => u # t /\ pc'[u] = pc[u] /\ mine'[u] = mine[u]
  BY DEF ServersInv, TypeOK
<1> QED
  BY <1>1 DEF ServersInv, ClaimHasAnOwner, Alone, Race, Windows

\* A start leaves its try block.
LEMMA QuietExit ==
  ASSUME ServersInv, NEW t \in Threads, NEW ok \in BOOLEAN, ExitStart(t, ok),
         raced \/ t \in within,
         server' = server \/ (pc[t] = "cleaning" /\ server' = NoProc),
         raced' = raced, raced \/ lost' = lost
  PROVE  Race'
<1>1. /\ within' = within \ {t} /\ starting' = FALSE
      /\ pc' = [pc EXCEPT ![t] = AfterStart(t, ok)]
      /\ mine' = [mine EXCEPT ![t] = NoProc]
  BY DEF ExitStart, ClaimAfterExit, Go
<1>2. AfterStart(t, ok) \notin Windows
  BY PlaceType DEF Windows
<1>3. \A u \in Threads : pc'[u] \in Windows => u # t /\ pc'[u] = pc[u] /\ mine'[u] = mine[u]
  BY <1>1, <1>2 DEF ServersInv, TypeOK
<1>4. ASSUME ~raced PROVE Alone'
  <2>1. Alone /\ t \in within /\ within' = {} /\ ~lost'
    BY <1>1, <1>4 DEF ServersInv, Alone
  <2>2. \A u \in Threads : pc'[u] \in Windows => pc'[u] = "cleaning"
    BY <1>3, <2>1 DEF Alone, Windows
  <2>3. \A u \in Threads : pc'[u] = "cleaning" => server' = server
    BY <1>3, <2>1 DEF Alone, Windows
  <2> QED
    BY <1>1, <1>3, <2>1, <2>2, <2>3 DEF Alone, Windows
<1> QED
  BY <1>1, <1>4 DEF Race, ClaimHasAnOwner

LEMMA MoverRace ==
  ASSUME ServersInv, NEW t \in Threads,
         \/ Warmed(t) \/ BeginHealthCheck(t) \/ BeginStop(t) \/ Stopped(t)
         \/ Restart(t) \/ BackOff(t) \/ CountRestart(t) \/ Call(t)
         \/ EndCall(t) \/ CallBroken(t) \/ RequestShutdown(t) \/ ListServers(t)
  PROVE  Race'
<1>1. UNCHANGED <<server, within, starting, raced, lost>>
  BY DEF Warmed, BeginHealthCheck, BeginStop, Stopped, Restart, BackOff,
     CountRestart, Call, EndCall, CallBroken, RequestShutdown, ListServers, tables,
     history
<1>2. PICK place, held : Go(t, place, held) /\ place \notin Windows
  BY PlaceType
     DEF Warmed, BeginHealthCheck, BeginStop, Stopped, Restart, BackOff,
         CountRestart, Call, EndCall, CallBroken, RequestShutdown, ListServers,
         AfterTask, AfterStop, Windows
<1> QED
  BY <1>1, <1>2, QuietMove DEF Go

LEMMA CheckStartRace ==
  ASSUME ServersInv, NEW t \in Threads, CheckStart(t)
  PROVE  Race'
<1>1. UNCHANGED <<server, within, starting, raced, lost>>
  BY DEF CheckStart, history
<1>2. CASE StartVerdict = "go"
  <2>1. /\ pc' = [pc EXCEPT ![t] = "mark"]
        /\ mine' = [mine EXCEPT ![t] = NoProc]
    BY <1>2 DEF CheckStart, Go
  <2>2. server = NoProc /\ ~starting
    BY <1>2 DEF StartVerdict
  <2>3. ~raced => within = {}
    BY <2>2 DEF ServersInv, Alone
  <2>4. \A u \in Threads : u # t => pc'[u] = pc[u] /\ mine'[u] = mine[u]
    BY <2>1 DEF ServersInv, TypeOK
  <2>5. pc'[t] = "mark"
    BY <2>1 DEF ServersInv, TypeOK
  <2> QED
    BY <1>1, <2>2, <2>3, <2>4, <2>5 DEF ServersInv, ClaimHasAnOwner, Alone, Race
<1>3. CASE StartVerdict # "go"
  <2> DEFINE ok == StartVerdict = "running"
  <2>1. ok \in BOOLEAN /\ Go(t, AfterStart(t, ok), NoProc)
    BY <1>3 DEF CheckStart
  <2> HIDE DEF ok
  <2>2. AfterStart(t, ok) \notin Windows
    BY <2>1, PlaceType DEF Windows
  <2> QED
    BY <1>1, <2>1, <2>2, QuietMove DEF Go
<1> QED
  BY <1>2, <1>3

LEMMA MarkRace ==
  ASSUME ServersInv, NEW t \in Threads, MarkStarting(t)
  PROVE  Race'
<1>1. /\ pc[t] = "mark" /\ starting' = TRUE /\ within' = within \cup {t}
      /\ pc' = [pc EXCEPT ![t] = "spawn"]
      /\ mine' = [mine EXCEPT ![t] = NoProc]
      /\ UNCHANGED <<server, lost>>
  BY DEF MarkStarting, Go
<1>2. ASSUME ~raced' PROVE Alone'
  <2>1. ~raced /\ \A u \in Threads \ {t} : pc[u] \notin {"mark", "spawn"}
    BY <1>2 DEF MarkStarting
  <2>2. Alone /\ within' = {t} /\ server = NoProc
    BY <1>1, <2>1 DEF ServersInv, Alone
  <2>3. \A u \in Threads : u # t => pc'[u] = pc[u] /\ mine'[u] = mine[u]
    BY <1>1 DEF ServersInv, TypeOK
  <2>4. pc'[t] = "spawn"
    BY <1>1 DEF ServersInv, TypeOK
  <2> QED
    BY <1>1, <2>1, <2>2, <2>3, <2>4 DEF Alone
<1> QED
  BY <1>1, <1>2 DEF Race, ClaimHasAnOwner

LEMMA SpawnRace ==
  ASSUME ServersInv, NEW t \in Threads, Spawn(t)
  PROVE  Race'
<1>1. /\ pc[t] = "spawn" /\ UNCHANGED <<starting, within, raced>>
      /\ pc' = [pc EXCEPT ![t] = "init"]
      /\ mine' = [mine EXCEPT ![t] = NoProc]
      /\ lost' = (lost \/ (server # NoProc /\ Alive(server)))
  BY DEF Spawn, Go
<1>2. ASSUME ~raced PROVE Alone'
  <2>1. Alone /\ t \in within /\ server = NoProc /\ ~lost'
    BY <1>1, <1>2 DEF ServersInv, Alone
  <2>2. \A u \in Threads : pc[u] \notin {"mark", "cleaning"}
    BY <2>1 DEF Alone
  <2>3. \A u \in Threads : pc[u] = "spawn" => u = t
    BY <2>1 DEF Alone
  <2>4. \A u \in Threads : pc'[u] \notin Windows
    BY <1>1, <2>2, <2>3 DEF ServersInv, TypeOK, Windows
  <2> QED
    BY <1>1, <2>1, <2>4 DEF Alone, Windows
<1> QED
  BY <1>1, <1>2 DEF Race, ClaimHasAnOwner, ServersInv

LEMMA StarterRace ==
  ASSUME ServersInv, NEW t \in Threads, SpawnFails(t) \/ EndHealthCheck(t)
  PROVE  Race'
<1>0. UNCHANGED <<server, raced, lost>>
  BY DEF SpawnFails, EndHealthCheck, history
<1>1. CASE ExitStart(t, FALSE) /\ SpawnFails(t)
  <2>1. raced \/ t \in within
    BY <1>1 DEF SpawnFails, ServersInv, Alone
  <2> QED
    BY <1>0, <1>1, <2>1, QuietExit
<1>2. CASE ExitStart(t, TRUE) /\ t \in within
  BY <1>0, <1>2, QuietExit
<1>3. ASSUME NEW place \in {"clean", "reconcile", "restart"},
             Go(t, place, NoProc), UNCHANGED <<within, starting>>
      PROVE  Race'
  BY <1>0, <1>3, QuietMove DEF Go, Windows
<1> QED
  BY <1>1, <1>2, <1>3 DEF SpawnFails, EndHealthCheck

\* Where a clean-up returns to, with the entry as it was or deleted by it.
LEMMA AfterCleanRace ==
  ASSUME ServersInv, NEW t \in Threads, AfterClean(t),
         server' = server \/ (pc[t] = "cleaning" /\ server' = NoProc),
         raced' = raced, raced \/ lost' = lost
  PROVE  Race'
<1>1. CASE t \in within
  BY <1>1, QuietExit DEF AfterClean
<1>2. CASE t \notin within
  <2>1. /\ UNCHANGED <<within, starting>>
        /\ pc' = [pc EXCEPT ![t] = AfterStop(t)]
        /\ mine' = [mine EXCEPT ![t] = NoProc]
    BY <1>2 DEF AfterClean, Go
  <2>2. AfterStop(t) \notin Windows
    BY PlaceType DEF Windows
  <2>3. \A u \in Threads : pc'[u] \in Windows => u # t /\ pc'[u] = pc[u] /\ mine'[u] = mine[u]
    BY <2>1, <2>2 DEF ServersInv, TypeOK
  <2>4. ASSUME ~raced PROVE Alone'
    BY <2>1, <2>3, <2>4 DEF ServersInv, Alone, Windows
  <2> QED
    BY <2>1, <2>4 DEF Race, ClaimHasAnOwner, ServersInv
<1> QED
  BY <1>1, <1>2

LEMMA CleanRace ==
  ASSUME ServersInv, NEW t \in Threads, BeginClean(t) \/ EndClean(t)
  PROVE  Race'
<1>1. CASE BeginClean(t) /\ server = NoProc
  BY <1>1, AfterCleanRace DEF BeginClean
<1>2. CASE BeginClean(t) /\ server # NoProc
  <2>1. /\ pc' = [pc EXCEPT ![t] = "cleaning"]
        /\ mine' = [mine EXCEPT ![t] = server]
        /\ UNCHANGED <<server, within, starting, lost>>
        /\ raced' = (raced \/ \E u \in Threads \ {t} : pc[u] = "cleaning")
    BY <1>2 DEF BeginClean, Go
  <2>2. \A u \in Threads : u # t => pc'[u] = pc[u] /\ mine'[u] = mine[u]
    BY <2>1 DEF ServersInv, TypeOK
  <2>3. pc'[t] = "cleaning" /\ mine'[t] = server
    BY <2>1 DEF ServersInv, TypeOK
  <2>4. ASSUME ~raced' PROVE Alone'
    BY <1>2, <2>1, <2>2, <2>3, <2>4 DEF ServersInv, Alone
  <2> QED
    BY <2>1, <2>4 DEF Race, ClaimHasAnOwner, ServersInv
<1>3. CASE EndClean(t)
  <2>1. /\ pc[t] = "cleaning" /\ server' = NoProc /\ raced' = raced
        /\ proc' = [proc EXCEPT ![mine[t]] = "dead"]
        /\ lost' = (lost \/ (server # NoProc /\ proc'[server] # "dead"))
        /\ AfterClean(t)
    BY <1>3 DEF EndClean, CleanedUp
  <2>2. raced \/ lost' = lost
    <3>1. ASSUME ~raced PROVE server = mine[t] /\ server \in Pids
      BY <2>1, <3>1 DEF ServersInv, Alone, TypeOK
    <3>2. ASSUME ~raced PROVE proc'[server] = "dead"
      BY <2>1, <3>1, <3>2 DEF ServersInv, TypeOK
    <3> QED
      BY <2>1, <3>2 DEF ServersInv, TypeOK
  <2> QED
    BY <2>1, <2>2, AfterCleanRace
<1> QED
  BY <1>1, <1>2, <1>3

LEMMA OtherRace ==
  ASSUME ServersInv,
         \/ \E t \in Threads : StartTimesOut(t)
         \/ \E t \in Users, op \in DOMAIN Entry : Ask(t, op)
         \/ BeginPass \/ Reconcile \/ Elapse
         \/ \E p \in Known : Fault(p)
         \/ UNCHANGED vars
  PROVE  Race'
<1>0. UNCHANGED <<server, within, starting, raced, lost>>
  BY DEF StartTimesOut, Ask, BeginPass, Reconcile, Elapse, Fault, vars, tables,
     threads, history, Go
<1>1. CASE UNCHANGED <<pc, mine>>
  BY <1>0, <1>1 DEF ServersInv, ClaimHasAnOwner, Alone, Race
<1>2. ASSUME NEW t \in Threads, NEW place, place \notin Windows,
             pc' = [pc EXCEPT ![t] = place],
             mine' = mine \/ mine' = [mine EXCEPT ![t] = NoProc]
      PROVE  Race'
  <2>1. \E held : mine' = [mine EXCEPT ![t] = held]
    BY <1>2 DEF ServersInv, TypeOK
  <2> QED
    BY <1>0, <1>2, <2>1, QuietMove
<1>3. ASSUME NEW t \in Users, NEW op \in DOMAIN Entry, Ask(t, op)
      PROVE  Race'
  <2>1. t \in Threads /\ Entry[op] \notin Windows
    BY DEF Threads, Entry, Windows
  <2> QED
    BY <1>2, <1>3, <2>1 DEF Ask
<1>4. CASE BeginPass \/ Reconcile
  BY <1>2, <1>4 DEF BeginPass, Reconcile, Go, Threads, Windows
<1> QED
  BY <1>1, <1>3, <1>4
     DEF StartTimesOut, Elapse, Fault, vars, threads

LEMMA NextServersInv == ServersInv /\ [Next]_vars => ServersInv'
<1> SUFFICES ASSUME ServersInv, [Next]_vars PROVE ServersInv'
  OBVIOUS
<1>1. TypeOK'
  BY NextType DEF ServersInv
<1>2. Race'
  BY MoverRace, CheckStartRace, MarkRace, SpawnRace, StarterRace, CleanRace,
     OtherRace DEF Next, Step
<1> QED
  BY <1>1, <1>2 DEF ServersInv, Race

-----------------------------------------------------------------------------
(***************************************************************************)
(* stop_all against the starts that overlap it.  Once it has returned, the *)
(* flag is up, and whoever makes a record after that finds the flag before *)
(* the start is through: it undoes itself.                                 *)
(***************************************************************************)
\* Where a thread is on its way to delete the entries, and where it is inside
\* the try block of start_server.
Undo == {"init", "clean", "cleaning"}
InTry == Undo \cup {"spawn", "health", "pinging"}

DownInv ==
  /\ \A t \in Threads : task[t] = "close" => shutdown \/ pc[t] = "shutdown"
  /\ \A t \in Threads : pc[t] = "list" => shutdown
  /\ closed => shutdown
  /\ \A t \in within : pc[t] \in InTry
  /\ closed /\ server # NoProc => \E t \in Threads : pc[t] \in Undo

LEMMA InitDownInv == Init => DownInv
  BY DEF Init, DownInv

\* What a thread that moves to a place has to see to.
LEMMA MoveKeepsDown ==
  ASSUME TypeOK, DownInv, NEW t \in Threads, NEW place,
         pc' = [pc EXCEPT ![t] = place],
         \A u \in Threads : \/ task'[u] # "close"
                            \/ task'[u] = task[u]
                            \/ u = t /\ place = "shutdown",
         shutdown => shutdown', pc[t] = "shutdown" => shutdown',
         place = "list" => shutdown', closed' => shutdown',
         within' \subseteq within \cup {t},
         t \in within' => place \in InTry,
         closed' /\ server' # NoProc =>
           place \in Undo \/ (closed /\ server # NoProc /\ pc[t] \notin Undo)
  PROVE  DownInv'
<1>1. /\ pc'[t] = place
      /\ \A u \in Threads \ {t} : pc'[u] = pc[u]
  BY DEF TypeOK
<1>2. within' \subseteq Threads
  BY DEF TypeOK
<1>3. \A u \in within' : pc'[u] \in InTry
  BY <1>1, <1>2 DEF DownInv
<1>4. closed' /\ server' # NoProc => \E u \in Threads : pc'[u] \in Undo
  BY <1>1 DEF DownInv
<1>5. \A u \in Threads : task'[u] = "close" => shutdown' \/ pc'[u] = "shutdown"
  BY <1>1 DEF DownInv
<1>6. \A u \in Threads : pc'[u] = "list" => shutdown'
  BY <1>1 DEF DownInv
<1> QED
  BY <1>3, <1>4, <1>5, <1>6 DEF DownInv

\* The same for a step that goes on with its call and stops nothing.
LEMMA GoKeepsDown ==
  ASSUME TypeOK, DownInv, NEW t \in Threads, NEW place, NEW held,
         Go(t, place, held), pc[t] # "shutdown", place # "list",
         UNCHANGED <<shutdown, closed>>,
         within' \subseteq within \cup {t},
         t \in within' => place \in InTry,
         server' # NoProc /\ closed =>
           place \in Undo \/ (server # NoProc /\ pc[t] \notin Undo)
  PROVE  DownInv'
<1>1. pc' = [pc EXCEPT ![t] = place]
  BY DEF Go
<1>2. \A u \in Threads : task'[u] # "close" \/ task'[u] = task[u]
  BY DEF Go, TypeOK
<1>3. closed' => shutdown'
  BY DEF DownInv
<1> QED
  BY <1>1, <1>2, <1>3, MoveKeepsDown

\* The last stop of stop_all, when the name stands for nothing.
LEMMA CloseKeepsDown ==
  ASSUME TypeOK, DownInv, NEW t \in Threads, NEW place, NEW held,
         Go(t, place, held), pc[t] # "shutdown", place \notin {"list"},
         UNCHANGED shutdown, t \notin within', within' = within,
         server' = NoProc, closed' = ClosedAfterStop(t)
  PROVE  DownInv'
<1>1. pc' = [pc EXCEPT ![t] = place]
  BY DEF Go
<1>2. \A u \in Threads : task'[u] # "close" \/ task'[u] = task[u]
  BY DEF Go, TypeOK
<1>3. closed' => shutdown'
  BY DEF DownInv, ClosedAfterStop
<1> QED
  BY <1>1, <1>2, <1>3, MoveKeepsDown

LEMMA ExitKeepsDown ==
  ASSUME TypeOK, DownInv, NEW t \in Threads, NEW ok \in BOOLEAN,
         ExitStart(t, ok), pc[t] # "shutdown", UNCHANGED <<shutdown, closed>>,
         server' = NoProc \/ (server' = server /\ pc[t] \notin Undo)
  PROVE  DownInv'
<1>1. /\ within' = within \ {t}
      /\ Go(t, AfterStart(t, ok), NoProc)
  BY DEF ExitStart
<1>2. AfterStart(t, ok) \in {"count", "idle", "reconcile"}
  BY PlaceType
<1> QED
  BY <1>1, <1>2, GoKeepsDown

LEMMA MoverDown ==
  ASSUME TypeOK, DownInv, NEW t \in Threads,
         \/ CheckStart(t) \/ Stopped(t) \/ Restart(t) \/ BackOff(t)
         \/ CountRestart(t) \/ Call(t) \/ EndCall(t) \/ CallBroken(t)
  PROVE  DownInv'
<1>1. UNCHANGED <<server, shutdown, closed, within>>
  BY DEF CheckStart, Stopped, Restart, BackOff, CountRestart, Call, EndCall,
     CallBroken,
     tables
<1>2. pc[t] \notin InTry \cup {"shutdown"}
  BY DEF CheckStart, Stopped, Restart, BackOff, CountRestart, Call, EndCall,
     CallBroken,
     InTry, Undo
<1>3. PICK place, held : Go(t, place, held) /\ place # "list"
  <2>1. ASSUME NEW ok \in BOOLEAN, Go(t, AfterStart(t, ok), NoProc)
        PROVE  \E place, held : Go(t, place, held) /\ place # "list"
    <3>1. AfterStart(t, ok) # "list"
      BY PlaceType
    <3> QED
      BY <2>1, <3>1
  <2>2. CASE CheckStart(t)
    <3> DEFINE ok == StartVerdict = "running"
    <3>1. Go(t, "mark", NoProc) \/ Go(t, AfterStart(t, ok), NoProc)
      BY <2>2 DEF CheckStart
    <3>2. ok \in BOOLEAN
      OBVIOUS
    <3> HIDE DEF ok
    <3>3. CASE Go(t, "mark", NoProc)
      <4>1. "mark" # "list"
        OBVIOUS
      <4> QED
        BY <3>3, <4>1
    <3>4. CASE Go(t, AfterStart(t, ok), NoProc)
      BY <2>1, <3>2, <3>4
    <3> QED
      BY <3>1, <3>3, <3>4
  <2>3. CASE ~CheckStart(t)
    BY <2>3, PlaceType
       DEF Stopped, Restart, BackOff, CountRestart, Call, EndCall, CallBroken, AfterTask
  <2> QED
    BY <2>2, <2>3
<1>4. t \notin within /\ pc[t] \notin Undo
  BY <1>2 DEF DownInv, InTry
<1> QED
  BY <1>1, <1>2, <1>3, <1>4, GoKeepsDown

LEMMA StarterDown ==
  ASSUME TypeOK, DownInv, NEW t \in Threads,
         \/ MarkStarting(t) \/ Spawn(t) \/ SpawnFails(t) \/ Warmed(t)
         \/ BeginHealthCheck(t) \/ EndHealthCheck(t)
  PROVE  DownInv'
<1>1. CASE MarkStarting(t)
  <2>1. /\ Go(t, "spawn", NoProc) /\ within' = within \cup {t}
        /\ UNCHANGED <<shutdown, closed, server>> /\ pc[t] = "mark"
    BY <1>1 DEF MarkStarting
  <2> QED
    BY <2>1, GoKeepsDown DEF InTry, Undo
<1>2. CASE Spawn(t)
  <2>1. /\ Go(t, "init", NoProc) /\ UNCHANGED <<shutdown, closed, within>>
        /\ pc[t] = "spawn"
    BY <1>2 DEF Spawn
  <2> QED
    BY <2>1, GoKeepsDown DEF InTry, Undo
<1>3. CASE SpawnFails(t)
  <2>1. pc[t] = "spawn" /\ UNCHANGED <<server, shutdown, closed>>
    BY <1>3 DEF SpawnFails
  <2>2. CASE ExitStart(t, FALSE)
    BY <2>1, <2>2, ExitKeepsDown DEF Undo
  <2>3. CASE Go(t, "clean", NoProc) /\ UNCHANGED within
    BY <2>1, <2>3, GoKeepsDown DEF InTry, Undo
  <2> QED
    BY <1>3, <2>2, <2>3 DEF SpawnFails
<1>4. CASE Warmed(t)
  <2>1. pc[t] = "init" /\ UNCHANGED <<server, shutdown, closed, within>>
    BY <1>4 DEF Warmed, tables
  <2>2. CASE shutdown
    BY <1>4, <2>1, <2>2, GoKeepsDown DEF Warmed, InTry, Undo
  <2>3. CASE ~shutdown
    <3>1. ~closed
      BY <2>3 DEF DownInv
    <3> QED
      BY <1>4, <2>1, <2>3, <3>1, GoKeepsDown DEF Warmed, InTry
  <2> QED
    BY <2>2, <2>3
<1>5. CASE BeginHealthCheck(t)
  <2>1. pc[t] = "health" /\ UNCHANGED <<server, shutdown, closed, within>>
    BY <1>5 DEF BeginHealthCheck, tables
  <2>2. PICK place, held :
          /\ Go(t, place, held) /\ place # "list"
          /\ t \in within => place \in InTry
    BY <1>5 DEF BeginHealthCheck, InTry, Undo
  <2> QED
    BY <2>1, <2>2, GoKeepsDown DEF Undo
<1>6. CASE EndHealthCheck(t)
  <2>1. pc[t] = "pinging" /\ UNCHANGED <<server, shutdown, closed>>
    BY <1>6 DEF EndHealthCheck
  <2>2. CASE ExitStart(t, TRUE)
    BY <2>1, <2>2, ExitKeepsDown DEF Undo
  <2>3. CASE \E place :
               /\ Go(t, place, NoProc) /\ place # "list"
               /\ t \in within => place \in InTry
               /\ UNCHANGED within
    BY <2>1, <2>3, GoKeepsDown DEF Undo
  <2> QED
    BY <1>6, <2>2, <2>3 DEF EndHealthCheck, InTry, Undo
<1> QED
  BY <1>1, <1>2, <1>3, <1>4, <1>5, <1>6

LEMMA AfterCleanDown ==
  ASSUME TypeOK, DownInv, NEW t \in Threads, AfterClean(t),
         pc[t] # "shutdown", UNCHANGED shutdown, server' = NoProc
  PROVE  DownInv'
<1>1. CASE t \in within
  BY <1>1, ExitKeepsDown DEF AfterClean
<1>2. CASE t \notin within
  <2>1. /\ Go(t, AfterStop(t), NoProc) /\ closed' = ClosedAfterStop(t)
        /\ UNCHANGED within /\ AfterStop(t) \notin {"list"}
    BY <1>2, PlaceType DEF AfterClean
  <2> QED
    BY <1>2, <2>1, CloseKeepsDown
<1> QED
  BY <1>1, <1>2

LEMMA StopperDown ==
  ASSUME TypeOK, DownInv, NEW t \in Threads,
         \/ BeginStop(t) \/ BeginClean(t) \/ EndClean(t)
         \/ RequestShutdown(t) \/ ListServers(t)
  PROVE  DownInv'
<1>1. CASE BeginStop(t)
  <2>1. /\ pc[t] = "stop" /\ UNCHANGED <<server, shutdown, within>>
        /\ t \notin within
    BY <1>1 DEF BeginStop, tables, DownInv, InTry, Undo
  <2>2. CASE server = NoProc
    <3>1. AfterStop(t) \notin {"list"}
      BY PlaceType
    <3> QED
      BY <1>1, <2>1, <2>2, <3>1, CloseKeepsDown DEF BeginStop
  <2>3. CASE server # NoProc
    BY <1>1, <2>1, <2>3, GoKeepsDown DEF BeginStop, Undo
  <2> QED
    BY <2>2, <2>3
<1>2. CASE BeginClean(t)
  <2>1. pc[t] = "clean" /\ UNCHANGED <<server, shutdown>>
    BY <1>2 DEF BeginClean
  <2>2. CASE server = NoProc
    BY <1>2, <2>1, <2>2, AfterCleanDown DEF BeginClean
  <2>3. CASE server # NoProc
    BY <1>2, <2>1, <2>3, GoKeepsDown DEF BeginClean, InTry, Undo
  <2> QED
    BY <2>2, <2>3
<1>3. CASE EndClean(t)
  BY <1>3, AfterCleanDown DEF EndClean
<1>4. CASE RequestShutdown(t)
  <2>1. /\ pc[t] = "shutdown" /\ shutdown' = TRUE /\ t \notin within
        /\ UNCHANGED <<server, closed, within>>
        /\ pc' = [pc EXCEPT ![t] = "list"] /\ task' = task
    BY <1>4 DEF RequestShutdown, ShutdownFlag, Go, tables, DownInv, InTry, Undo
  <2> QED
    BY <2>1, MoveKeepsDown DEF Undo
<1>5. CASE ListServers(t)
  <2>1. /\ pc[t] = "list" /\ shutdown /\ t \notin within
        /\ UNCHANGED <<server, shutdown, within>>
    BY <1>5 DEF ListServers, tables, DownInv, InTry, Undo
  <2>2. \A u \in Threads : task'[u] # "close" \/ task'[u] = task[u]
    BY <1>5 DEF ListServers, Go, TypeOK
  <2>3. PICK place \in {"idle", "stop"} : pc' = [pc EXCEPT ![t] = place]
    BY <1>5 DEF ListServers, Go
  <2>4. closed' => closed \/ server = NoProc
    BY <1>5 DEF ListServers
  <2> QED
    BY <2>1, <2>2, <2>3, <2>4, MoveKeepsDown DEF Undo
<1> QED
  BY <1>1, <1>2, <1>3, <1>4, <1>5

LEMMA OtherDown ==
  ASSUME TypeOK, DownInv,
         \/ \E t \in Threads : StartTimesOut(t)
         \/ \E t \in Users, op \in DOMAIN Entry : Ask(t, op)
         \/ BeginPass \/ Reconcile \/ Elapse
         \/ \E p \in Known : Fault(p)
         \/ UNCHANGED vars
  PROVE  DownInv'
<1>0. UNCHANGED <<server, shutdown, within, closed>>
  BY DEF StartTimesOut, Ask, BeginPass, Reconcile, Elapse, Fault, vars, tables,
     threads
<1>1. CASE UNCHANGED <<pc, task>>
  BY <1>0, <1>1 DEF DownInv
<1>2. ASSUME NEW t \in Threads, pc[t] \in {"idle", "reconcile"},
             NEW place, place # "list", pc' = [pc EXCEPT ![t] = place],
             \A u \in Threads : \/ task'[u] # "close"
                                \/ task'[u] = task[u]
                                \/ u = t /\ place = "shutdown"
      PROVE  DownInv'
  <2>1. t \notin within /\ (closed => shutdown)
    BY <1>2 DEF DownInv, InTry, Undo
  <2> QED
    BY <1>0, <1>2, <2>1, MoveKeepsDown DEF Undo
<1>3. ASSUME NEW t \in Users, NEW op \in DOMAIN Entry, Ask(t, op)
      PROVE  DownInv'
  <2>1. /\ t \in Threads /\ Entry[op] # "list"
        /\ op = "close" => Entry[op] = "shutdown"
    BY DEF Threads, Entry
  <2>2. \A u \in Threads : \/ task'[u] # "close"
                           \/ task'[u] = task[u]
                           \/ u = t /\ Entry[op] = "shutdown"
    BY <1>3, <2>1 DEF Ask, TypeOK
  <2> QED
    BY <1>2, <1>3, <2>1, <2>2 DEF Ask
<1>4. CASE BeginPass \/ Reconcile
  <2>1. Monitor \in Threads /\ pc[Monitor] \in {"idle", "reconcile"}
    BY <1>4 DEF BeginPass, Reconcile, Threads
  <2>2. PICK place \in {"health", "reconcile", "start", "idle"} :
          pc' = [pc EXCEPT ![Monitor] = place]
    BY <1>4 DEF BeginPass, Reconcile, Go
  <2>3. \A u \in Threads : task'[u] # "close" \/ task'[u] = task[u]
    BY <1>4, <2>1 DEF BeginPass, Reconcile, Go, TypeOK
  <2> QED
    BY <1>2, <2>1, <2>2, <2>3
<1> QED
  BY <1>1, <1>3, <1>4 DEF StartTimesOut, Elapse, Fault, vars, threads

LEMMA NextDownInv == TypeOK /\ DownInv /\ [Next]_vars => DownInv'
  BY MoverDown, StarterDown, StopperDown, OtherDown DEF Next, Step

-----------------------------------------------------------------------------
\* Every variable keeps its type.
THEOREM TypeCorrect == Spec => []TypeOK
<1>1. ServersInv => TypeOK
  BY DEF ServersInv
<1> QED
  BY <1>1, InitServersInv, NextServersInv, PTL DEF Spec

\* A claim in _starting_servers goes with the start that made it.
THEOREM ClaimsAreOwned == Spec => []ClaimHasAnOwner
<1>1. ServersInv => ClaimHasAnOwner
  BY DEF ServersInv
<1> QED
  BY <1>1, InitServersInv, NextServersInv, PTL DEF Spec

\* Without a race in an unlocked window of start_server or _cleanup_server no
\* running process loses its entry, however many threads use the tables.
THEOREM OnlyRacesLose == Spec => []LosingNeedsARace
<1>1. ServersInv => LosingNeedsARace
  BY DEF ServersInv, LosingNeedsARace, Alone
<1> QED
  BY <1>1, InitServersInv, NextServersInv, PTL DEF Spec

\* After stop_all has returned and the operations under way have ended, the
\* tables are empty, however many threads were starting, restarting or
\* stopping the server meanwhile.
THEOREM NothingIsLeftUp == Spec => []DownOnceClosed
<1>1. Init => ServersInv /\ DownInv
  BY InitServersInv, InitDownInv
<1>2. ServersInv /\ DownInv /\ [Next]_vars => (ServersInv /\ DownInv)'
  BY NextServersInv, NextDownInv DEF ServersInv
<1>3. ServersInv /\ DownInv => DownOnceClosed
  <2> SUFFICES ASSUME ServersInv, DownInv, closed, AtRest
               PROVE  server = NoProc /\ ~starting
    BY DEF DownOnceClosed
  <2>1. \A t \in Threads : pc[t] \notin InTry
    BY DEF AtRest, InTry, Undo
  <2>2. server = NoProc
    BY <2>1 DEF DownInv, InTry
  <2>3. within = {}
    BY <2>1 DEF DownInv, ServersInv, TypeOK
  <2> QED
    BY <2>2, <2>3 DEF ServersInv, ClaimHasAnOwner
<1> QED
  BY <1>1, <1>2, <1>3, PTL DEF Spec
=============================================================================

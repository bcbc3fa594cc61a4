---------------------------- MODULE McpConnection ----------------------------
(***************************************************************************)
(* One MCPConnection (src/src/orchestration/mcp_orchestrator.py): several  *)
(* threads send JSON-RPC requests over the pipes of one server process and *)
(* wait for the answers.  call_tool, ping and list_tools all hold _io_lock *)
(* from the write to the end of the wait.                                  *)
(*                                                                         *)
(* The server answers in any order, late or never, may send requests and   *)
(* notifications of its own, may stop reading, and may die.  What it wrote *)
(* and nobody read stays in the pipe or in the parser's buffer, in order:  *)
(* both are `wire`.                                                        *)
(***************************************************************************)
EXTENDS Integers, Sequences, FiniteSets

CONSTANTS
  Callers,      \* threads that use the connection
  RequestBound, \* bound: requests sent
  NoticeBound,  \* bound: error notifications the server sends
  ClaimBound,   \* bound: requests the server sends
  Nobody,       \* the holder of a free lock
  NoRequest     \* a thread that waits for nothing; a line without an id

Requests == 1 .. RequestBound

\* Lines with an id: a response, or a request of the server, which numbers
\* its requests as it likes.  The code looks at the id alone.
Line(what, id) == [what |-> what, id |-> id]
Lines == [what : {"answer", "request"}, id : Requests]

\* Lines without an id: only one that carries an error is told apart.
Notice == Line("error", NoRequest)

ASSUME ConnectionAssumption ==
  /\ RequestBound \in Nat
  /\ NoticeBound \in Nat
  /\ ClaimBound \in Nat
  /\ Nobody \notin Callers
  /\ NoRequest \notin Nat

VARIABLES
  lock,     \* _io_lock: its holder
  lastId,   \* _request_id
  sent,     \* _pending_requests
  cache,    \* _response_cache: lines
  pc,       \* "idle", "locking", "writing" or "waiting"
  mine,     \* the request each thread writes or waits for
  got,      \* the lines each thread returned with
  todo,     \* requests the server has not answered
  wire,     \* lines on their way
  notices,  \* notices sent so far
  claimed,  \* ids that the server has used for requests of its own
  reading,  \* the server reads its stdin
  alive     \* the server process runs

client == <<lock, lastId, sent, cache, pc, mine, got>>
remote == <<todo, wire, notices, claimed, reading, alive>>
vars == <<client, remote>>

Places == {"idle", "locking", "writing", "waiting"}

TypeOK ==
  /\ lock \in Callers \cup {Nobody}
  /\ lastId \in 0 .. RequestBound
  /\ sent \subseteq Requests /\ cache \subseteq Lines
  /\ pc \in [Callers -> Places]
  /\ mine \in [Callers -> Requests \cup {NoRequest}]
  /\ got \in [Callers -> SUBSET Lines]
  /\ todo \subseteq Requests /\ claimed \subseteq Requests
  /\ wire \in Seq(Lines \cup {Notice})
  /\ notices \in 0 .. NoticeBound
  /\ reading \in BOOLEAN /\ alive \in BOOLEAN

Init ==
  /\ lock = Nobody /\ lastId = 0
  /\ sent = {} /\ cache = {}
  /\ pc = [t \in Callers |-> "idle"]
  /\ mine = [t \in Callers |-> NoRequest]
  /\ got = [t \in Callers |-> {}]
  /\ todo = {} /\ wire = <<>> /\ notices = 0 /\ claimed = {}
  /\ reading = TRUE /\ alive = TRUE

-----------------------------------------------------------------------------
\* call_tool, ping or list_tools is called.
Enter(t) ==
  /\ pc[t] = "idle" /\ lastId < RequestBound
  /\ pc' = [pc EXCEPT ![t] = "locking"]
  /\ UNCHANGED <<lock, lastId, sent, cache, mine, got, remote>>

\* The lock is taken, without a timeout, and the request gets its number.
Take(t) ==
  /\ pc[t] = "locking" /\ lock = Nobody
  /\ lastId < RequestBound
  /\ lastId' = lastId + 1
  /\ lock' = t
  /\ mine' = [mine EXCEPT ![t] = lastId']
  /\ pc' = [pc EXCEPT ![t] = "writing"]
  /\ UNCHANGED <<sent, cache, got, remote>>

\* Mutated form: the lock covers the write only.
LockFreeInWait(t) == Nobody

\* The lock stays with the thread while it waits.
LockInWait(t) == t

\* Mutated form: the lock is not released when the wait raises.
LeaveLocked(t) ==
  /\ pc' = [pc EXCEPT ![t] = "idle"]
  /\ mine' = [mine EXCEPT ![t] = NoRequest]
  /\ sent' = sent \ {mine[t]}
  /\ lock' = lock

\* The end of a call, by a return or an exception: the finally clause and the
\* end of the with statement.
Leave(t) ==
  /\ pc' = [pc EXCEPT ![t] = "idle"]
  /\ mine' = [mine EXCEPT ![t] = NoRequest]
  /\ sent' = sent \ {mine[t]}
  /\ lock' = IF lock = t THEN Nobody ELSE lock

\* write and flush return; to a dead process they raise.  To a server that does
\* not read they return if the pipe has room, and else block.
Write(t) ==
  /\ pc[t] = "writing"
  /\ IF alive
     THEN /\ lock' = LockInWait(t)
          /\ sent' = sent \cup {mine[t]}
          /\ pc' = [pc EXCEPT ![t] = "waiting"]
          /\ todo' = todo \cup {mine[t]}
          /\ UNCHANGED mine
     ELSE Leave(t) /\ UNCHANGED todo
  /\ UNCHANGED <<lastId, cache, got, wire, notices, claimed, reading, alive>>

\* What _response_cache has for a thread.
CachedFor(t) == {line \in cache : line.id = mine[t]}

\* The wait begins with a look at the cache.
TakeCached(t) ==
  /\ pc[t] = "waiting"
  /\ \E line \in CachedFor(t) :
       /\ Leave(t)
       /\ got' = [got EXCEPT ![t] = @ \cup {line}]
       /\ cache' = cache \ {line}
  /\ UNCHANGED <<lastId, remote>>

\* Mutated form: the first line with an id is taken for one's own.
IsMineAny(t, line) == line.id # NoRequest

\* Mutated form: a line without an id is set aside as well.
HasIdAlways(line) == TRUE

\* resp_id == request_id, and resp_id is not None.
IsMine(t, line) == line.id = mine[t]
HasId(line) == line.id # NoRequest

\* The dict keeps the newest line of an id.
Cached(line) == {l \in cache : l.id # line.id} \cup {line}

\* One turn of the loop of _wait_for_response with a complete message.
Receive(t) ==
  /\ pc[t] = "waiting" /\ CachedFor(t) = {}
  /\ wire # <<>>
  /\ wire' = Tail(wire)
  /\ LET line == Head(wire) IN
     \/ /\ IsMine(t, line)
        /\ Leave(t)
        /\ got' = [got EXCEPT ![t] = @ \cup {line}]
        /\ UNCHANGED cache
     \/ /\ ~IsMine(t, line) /\ HasId(line)
        /\ cache' = Cached(line)
        /\ UNCHANGED <<lock, sent, pc, mine, got>>
     \/ /\ ~IsMine(t, line) /\ ~HasId(line)
        /\ Leave(t)
        /\ UNCHANGED <<cache, got>>
  /\ UNCHANGED <<lastId, todo, notices, claimed, reading, alive>>

\* The deadline passes; at the end of file, too, the loop only spins until
\* then.
GiveUp(t) ==
  /\ pc[t] = "waiting" /\ CachedFor(t) = {}
  /\ Leave(t)
  /\ UNCHANGED <<lastId, cache, got, remote>>

-----------------------------------------------------------------------------
\* The server answers one of its requests.
Serve(id) ==
  /\ alive /\ id \in todo
  /\ todo' = todo \ {id}
  /\ wire' = Append(wire, Line("answer", id))
  /\ UNCHANGED <<client, notices, claimed, reading, alive>>

\* It sends a notification that carries an error.
Notify ==
  /\ alive /\ notices < NoticeBound
  /\ notices' = notices + 1
  /\ wire' = Append(wire, Notice)
  /\ UNCHANGED <<client, todo, claimed, reading, alive>>

\* It sends a request of its own (a ping, say), with an id of its own choice.
Claim(id) ==
  /\ alive /\ id \notin claimed /\ Cardinality(claimed) < ClaimBound
  /\ claimed' = claimed \cup {id}
  /\ wire' = Append(wire, Line("request", id))
  /\ UNCHANGED <<client, todo, notices, reading, alive>>

\* It stops reading, or reads again.
Stall ==
  /\ alive
  /\ reading' = ~reading
  /\ UNCHANGED <<client, todo, wire, notices, claimed, alive>>

Die ==
  /\ alive
  /\ alive' = FALSE
  /\ UNCHANGED <<client, todo, wire, notices, claimed, reading>>

Next ==
  \/ \E t \in Callers :
       Enter(t) \/ Take(t) \/ Write(t) \/ TakeCached(t) \/ Receive(t) \/ GiveUp(t)
  \/ \E id \in Requests : Serve(id) \/ Claim(id)
  \/ Notify \/ Stall \/ Die

Spec == Init /\ [][Next]_vars

\* A deadline passes, a free lock is taken, and a write ends if the server
\* reads again and again, or dies.  Nothing is assumed of the server: it may
\* never answer, and never read.
Fairness ==
  \A t \in Callers :
    /\ WF_vars(Take(t)) /\ WF_vars(TakeCached(t)) /\ WF_vars(GiveUp(t))
    /\ SF_vars((reading \/ ~alive) /\ Write(t))

FairSpec == Spec /\ Fairness

-----------------------------------------------------------------------------
\* An answer set aside in _response_cache is one that nobody waits for any
\* more: under the lock the wait for another answer never swallows it.
CachedIsAbandoned ==
  \A t \in Callers, line \in cache : line.what = "answer" => line.id # mine[t]

\* Each request ends once, for the thread that sent it: with its own answer,
\* with an error, or, if the server made a request under the same number, with
\* that request taken for the answer.  This holds however late or disordered
\* the lines come, and whatever was set aside meanwhile.
Promise == INSTANCE RequestReply WITH open <- mine
KeepsPromise == Promise!Spec

\* A thread that wants to send gets its turn and returns, though the server
\* may not answer, report errors or die: every path out of the wait gives the
\* lock back.  The exception is a server that lives on and never reads again:
\* the write it keeps waiting has no timeout, and the lock stays taken.  (The
\* bound on requests is where the model stops.)
Wedged == alive /\ ~reading /\ \E t \in Callers : pc[t] = "writing"
NobodyLocksForever ==
  \/ <>[]Wedged
  \/ \A t \in Callers :
       pc[t] = "locking" ~> pc[t] = "idle" \/ lastId = RequestBound
=============================================================================

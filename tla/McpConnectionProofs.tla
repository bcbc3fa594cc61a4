------------------------ MODULE McpConnectionProofs ------------------------
(***************************************************************************)
(* Proofs about the MCP connection, for any number of threads and any      *)
(* number of requests, of the threads or of the server, and notifications. *)
(***************************************************************************)
EXTENDS McpConnection, TLAPS

\* An answer is to a request that was made, and a request of the server has a
\* number that it has used.
Lawful(line) ==
  \/ line.what = "answer" /\ line.id <= lastId
  \/ line.what = "request" /\ line.id \in claimed
  \/ line = Notice

\* The lines that were set aside or are on their way.
Carried == {wire[i] : i \in 1 .. Len(wire)}
Stores == cache \cup Carried

\* Numbers beyond the last one are not in use anywhere, but by the server.
Fresh ==
  /\ sent \subseteq 1 .. lastId /\ todo \subseteq 1 .. lastId
  /\ \A t \in Callers : mine[t] # NoRequest => mine[t] <= lastId
  /\ \A t \in Callers : \A line \in got[t] : line.id <= lastId
  /\ \A line \in Stores : Lawful(line)

Engaged(t) == pc[t] \in {"writing", "waiting"}

\* A thread writes and waits only under the lock, for a request of its own.
WaitsLocked ==
  \A t \in Callers :
    /\ Engaged(t) <=> lock = t
    /\ Engaged(t) <=> mine[t] # NoRequest

ConnInv == TypeOK /\ Fresh /\ WaitsLocked /\ CachedIsAbandoned

LEMMA ConstantFacts ==
  /\ NoRequest \notin Requests /\ Nobody \notin Callers
  /\ \A id \in Requests : id \in Nat /\ id >= 1
  /\ RequestBound \in Nat /\ NoticeBound \in Nat
  BY ConnectionAssumption DEF ConnectionAssumption, Requests

LEMMA InitConnInv == Init => ConnInv
<1> SUFFICES ASSUME Init PROVE ConnInv
  OBVIOUS
<1>1. TypeOK
  BY ConnectionAssumption DEF Init, TypeOK, Places, ConnectionAssumption
<1>2. Fresh
  BY DEF Init, Fresh, Stores, Carried
<1>3. WaitsLocked
  BY ConnectionAssumption DEF Init, WaitsLocked, Engaged, ConnectionAssumption
<1> QED
  BY <1>1, <1>2, <1>3 DEF ConnInv, CachedIsAbandoned, Init

\* The request of an engaged thread, and the lines that threads were given.
LEMMA MineBound ==
  ASSUME ConnInv, NEW t \in Callers, Engaged(t)
  PROVE  /\ mine[t] \in Requests /\ mine[t] \in Nat
         /\ lastId \in Nat /\ mine[t] <= lastId /\ mine[t] \in 1 .. lastId
<1>1. mine[t] # NoRequest /\ mine[t] \in Requests \cup {NoRequest} /\ lastId \in Nat
  BY DEF ConnInv, WaitsLocked, TypeOK
<1>2. mine[t] <= lastId
  BY <1>1 DEF ConnInv, Fresh
<1>3. mine[t] \in Nat /\ mine[t] >= 1
  BY <1>1, ConstantFacts
<1> QED
  BY <1>1, <1>2, <1>3

LEMMA GotBound ==
  ASSUME ConnInv, NEW t \in Callers, NEW line \in got[t]
  PROVE  line.id \in Nat /\ line.id <= lastId /\ lastId \in Nat
<1>1. line \in Lines /\ line.id <= lastId /\ lastId \in Nat
  BY DEF ConnInv, TypeOK, Fresh
<1>2. line.id \in Requests
  BY <1>1 DEF Lines
<1> QED
  BY <1>1, <1>2, ConstantFacts

-----------------------------------------------------------------------------
(* The stores and the end of a call                                        *)

LEMMA TailCarries ==
  ASSUME TypeOK, wire # <<>>, wire' = Tail(wire)
  PROVE  /\ wire' \in Seq(Lines \cup {Notice})
         /\ Carried' \subseteq Carried
         /\ Head(wire) \in Lines \cup {Notice} /\ Head(wire) \in Carried
<1>1. /\ wire \in Seq(Lines \cup {Notice}) /\ Len(wire) \in Nat /\ Len(wire) >= 1
      /\ Len(Tail(wire)) = Len(wire) - 1
      /\ \A i \in 1 .. Len(Tail(wire)) : Tail(wire)[i] = wire[i + 1]
      /\ Head(wire) = wire[1] /\ wire' \in Seq(Lines \cup {Notice})
  BY DEF TypeOK
<1>2. ASSUME NEW i \in 1 .. Len(wire') PROVE wire'[i] \in Carried
  <2>1. i + 1 \in 1 .. Len(wire) /\ wire'[i] = wire[i + 1]
    BY <1>1, <1>2
  <2> QED
    BY <2>1 DEF Carried
<1>3. Carried' \subseteq Carried
  BY <1>2 DEF Carried
<1>4. 1 \in 1 .. Len(wire) /\ wire[1] \in Lines \cup {Notice}
  BY <1>1
<1> QED
  BY <1>1, <1>3, <1>4 DEF Carried

LEMMA AppendCarries ==
  ASSUME TypeOK, NEW line \in Lines \cup {Notice}, wire' = Append(wire, line)
  PROVE  /\ wire' \in Seq(Lines \cup {Notice})
         /\ Carried' \subseteq Carried \cup {line}
<1>1. /\ wire \in Seq(Lines \cup {Notice}) /\ Len(wire) \in Nat
      /\ Len(wire') = Len(wire) + 1 /\ wire' \in Seq(Lines \cup {Notice})
      /\ \A i \in 1 .. Len(wire) : wire'[i] = wire[i]
      /\ wire'[Len(wire) + 1] = line
  BY DEF TypeOK
<1>2. ASSUME NEW i \in 1 .. Len(wire') PROVE wire'[i] \in Carried \cup {line}
  <2>1. CASE i = Len(wire) + 1
    BY <1>1, <2>1
  <2>2. CASE i # Len(wire) + 1
    <3>1. i \in 1 .. Len(wire)
      BY <1>1, <2>2
    <3> QED
      BY <1>1, <3>1 DEF Carried
  <2> QED
    BY <2>1, <2>2
<1> QED
  BY <1>1, <1>2 DEF Carried

\* What was lawful stays so as the numbers go up.
LEMMA StoresKeep ==
  ASSUME ConnInv, lastId' \in Nat, lastId <= lastId', claimed \subseteq claimed',
         NEW new, Lawful(new)', Stores' \subseteq Stores \cup {new}
  PROVE  \A line \in Stores' : Lawful(line)'
<1> SUFFICES ASSUME NEW line \in Stores PROVE Lawful(line)'
  OBVIOUS
<1>1. /\ line \in Lines \cup {Notice} /\ Lawful(line) /\ lastId \in Nat
  BY DEF ConnInv, TypeOK, Fresh, Stores, Carried
<1>2. CASE line = Notice
  BY <1>2 DEF Lawful
<1>3. CASE line # Notice
  <2>1. line.id \in Nat
    BY <1>1, <1>3, ConstantFacts DEF Lines
  <2> QED
    BY <1>1, <1>3, <2>1 DEF Lawful
<1> QED
  BY <1>2, <1>3

LEMMA StoresShrink ==
  ASSUME ConnInv, lastId' \in Nat, lastId <= lastId', claimed \subseteq claimed',
         Stores' \subseteq Stores
  PROVE  \A line \in Stores' : Lawful(line)'
<1>1. Lawful(Notice)'
  BY DEF Lawful
<1> QED
  BY <1>1, StoresKeep

LEMMA LeaveKeeps ==
  ASSUME ConnInv, NEW t \in Callers, Engaged(t), Leave(t), UNCHANGED lastId
  PROVE  /\ lock' = Nobody
         /\ sent' \subseteq Requests /\ sent' \subseteq 1 .. lastId'
         /\ pc' \in [Callers -> Places]
         /\ mine' \in [Callers -> Requests \cup {NoRequest}]
         /\ \A u \in Callers : mine'[u] = NoRequest
         /\ WaitsLocked'
<1>1. \A u \in Callers : u # t => ~Engaged(u) /\ mine[u] = NoRequest
  BY DEF ConnInv, WaitsLocked
<1>2. lock' = Nobody
  BY DEF ConnInv, WaitsLocked, Leave
<1>3. /\ pc' = [pc EXCEPT ![t] = "idle"]
      /\ mine' = [mine EXCEPT ![t] = NoRequest]
      /\ sent' = sent \ {mine[t]}
  BY DEF Leave
<1>4. /\ sent' \subseteq Requests /\ sent' \subseteq 1 .. lastId'
      /\ pc' \in [Callers -> Places]
      /\ mine' \in [Callers -> Requests \cup {NoRequest}]
  BY <1>3 DEF ConnInv, TypeOK, Fresh, Places
<1>5. \A u \in Callers : ~Engaged(u)' /\ mine'[u] = NoRequest
  BY <1>1, <1>3 DEF ConnInv, TypeOK, Engaged
<1>6. WaitsLocked'
  BY <1>2, <1>5, ConstantFacts DEF WaitsLocked
<1> QED
  BY <1>2, <1>4, <1>5, <1>6

\* The line that ends a call has the number of the request.
LEMMA LeaveWithLine ==
  ASSUME ConnInv, NEW t \in Callers, pc[t] = "waiting", Leave(t),
         NEW line \in Lines, line.id = mine[t],
         got' = [got EXCEPT ![t] = @ \cup {line}],
         cache' \subseteq cache, wire' \in Seq(Lines \cup {Notice}),
         Carried' \subseteq Carried,
         UNCHANGED <<lastId, todo, notices, claimed, reading, alive>>
  PROVE  ConnInv'
<1>0. Engaged(t)
  BY DEF Engaged
<1>1. Engaged(t) /\ lastId \in Nat /\ line.id \in Nat /\ line.id <= lastId
  BY <1>0, MineBound
<1>2. /\ got' \in [Callers -> SUBSET Lines]
      /\ \A u \in Callers : \A l \in got'[u] : l.id <= lastId'
  BY <1>1 DEF ConnInv, TypeOK, Fresh
<1>3. \A l \in Stores' : Lawful(l)'
  BY <1>1, StoresShrink DEF Stores
<1>4. TypeOK'
  BY <1>1, <1>2, LeaveKeeps DEF ConnInv, TypeOK
<1>5. Fresh'
  BY <1>1, <1>2, <1>3, LeaveKeeps DEF ConnInv, Fresh
<1>6. CachedIsAbandoned'
  <2>1. \A l \in cache' : l.id \in Requests
    BY DEF ConnInv, TypeOK, Lines
  <2> QED
    BY <1>1, <2>1, LeaveKeeps, ConstantFacts DEF CachedIsAbandoned
<1> QED
  BY <1>1, <1>4, <1>5, <1>6, LeaveKeeps DEF ConnInv

\* A call that ends with an error.
LEMMA LeaveWithout ==
  ASSUME ConnInv, NEW t \in Callers, Engaged(t), Leave(t),
         wire' \in Seq(Lines \cup {Notice}), Carried' \subseteq Carried,
         UNCHANGED <<lastId, cache, got, todo, notices, claimed, reading, alive>>
  PROVE  ConnInv'
<1>1. \A l \in Stores' : Lawful(l)'
  BY StoresShrink DEF Stores, ConnInv, TypeOK
<1>2. TypeOK'
  BY LeaveKeeps DEF ConnInv, TypeOK
<1>3. Fresh'
  BY <1>1, LeaveKeeps DEF ConnInv, Fresh
<1>4. CachedIsAbandoned'
  <2>1. \A l \in cache' : l.id \in Requests
    BY DEF ConnInv, TypeOK, Lines
  <2> QED
    BY <2>1, LeaveKeeps, ConstantFacts DEF CachedIsAbandoned
<1> QED
  BY <1>2, <1>3, <1>4, LeaveKeeps DEF ConnInv

-----------------------------------------------------------------------------
(* One lemma per action                                                    *)

LEMMA EnterKeeps ==
  ASSUME ConnInv, NEW t \in Callers, Enter(t)
  PROVE  ConnInv'
<1>1. /\ pc[t] = "idle" /\ pc' = [pc EXCEPT ![t] = "locking"]
      /\ UNCHANGED <<lock, lastId, sent, cache, mine, got, todo, wire, notices,
                     claimed, reading, alive>>
  BY DEF Enter, remote
<1>2. TypeOK'
  BY <1>1 DEF ConnInv, TypeOK, Places
<1>3. \A u \in Callers : Engaged(u)' <=> Engaged(u)
  BY <1>1 DEF ConnInv, TypeOK, Engaged
<1>4. WaitsLocked' /\ CachedIsAbandoned'
  BY <1>1, <1>3 DEF ConnInv, WaitsLocked, CachedIsAbandoned
<1>5. Fresh'
  BY <1>1 DEF ConnInv, Fresh, Stores, Carried, Lawful
<1> QED
  BY <1>2, <1>4, <1>5 DEF ConnInv

LEMMA TakeKeeps ==
  ASSUME ConnInv, NEW t \in Callers, Take(t)
  PROVE  ConnInv'
<1> DEFINE r == lastId + 1
<1>1. /\ lastId \in Nat /\ r \in Requests /\ lastId' = r
      /\ lock = Nobody /\ lock' = t
      /\ mine' = [mine EXCEPT ![t] = r]
      /\ pc' = [pc EXCEPT ![t] = "writing"]
      /\ UNCHANGED <<sent, cache, got, todo, wire, notices, claimed, reading, alive>>
  BY ConstantFacts DEF Take, remote, ConnInv, TypeOK, Requests
<1>2. \A u \in Callers : ~Engaged(u) /\ mine[u] = NoRequest
  BY <1>1, ConstantFacts DEF ConnInv, WaitsLocked
<1>3. TypeOK'
  BY <1>1, ConstantFacts DEF ConnInv, TypeOK, Places, Requests
<1>4. Fresh'
  <2>1. \A line \in Stores' : Lawful(line)'
    BY <1>1, StoresShrink DEF Stores, Carried
  <2>2. \A u \in Callers : \A line \in got'[u] : line.id <= lastId'
    <3>1. \A u \in Callers : \A line \in got[u] : line.id \in Nat /\ line.id <= lastId
      BY GotBound
    <3> QED
      BY <1>1, <3>1
  <2>3. \A u \in Callers : mine'[u] # NoRequest => mine'[u] <= lastId'
    BY <1>1, <1>2 DEF ConnInv, TypeOK
  <2>4. 1 .. lastId \subseteq 1 .. lastId'
    BY <1>1
  <2> QED
    BY <1>1, <2>1, <2>2, <2>3, <2>4 DEF ConnInv, Fresh
<1>5. WaitsLocked'
  BY <1>1, <1>2, ConstantFacts DEF ConnInv, TypeOK, WaitsLocked, Engaged
<1>6. CachedIsAbandoned'
  <2>1. \A line \in cache : line.id \in Requests /\
          (line.what = "answer" => line.id <= lastId)
    <3>1. \A line \in cache : line \in Lines /\ Lawful(line)
      BY DEF ConnInv, TypeOK, Fresh, Stores
    <3>2. \A line \in cache : line # Notice
      BY <3>1, ConstantFacts DEF Lines, Notice, Line
    <3> QED
      BY <3>1, <3>2 DEF Lawful, Lines
  <2>2. \A line \in cache : line.what = "answer" => line.id # r
    BY <1>1, <2>1, ConstantFacts
  <2>3. \A u \in Callers : mine'[u] \in {r, NoRequest}
    BY <1>1, <1>2 DEF ConnInv, TypeOK
  <2> QED
    BY <1>1, <2>1, <2>2, <2>3, ConstantFacts DEF CachedIsAbandoned
<1> QED
  BY <1>3, <1>4, <1>5, <1>6 DEF ConnInv

LEMMA WriteKeeps ==
  ASSUME ConnInv, NEW t \in Callers, Write(t)
  PROVE  ConnInv'
<1>0. /\ pc[t] = "writing" /\ Engaged(t)
      /\ UNCHANGED <<lastId, cache, got, wire, notices, claimed, reading, alive>>
  BY DEF Write, Engaged
<1>1. CASE alive
  <2>1. /\ lock' = t /\ sent' = sent \cup {mine[t]}
        /\ pc' = [pc EXCEPT ![t] = "waiting"] /\ mine' = mine
        /\ todo' = todo \cup {mine[t]}
    BY <1>1 DEF Write, LockInWait
  <2>2. /\ mine[t] \in Requests /\ mine[t] \in 1 .. lastId /\ lock = t
    BY <1>0, MineBound DEF ConnInv, WaitsLocked
  <2>3. TypeOK'
    BY <1>0, <2>1, <2>2 DEF ConnInv, TypeOK, Places
  <2>4. Fresh'
    <3>1. \A line \in Stores' : Lawful(line)'
      BY <1>0, StoresShrink DEF Stores, Carried, ConnInv, TypeOK
    <3> QED
      BY <1>0, <2>1, <2>2, <3>1 DEF ConnInv, Fresh
  <2>5. \A u \in Callers : Engaged(u)' <=> Engaged(u)
    BY <1>0, <2>1 DEF ConnInv, TypeOK, Engaged
  <2> QED
    BY <1>0, <2>1, <2>2, <2>3, <2>4, <2>5
       DEF ConnInv, WaitsLocked, CachedIsAbandoned
<1>2. CASE ~alive
  BY <1>0, <1>2, LeaveWithout DEF Write, Carried, ConnInv, TypeOK
<1> QED
  BY <1>1, <1>2

LEMMA TakeCachedKeeps ==
  ASSUME ConnInv, NEW t \in Callers, TakeCached(t)
  PROVE  ConnInv'
<1>1. PICK line \in CachedFor(t) :
        /\ Leave(t)
        /\ got' = [got EXCEPT ![t] = @ \cup {line}]
        /\ cache' = cache \ {line}
  BY DEF TakeCached
<1>2. /\ pc[t] = "waiting"
      /\ UNCHANGED <<lastId, todo, wire, notices, claimed, reading, alive>>
  BY DEF TakeCached, remote
<1>3. line \in Lines /\ line.id = mine[t]
  BY DEF CachedFor, ConnInv, TypeOK
<1>4. wire' \in Seq(Lines \cup {Notice}) /\ Carried' \subseteq Carried
  BY <1>2 DEF ConnInv, TypeOK, Carried
<1> QED
  BY <1>1, <1>2, <1>3, <1>4, LeaveWithLine

LEMMA ReceiveKeeps ==
  ASSUME ConnInv, NEW t \in Callers, Receive(t)
  PROVE  ConnInv'
<1> DEFINE line == Head(wire)
<1>0. /\ pc[t] = "waiting" /\ Engaged(t) /\ wire # <<>> /\ wire' = Tail(wire)
      /\ UNCHANGED <<lastId, todo, notices, claimed, reading, alive>>
  BY DEF Receive, Engaged
<1>1. /\ wire' \in Seq(Lines \cup {Notice}) /\ Carried' \subseteq Carried
      /\ line \in Lines \cup {Notice} /\ line \in Carried
  BY <1>0, TailCarries DEF ConnInv
<1>2. CASE IsMine(t, line)
  <2>1. /\ Leave(t) /\ got' = [got EXCEPT ![t] = @ \cup {line}] /\ UNCHANGED cache
    BY <1>2 DEF Receive
  <2>2. mine[t] \in Requests /\ line.id = mine[t]
    BY <1>0, <1>2 DEF IsMine, ConnInv, WaitsLocked, TypeOK
  <2>3. line \in Lines
    BY <1>1, <2>2, ConstantFacts DEF Notice, Line
  <2> QED
    BY <1>0, <1>1, <2>1, <2>2, <2>3, LeaveWithLine
<1>3. CASE ~IsMine(t, line) /\ HasId(line)
  <2>1. cache' = Cached(line) /\ UNCHANGED <<lock, sent, pc, mine, got>>
    BY <1>3 DEF Receive
  <2>2. line \in Lines /\ line.id # mine[t]
    BY <1>1, <1>3 DEF HasId, IsMine, Notice, Line
  <2>3. cache' \subseteq cache \cup {line}
    BY <2>1 DEF Cached
  <2>4. TypeOK'
    BY <1>0, <1>1, <2>1, <2>2, <2>3 DEF ConnInv, TypeOK
  <2>5. \A l \in Stores' : Lawful(l)'
    <3>1. Stores' \subseteq Stores
      BY <1>1, <2>3 DEF Stores
    <3> QED
      BY <1>0, <3>1, StoresShrink DEF ConnInv, TypeOK
  <2>6. Fresh'
    BY <1>0, <2>1, <2>5 DEF ConnInv, Fresh
  <2>7. \A u \in Callers : u # t => mine[u] = NoRequest
    BY <1>0 DEF ConnInv, WaitsLocked
  <2>8. line.id # NoRequest
    BY <2>2, ConstantFacts DEF Lines
  <2>9. CachedIsAbandoned'
    BY <2>1, <2>2, <2>3, <2>7, <2>8 DEF ConnInv, CachedIsAbandoned
  <2>10. WaitsLocked'
    BY <2>1 DEF ConnInv, WaitsLocked, Engaged
  <2> QED
    BY <2>4, <2>6, <2>9, <2>10 DEF ConnInv
<1>4. CASE ~IsMine(t, line) /\ ~HasId(line)
  <2>1. Leave(t) /\ UNCHANGED <<cache, got>>
    BY <1>4 DEF Receive
  <2> QED
    BY <1>0, <1>1, <2>1, LeaveWithout
<1> QED
  BY <1>2, <1>3, <1>4

LEMMA GiveUpKeeps ==
  ASSUME ConnInv, NEW t \in Callers, GiveUp(t)
  PROVE  ConnInv'
<1>1. /\ Engaged(t) /\ Leave(t)
      /\ UNCHANGED <<lastId, cache, got, todo, wire, notices, claimed, reading, alive>>
  BY DEF GiveUp, remote, Engaged
<1> QED
  BY <1>1, LeaveWithout DEF ConnInv, TypeOK, Carried

\* A line that the server writes.
LEMMA WireKeeps ==
  ASSUME ConnInv, NEW line \in Lines \cup {Notice}, Lawful(line)',
         wire' = Append(wire, line), UNCHANGED client, todo' \subseteq todo,
         claimed \subseteq claimed', claimed' \subseteq Requests,
         notices' \in 0 .. NoticeBound, UNCHANGED <<reading, alive>>
  PROVE  ConnInv'
<1>0. UNCHANGED <<lock, lastId, sent, cache, pc, mine, got>>
  BY DEF client
<1>1. wire' \in Seq(Lines \cup {Notice}) /\ Carried' \subseteq Carried \cup {line}
  BY AppendCarries DEF ConnInv
<1>2. \A l \in Stores' : Lawful(l)'
  BY <1>0, <1>1, StoresKeep DEF Stores, ConnInv, TypeOK
<1>3. TypeOK'
  BY <1>0, <1>1 DEF ConnInv, TypeOK
<1>4. Fresh'
  BY <1>0, <1>2 DEF ConnInv, Fresh
<1> QED
  BY <1>0, <1>3, <1>4 DEF ConnInv, WaitsLocked, Engaged, CachedIsAbandoned

LEMMA ServerKeeps ==
  ASSUME ConnInv,
         (\E id \in Requests : Serve(id) \/ Claim(id)) \/ Notify \/ Stall \/ Die
  PROVE  ConnInv'
<1>1. ASSUME NEW id \in Requests, Serve(id) PROVE ConnInv'
  <2>1. /\ Line("answer", id) \in Lines /\ id <= lastId /\ UNCHANGED lastId
        /\ Line("answer", id).what = "answer" /\ Line("answer", id).id = id
    BY <1>1 DEF Serve, client, ConnInv, TypeOK, Fresh, Line, Lines
  <2>2. Lawful(Line("answer", id))'
    BY <2>1 DEF Lawful, Line
  <2>3. notices' \in 0 .. NoticeBound
    BY <1>1 DEF Serve, ConnInv, TypeOK
  <2> QED
    BY <1>1, <2>1, <2>2, <2>3, WireKeeps DEF Serve, ConnInv, TypeOK
<1>2. ASSUME NEW id \in Requests, Claim(id) PROVE ConnInv'
  <2>1. Line("request", id) \in Lines /\ id \in claimed'
    BY <1>2 DEF Claim, Line, Lines
  <2>2. Lawful(Line("request", id))'
    BY <2>1 DEF Lawful, Line
  <2>3. notices' \in 0 .. NoticeBound /\ claimed' \subseteq Requests
    BY <1>2 DEF Claim, ConnInv, TypeOK
  <2> QED
    BY <1>2, <2>1, <2>2, <2>3, WireKeeps DEF Claim
<1>3. CASE Notify
  <2>1. notices' \in 0 .. NoticeBound
    BY <1>3, ConstantFacts DEF Notify, ConnInv, TypeOK
  <2>2. Lawful(Notice)'
    BY DEF Lawful
  <2> QED
    BY <1>3, <2>1, <2>2, WireKeeps DEF Notify, ConnInv, TypeOK
<1>4. CASE Stall \/ Die
  BY <1>4
     DEF Stall, Die, client, ConnInv, TypeOK, Fresh, Stores, Carried, Lawful,
         WaitsLocked, Engaged, CachedIsAbandoned
<1> QED
  BY <1>1, <1>2, <1>3, <1>4

LEMMA NextConnInv == ConnInv /\ [Next]_vars => ConnInv'
<1> SUFFICES ASSUME ConnInv, [Next]_vars PROVE ConnInv'
  OBVIOUS
<1>1. CASE UNCHANGED vars
  BY <1>1 DEF vars, client, remote, ConnInv, TypeOK, Fresh, Stores, Carried,
     Lawful, WaitsLocked, Engaged, CachedIsAbandoned
<1> QED
  BY <1>1, EnterKeeps, TakeKeeps, WriteKeeps, TakeCachedKeeps, ReceiveKeeps,
     GiveUpKeeps, ServerKeeps DEF Next

-----------------------------------------------------------------------------
\* Every variable of the connection keeps its type.
THEOREM TypeCorrect == Spec => []TypeOK
<1>1. ConnInv => TypeOK
  BY DEF ConnInv
<1> QED
  BY <1>1, InitConnInv, NextConnInv, PTL DEF Spec

\* An answer that _wait_for_response sets aside in its cache nobody waits for,
\* however late and disordered the lines: the lock spans the wait.
THEOREM NothingAwaitedIsCached == Spec => []CachedIsAbandoned
<1>1. ConnInv => CachedIsAbandoned
  BY DEF ConnInv
<1> QED
  BY <1>1, InitConnInv, NextConnInv, PTL DEF Spec

-----------------------------------------------------------------------------
(* The connection implements RequestReply                                  *)

LEMMA PromiseFail ==
  ASSUME ConnInv, NEW t \in Callers, Engaged(t), Leave(t), UNCHANGED <<got, claimed>>
  PROVE  Promise!Next
<1>1. Promise!Fail(t)
  BY DEF Promise!Fail, ConnInv, WaitsLocked, Leave
<1> QED
  BY <1>1 DEF Promise!Next

\* A line with the number of the request is its answer or was the server's.
LEMMA PromiseEnd ==
  ASSUME ConnInv, NEW t \in Callers, Engaged(t), Leave(t), UNCHANGED claimed,
         NEW line \in Stores, line.id = mine[t],
         got' = [got EXCEPT ![t] = @ \cup {line}]
  PROVE  Promise!Next
<1>1. /\ mine[t] # NoRequest /\ mine' = [mine EXCEPT ![t] = NoRequest]
      /\ line \in Lines \cup {Notice} /\ Lawful(line)
  BY DEF ConnInv, WaitsLocked, Leave, TypeOK, Fresh, Stores, Carried
<1>2. line \in Lines /\ line # Notice
  BY <1>1, ConstantFacts DEF Notice, Line, Lines
<1>3. line = [what |-> line.what, id |-> mine[t]]
  BY <1>2 DEF Lines
<1>4. CASE line.what = "answer"
  <2>1. Promise!Answer(t)
    BY <1>1, <1>3, <1>4 DEF Promise!Answer, Promise!End
  <2> QED
    BY <2>1 DEF Promise!Next
<1>5. CASE line.what = "request"
  <2>1. mine[t] \in claimed
    BY <1>1, <1>2, <1>5 DEF Lawful
  <2>2. Promise!Mistake(t)
    BY <1>1, <1>3, <1>5, <2>1 DEF Promise!Mistake, Promise!End
  <2> QED
    BY <2>2 DEF Promise!Next
<1> QED
  BY <1>2, <1>4, <1>5 DEF Lines

LEMMA PromiseStep ==
  ASSUME ConnInv, [Next]_vars
  PROVE  [Promise!Next]_(Promise!vars)
<1>1. ASSUME NEW t \in Callers, Take(t)
      PROVE  [Promise!Next]_(Promise!vars)
  <2> DEFINE r == lastId + 1
  <2>1. /\ r \in Requests /\ lock = Nobody /\ lastId \in Nat
        /\ mine' = [mine EXCEPT ![t] = r] /\ UNCHANGED <<got, claimed>>
    BY <1>1, ConstantFacts DEF Take, remote, ConnInv, TypeOK, Requests
  <2>2. \A d \in Callers : mine[d] = NoRequest
    BY <2>1, ConstantFacts DEF ConnInv, WaitsLocked
  <2>3. \A d \in Callers : \A line \in got[d] : line.id # r
    <3>1. \A d \in Callers : \A line \in got[d] : line.id \in Nat /\ line.id <= lastId
      BY GotBound
    <3> QED
      BY <2>1, <3>1
  <2>4. Promise!Ask(t, r)
    BY <2>1, <2>2, <2>3, ConstantFacts DEF Promise!Ask
  <2> QED
    BY <2>1, <2>4 DEF Promise!Next
<1>2. ASSUME NEW t \in Callers, Write(t)
      PROVE  [Promise!Next]_(Promise!vars)
  <2>1. CASE alive
    BY <1>2, <2>1 DEF Write, Promise!vars
  <2>2. CASE ~alive
    BY <1>2, <2>2, PromiseFail DEF Write, Engaged
  <2> QED
    BY <2>1, <2>2
<1>3. ASSUME NEW t \in Callers, TakeCached(t)
      PROVE  [Promise!Next]_(Promise!vars)
  <2>1. PICK line \in CachedFor(t) :
          Leave(t) /\ got' = [got EXCEPT ![t] = @ \cup {line}]
    BY <1>3 DEF TakeCached
  <2>2. line \in Stores /\ line.id = mine[t] /\ Engaged(t) /\ UNCHANGED claimed
    BY <1>3 DEF TakeCached, CachedFor, Stores, Engaged, remote
  <2> QED
    BY <2>1, <2>2, PromiseEnd
<1>4. ASSUME NEW t \in Callers, Receive(t)
      PROVE  [Promise!Next]_(Promise!vars)
  <2> DEFINE line == Head(wire)
  <2>0. Engaged(t) /\ UNCHANGED claimed /\ line \in Stores
    BY <1>4, TailCarries DEF Receive, Engaged, ConnInv, Stores
  <2>1. CASE IsMine(t, line)
    <3>1. Leave(t) /\ got' = [got EXCEPT ![t] = @ \cup {line}] /\ line.id = mine[t]
      BY <1>4, <2>1 DEF Receive, IsMine
    <3> QED
      BY <2>0, <3>1, PromiseEnd
  <2>2. CASE ~IsMine(t, line) /\ HasId(line)
    BY <1>4, <2>0, <2>2 DEF Receive, Promise!vars
  <2>3. CASE ~IsMine(t, line) /\ ~HasId(line)
    BY <1>4, <2>0, <2>3, PromiseFail DEF Receive
  <2> QED
    BY <2>1, <2>2, <2>3
<1>5. ASSUME NEW t \in Callers, GiveUp(t)
      PROVE  [Promise!Next]_(Promise!vars)
  BY <1>5, PromiseFail DEF GiveUp, remote, Engaged
<1>6. ASSUME NEW id \in Requests, Claim(id)
      PROVE  [Promise!Next]_(Promise!vars)
  <2>1. Promise!Claim(id)
    BY <1>6 DEF Claim, client, Promise!Claim
  <2> QED
    BY <2>1 DEF Promise!Next
<1>7. ASSUME \/ \E t \in Callers : Enter(t)
             \/ \E id \in Requests : Serve(id)
             \/ Notify \/ Stall \/ Die \/ UNCHANGED vars
      PROVE  [Promise!Next]_(Promise!vars)
  BY <1>7 DEF Enter, Serve, Notify, Stall, Die, vars, client, remote, Promise!vars
<1> QED
  BY <1>1, <1>2, <1>3, <1>4, <1>5, <1>6, <1>7 DEF Next

\* A call ends once: with the answer to its own request, with an error, or with
\* a request of the server under the same number.  Every behaviour of the
\* connection is one of RequestReply.
THEOREM ConnectionKeepsPromise == Spec => KeepsPromise
<1>1. Init => Promise!Init
  BY DEF Init, Promise!Init
<1>2. ConnInv /\ [Next]_vars => [Promise!Next]_(Promise!vars)
  BY PromiseStep
<1> QED
  BY <1>1, <1>2, InitConnInv, NextConnInv, PTL
     DEF Spec, Promise!Spec, KeepsPromise
=============================================================================

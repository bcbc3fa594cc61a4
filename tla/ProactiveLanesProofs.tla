------------------------ MODULE ProactiveLanesProofs ------------------------
(***************************************************************************)
(* Proofs about the proactive lanes, for any number of threads, actions    *)
(* and lanes and any queue cap.                                            *)
(***************************************************************************)
EXTENDS ProactiveLanes, TLAPS

InSeq(q, a) == \E i \in 1 .. Len(q) : q[i] = a

Distinct(q) == \A i, k \in 1 .. Len(q) : q[i] = q[k] => i = k

-----------------------------------------------------------------------------
(* Lemmas about the queue helpers                                          *)

\* Trimming to the newest n entries keeps distinctness and adds nothing.
LEMMA LastNFacts ==
  ASSUME NEW S, NEW q \in Seq(S), NEW n \in Nat \ {0}
  PROVE  /\ LastN(q, n) \in Seq(S)
         /\ \A a : InSeq(LastN(q, n), a) => InSeq(q, a)
         /\ Distinct(q) => Distinct(LastN(q, n))
<1>1. CASE ~(Len(q) > n)
  BY <1>1 DEF LastN
<1>2. CASE Len(q) > n
  <2> DEFINE m == Len(q) - n
             p == SubSeq(q, m + 1, Len(q))
  <2>1. LastN(q, n) = p
    BY <1>2 DEF LastN
  <2>2. p \in Seq(S) /\ Len(p) = n /\ \A i \in 1 .. n : p[i] = q[i + m]
    BY <1>2
  <2>3. m \in Nat /\ \A i \in 1 .. n : i + m \in 1 .. Len(q)
    BY <1>2
  <2> HIDE DEF p, m
  <2>4. \A a : InSeq(p, a) => InSeq(q, a)
    BY <2>2, <2>3 DEF InSeq
  <2>5. Distinct(q) => Distinct(p)
    BY <2>2, <2>3 DEF Distinct
  <2> QED
    BY <2>1, <2>2, <2>4, <2>5
<1> QED
  BY <1>1, <1>2

\* Enqueueing adds at most the given action, once.
LEMMA EnqueuedFacts ==
  ASSUME NEW S, NEW q \in Seq(S), NEW a \in S, QueueMax \in Nat \ {0}
  PROVE  /\ Enqueued(q, a) \in Seq(S)
         /\ \A b : InSeq(Enqueued(q, a), b) => InSeq(q, b) \/ b = a
         /\ Distinct(q) => Distinct(Enqueued(q, a))
<1>1. CASE InSeq(q, a)
  BY <1>1 DEF Enqueued, InSeq
<1>2. CASE ~InSeq(q, a)
  <2>1. Enqueued(q, a) = LastN(Append(q, a), QueueMax)
    BY <1>2 DEF Enqueued, InSeq
  <2>2. Append(q, a) \in Seq(S)
    OBVIOUS
  <2>3. \A b : InSeq(Append(q, a), b) => InSeq(q, b) \/ b = a
    BY DEF InSeq
  <2>4. Distinct(q) => Distinct(Append(q, a))
    BY <1>2 DEF Distinct, InSeq
  <2> QED
    BY <2>1, <2>2, <2>3, <2>4, LastNFacts
<1> QED
  BY <1>1, <1>2

\* Popping removes exactly the head of a queue without repetitions.
LEMMA PoppedFacts ==
  ASSUME NEW S, NEW q \in Seq(S), Distinct(q)
  PROVE  /\ Popped(q) \in Seq(S)
         /\ Distinct(Popped(q))
         /\ \A b : InSeq(Popped(q), b) => InSeq(q, b)
         /\ q # <<>> => /\ Head(q) \in S
                        /\ InSeq(q, Head(q))
                        /\ ~InSeq(Popped(q), Head(q))
<1>1. CASE q = <<>>
  BY <1>1 DEF Popped
<1>2. CASE q # <<>>
  <2> DEFINE p == Tail(q)
  <2>1. /\ Popped(q) = p /\ p \in Seq(S) /\ Len(p) = Len(q) - 1
        /\ \A i \in 1 .. Len(p) : p[i] = q[i + 1] /\ i + 1 \in 1 .. Len(q)
        /\ Head(q) = q[1] /\ 1 \in 1 .. Len(q) /\ Head(q) \in S
    BY <1>2 DEF Popped
  <2> HIDE DEF p
  <2>2. Len(p) \in Nat /\ Len(q) \in Nat
    BY <2>1
  <2>3. Distinct(p)
    BY <2>1, <2>2 DEF Distinct
  <2>4. \A b : InSeq(p, b) => InSeq(q, b)
    BY <2>1 DEF InSeq
  <2>5. ~InSeq(p, q[1])
    BY <2>1, <2>2 DEF InSeq, Distinct
  <2> QED
    BY <2>1, <2>3, <2>4, <2>5 DEF InSeq
<1> QED
  BY <1>1, <1>2

-----------------------------------------------------------------------------
(* Type correctness                                                        *)

LEMMA InitTypeOK == Init => TypeOK
  BY DEF Init, TypeOK, Places

LEMMA NextTypeOK == TypeOK /\ [Next]_vars => TypeOK'
<1> SUFFICES ASSUME TypeOK, [Next]_vars PROVE TypeOK'
  OBVIOUS
<1> USE LanesAssumption DEF LanesAssumption
<1>1. ASSUME NEW t \in Threads, NEW a \in Actions, Submit(t, a) PROVE TypeOK'
  BY <1>1 DEF Submit, Goto, TypeOK, Places
<1>2. ASSUME NEW t \in Threads, TryEnter(t) PROVE TypeOK'
  <2>1. job[t] \in Actions /\ MyLane(t) \in Lanes
    BY <1>2 DEF TryEnter, MyLane, TypeOK
  <2>2. CASE MayEnter(t)
    <3>1. /\ active' = [active EXCEPT ![MyLane(t)] = job[t]]
          /\ runs' = [runs EXCEPT ![job[t]] = @ + 1]
          /\ pc' = [pc EXCEPT ![t] = "running"]
          /\ UNCHANGED <<queue, job, submits, pending, swallowed>>
      BY <1>2, <2>2 DEF TryEnter, Goto
    <3>2. runs' \in [Actions -> Nat]
      BY <2>1, <3>1 DEF TypeOK
    <3>3. active' \in [Lanes -> Actions \cup {Free}]
      BY <2>1, <3>1 DEF TypeOK
    <3>4. pc' \in [Threads -> Places]
      BY <3>1 DEF TypeOK, Places
    <3>5. \A u \in Threads : pc'[u] # "idle" => job'[u] \in Actions
      BY <2>1, <3>1 DEF TypeOK
    <3> QED
      BY <3>1, <3>2, <3>3, <3>4, <3>5 DEF TypeOK
  <2>3. CASE ~MayEnter(t)
    BY <1>2, <2>3 DEF TryEnter, Goto, TypeOK, Places
  <2> QED
    BY <2>2, <2>3
<1>3. ASSUME NEW t \in Threads, Enqueue(t) PROVE TypeOK'
  <2>1. queue' \in [Lanes -> Seq(Actions)]
    <3>1. MyLane(t) \in Lanes /\ job[t] \in Actions
      BY <1>3 DEF Enqueue, MyLane, TypeOK
    <3>2. Enqueued(queue[MyLane(t)], job[t]) \in Seq(Actions)
      BY <3>1, EnqueuedFacts DEF TypeOK
    <3> QED
      BY <1>3, <3>1, <3>2 DEF Enqueue, TypeOK
  <2> QED
    BY <1>3, <2>1 DEF Enqueue, Goto, TypeOK, Places
<1>4. ASSUME NEW t \in Threads, NEW ok \in BOOLEAN, HandlerDone(t, ok)
      PROVE  TypeOK'
  BY <1>4 DEF HandlerDone, Goto, TypeOK, Places
<1>5. ASSUME NEW t \in Threads, Leave(t) PROVE TypeOK'
  BY <1>5 DEF Leave, Freed, Goto, MyLane, TypeOK, Places
<1>6. ASSUME NEW t \in Threads, Drain(t) PROVE TypeOK'
  <2> DEFINE q == queue[MyLane(t)]
  <2>1. MyLane(t) \in Lanes /\ q \in Seq(Actions)
    BY <1>6 DEF Drain, MyLane, TypeOK
  <2>2. Popped(q) \in Seq(Actions) /\ (q # <<>> => Head(q) \in Actions)
    BY <2>1 DEF Popped
  <2>3. queue' \in [Lanes -> Seq(Actions)]
    BY <1>6, <2>1, <2>2 DEF Drain, TypeOK
  <2>4. swallowed' \in [Lanes -> Nat]
    <3>1. PICK n \in {0, 1} :
            swallowed' = [swallowed EXCEPT ![MyLane(t)] = @ + n]
      BY <1>6 DEF Drain
    <3> QED
      BY <2>1, <3>1 DEF TypeOK
  <2>5. CASE ExecutesNext(q, job[t])
    BY <1>6, <2>2, <2>3, <2>4, <2>5 DEF Drain, ExecutesNext, Goto, TypeOK, Places
  <2>6. CASE ~ExecutesNext(q, job[t])
    BY <1>6, <2>3, <2>4, <2>6 DEF Drain, Goto, TypeOK, Places
  <2> QED
    BY <2>5, <2>6
<1>7. CASE UNCHANGED vars
  BY <1>7 DEF vars, TypeOK
<1> QED
  BY <1>1, <1>2, <1>3, <1>4, <1>5, <1>6, <1>7 DEF Next

\* The variables keep their types: for instance, a thread that is executing
\* has an action in hand, and lane queues hold recommendations only.
THEOREM TypeCorrect == Spec => []TypeOK
<1>1. Init => TypeOK
  BY InitTypeOK
<1>2. TypeOK /\ [Next]_vars => TypeOK'
  BY NextTypeOK
<1> QED
  BY <1>1, <1>2, PTL DEF Spec

-----------------------------------------------------------------------------
(* Who holds a lane                                                        *)

HolderInItsLane == \A l \in Lanes : active[l] # Free => LaneOf[active[l]] = l

HolderInv == HolderIsExecuting /\ HolderInItsLane

LEMMA NextHolderInv == TypeOK /\ HolderInv /\ [Next]_vars => HolderInv'
<1> SUFFICES ASSUME TypeOK, HolderInv, [Next]_vars PROVE HolderInv'
  OBVIOUS
<1> USE LanesAssumption, MarkersAreNoActions DEF LanesAssumption
<1> USE DEF HolderInv, HolderIsExecuting, HolderInItsLane, Executing
<1>1. ASSUME NEW t \in Threads, NEW a \in Actions, Submit(t, a)
      PROVE  HolderInv'
  BY <1>1 DEF Submit, Goto, TypeOK
<1>2. ASSUME NEW t \in Threads, TryEnter(t) PROVE HolderInv'
  <2>1. CASE MayEnter(t)
    <3>1. /\ active' = [active EXCEPT ![MyLane(t)] = job[t]]
          /\ pc' = [pc EXCEPT ![t] = "running"] /\ job' = job
          /\ pc[t] = "entering"
      BY <1>2, <2>1 DEF TryEnter, Goto
    <3>2. MyLane(t) = LaneOf[job[t]] /\ MyLane(t) \in Lanes
      BY <3>1 DEF MyLane, TypeOK
    <3>3. pc'[t] = "running" /\ \A u \in Threads : u # t => pc'[u] = pc[u]
      BY <3>1 DEF TypeOK
    <3>4. ASSUME NEW l \in Lanes, active'[l] # Free
          PROVE  /\ \E u \in Threads : job'[u] = active'[l] /\ Executing(u)'
                 /\ LaneOf[active'[l]] = l
      <4>1. CASE l = MyLane(t)
        BY <3>1, <3>2, <3>3, <4>1 DEF TypeOK
      <4>2. CASE l # MyLane(t)
        <5>1. active'[l] = active[l]
          BY <3>1, <4>2 DEF TypeOK
        <5>2. PICK u \in Threads : job[u] = active[l] /\ Executing(u)
          BY <3>4, <5>1
        <5>3. u # t
          BY <3>1, <5>2
        <5> QED
          BY <3>1, <3>3, <3>4, <5>1, <5>2, <5>3
      <4> QED
        BY <4>1, <4>2
    <3> QED
      BY <3>4
  <2>2. CASE ~MayEnter(t)
    BY <1>2, <2>2 DEF TryEnter, Goto, TypeOK
  <2> QED
    BY <2>1, <2>2
<1>3. ASSUME NEW t \in Threads, Enqueue(t) PROVE HolderInv'
  BY <1>3 DEF Enqueue, Goto, TypeOK
<1>4. ASSUME NEW t \in Threads, NEW ok \in BOOLEAN, HandlerDone(t, ok)
      PROVE  HolderInv'
  BY <1>4 DEF HandlerDone, Goto, TypeOK
<1>5. ASSUME NEW t \in Threads, Leave(t) PROVE HolderInv'
  <2>1. /\ pc' = [pc EXCEPT ![t] = "draining"] /\ job' = job
        /\ active' = Freed(t)
        /\ MyLane(t) = LaneOf[job[t]] /\ MyLane(t) \in Lanes
    BY <1>5 DEF Leave, Goto, MyLane, TypeOK
  <2>2. ASSUME NEW l \in Lanes, active'[l] # Free
        PROVE  /\ \E u \in Threads : job'[u] = active'[l] /\ Executing(u)'
               /\ LaneOf[active'[l]] = l
    <3>1. active'[l] = active[l] /\ ~(l = MyLane(t) /\ active[l] = job[t])
      BY <2>1, <2>2 DEF Freed, TypeOK
    <3>2. PICK u \in Threads : job[u] = active[l] /\ Executing(u)
      BY <2>2, <3>1
    <3>3. LaneOf[active[l]] = l
      BY <2>2, <3>1
    <3>4. u # t
      BY <2>1, <3>1, <3>2, <3>3
    <3>5. Executing(u)'
      BY <2>1, <3>2, <3>4 DEF TypeOK
    <3> QED
      BY <2>1, <3>1, <3>2, <3>3, <3>5
  <2> QED
    BY <2>2
<1>6. ASSUME NEW t \in Threads, Drain(t) PROVE HolderInv'
  <2>1. active' = active /\ ~Executing(t)
    BY <1>6 DEF Drain
  <2>2. \A u \in Threads : u # t => job'[u] = job[u] /\ pc'[u] = pc[u]
    BY <1>6 DEF Drain, Goto, TypeOK
  <2> QED
    BY <2>1, <2>2
<1>7. CASE UNCHANGED vars
  BY <1>7 DEF vars
<1> QED
  BY <1>1, <1>2, <1>3, <1>4, <1>5, <1>6, <1>7 DEF Next

\* Exception-safe release, with any number of overlapping entries: the holder
\* that _active_proactive_lanes names is always being executed by a thread.
THEOREM HeldLaneIsWorkedOn == Spec => []HolderIsExecuting
<1>1. Init => HolderInv
  BY DEF Init, HolderInv, HolderIsExecuting, HolderInItsLane
<1>2. TypeOK /\ HolderInv /\ [Next]_vars => HolderInv'
  BY NextHolderInv
<1> QED
  BY <1>1, <1>2, TypeCorrect, PTL DEF Spec, HolderInv

-----------------------------------------------------------------------------
(* The way of an action: handed over, in one hand or in one queue, started *)

Busy(t) == pc[t] # "idle"

\* A queue holds each action once, and only actions of its lane.
QueueSound ==
  \A l \in Lanes :
    /\ Distinct(queue[l])
    /\ \A a \in Actions : InSeq(queue[l], a) => LaneOf[a] = l

\* A recommendation that is submitted once is in one hand, and not queued.
OneHand ==
  /\ \A t, u \in Threads :
       Busy(t) /\ Busy(u) /\ job[t] = job[u] => t = u \/ job[t] \in Repeated
  /\ \A t \in Threads, l \in Lanes :
       Busy(t) /\ job[t] \notin Repeated => ~InSeq(queue[l], job[t])

\* Before its submission an action is nowhere.
NotYetSubmitted ==
  \A a \in Actions : submits[a] = 0 =>
    /\ runs[a] = 0
    /\ \A t \in Threads : Busy(t) => job[t] # a
    /\ \A l \in Lanes : ~InSeq(queue[l], a)

\* What has still to enter its lane has not been started.
NotYetStarted ==
  /\ \A t \in Threads :
       pc[t] \in {"entering", "enqueueing"} /\ job[t] \notin Repeated =>
         runs[job[t]] = 0
  /\ \A l \in Lanes, a \in Actions \ Repeated :
       InSeq(queue[l], a) => runs[a] = 0

Flow == QueueSound /\ OneHand /\ NotYetSubmitted /\ NotYetStarted /\ AtMostOnce

LEMMA InitFlow == Init => Flow
<1> SUFFICES ASSUME Init PROVE Flow
  OBVIOUS
<1>1. \A l \in Lanes : /\ Distinct(queue[l])
                       /\ \A a \in Actions : ~InSeq(queue[l], a)
  BY DEF Init, Distinct, InSeq
<1>2. \A t \in Threads : ~Busy(t)
  BY DEF Init, Busy
<1>3. QueueSound /\ OneHand
  BY <1>1, <1>2 DEF QueueSound, OneHand
<1>4. NotYetSubmitted /\ NotYetStarted /\ AtMostOnce
  BY <1>1, <1>2 DEF Init, NotYetSubmitted, NotYetStarted, AtMostOnce
<1> QED
  BY <1>3, <1>4 DEF Flow

LEMMA NextFlow == TypeOK /\ Flow /\ [Next]_vars => Flow'
<1> SUFFICES ASSUME TypeOK, Flow, [Next]_vars PROVE Flow'
  OBVIOUS
<1> USE LanesAssumption DEF LanesAssumption
<1> USE DEF Flow
<1>1. ASSUME NEW t \in Threads, NEW a \in Actions, Submit(t, a)
      PROVE  Flow'
  <2>1. /\ pc[t] = "idle" /\ (a \in Repeated \/ submits[a] = 0)
        /\ \A u \in Threads : u # t => pc'[u] = pc[u] /\ job'[u] = job[u]
        /\ job'[t] = a /\ pc'[t] = "entering"
        /\ \A b \in Actions : submits'[b] = 0 => submits[b] = 0 /\ b # a
        /\ queue' = queue /\ runs' = runs
    BY <1>1 DEF Submit, Goto, TypeOK
  <2>2. QueueSound' /\ AtMostOnce'
    BY <2>1 DEF QueueSound, AtMostOnce
  <2>3. OneHand'
    <3>1. a \in Repeated \/ \A u \in Threads : Busy(u) => job[u] # a
      BY <2>1 DEF NotYetSubmitted
    <3>2. a \in Repeated \/ \A l \in Lanes : ~InSeq(queue[l], a)
      BY <2>1 DEF NotYetSubmitted
    <3>3. \A u \in Threads : u # t => (Busy(u)' <=> Busy(u))
      BY <2>1 DEF Busy
    <3> QED
      BY <2>1, <3>1, <3>2, <3>3 DEF OneHand
  <2>4. NotYetSubmitted'
    BY <2>1 DEF NotYetSubmitted, Busy
  <2>5. NotYetStarted'
    BY <2>1 DEF NotYetStarted, NotYetSubmitted
  <2> QED
    BY <2>2, <2>3, <2>4, <2>5
<1>2. ASSUME NEW t \in Threads, TryEnter(t) PROVE Flow'
  <2> DEFINE a == job[t]
  <2>1. /\ pc[t] = "entering" /\ a \in Actions
        /\ queue' = queue /\ job' = job /\ submits' = submits
        /\ \A u \in Threads : u # t => pc'[u] = pc[u]
        /\ \A u \in Threads : Busy(u)' <=> Busy(u)
    BY <1>2 DEF TryEnter, Goto, TypeOK, Busy
  <2>2. \/ pc'[t] = "running" /\ runs' = [runs EXCEPT ![a] = @ + 1]
        \/ pc'[t] = "enqueueing" /\ runs' = runs
    BY <1>2 DEF TryEnter, Goto, TypeOK
  <2>3. \A b \in Actions : b # a => runs'[b] = runs[b]
    BY <2>1, <2>2 DEF TypeOK
  <2>4. QueueSound' /\ OneHand'
    BY <2>1 DEF QueueSound, OneHand
  <2>5. NotYetSubmitted'
    BY <2>1, <2>3 DEF NotYetSubmitted, Busy
  <2>6. NotYetStarted'
    <3>1. ASSUME NEW u \in Threads, pc'[u] \in {"entering", "enqueueing"},
                 job[u] \notin Repeated
          PROVE  runs'[job[u]] = 0
      <4>1. CASE u = t
        BY <2>1, <2>2, <3>1, <4>1 DEF NotYetStarted
      <4>2. CASE u # t
        <5>1. Busy(u) /\ Busy(t) /\ pc[u] = pc'[u]
          BY <2>1, <3>1, <4>2 DEF Busy
        <5>2. job[u] # a
          BY <3>1, <4>2, <5>1 DEF OneHand
        <5>3. job[u] \in Actions
          BY <5>1 DEF Busy, TypeOK
        <5> QED
          BY <2>3, <3>1, <5>1, <5>2, <5>3 DEF NotYetStarted
      <4> QED
        BY <4>1, <4>2
    <3>2. ASSUME NEW l \in Lanes, NEW b \in Actions \ Repeated,
                 InSeq(queue[l], b)
          PROVE  runs'[b] = 0
      <4>1. Busy(t)
        BY <2>1 DEF Busy
      <4>2. b # a
        BY <3>2, <4>1 DEF OneHand
      <4> QED
        BY <2>3, <3>2, <4>2 DEF NotYetStarted
    <3> QED
      BY <2>1, <3>1, <3>2 DEF NotYetStarted
  <2>7. AtMostOnce'
    <3>1. a \notin Repeated => runs[a] = 0
      BY <2>1 DEF NotYetStarted
    <3>2. a \notin Repeated => runs'[a] <= 1
      BY <2>1, <2>2, <3>1 DEF TypeOK
    <3> QED
      BY <2>3, <3>2 DEF AtMostOnce
  <2> QED
    BY <2>4, <2>5, <2>6, <2>7
<1>3. ASSUME NEW t \in Threads, Enqueue(t) PROVE Flow'
  <2> DEFINE a == job[t]
             m == MyLane(t)
  <2>1. /\ pc[t] = "enqueueing" /\ a \in Actions /\ m \in Lanes
        /\ m = LaneOf[a] /\ queue[m] \in Seq(Actions)
        /\ submits' = submits /\ runs' = runs
        /\ \A u \in Threads : u # t => pc'[u] = pc[u] /\ job'[u] = job[u]
        /\ pc'[t] = "idle"
        /\ queue'[m] = Enqueued(queue[m], a)
        /\ \A l \in Lanes : l # m => queue'[l] = queue[l]
    BY <1>3 DEF Enqueue, Goto, MyLane, TypeOK
  <2>2. /\ \A l \in Lanes, b \in Actions :
             InSeq(queue'[l], b) =>
               InSeq(queue[l], b) \/ (l = m /\ b = a)
        /\ \A l \in Lanes : Distinct(queue[l]) => Distinct(queue'[l])
    <3>1. /\ \A b \in Actions : InSeq(queue'[m], b) => InSeq(queue[m], b) \/ b = a
          /\ Distinct(queue[m]) => Distinct(queue'[m])
      BY <2>1, EnqueuedFacts
    <3> QED
      BY <2>1, <3>1
  <2>3. Busy(t) /\ ~Busy(t)' /\ \A u \in Threads : u # t => (Busy(u)' <=> Busy(u))
    BY <2>1 DEF Busy
  <2> HIDE DEF m
  <2>4. QueueSound'
    BY <2>1, <2>2 DEF QueueSound
  <2>5. OneHand'
    <3>1. \A u \in Threads : Busy(u)' => u # t /\ job'[u] = job[u] /\ Busy(u)
      BY <2>1, <2>3
    <3>2. \A u \in Threads : Busy(u) => job[u] \in Actions
      BY DEF Busy, TypeOK
    <3> QED
      BY <2>2, <2>3, <3>1, <3>2 DEF OneHand
  <2>6. NotYetSubmitted'
    BY <2>1, <2>2, <2>3 DEF NotYetSubmitted
  <2>7. NotYetStarted' /\ AtMostOnce'
    BY <2>1, <2>2 DEF NotYetStarted, AtMostOnce
  <2> QED
    BY <2>4, <2>5, <2>6, <2>7
<1>4. ASSUME NEW t \in Threads, NEW ok \in BOOLEAN, HandlerDone(t, ok)
      PROVE  Flow'
  <2>1. /\ queue' = queue /\ job' = job /\ submits' = submits /\ runs' = runs
        /\ \A u \in Threads : Busy(u)' <=> Busy(u)
        /\ \A u \in Threads : pc'[u] \in {"entering", "enqueueing"} => pc'[u] = pc[u]
    BY <1>4 DEF HandlerDone, Goto, TypeOK, Busy
  <2> QED
    BY <2>1 DEF QueueSound, OneHand, NotYetSubmitted, NotYetStarted, AtMostOnce
<1>5. ASSUME NEW t \in Threads, Leave(t) PROVE Flow'
  <2>1. /\ queue' = queue /\ job' = job /\ submits' = submits /\ runs' = runs
        /\ \A u \in Threads : Busy(u)' <=> Busy(u)
        /\ \A u \in Threads : pc'[u] \in {"entering", "enqueueing"} => pc'[u] = pc[u]
    BY <1>5 DEF Leave, Goto, TypeOK, Busy
  <2> QED
    BY <2>1 DEF QueueSound, OneHand, NotYetSubmitted, NotYetStarted, AtMostOnce
<1>6. ASSUME NEW t \in Threads, Drain(t) PROVE Flow'
  <2> DEFINE a == job[t]
             m == MyLane(t)
             q == queue[m]
  <2>1. /\ pc[t] = "draining" /\ a \in Actions /\ m \in Lanes
        /\ q \in Seq(Actions) /\ Distinct(q)
        /\ submits' = submits /\ runs' = runs
        /\ \A u \in Threads : u # t => pc'[u] = pc[u] /\ job'[u] = job[u]
        /\ queue'[m] = Popped(q)
        /\ \A l \in Lanes : l # m => queue'[l] = queue[l]
    BY <1>6 DEF Drain, Goto, MyLane, TypeOK, QueueSound
  <2>2. /\ \A l \in Lanes, b \in Actions : InSeq(queue'[l], b) => InSeq(queue[l], b)
        /\ \A l \in Lanes : Distinct(queue[l]) => Distinct(queue'[l])
    BY <2>1, PoppedFacts
  <2>3. QueueSound' /\ AtMostOnce'
    BY <2>1, <2>2 DEF QueueSound, AtMostOnce
  <2>4. Busy(t) /\ \A u \in Threads : u # t => (Busy(u)' <=> Busy(u))
    BY <2>1 DEF Busy
  <2>5. \A u \in Threads : Busy(u) => job[u] \in Actions
    BY DEF Busy, TypeOK
  <2>6. CASE ~ExecutesNext(q, a)
    <3>1. ~Busy(t)' /\ pc'[t] = "idle"
      BY <1>6, <2>6 DEF Drain, Goto, Busy, TypeOK
    <3>2. \A u \in Threads : Busy(u)' => u # t /\ job'[u] = job[u] /\ Busy(u)
      BY <2>1, <2>4, <3>1
    <3>3. OneHand'
      BY <2>2, <2>5, <3>2 DEF OneHand
    <3>4. NotYetSubmitted'
      BY <2>1, <2>2, <3>2 DEF NotYetSubmitted
    <3>5. NotYetStarted'
      BY <2>1, <2>2, <3>1 DEF NotYetStarted
    <3> QED
      BY <2>3, <3>3, <3>4, <3>5
  <2>7. CASE ExecutesNext(q, a)
    <3> DEFINE h == Head(q)
    <3>1. /\ h \in Actions /\ InSeq(queue[m], h) /\ ~InSeq(queue'[m], h)
      BY <2>1, <2>7, PoppedFacts DEF ExecutesNext
    <3>2. job'[t] = h /\ pc'[t] = "entering"
      BY <1>6, <2>7 DEF Drain, Goto, TypeOK
    <3> HIDE DEF h, q, m
    <3>3. \A l \in Lanes : ~InSeq(queue'[l], h)
      BY <2>1, <2>2, <3>1 DEF QueueSound
    <3>4. h \in Repeated \/ \A u \in Threads : Busy(u) => job[u] # h
      BY <2>1, <3>1 DEF OneHand
    <3>5. OneHand'
      BY <2>1, <2>2, <2>4, <2>5, <3>2, <3>3, <3>4 DEF OneHand
    <3>6. NotYetSubmitted'
      <4>1. submits[h] # 0
        BY <2>1, <3>1 DEF NotYetSubmitted
      <4> QED
        BY <2>1, <2>2, <2>4, <3>2, <4>1 DEF NotYetSubmitted
    <3>7. NotYetStarted'
      <4>1. h \notin Repeated => runs[h] = 0
        BY <2>1, <3>1 DEF NotYetStarted
      <4> QED
        BY <2>1, <2>2, <3>2, <4>1 DEF NotYetStarted
    <3> QED
      BY <2>3, <3>5, <3>6, <3>7
  <2> QED
    BY <2>6, <2>7
<1>7. CASE UNCHANGED vars
  BY <1>7 DEF vars, QueueSound, OneHand, NotYetSubmitted, NotYetStarted,
              AtMostOnce, Busy
<1> QED
  BY <1>1, <1>2, <1>3, <1>4, <1>5, <1>6, <1>7 DEF Next

\* A recommendation that is submitted once has its side effect at most once,
\* through refusal, queueing, displacement, draining and queueing again.
THEOREM SideEffectAtMostOnce == Spec => []AtMostOnce
<1>1. Init => Flow
  BY InitFlow
<1>2. TypeOK /\ Flow /\ [Next]_vars => Flow'
  BY NextFlow
<1>3. Flow => AtMostOnce
  BY DEF Flow
<1> QED
  BY <1>1, <1>2, <1>3, TypeCorrect, PTL DEF Spec

-----------------------------------------------------------------------------
(* Serial execution                                                        *)

\* A lane without repeated recommendations.
Plain(l) == \A a \in Repeated : LaneOf[a] # l

\* On such a lane whoever executes also holds the lane.
ExecutorHolds ==
  \A t \in Threads :
    Executing(t) /\ Plain(MyLane(t)) => active[MyLane(t)] = job[t]

LEMMA NextExecutorHolds ==
  TypeOK /\ Flow /\ ExecutorHolds /\ [Next]_vars => ExecutorHolds'
<1> SUFFICES ASSUME TypeOK, Flow, ExecutorHolds, [Next]_vars
             PROVE  ExecutorHolds'
  OBVIOUS
<1> USE LanesAssumption, MarkersAreNoActions DEF LanesAssumption
<1> USE DEF ExecutorHolds, Executing
<1>1. ASSUME NEW t \in Threads, NEW a \in Actions, Submit(t, a)
      PROVE  ExecutorHolds'
  BY <1>1 DEF Submit, Goto, MyLane, TypeOK
<1>2. ASSUME NEW t \in Threads, TryEnter(t) PROVE ExecutorHolds'
  <2>1. CASE MayEnter(t)
    <3>1. /\ active' = [active EXCEPT ![MyLane(t)] = job[t]] /\ job' = job
          /\ \A u \in Threads : u # t => pc'[u] = pc[u]
          /\ job[t] \in Actions /\ MyLane(t) \in Lanes
          /\ active[MyLane(t)] \in {Free, job[t]}
          /\ pc[t] = "entering"
      BY <1>2, <2>1 DEF TryEnter, MayEnter, Goto, MyLane, TypeOK
    <3>2. active'[MyLane(t)] = job[t]
      BY <3>1 DEF TypeOK
    <3>3. ASSUME NEW u \in Threads, u # t, Executing(u), Plain(MyLane(u))
          PROVE  active'[MyLane(u)] = job[u]
      <4>1. active[MyLane(u)] = job[u] /\ job[u] \in Actions
        BY <3>3 DEF TypeOK
      <4>2. job[u] # job[t]
        BY <3>1, <3>3, <4>1 DEF Flow, OneHand, Busy, Plain, MyLane
      <4>3. MyLane(u) # MyLane(t)
        BY <3>1, <4>1, <4>2
      <4> QED
        BY <3>1, <4>1, <4>3 DEF TypeOK
    <3> QED
      BY <3>1, <3>2, <3>3 DEF MyLane, Plain
  <2>2. CASE ~MayEnter(t)
    BY <1>2, <2>2 DEF TryEnter, Goto, MyLane, TypeOK
  <2> QED
    BY <2>1, <2>2
<1>3. ASSUME NEW t \in Threads, Enqueue(t) PROVE ExecutorHolds'
  BY <1>3 DEF Enqueue, Goto, MyLane, TypeOK
<1>4. ASSUME NEW t \in Threads, NEW ok \in BOOLEAN, HandlerDone(t, ok)
      PROVE  ExecutorHolds'
  BY <1>4 DEF HandlerDone, Goto, MyLane, TypeOK
<1>5. ASSUME NEW t \in Threads, Leave(t) PROVE ExecutorHolds'
  <2>1. /\ job' = job /\ pc[t] = "leaving" /\ pc'[t] = "draining"
        /\ \A u \in Threads : u # t => pc'[u] = pc[u]
        /\ \A l \in Lanes :
             active'[l] = active[l] \/ active[l] = job[t]
    BY <1>5 DEF Leave, Freed, Goto, MyLane, TypeOK
  <2>2. ASSUME NEW u \in Threads, u # t, Executing(u), Plain(MyLane(u))
        PROVE  active'[MyLane(u)] = job[u]
    <3>1. active[MyLane(u)] = job[u] /\ MyLane(u) \in Lanes
      BY <2>2 DEF MyLane, TypeOK
    <3>2. job[u] # job[t]
      BY <2>1, <2>2 DEF Flow, OneHand, Busy, Plain, MyLane
    <3> QED
      BY <2>1, <3>1, <3>2
  <2> QED
    BY <2>1, <2>2 DEF MyLane, Plain
<1>6. ASSUME NEW t \in Threads, Drain(t) PROVE ExecutorHolds'
  <2>1. active' = active /\ ~Executing(t) /\ ~Executing(t)'
    BY <1>6 DEF Drain, Goto, TypeOK
  <2>2. \A u \in Threads : u # t => job'[u] = job[u] /\ pc'[u] = pc[u]
    BY <1>6 DEF Drain, Goto, TypeOK
  <2> QED
    BY <2>1, <2>2 DEF MyLane, Plain
<1>7. CASE UNCHANGED vars
  BY <1>7 DEF vars, MyLane, Plain
<1> QED
  BY <1>1, <1>2, <1>3, <1>4, <1>5, <1>6, <1>7 DEF Next

\* Side effects of a lane are serial, whatever the number of threads, except
\* on a lane with a recommendation that the pulse may submit again.
THEOREM SerialOnPlainLanes == Spec => []SerialUnlessRepeated
<1>1. Init => Flow /\ ExecutorHolds
  BY InitFlow DEF Init, ExecutorHolds, Executing
<1>2. TypeOK /\ (Flow /\ ExecutorHolds) /\ [Next]_vars
        => (Flow /\ ExecutorHolds)'
  BY NextFlow, NextExecutorHolds
<1>3. TypeOK /\ (Flow /\ ExecutorHolds) => SerialUnlessRepeated
  <2> SUFFICES ASSUME TypeOK, Flow, ExecutorHolds,
                      NEW t \in Threads, NEW u \in Threads,
                      Executing(t), Executing(u), MyLane(t) = MyLane(u),
                      Plain(MyLane(t))
               PROVE  t = u
    BY DEF SerialUnlessRepeated, Plain
  <2>1. job[t] = job[u]
    BY DEF ExecutorHolds
  <2>2. job[t] \notin Repeated
    BY DEF Plain, MyLane
  <2> QED
    BY <2>1, <2>2 DEF Flow, OneHand, Busy, Executing
<1> QED
  BY <1>1, <1>2, <1>3, TypeCorrect, PTL DEF Spec
=============================================================================

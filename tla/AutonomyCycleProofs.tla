------------------------ MODULE AutonomyCycleProofs ------------------------
(***************************************************************************)
(* Proofs about the autonomy cycle, for any number of coroutines and jobs, *)
(* any caps and any bounds.                                                *)
(***************************************************************************)
EXTENDS AutonomyCycle, FiniteSetTheorems, TLAPS

-----------------------------------------------------------------------------
(* Lemmas about the operators on the state file                            *)

LEMMA DefaultType == Default \in State
  BY AutonomyAssumption DEF Default, State, AutonomyAssumption, Windows,
     NoWindow

LEMMA RenewedType ==
  ASSUME NEW s \in State, window \in Windows
  PROVE  Renewed(s) \in State
  BY DefaultType DEF Renewed, State

LEMMA CountedType ==
  ASSUME NEW s \in State, NEW kind \in Kinds
  PROVE  /\ Counted(s, kind) \in State
         /\ Counted(s, kind).window = s.window
<1> DEFINE n == IF s.used[kind] < Cap[kind] THEN s.used[kind] + 1
                ELSE s.used[kind]
           u == [s.used EXCEPT ![kind] = n]
<1>1. n \in Nat
  BY DEF State
<1>2. u \in [Kinds -> Nat]
  BY <1>1 DEF State
<1>3. Counted(s, kind) = [s EXCEPT !.used = u]
  BY DEF Counted, State
<1> HIDE DEF n, u
<1> QED
  BY <1>2, <1>3 DEF State

LEMMA NotedType ==
  ASSUME NEW s \in State, NEW kind \in Kinds
  PROVE  /\ Noted(s, kind) \in State
         /\ Noted(s, kind).window = s.window
<1> DEFINE u == [s.startup EXCEPT ![kind] = s.window]
<1>1. u \in [Kinds -> Windows \cup {NoWindow}]
  BY DEF State
<1>2. Noted(s, kind) = [s EXCEPT !.startup = u]
  BY DEF Noted, State
<1> HIDE DEF u
<1> QED
  BY <1>1, <1>2 DEF State

LEMMA RecordedType ==
  ASSUME NEW s \in State, NEW ok \in SUBSET Jobs, NEW failed \in SUBSET Jobs,
         NEW over \in SUBSET Jobs, tried \in [Jobs -> Nat]
  PROVE  Recorded(s, ok, failed, over) \in State
<1> DEFINE all == ok \cup failed
           fails == [j \in Jobs |-> IF j \in ok THEN 0
                                    ELSE IF j \in failed THEN s.fails[j] + 1
                                    ELSE s.fails[j]]
           count == [j \in Jobs |-> IF j \in all THEN s.count[j] + 1
                                    ELSE s.count[j]]
           stamp == [j \in Jobs |-> IF j \in all THEN tried[j] + 1
                                    ELSE s.stamp[j]]
           gone == s.escalated \cup over
                     \cup {j \in failed : fails[j] >= FailureLimit}
<1>1. fails \in [Jobs -> Nat]
  BY DEF State
<1>2. count \in [Jobs -> Nat]
  BY DEF State
<1>3. stamp \in [Jobs -> Nat]
  BY DEF State
<1>4. gone \in SUBSET Jobs
  BY DEF State
<1>5. Recorded(s, ok, failed, over) =
        [s EXCEPT !.count = count, !.stamp = stamp, !.fails = fails,
                  !.escalated = gone]
  BY DEF Recorded, State
<1> HIDE DEF fails, count, stamp, gone
<1> QED
  BY <1>1, <1>2, <1>3, <1>4, <1>5 DEF State

-----------------------------------------------------------------------------
(* Type correctness                                                        *)

LEMMA InitTypeOK == Init => TypeOK
<1> SUFFICES ASSUME Init PROVE TypeOK
  OBVIOUS
<1>1. /\ 0 \in Windows /\ 0 \in 0 .. StopBound /\ 0 \in 0 .. DueBound
      /\ "cadence" \in Modes
  BY AutonomyAssumption DEF Windows, AutonomyAssumption
<1>2. /\ window \in Windows /\ stops \in 0 .. StopBound
      /\ dues \in 0 .. DueBound /\ {overtaken, lost} \subseteq Nat
  BY <1>1 DEF Init
<1>3. /\ pc \in [Cycles -> Places] /\ mode \in [Cycles -> Modes]
      /\ copy \in [Cycles -> State] /\ saved \in State /\ dueCopy \in State
  BY <1>1, DefaultType DEF Init, Places
<1>4. /\ spent \in [Kinds -> [Windows -> Nat]]
      /\ woken \in [Kinds -> [Windows -> Nat]]
  BY DEF Init
<1>5. /\ cooled \in [Jobs -> Nat] /\ tried \in [Jobs -> Nat]
      /\ dead \in Seq(Letter) /\ dirty \subseteq Cycles /\ reported \subseteq Cycles
  BY DEF Init
<1>6. running \in BOOLEAN /\ dueBusy \in BOOLEAN /\ booting \in BOOLEAN
  BY DEF Init
<1> QED
  BY <1>2, <1>3, <1>4, <1>5, <1>6 DEF TypeOK

\* The types of what most steps leave alone or change one point of.
LEMMA EndedType ==
  ASSUME TypeOK, NEW c \in Cycles, Ended(c)
  PROVE  /\ pc' \in [Cycles -> Places]
         /\ mode' \in [Cycles -> Modes]
         /\ copy' \in [Cycles -> State]
         /\ dirty' \subseteq Cycles
  BY DefaultType, AutonomyAssumption
     DEF Ended, TypeOK, Places, AutonomyAssumption

LEMMA BeginType ==
  ASSUME TypeOK, NEW c \in Cycles, NEW m \in Modes, NEW idle \in BOOLEAN,
         Begin(c, m, idle)
  PROVE  TypeOK'
<1>1. Renewed(saved) \in State
  BY RenewedType DEF TypeOK
<1>2. copy' \in [Cycles -> State] /\ mode' \in [Cycles -> Modes]
  BY <1>1 DEF Begin, TypeOK
<1>3. pc' \in [Cycles -> Places]
  BY DEF Begin, Goto, TypeOK, Places
<1>4. booting' \in BOOLEAN /\ running' \in BOOLEAN
  BY DEF Begin, TypeOK
<1> QED
  BY <1>2, <1>3, <1>4 DEF Begin, TypeOK, due, letters, budgets

LEMMA SpendType ==
  ASSUME TypeOK, NEW c \in Cycles, NEW kind \in Kinds, Spend(c, kind)
  PROVE  TypeOK'
<1>1. /\ Counted(copy[c], kind) \in State /\ Noted(copy[c], kind) \in State
      /\ copy[c].window \in Windows
  BY CountedType, NotedType DEF TypeOK, State
<1>2. pc' \in [Cycles -> Places]
  BY DEF Spend, Goto, After, TypeOK, Places
<1>3. /\ copy' \in [Cycles -> State] /\ dirty' \subseteq Cycles
      /\ spent' \in [Kinds -> [Windows -> Nat]]
      /\ woken' \in [Kinds -> [Windows -> Nat]]
  <2>1. CASE SpendCadence(c, kind)
    <3>1. spent' = [spent EXCEPT ![kind] =
                      [spent[kind] EXCEPT ![copy[c].window] =
                        spent[kind][copy[c].window] + 1]]
      BY <2>1, <1>1 DEF SpendCadence, TypeOK
    <3>2. [spent[kind] EXCEPT ![copy[c].window] =
             spent[kind][copy[c].window] + 1] \in [Windows -> Nat]
      BY <1>1 DEF TypeOK
    <3> QED
      BY <2>1, <1>1, <3>1, <3>2 DEF SpendCadence, TypeOK
  <2>2. CASE SpendStartup(c, kind)
    <3>1. woken' = [woken EXCEPT ![kind] =
                      [woken[kind] EXCEPT ![copy[c].window] =
                        woken[kind][copy[c].window] + 1]]
      BY <2>2, <1>1 DEF SpendStartup, TypeOK
    <3>2. [woken[kind] EXCEPT ![copy[c].window] =
             woken[kind][copy[c].window] + 1] \in [Windows -> Nat]
      BY <1>1 DEF TypeOK
    <3> QED
      BY <2>2, <1>1, <3>1, <3>2 DEF SpendStartup, TypeOK
  <2>3. CASE SpendForced(c, kind)
    BY <2>3, <1>1 DEF SpendForced, TypeOK
  <2> QED
    BY <2>1, <2>2, <2>3 DEF Spend
<1> QED
  BY <1>2, <1>3 DEF Spend, TypeOK, due, letters

LEMMA TakenOutType ==
  ASSUME dead \in Seq(Letter), NEW gone, TakenOut(gone)
  PROVE  dead' \in Seq(Letter)
<1>1. PICK n \in Nat :
        \E place \in [1 .. n -> 1 .. Len(dead)] :
          dead' = [k \in 1 .. n |-> dead[place[k]]]
  BY DEF TakenOut
<1>2. PICK place \in [1 .. n -> 1 .. Len(dead)] :
        dead' = [k \in 1 .. n |-> dead[place[k]]]
  BY <1>1
<1>3. \A k \in 1 .. n : dead[place[k]] \in Letter
  BY <1>2
<1> QED
  BY <1>2, <1>3

LEMMA ReplayPassType ==
  ASSUME TypeOK, NEW c \in Cycles, ReplayPass(c)
  PROVE  TypeOK'
<1>1. copy[c] \in State /\ tried \in [Jobs -> Nat]
  BY DEF TypeOK
<1>2. /\ DueForReplay(copy[c]) \subseteq Jobs
      /\ \A all \in SUBSET Jobs : Outworn(copy[c], all) \subseteq Jobs
  BY DEF DueForReplay, Outworn, Exhausted, JustExhausted, Open
<1>3. ASSUME NEW all \in SUBSET Jobs, Tried(all)
      PROVE  tried' \in [Jobs -> Nat] /\ dead' \in Seq(Letter)
  BY <1>3, TakenOutType DEF Tried, TypeOK
<1>4. ASSUME NEW ok \in SUBSET Jobs, NEW failed \in SUBSET Jobs,
             NEW over \in SUBSET Jobs, Replay(c, ok, failed, over)
      PROVE  TypeOK'
  <2>1. copy' \in [Cycles -> State]
    BY <1>4, <1>1, RecordedType DEF Replay, TypeOK
  <2>2. tried' \in [Jobs -> Nat] /\ dead' \in Seq(Letter)
    BY <1>4, <1>3 DEF Replay
  <2>3. pc' \in [Cycles -> Places]
    BY <1>4 DEF Replay, Goto, TypeOK, Places
  <2>4. dirty' \subseteq Cycles
    BY <1>4 DEF Replay, TypeOK
  <2> QED
    BY <1>4, <2>1, <2>2, <2>3, <2>4 DEF Replay, TypeOK, due, budgets
<1>5. ASSUME NEW ok \in SUBSET Jobs, ReplayRaises(c, ok) PROVE TypeOK'
  <2>1. tried' \in [Jobs -> Nat] /\ dead' \in Seq(Letter)
    BY <1>5, <1>3 DEF ReplayRaises
  <2>2. pc' \in [Cycles -> Places]
    BY <1>5 DEF ReplayRaises, Goto, TypeOK, Places
  <2>3. stops' \in 0 .. StopBound /\ lost' \in Nat
    BY <1>5, AutonomyAssumption DEF ReplayRaises, TypeOK, AutonomyAssumption
  <2> QED
    BY <1>5, <2>1, <2>2, <2>3 DEF ReplayRaises, TypeOK, due, budgets
<1>6. CASE ReplaySkipped(c)
  BY <1>6 DEF ReplaySkipped, Goto, TypeOK, Places, due, letters, budgets
<1> QED
  BY <1>2, <1>4, <1>5, <1>6 DEF ReplayPass

LEMMA NextTypeOK == TypeOK /\ [Next]_vars => TypeOK'
<1> SUFFICES ASSUME TypeOK, [Next]_vars PROVE TypeOK'
  OBVIOUS
<1>1. ASSUME NEW c \in Cycles, NEW kind \in {"reflection", "workflow"},
             Pass(c, kind)
      PROVE  TypeOK'
  BY <1>1 DEF Pass, Goto, After, TypeOK, Places, due, letters, budgets
<1>2. ASSUME NEW c \in Cycles, Save(c) PROVE TypeOK'
  <2>1. saved' \in State /\ overtaken' \in Nat /\ reported' \subseteq Cycles
    BY <1>2 DEF Save, TypeOK
  <2> QED
    BY <1>2, <2>1, EndedType DEF Save, TypeOK, letters, budgets
<1>3. ASSUME NEW c \in Cycles, Cut(c), reported' \subseteq Cycles PROVE TypeOK'
  <2>1. stops' \in 0 .. StopBound /\ lost' \in Nat
    BY <1>3, AutonomyAssumption DEF Cut, TypeOK, AutonomyAssumption
  <2> QED
    BY <1>3, <2>1, EndedType DEF Cut, Freed, TypeOK, due, letters, budgets
<1>4. CASE StartupRefused
  BY <1>4 DEF StartupRefused, TypeOK, cycles, due, letters, budgets
<1>5. CASE Restart
  <2>1. Cardinality(dirty) \in Nat
    BY FS_Subset, FS_CardinalityType, AutonomyAssumption
       DEF TypeOK, AutonomyAssumption
  <2>2. stops' \in 0 .. StopBound /\ lost' \in Nat
    BY <1>5, <2>1, AutonomyAssumption DEF Restart, TypeOK, AutonomyAssumption
  <2>3. /\ pc' \in [Cycles -> Places] /\ mode' \in [Cycles -> Modes]
        /\ copy' \in [Cycles -> State] /\ dueCopy' \in State
    BY <1>5, DefaultType, AutonomyAssumption
       DEF Restart, Places, AutonomyAssumption
  <2>4. /\ {overtaken', lost'} \subseteq Nat
        /\ dirty' \subseteq Cycles /\ reported' \subseteq Cycles
    BY <1>5, <2>2 DEF Restart
  <2>5. running' \in BOOLEAN /\ dueBusy' \in BOOLEAN /\ booting' \in BOOLEAN
    BY <1>5 DEF Restart
  <2> QED
    BY <1>5, <2>2, <2>3, <2>4, <2>5 DEF Restart, TypeOK, letters, budgets
<1>6. CASE DueLoad
  <2>1. dues' \in 0 .. DueBound
    BY <1>6, AutonomyAssumption DEF DueLoad, TypeOK, AutonomyAssumption
  <2> QED
    BY <1>6, <2>1 DEF DueLoad, TypeOK, cycles, letters, budgets
<1>7. CASE DueSave
  <2> overtaken \in Nat /\ lost \in Nat
    BY DEF TypeOK
  <2>1. overtaken' = 0 /\ lost' = lost + overtaken /\ dueBusy' = FALSE
    BY <1>7 DEF DueSave
  <2>2. overtaken' \in Nat /\ lost' \in Nat
    BY <2>1
  <2>3. saved' \in State /\ dueCopy' \in State
    BY <1>7, DefaultType DEF DueSave, TypeOK
  <2>4. dueBusy' \in BOOLEAN
    BY <2>1
  <2> QED
    BY <1>7, <2>2, <2>3, <2>4 DEF DueSave, TypeOK, cycles, letters, budgets
<1>8. ASSUME NEW j \in Jobs, NEW replayable \in Failures[j],
             DeadLetter(j, replayable)
      PROVE  TypeOK'
  <2>1. replayable \in BOOLEAN
    BY AutonomyAssumption DEF AutonomyAssumption
  <2>2. [job |-> j, replayable |-> replayable] \in Letter
    BY <2>1 DEF Letter
  <2> DEFINE all == Append(dead, [job |-> j, replayable |-> replayable])
  <2>3. all \in Seq(Letter) /\ Len(all) = Len(dead) + 1 /\ Len(dead) \in Nat
    BY <2>2 DEF TypeOK
  <2>4. dead' = IF Len(all) > LettersKept THEN Tail(all) ELSE all
    BY <1>8 DEF DeadLetter
  <2> HIDE DEF all
  <2>5. dead' \in Seq(Letter)
    BY <2>3, <2>4
  <2> QED
    BY <1>8, <2>5 DEF DeadLetter, TypeOK, cycles, due, budgets
<1>9. ASSUME NEW j \in Jobs, Cool(j) PROVE TypeOK'
  BY <1>9 DEF Cool, TypeOK, cycles, due, budgets
<1>10. CASE NextWindow
  BY <1>10, AutonomyAssumption
     DEF NextWindow, TypeOK, Windows, AutonomyAssumption, cycles, due, letters,
         budgets
<1>11. ASSUME NEW c \in Cycles, Fail(c) \/ TimeOut(c) PROVE TypeOK'
  <2>1. Cut(c) /\ reported' \subseteq Cycles
    BY <1>11 DEF Fail, TimeOut, TypeOK
  <2> QED
    BY <2>1, <1>3
<1>12. ASSUME NEW c \in Cycles, Advance(c) PROVE TypeOK'
  BY <1>12, <1>1, <1>2, SpendType, ReplayPassType DEF Advance
<1>13. CASE UNCHANGED vars
  BY <1>13 DEF vars, TypeOK, cycles, due, letters, budgets
<1> QED
  BY <1>4, <1>5, <1>6, <1>7, <1>8, <1>9, <1>10, <1>11, <1>12, <1>13, BeginType
     DEF Next

\* Every variable keeps its type; in particular what a cycle, a due check or a
\* restart leaves in the state file is always a state the next load accepts.
THEOREM TypeCorrect == Spec => []TypeOK
<1>1. Init => TypeOK
  BY InitTypeOK
<1>2. TypeOK /\ [Next]_vars => TypeOK'
  BY NextTypeOK
<1> QED
  BY <1>1, <1>2, PTL DEF Spec

-----------------------------------------------------------------------------
(* One cycle at a time                                                     *)

Alone == \A c, d \in Cycles : pc[c] # "idle" /\ pc[d] # "idle" => c = d

FlagTells == running <=> \E c \in Cycles : pc[c] # "idle"

Exclusion == Alone /\ FlagTells

\* A step of a cycle that goes on keeps it under way and leaves the flag.
LEMMA GoesOn ==
  ASSUME TypeOK, Exclusion, NEW c \in Cycles, NEW place \in Places \ {"idle"},
         pc[c] # "idle", Goto(c, place), running' = running
  PROVE  Exclusion'
  BY DEF Goto, TypeOK, Exclusion, Alone, FlagTells

\* A cycle that ends leaves none under way.
LEMMA Ends ==
  ASSUME TypeOK, Exclusion, NEW c \in Cycles,
         pc[c] # "idle", Ended(c), running' = FALSE
  PROVE  Exclusion'
  BY DEF Ended, TypeOK, Exclusion, Alone, FlagTells

LEMMA AdvanceExclusion ==
  ASSUME TypeOK, Exclusion, NEW c \in Cycles, Advance(c)
  PROVE  Exclusion'
<1>1. ASSUME NEW kind \in {"reflection", "workflow"},
             pc[c] = kind, Goto(c, After(kind)), running' = running
      PROVE  Exclusion'
  BY <1>1, GoesOn DEF After, Places
<1>2. ASSUME NEW kind \in Kinds, Spend(c, kind) PROVE Exclusion'
  BY <1>1, <1>2, AutonomyAssumption DEF Spend, AutonomyAssumption
<1>3. ASSUME NEW kind \in {"reflection", "workflow"}, Pass(c, kind)
      PROVE  Exclusion'
  BY <1>1, <1>3 DEF Pass
<1>4. CASE ReplayPass(c)
  <2>1. pc[c] = "replay" /\ Goto(c, "save") /\ running' = running
    BY <1>4 DEF ReplayPass, Replay, ReplayRaises, ReplaySkipped
  <2> QED
    BY <2>1, GoesOn DEF Places
<1>5. CASE Save(c)
  BY <1>5, Ends DEF Save
<1> QED
  BY <1>2, <1>3, <1>4, <1>5 DEF Advance

LEMMA NextExclusion == TypeOK /\ Exclusion /\ [Next]_vars => Exclusion'
<1> SUFFICES ASSUME TypeOK, Exclusion, [Next]_vars PROVE Exclusion'
  OBVIOUS
<1>1. ASSUME NEW c \in Cycles, NEW m \in Modes, NEW idle \in BOOLEAN,
             Begin(c, m, idle)
      PROVE  Exclusion'
  <2>1. \A d \in Cycles : pc[d] = "idle"
    BY <1>1 DEF Begin, Free, Exclusion, FlagTells
  <2>2. PICK place \in {"reflection", "replay"} :
          pc' = [pc EXCEPT ![c] = place]
    BY <1>1 DEF Begin, Goto
  <2>3. running' = TRUE
    BY <1>1 DEF Begin
  <2> QED
    BY <2>1, <2>2, <2>3 DEF TypeOK, Exclusion, Alone, FlagTells
<1>2. ASSUME NEW c \in Cycles, Fail(c) \/ TimeOut(c) PROVE Exclusion'
  BY <1>2, Ends DEF Fail, TimeOut, Cut, Freed
<1>3. CASE Restart
  BY <1>3 DEF Restart, Exclusion, Alone, FlagTells
<1>4. ASSUME UNCHANGED <<pc, running>> PROVE Exclusion'
  BY <1>4 DEF Exclusion, Alone, FlagTells
<1>5. CASE StartupRefused \/ DueLoad \/ DueSave \/ NextWindow
  BY <1>5, <1>4 DEF StartupRefused, DueLoad, DueSave, NextWindow, cycles
<1>6. ASSUME NEW j \in Jobs,
             (\E replayable \in Failures[j] : DeadLetter(j, replayable)) \/ Cool(j)
      PROVE  Exclusion'
  BY <1>6, <1>4 DEF DeadLetter, Cool, cycles
<1>7. CASE UNCHANGED vars
  BY <1>7, <1>4 DEF vars, cycles
<1> QED
  BY <1>1, <1>2, <1>3, <1>5, <1>6, <1>7, AdvanceExclusion DEF Next

LEMMA ExclusionCounts == Exclusion => OneCycleAtATime
<1> SUFFICES ASSUME Exclusion PROVE OneCycleAtATime
  OBVIOUS
<1> DEFINE busy == {c \in Cycles : pc[c] # "idle"}
<1>1. CASE busy = {}
  BY <1>1, FS_EmptySet DEF Exclusion, FlagTells, OneCycleAtATime
<1>2. CASE busy # {}
  <2>1. PICK c \in busy : busy = {c}
    BY <1>2 DEF Exclusion, Alone
  <2>2. Cardinality(busy) = 1
    BY <2>1, FS_Singleton
  <2> QED
    BY <2>2 DEF Exclusion, FlagTells, OneCycleAtATime
<1> QED
  BY <1>1, <1>2

\* However a cycle is scheduled, cut short, timed out or restarted, at most one
\* is between its guard and its save, and the flag is set exactly then: it is
\* never left set by a cycle that is gone, which would end autonomy for good.
THEOREM GuardExcludes == Spec => []OneCycleAtATime
<1>1. Init => TypeOK /\ Exclusion
  BY InitTypeOK DEF Init, Exclusion, Alone, FlagTells
<1>2. TypeOK /\ Exclusion /\ [Next]_vars => (TypeOK /\ Exclusion)'
  BY NextTypeOK, NextExclusion
<1>3. Exclusion => OneCycleAtATime
  BY ExclusionCounts
<1> QED
  BY <1>1, <1>2, <1>3, PTL DEF Spec

-----------------------------------------------------------------------------
(* What the state file accounts for.  Each of four counts of things done   *)
(* (reflections and workflows per window, of the cadence and of the        *)
(* startup; replays per job, by number and by stamp) is compared with what *)
(* a state says of it: K[s] is what the state s admits to, and no more is  *)
(* missing from it than was lost, or is about to be saved.                 *)

\* Places where a cycle has the kind, or its replays, behind it.
Past(kind) == IF kind = "reflection" THEN {"workflow", "replay", "save"}
              ELSE {"replay", "save"}

\* A cycle at one of the places has something to save.
Unsaved(P) == IF \E c \in dirty : pc[c] \in P THEN 1 ELSE 0

Accounted(K, d, P) ==
  /\ d <= K[saved] + lost + Unsaved(P)
  /\ dueBusy => d <= K[dueCopy] + lost + overtaken + Unsaved(P)
  /\ \A c \in Cycles : pc[c] # "idle" => d <= K[copy[c]] + lost

DirtyBusy == \A c \in dirty : pc[c] # "idle"

Base == TypeOK /\ Exclusion /\ DirtyBusy

LEMMA UnsavedRange == ASSUME NEW P PROVE Unsaved(P) \in {0, 1}
  BY DEF Unsaved

\* What a cycle under way does, up to its save.
Goes(c, new, place) ==
  /\ pc[c] # "idle" /\ Goto(c, place)
  /\ copy' = [copy EXCEPT ![c] = new]
  /\ dirty \subseteq dirty' /\ dirty' \subseteq dirty \cup {c}
  /\ UNCHANGED <<saved, dueBusy, dueCopy, overtaken>>
  /\ lost' \in {lost, lost + 1}

\* A thing done once more is admitted to by the copy and is still to be saved,
\* or its record is lost.
LEMMA GoesAccounts ==
  ASSUME Base, NEW K \in [State -> Nat], NEW d \in Nat, NEW e \in Nat,
         NEW P \in SUBSET Places, Accounted(K, d, P),
         NEW c \in Cycles, NEW new \in State, NEW place \in Places \ {"idle"},
         Goes(c, new, place), K[copy[c]] <= K[new],
         pc[c] \in P => place \in P,
         \/ e = d
         \/ e = d + 1 /\ lost' = lost + 1
         \/ /\ e = d + 1 /\ K[copy[c]] + 1 <= K[new]
            /\ c \in dirty' /\ pc[c] \notin P /\ place \in P
  PROVE  Accounted(K, e, P)'
<1>1. /\ lost \in Nat /\ overtaken \in Nat /\ lost' \in Nat
      /\ saved \in State /\ dueCopy \in State /\ copy \in [Cycles -> State]
      /\ pc \in [Cycles -> Places] /\ dirty \subseteq Cycles
      /\ UNCHANGED <<saved, dueBusy, dueCopy, overtaken>> /\ lost <= lost'
  BY DEF Base, TypeOK, Goes
<1>2. /\ pc'[c] = place /\ copy'[c] = new
      /\ \A b \in Cycles : b # c => pc'[b] = "idle" /\ pc[b] = "idle"
  BY <1>1 DEF Goes, Goto, Base, Exclusion, Alone
<1>3. dirty \subseteq {c}
  BY <1>1, <1>2 DEF Base, DirtyBusy
<1>4. /\ Unsaved(P) = IF c \in dirty /\ pc[c] \in P THEN 1 ELSE 0
      /\ Unsaved(P)' = IF c \in dirty' /\ place \in P THEN 1 ELSE 0
  BY <1>2, <1>3 DEF Unsaved, Goes
<1>5. Unsaved(P) <= Unsaved(P)' /\ Unsaved(P) \in {0, 1} /\ Unsaved(P)' \in {0, 1}
  BY <1>4 DEF Goes
<1>6. \/ e = d
      \/ e = d + 1 /\ lost' = lost + 1
      \/ e = d + 1 /\ Unsaved(P) = 0 /\ Unsaved(P)' = 1
  BY <1>4
<1>7. e + lost + Unsaved(P) <= d + lost' + Unsaved(P)'
  BY <1>1, <1>5, <1>6
<1>8. e <= K[saved] + lost' + Unsaved(P)'
  <2>1. d <= K[saved] + lost + Unsaved(P) /\ K[saved] \in Nat
    BY <1>1 DEF Accounted
  <2> QED
    BY <1>1, <1>5, <1>7, <2>1
<1>9. dueBusy => e <= K[dueCopy] + lost' + overtaken + Unsaved(P)'
  <2>1. (dueBusy => d <= K[dueCopy] + lost + overtaken + Unsaved(P))
        /\ K[dueCopy] \in Nat
    BY <1>1 DEF Accounted
  <2> QED
    BY <1>1, <1>5, <1>7, <2>1
<1>10. e <= K[new] + lost'
  <2>1. d <= K[copy[c]] + lost /\ K[copy[c]] \in Nat /\ K[new] \in Nat
    BY <1>1 DEF Accounted, Goes
  <2> QED
    BY <1>1, <2>1
<1> QED
  BY <1>1, <1>2, <1>8, <1>9, <1>10 DEF Accounted

\* A cycle begins on what is saved when no other is under way.
LEMMA BeginAccounts ==
  ASSUME Base, NEW K \in [State -> Nat], NEW d \in Nat,
         NEW P \in SUBSET Places, Accounted(K, d, P),
         NEW c \in Cycles, NEW m \in Modes, NEW idle \in BOOLEAN,
         Begin(c, m, idle), K[saved] <= K[Renewed(saved)]
  PROVE  Accounted(K, d, P)'
<1>1. \A b \in Cycles : pc[b] = "idle"
  BY DEF Begin, Free, Base, Exclusion, FlagTells
<1>2. dirty = {} /\ dirty' = {}
  BY <1>1 DEF Base, DirtyBusy, TypeOK, Begin
<1>3. Unsaved(P) = 0 /\ Unsaved(P)' = 0
  BY <1>2 DEF Unsaved
<1>4. /\ UNCHANGED <<saved, dueBusy, dueCopy, overtaken, lost>>
      /\ copy'[c] = Renewed(saved)
      /\ \A b \in Cycles : b # c => pc'[b] = "idle"
  BY <1>1 DEF Begin, Goto, due, Base, TypeOK
<1>5. d <= K[Renewed(saved)] + lost
  <2>1. saved \in State /\ Renewed(saved) \in State /\ lost \in Nat
    BY RenewedType DEF Base, TypeOK
  <2>2. K[saved] \in Nat /\ K[Renewed(saved)] \in Nat
    BY <2>1
  <2>3. d <= K[saved] + lost
    BY <1>3, <2>1, <2>2 DEF Accounted
  <2> QED
    BY <2>1, <2>2, <2>3
<1> QED
  BY <1>3, <1>4, <1>5 DEF Accounted

\* A save hands what the copy admits to on to the file; a due check that
\* waits has missed it.
LEMMA SaveAccounts ==
  ASSUME Base, NEW K \in [State -> Nat], NEW d \in Nat,
         NEW P \in SUBSET Places, Accounted(K, d, P), NEW c \in Cycles, Save(c)
  PROVE  Accounted(K, d, P)'
<1>1. /\ lost \in Nat /\ overtaken \in Nat /\ dueCopy \in State
      /\ copy \in [Cycles -> State] /\ pc \in [Cycles -> Places]
      /\ dirty \subseteq Cycles
  BY DEF Base, TypeOK
<1>2. /\ pc[c] = "save" /\ saved' = copy[c]
      /\ UNCHANGED <<lost, dueBusy, dueCopy>>
      /\ overtaken' = IF dueBusy /\ c \in dirty THEN overtaken + 1 ELSE overtaken
      /\ pc' = [pc EXCEPT ![c] = "idle"] /\ dirty' = dirty \ {c}
  BY DEF Save, Ended
<1>3. \A b \in Cycles : b # c => pc[b] = "idle"
  BY <1>2 DEF Base, Exclusion, Alone
<1>4. dirty \subseteq {c} /\ dirty' = {} /\ \A b \in Cycles : pc'[b] = "idle"
  BY <1>1, <1>2, <1>3 DEF Base, DirtyBusy
<1>5. Unsaved(P)' = 0
  BY <1>4 DEF Unsaved
<1>6. Unsaved(P) = 0 \/ (c \in dirty /\ Unsaved(P) = 1)
  BY <1>4 DEF Unsaved
<1>7. d <= K[copy[c]] + lost /\ K[copy[c]] \in Nat
  BY <1>1, <1>2 DEF Accounted
<1>8. dueBusy => d <= K[dueCopy] + lost + overtaken'
  <2>1. K[dueCopy] \in Nat
        /\ (dueBusy => d <= K[dueCopy] + lost + overtaken + Unsaved(P))
    BY <1>1 DEF Accounted
  <2> QED
    BY <1>1, <1>2, <1>6, <2>1
<1>9. overtaken' \in Nat
  BY <1>1, <1>2
<1> QED
  BY <1>1, <1>2, <1>4, <1>5, <1>7, <1>8, <1>9 DEF Accounted

\* A cycle that is cut short loses what it had to save.
LEMMA CutAccounts ==
  ASSUME Base, NEW K \in [State -> Nat], NEW d \in Nat,
         NEW P \in SUBSET Places, Accounted(K, d, P), NEW c \in Cycles, Cut(c)
  PROVE  Accounted(K, d, P)'
<1>1. /\ lost \in Nat /\ overtaken \in Nat
      /\ saved \in State /\ dueCopy \in State
      /\ pc \in [Cycles -> Places] /\ dirty \subseteq Cycles
  BY DEF Base, TypeOK
<1>2. /\ pc[c] # "idle" /\ lost' = IF c \in dirty THEN lost + 1 ELSE lost
      /\ UNCHANGED <<saved, dueBusy, dueCopy, overtaken>>
      /\ pc' = [pc EXCEPT ![c] = "idle"] /\ dirty' = dirty \ {c}
  BY DEF Cut, Ended, due
<1>3. \A b \in Cycles : b # c => pc[b] = "idle"
  BY <1>2 DEF Base, Exclusion, Alone
<1>4. dirty \subseteq {c} /\ dirty' = {} /\ \A b \in Cycles : pc'[b] = "idle"
  BY <1>1, <1>2, <1>3 DEF Base, DirtyBusy
<1>5. Unsaved(P)' = 0
  BY <1>4 DEF Unsaved
<1>6. Unsaved(P) = 0 \/ (c \in dirty /\ Unsaved(P) = 1)
  BY <1>4 DEF Unsaved
<1>7. lost + Unsaved(P) <= lost' /\ lost' \in Nat
  BY <1>1, <1>2, <1>6
<1>8. K[saved] \in Nat /\ K[dueCopy] \in Nat /\ Unsaved(P) \in {0, 1}
  BY <1>1, <1>6
<1>9. d <= K[saved] + lost' /\ (dueBusy => d <= K[dueCopy] + lost' + overtaken)
  BY <1>1, <1>7, <1>8 DEF Accounted
<1> QED
  BY <1>1, <1>2, <1>4, <1>5, <1>7, <1>8, <1>9 DEF Accounted

LEMMA RestartAccounts ==
  ASSUME Base, NEW K \in [State -> Nat], NEW d \in Nat,
         NEW P \in SUBSET Places, Accounted(K, d, P), Restart
  PROVE  Accounted(K, d, P)'
<1>1. /\ lost \in Nat /\ saved \in State /\ dirty \subseteq Cycles
      /\ Cardinality(dirty) \in Nat /\ IsFiniteSet(dirty)
  BY FS_Subset, FS_CardinalityType, AutonomyAssumption
     DEF Base, TypeOK, AutonomyAssumption
<1>2. /\ saved' = saved /\ dueBusy' = FALSE /\ dirty' = {}
      /\ lost' = lost + Cardinality(dirty)
      /\ \A c \in Cycles : pc'[c] = "idle"
  BY DEF Restart
<1>3. Unsaved(P)' = 0 /\ Unsaved(P) \in {0, 1}
  BY <1>2 DEF Unsaved
<1>4. Unsaved(P) <= Cardinality(dirty)
  <2>1. CASE dirty = {}
    BY <1>1, <2>1 DEF Unsaved
  <2>2. CASE dirty # {}
    <3>1. Cardinality(dirty) # 0
      BY <1>1, <2>2, FS_EmptySet
    <3> QED
      BY <1>1, <1>3, <3>1
  <2> QED
    BY <2>1, <2>2
<1>5. d <= K[saved] + lost'
  <2>1. K[saved] \in Nat /\ d <= K[saved] + lost + Unsaved(P)
    BY <1>1 DEF Accounted
  <2> QED
    BY <1>1, <1>2, <1>3, <1>4, <2>1
<1> QED
  BY <1>1, <1>2, <1>3, <1>5 DEF Accounted

LEMMA DueAccounts ==
  ASSUME Base, NEW K \in [State -> Nat], NEW d \in Nat,
         NEW P \in SUBSET Places, Accounted(K, d, P), DueLoad \/ DueSave
  PROVE  Accounted(K, d, P)'
<1>1. /\ lost \in Nat /\ overtaken \in Nat /\ saved \in State /\ dueCopy \in State
      /\ copy \in [Cycles -> State]
  BY DEF Base, TypeOK
<1>2. UNCHANGED <<pc, copy, dirty>>
  BY DEF DueLoad, DueSave, cycles
<1>3. Unsaved(P)' = Unsaved(P) /\ Unsaved(P) \in {0, 1}
  BY <1>2 DEF Unsaved
<1>4. CASE DueLoad
  BY <1>1, <1>2, <1>3, <1>4 DEF DueLoad, Accounted
<1>5. CASE DueSave
  <2>1. /\ saved' = dueCopy /\ lost' = lost + overtaken /\ dueBusy /\ ~dueBusy'
    BY <1>5 DEF DueSave
  <2>2. d <= K[saved'] + lost' + Unsaved(P)'
    BY <1>1, <1>3, <2>1 DEF Accounted
  <2>3. ASSUME NEW c \in Cycles, pc'[c] # "idle" PROVE d <= K[copy'[c]] + lost'
    <3>1. d <= K[copy[c]] + lost /\ K[copy[c]] \in Nat
      BY <1>1, <1>2, <2>3 DEF Accounted
    <3> QED
      BY <1>1, <1>2, <2>1, <3>1
  <2> QED
    BY <2>1, <2>2, <2>3 DEF Accounted
<1> QED
  BY <1>4, <1>5

-----------------------------------------------------------------------------
(* The four counts, and what a state admits to of each.                    *)

UsedIn(k, w) ==
  [s \in State |-> IF s.window = w THEN s.used[k]
                   ELSE IF s.window > w THEN Cap[k] ELSE 0]

NotedIn(k, w) ==
  [s \in State |-> IF s.window > w \/ (s.window = w /\ s.startup[k] = w)
                   THEN 1 ELSE 0]

CountOf(j) == [s \in State |-> s.count[j]]

StampOf(j) == [s \in State |-> s.stamp[j]]

\* No state is ahead of the clock, above a cap or ahead of the replays.
Sane(s, now, t) ==
  /\ s.window <= now
  /\ \A k \in Kinds : s.used[k] <= Cap[k]
  /\ \A j \in Jobs : s.count[j] <= MaxReplays /\ s.stamp[j] <= t[j]

AllSane ==
  /\ Sane(saved, window, tried) /\ Sane(dueCopy, window, tried)
  /\ \A c \in Cycles : Sane(copy[c], window, tried)

\* The budgets of a state are not touched, or its replays are not.
SameBudgets(s, new) ==
  new.window = s.window /\ new.used = s.used /\ new.startup = s.startup

SameReplays(s, new) == new.count = s.count /\ new.stamp = s.stamp

LEMMA CapNat == /\ \A k \in Kinds : Cap[k] \in Nat /\ 0 < Cap[k]
                /\ MaxReplays \in Nat
                /\ \A w \in Windows : w \in Nat /\ w # NoWindow
  BY AutonomyAssumption DEF AutonomyAssumption, Windows, NoWindow

LEMMA KnownType ==
  /\ \A k \in Kinds, w \in Windows : /\ UsedIn(k, w) \in [State -> Nat]
                                     /\ NotedIn(k, w) \in [State -> Nat]
  /\ \A j \in Jobs : CountOf(j) \in [State -> Nat] /\ StampOf(j) \in [State -> Nat]
<1>1. ASSUME NEW k \in Kinds, NEW w \in Windows
      PROVE  UsedIn(k, w) \in [State -> Nat] /\ NotedIn(k, w) \in [State -> Nat]
  <2>1. ASSUME NEW s \in State PROVE s.used[k] \in Nat /\ Cap[k] \in Nat
    BY CapNat DEF State
  <2> QED
    BY <2>1 DEF UsedIn, NotedIn
<1>2. ASSUME NEW j \in Jobs
      PROVE  CountOf(j) \in [State -> Nat] /\ StampOf(j) \in [State -> Nat]
  BY DEF CountOf, StampOf, State
<1> QED
  BY <1>1, <1>2

\* States with the same budgets, or replays, admit to the same.
LEMMA SameKnown ==
  ASSUME NEW s \in State, NEW new \in State
  PROVE  /\ SameBudgets(s, new) =>
              \A k \in Kinds, w \in Windows :
                UsedIn(k, w)[new] = UsedIn(k, w)[s] /\ NotedIn(k, w)[new] = NotedIn(k, w)[s]
         /\ SameReplays(s, new) =>
              \A j \in Jobs : CountOf(j)[new] = CountOf(j)[s] /\ StampOf(j)[new] = StampOf(j)[s]
  BY DEF SameBudgets, SameReplays, UsedIn, NotedIn, CountOf, StampOf

\* A new window keeps what a state admits to: its budgets are then behind it.
LEMMA RenewedKeeps ==
  ASSUME NEW s \in State, window \in Windows, Sane(s, window, tried)
  PROVE  /\ Sane(Renewed(s), window, tried)
         /\ SameReplays(s, Renewed(s))
         /\ \A k \in Kinds, w \in Windows :
              /\ UsedIn(k, w)[s] <= UsedIn(k, w)[Renewed(s)]
              /\ NotedIn(k, w)[s] <= NotedIn(k, w)[Renewed(s)]
<1> PICK new \in State : new = Renewed(s)
  BY RenewedType
<1>1. CASE s.window = window
  <2>1. new = s
    BY <1>1 DEF Renewed
  <2>2. \A k \in Kinds, w \in Windows :
          UsedIn(k, w)[s] \in Nat /\ NotedIn(k, w)[s] \in Nat
    BY KnownType
  <2> QED
    BY <2>1, <2>2 DEF SameReplays
<1>2. CASE s.window # window
  <2>1. /\ new.window = window /\ \A k \in Kinds : new.used[k] = 0
        /\ SameReplays(s, new)
    BY <1>2 DEF Renewed, Default, State, SameReplays
  <2>2. s.window \in Nat /\ window \in Nat /\ s.window < window
    BY <1>2, CapNat DEF Sane, State
  <2>3. Sane(new, window, tried)
    BY <2>1, <2>2, CapNat DEF Sane, SameReplays
  <2>4. ASSUME NEW k \in Kinds, NEW w \in Windows
        PROVE  UsedIn(k, w)[s] <= UsedIn(k, w)[new]
    <3>1. /\ UsedIn(k, w)[s] = IF s.window = w THEN s.used[k]
                               ELSE IF s.window > w THEN Cap[k] ELSE 0
          /\ UsedIn(k, w)[new] = IF new.window = w THEN new.used[k]
                                 ELSE IF new.window > w THEN Cap[k] ELSE 0
      BY DEF UsedIn
    <3>2. s.used[k] <= Cap[k] /\ s.used[k] \in Nat
      BY DEF Sane, State
    <3> QED
      BY <2>1, <2>2, <3>1, <3>2, CapNat
  <2>5. ASSUME NEW k \in Kinds, NEW w \in Windows
        PROVE  NotedIn(k, w)[s] <= NotedIn(k, w)[new]
    <3>1. /\ NotedIn(k, w)[s] =
               IF s.window > w \/ (s.window = w /\ s.startup[k] = w)
               THEN 1 ELSE 0
          /\ NotedIn(k, w)[new] =
               IF new.window > w \/ (new.window = w /\ new.startup[k] = w)
               THEN 1 ELSE 0
      BY DEF NotedIn
    <3> QED
      BY <2>1, <2>2, <3>1, CapNat
  <2> QED
    BY <2>1, <2>3, <2>4, <2>5
<1> QED
  BY <1>1, <1>2

LEMMA CountedKeeps ==
  ASSUME NEW s \in State, NEW kind \in Kinds, NEW now, NEW t, Sane(s, now, t)
  PROVE  /\ Sane(Counted(s, kind), now, t)
         /\ SameReplays(s, Counted(s, kind))
         /\ \A k \in Kinds, w \in Windows :
              /\ UsedIn(k, w)[s] <= UsedIn(k, w)[Counted(s, kind)]
              /\ NotedIn(k, w)[s] = NotedIn(k, w)[Counted(s, kind)]
         /\ s.used[kind] < Cap[kind] =>
              UsedIn(kind, s.window)[s] + 1 = UsedIn(kind, s.window)[Counted(s, kind)]
<1> PICK n : n = IF s.used[kind] < Cap[kind] THEN s.used[kind] + 1
                 ELSE s.used[kind]
  OBVIOUS
<1> PICK u : u = [s.used EXCEPT ![kind] = n]
  OBVIOUS
<1> PICK new \in State : new = Counted(s, kind)
  BY CountedType
<1>1. s.used[kind] \in Nat /\ Cap[kind] \in Nat /\ s.used[kind] <= Cap[kind]
  BY CapNat DEF State, Sane
<1>2. n \in Nat /\ s.used[kind] <= n /\ n <= Cap[kind]
  BY <1>1
<1>3. new = [s EXCEPT !.used = u]
  BY DEF Counted, State
<1>4. \A k \in Kinds : u[k] = IF k = kind THEN n ELSE s.used[k]
  BY DEF State
<1>5. /\ new.window = s.window /\ new.used = u /\ new.startup = s.startup
      /\ SameReplays(s, new)
  BY <1>3 DEF State, SameReplays
<1>6. Sane(new, now, t)
  BY <1>2, <1>4, <1>5 DEF Sane, SameReplays
<1>7. \A k \in Kinds, w \in Windows :
        /\ UsedIn(k, w)[s] = IF s.window = w THEN s.used[k]
                             ELSE IF s.window > w THEN Cap[k] ELSE 0
        /\ UsedIn(k, w)[new] = IF s.window = w THEN u[k]
                               ELSE IF s.window > w THEN Cap[k] ELSE 0
  BY <1>5 DEF UsedIn
<1>8. \A k \in Kinds, w \in Windows : NotedIn(k, w)[s] = NotedIn(k, w)[new]
  BY <1>5 DEF NotedIn
<1>9. \A k \in Kinds : s.used[k] <= u[k] /\ s.used[k] \in Nat
  BY <1>1, <1>2, <1>4 DEF State
<1>10. \A k \in Kinds, w \in Windows : UsedIn(k, w)[s] <= UsedIn(k, w)[new]
  BY <1>7, <1>9, CapNat
<1>11. s.window \in Windows
  BY DEF State
<1>12. s.used[kind] < Cap[kind] =>
         UsedIn(kind, s.window)[s] + 1 = UsedIn(kind, s.window)[new]
  BY <1>4, <1>7, <1>11
<1> QED
  BY <1>5, <1>6, <1>8, <1>10, <1>12

LEMMA NotedKeeps ==
  ASSUME NEW s \in State, NEW kind \in Kinds, NEW now, NEW t, Sane(s, now, t)
  PROVE  /\ Sane(Noted(s, kind), now, t)
         /\ SameReplays(s, Noted(s, kind))
         /\ \A k \in Kinds, w \in Windows :
              /\ UsedIn(k, w)[s] = UsedIn(k, w)[Noted(s, kind)]
              /\ NotedIn(k, w)[s] <= NotedIn(k, w)[Noted(s, kind)]
         /\ s.startup[kind] # s.window =>
              NotedIn(kind, s.window)[s] + 1 <= NotedIn(kind, s.window)[Noted(s, kind)]
<1> PICK u : u = [s.startup EXCEPT ![kind] = s.window]
  OBVIOUS
<1> PICK new \in State : new = Noted(s, kind)
  BY NotedType
<1>1. new = [s EXCEPT !.startup = u]
  BY DEF Noted, State
<1>2. \A k \in Kinds : u[k] = IF k = kind THEN s.window ELSE s.startup[k]
  BY DEF State
<1>3. /\ new.window = s.window /\ new.used = s.used /\ new.startup = u
      /\ SameReplays(s, new)
  BY <1>1 DEF State, SameReplays
<1>4. Sane(new, now, t)
  BY <1>3 DEF Sane, SameReplays
<1>5. \A k \in Kinds, w \in Windows : UsedIn(k, w)[s] = UsedIn(k, w)[new]
  BY <1>3 DEF UsedIn
<1>6. \A k \in Kinds, w \in Windows :
        /\ NotedIn(k, w)[s] = IF s.window > w \/ (s.window = w /\ s.startup[k] = w)
                              THEN 1 ELSE 0
        /\ NotedIn(k, w)[new] = IF s.window > w \/ (s.window = w /\ u[k] = w)
                                THEN 1 ELSE 0
  BY <1>3 DEF NotedIn
<1>7. \A k \in Kinds, w \in Windows : NotedIn(k, w)[s] <= NotedIn(k, w)[new]
  BY <1>2, <1>6
<1>8. s.window \in Windows /\ ~(s.window > s.window)
  BY CapNat DEF State
<1>9. s.startup[kind] # s.window =>
        NotedIn(kind, s.window)[s] + 1 <= NotedIn(kind, s.window)[new]
  BY <1>2, <1>6, <1>8
<1> QED
  BY <1>3, <1>4, <1>5, <1>7, <1>9

LEMMA RecordedKeeps ==
  ASSUME TypeOK, NEW s \in State, Sane(s, window, tried),
         NEW ok \in SUBSET DueForReplay(s), NEW failed \in SUBSET DueForReplay(s),
         NEW over \in SUBSET Jobs, Tried(ok \cup failed)
  PROVE  /\ Sane(Recorded(s, ok, failed, over), window, tried')
         /\ SameBudgets(s, Recorded(s, ok, failed, over))
         /\ \A j \in Jobs :
              /\ s.count[j] <= Recorded(s, ok, failed, over).count[j]
              /\ s.stamp[j] <= Recorded(s, ok, failed, over).stamp[j]
         /\ \A j \in ok \cup failed :
              /\ s.count[j] + 1 <= Recorded(s, ok, failed, over).count[j]
              /\ s.stamp[j] + 1 <= Recorded(s, ok, failed, over).stamp[j]
<1> PICK all : all = ok \cup failed
  OBVIOUS
<1>1. all \subseteq Jobs /\ \A j \in all : s.count[j] < MaxReplays
  <2>1. \A j \in all : j \in Open(s) /\ j \notin Exhausted(s)
    BY DEF DueForReplay
  <2>2. Open(s) \subseteq Jobs
    BY DEF Open
  <2>3. \A j \in Jobs : s.count[j] \in Nat
    BY DEF State
  <2> QED
    BY <2>1, <2>2, <2>3, CapNat DEF Exhausted
<1> PICK new \in State : new = Recorded(s, ok, failed, over)
  BY <1>1, RecordedType DEF TypeOK
<1>2. /\ new.count = [j \in Jobs |-> IF j \in all THEN s.count[j] + 1
                                     ELSE s.count[j]]
      /\ new.stamp = [j \in Jobs |-> IF j \in all THEN tried[j] + 1
                                     ELSE s.stamp[j]]
      /\ SameBudgets(s, new)
  BY DEF Recorded, State, SameBudgets
<1>3. \A j \in Jobs : /\ s.count[j] \in Nat /\ s.stamp[j] \in Nat
                      /\ s.count[j] <= MaxReplays /\ s.stamp[j] <= tried[j]
                      /\ tried[j] \in Nat
                      /\ tried'[j] = IF j \in all THEN tried[j] + 1 ELSE tried[j]
  BY DEF State, Sane, TypeOK, Tried
<1>4. \A j \in Jobs : /\ s.count[j] <= new.count[j] /\ new.count[j] <= MaxReplays
                      /\ s.stamp[j] <= new.stamp[j] /\ new.stamp[j] <= tried'[j]
  BY <1>1, <1>2, <1>3, CapNat
<1>5. \A j \in all : s.count[j] + 1 <= new.count[j] /\ s.stamp[j] + 1 <= new.stamp[j]
  BY <1>1, <1>2, <1>3
<1>6. Sane(new, window, tried')
  BY <1>2, <1>4 DEF Sane, SameBudgets
<1> QED
  BY <1>2, <1>4, <1>5, <1>6

-----------------------------------------------------------------------------
(* The invariant                                                           *)

BudgetsAccounted ==
  \A k \in Kinds, w \in Windows :
    /\ Accounted(UsedIn(k, w), spent[k][w], Past(k))
    /\ w # 0 => Accounted(NotedIn(k, w), woken[k][w], Past(k))

ReplaysAccounted ==
  \A j \in Jobs : /\ Accounted(CountOf(j), tried[j], {"save"})
                  /\ Accounted(StampOf(j), tried[j], {"save"})

CooledIsTried == \A j \in Jobs : cooled[j] <= tried[j]

AccountInv ==
  /\ Base /\ AllSane /\ CooledIsTried
  /\ BudgetsAccounted /\ ReplaysAccounted

LEMMA PastPlaces == \A k : Past(k) \in SUBSET Places /\ {"save"} \in SUBSET Places
  BY DEF Past, Places

LEMMA CountsType ==
  ASSUME TypeOK
  PROVE  /\ \A k \in Kinds, w \in Windows : spent[k][w] \in Nat /\ woken[k][w] \in Nat
         /\ \A j \in Jobs : tried[j] \in Nat
  BY DEF TypeOK

\* What neither spends nor replays, and is accounted for by every K.
LEMMA EndsAccount ==
  ASSUME AccountInv,
         UNCHANGED <<spent, woken, tried>>,
         \/ \E c \in Cycles : Save(c) \/ Cut(c)
         \/ Restart \/ DueLoad \/ DueSave
  PROVE  BudgetsAccounted' /\ ReplaysAccounted'
<1>1. ASSUME NEW K \in [State -> Nat], NEW d \in Nat, NEW P \in SUBSET Places,
             Accounted(K, d, P)
      PROVE  Accounted(K, d, P)'
  BY <1>1, SaveAccounts, CutAccounts, RestartAccounts, DueAccounts DEF AccountInv
<1>2. ASSUME NEW k \in Kinds, NEW w \in Windows
      PROVE  /\ Accounted(UsedIn(k, w), spent[k][w], Past(k))'
             /\ w # 0 => Accounted(NotedIn(k, w), woken[k][w], Past(k))'
  <2> PICK d : d = spent[k][w]
    OBVIOUS
  <2> PICK e : e = woken[k][w]
    OBVIOUS
  <2>1. d \in Nat /\ e \in Nat
    BY CountsType DEF AccountInv, Base
  <2>2. /\ UsedIn(k, w) \in [State -> Nat] /\ NotedIn(k, w) \in [State -> Nat]
        /\ Past(k) \in SUBSET Places
    BY KnownType, PastPlaces
  <2>3. /\ Accounted(UsedIn(k, w), d, Past(k))
        /\ w # 0 => Accounted(NotedIn(k, w), e, Past(k))
    BY DEF AccountInv, BudgetsAccounted
  <2>4. Accounted(UsedIn(k, w), d, Past(k))'
    BY <1>1, <2>1, <2>2, <2>3
  <2>5. w # 0 => Accounted(NotedIn(k, w), e, Past(k))'
    BY <1>1, <2>1, <2>2, <2>3
  <2>6. spent'[k][w] = d /\ woken'[k][w] = e
    OBVIOUS
  <2> QED
    BY <2>4, <2>5, <2>6 DEF Accounted
<1>3. ASSUME NEW j \in Jobs
      PROVE  /\ Accounted(CountOf(j), tried[j], {"save"})'
             /\ Accounted(StampOf(j), tried[j], {"save"})'
  <2> PICK d \in Nat : d = tried[j]
    BY CountsType DEF AccountInv, Base
  <2>1. /\ CountOf(j) \in [State -> Nat] /\ StampOf(j) \in [State -> Nat]
        /\ {"save"} \in SUBSET Places
    BY KnownType, PastPlaces
  <2>2. /\ Accounted(CountOf(j), d, {"save"})
        /\ Accounted(StampOf(j), d, {"save"})
    BY DEF AccountInv, ReplaysAccounted
  <2>3. Accounted(CountOf(j), d, {"save"})' /\ Accounted(StampOf(j), d, {"save"})'
    BY <1>1, <2>1, <2>2
  <2>4. tried'[j] = d
    OBVIOUS
  <2> QED
    BY <2>3, <2>4 DEF Accounted
<1> QED
  BY <1>2, <1>3 DEF BudgetsAccounted, ReplaysAccounted

LEMMA BeginAccount ==
  ASSUME AccountInv, NEW c \in Cycles, NEW m \in Modes, NEW idle \in BOOLEAN,
         Begin(c, m, idle)
  PROVE  AllSane' /\ BudgetsAccounted' /\ ReplaysAccounted'
<1>1. /\ saved \in State /\ window \in Windows /\ Sane(saved, window, tried)
      /\ UNCHANGED <<window, saved, dueCopy, spent, woken, tried>>
      /\ copy' = [copy EXCEPT ![c] = Renewed(saved)]
  BY DEF AccountInv, Base, TypeOK, AllSane, Begin, due, letters, budgets
<1>2. AllSane'
  BY <1>1, RenewedKeeps DEF AllSane, AccountInv, Base, TypeOK
<1>3. ASSUME NEW K \in [State -> Nat], NEW d \in Nat, NEW P \in SUBSET Places,
             Accounted(K, d, P), K[saved] <= K[Renewed(saved)]
      PROVE  Accounted(K, d, P)'
  BY <1>3, BeginAccounts DEF AccountInv
<1>4. ASSUME NEW k \in Kinds, NEW w \in Windows
      PROVE  /\ Accounted(UsedIn(k, w), spent[k][w], Past(k))'
             /\ w # 0 => Accounted(NotedIn(k, w), woken[k][w], Past(k))'
  <2> PICK d : d = spent[k][w]
    OBVIOUS
  <2> PICK e : e = woken[k][w]
    OBVIOUS
  <2>1. d \in Nat /\ e \in Nat
    BY CountsType DEF AccountInv, Base
  <2>2. /\ UsedIn(k, w) \in [State -> Nat] /\ NotedIn(k, w) \in [State -> Nat]
        /\ Past(k) \in SUBSET Places
    BY KnownType, PastPlaces
  <2>3. /\ Accounted(UsedIn(k, w), d, Past(k))
        /\ w # 0 => Accounted(NotedIn(k, w), e, Past(k))
    BY DEF AccountInv, BudgetsAccounted
  <2>4. /\ UsedIn(k, w)[saved] <= UsedIn(k, w)[Renewed(saved)]
        /\ NotedIn(k, w)[saved] <= NotedIn(k, w)[Renewed(saved)]
    BY <1>1, RenewedKeeps
  <2>5. Accounted(UsedIn(k, w), d, Past(k))'
    BY <1>3, <2>1, <2>2, <2>3, <2>4
  <2>6. w # 0 => Accounted(NotedIn(k, w), e, Past(k))'
    BY <1>3, <2>1, <2>2, <2>3, <2>4
  <2>7. spent'[k][w] = d /\ woken'[k][w] = e
    BY <1>1
  <2> QED
    BY <2>5, <2>6, <2>7 DEF Accounted
<1>5. ASSUME NEW j \in Jobs
      PROVE  /\ Accounted(CountOf(j), tried[j], {"save"})'
             /\ Accounted(StampOf(j), tried[j], {"save"})'
  <2> PICK d \in Nat : d = tried[j]
    BY CountsType DEF AccountInv, Base
  <2>1. /\ CountOf(j) \in [State -> Nat] /\ StampOf(j) \in [State -> Nat]
        /\ {"save"} \in SUBSET Places
    BY KnownType, PastPlaces
  <2>2. /\ Accounted(CountOf(j), d, {"save"})
        /\ Accounted(StampOf(j), d, {"save"})
    BY DEF AccountInv, ReplaysAccounted
  <2>3. /\ CountOf(j)[saved] <= CountOf(j)[Renewed(saved)]
        /\ StampOf(j)[saved] <= StampOf(j)[Renewed(saved)]
    <3>1. /\ CountOf(j)[saved] = CountOf(j)[Renewed(saved)]
          /\ StampOf(j)[saved] = StampOf(j)[Renewed(saved)]
      BY <1>1, RenewedKeeps, RenewedType, SameKnown
    <3> QED
      BY <1>1, <2>1, <3>1
  <2>4. Accounted(CountOf(j), d, {"save"})' /\ Accounted(StampOf(j), d, {"save"})'
    BY <1>3, <2>1, <2>2, <2>3
  <2>5. tried'[j] = d
    BY <1>1
  <2> QED
    BY <2>4, <2>5 DEF Accounted
<1> QED
  BY <1>2, <1>4, <1>5 DEF BudgetsAccounted, ReplaysAccounted

\* The copy stays sane when a cycle goes on with a sane one.
LEMMA GoesSane ==
  ASSUME AccountInv, NEW c \in Cycles, NEW new \in State, NEW place,
         Goes(c, new, place), Sane(new, window, tried'), UNCHANGED window,
         \A j \in Jobs : tried[j] <= tried'[j] /\ tried'[j] \in Nat
  PROVE  AllSane'
<1>1. ASSUME NEW s \in State, Sane(s, window, tried) PROVE Sane(s, window, tried')
  <2>1. \A j \in Jobs : s.stamp[j] \in Nat /\ tried[j] \in Nat
    BY CountsType DEF State, AccountInv, Base
  <2> QED
    BY <1>1, <2>1 DEF Sane
<1>2. /\ UNCHANGED <<saved, dueCopy, window>>
      /\ saved \in State /\ dueCopy \in State /\ copy \in [Cycles -> State]
      /\ copy' = [copy EXCEPT ![c] = new]
  BY DEF Goes, AccountInv, Base, TypeOK
<1>3. \A b \in Cycles : Sane(copy'[b], window, tried')
  BY <1>1, <1>2 DEF AccountInv, AllSane
<1> QED
  BY <1>1, <1>2, <1>3 DEF AccountInv, AllSane

\* A spending that the copy counts, or none.
LEMMA SpendingAccounts ==
  ASSUME AccountInv, NEW c \in Cycles, NEW kind \in {"reflection", "workflow"},
         NEW new \in State, pc[c] = kind, Goes(c, new, After(kind)),
         Sane(new, window, tried), SameReplays(copy[c], new),
         UNCHANGED <<window, tried>>,
         \A k \in Kinds, w \in Windows :
           /\ UsedIn(k, w)[copy[c]] <= UsedIn(k, w)[new]
           /\ \/ spent'[k][w] = spent[k][w]
              \/ /\ spent'[k][w] = spent[k][w] + 1
                 /\ k = kind /\ c \in dirty'
                 /\ UsedIn(k, w)[copy[c]] + 1 <= UsedIn(k, w)[new],
         \A k \in Kinds, w \in Windows : w # 0 =>
           /\ NotedIn(k, w)[copy[c]] <= NotedIn(k, w)[new]
           /\ \/ woken'[k][w] = woken[k][w]
              \/ /\ woken'[k][w] = woken[k][w] + 1
                 /\ k = kind /\ c \in dirty'
                 /\ NotedIn(k, w)[copy[c]] + 1 <= NotedIn(k, w)[new]
  PROVE  AllSane' /\ BudgetsAccounted' /\ ReplaysAccounted'
<1>1. After(kind) \in Places \ {"idle"} /\ kind # "save"
  BY DEF After, Places
<1>2. /\ kind \notin Past(kind) /\ After(kind) \in Past(kind)
      /\ \A k : kind \in Past(k) => After(kind) \in Past(k)
  BY DEF Past, After
<1>3. AllSane'
  BY GoesSane, CountsType DEF AccountInv, Base
<1>4. ASSUME NEW K \in [State -> Nat], NEW d \in Nat, NEW e \in Nat,
             NEW P \in SUBSET Places, Accounted(K, d, P),
             K[copy[c]] <= K[new], kind \in P => After(kind) \in P,
             \/ e = d
             \/ /\ e = d + 1 /\ K[copy[c]] + 1 <= K[new]
                /\ c \in dirty' /\ kind \notin P /\ After(kind) \in P
      PROVE  Accounted(K, e, P)'
  BY <1>1, <1>4, GoesAccounts DEF AccountInv
<1>5. ASSUME NEW k \in Kinds, NEW w \in Windows
      PROVE  Accounted(UsedIn(k, w), spent[k][w], Past(k))'
  <2> PICK d \in Nat : d = spent[k][w]
    BY CountsType DEF AccountInv, Base
  <2> PICK e : e = spent'[k][w]
    OBVIOUS
  <2>1. e = d \/ e = d + 1
    OBVIOUS
  <2>2. UsedIn(k, w) \in [State -> Nat] /\ Past(k) \in SUBSET Places
    BY KnownType, PastPlaces
  <2>3. Accounted(UsedIn(k, w), d, Past(k))
    BY DEF AccountInv, BudgetsAccounted
  <2>4. \/ e = d
        \/ /\ e = d + 1 /\ k = kind /\ c \in dirty'
           /\ UsedIn(k, w)[copy[c]] + 1 <= UsedIn(k, w)[new]
    OBVIOUS
  <2>5. UsedIn(k, w)[copy[c]] <= UsedIn(k, w)[new]
    OBVIOUS
  <2>6. Accounted(UsedIn(k, w), e, Past(k))'
    BY <1>2, <1>4, <2>1, <2>2, <2>3, <2>4, <2>5
  <2> QED
    BY <2>6 DEF Accounted
<1>6. ASSUME NEW k \in Kinds, NEW w \in Windows, w # 0
      PROVE  Accounted(NotedIn(k, w), woken[k][w], Past(k))'
  <2> PICK d \in Nat : d = woken[k][w]
    BY CountsType DEF AccountInv, Base
  <2> PICK e : e = woken'[k][w]
    OBVIOUS
  <2>1. e = d \/ e = d + 1
    BY <1>6
  <2>2. NotedIn(k, w) \in [State -> Nat] /\ Past(k) \in SUBSET Places
    BY KnownType, PastPlaces
  <2>3. Accounted(NotedIn(k, w), d, Past(k))
    BY <1>6 DEF AccountInv, BudgetsAccounted
  <2>4. \/ e = d
        \/ /\ e = d + 1 /\ k = kind /\ c \in dirty'
           /\ NotedIn(k, w)[copy[c]] + 1 <= NotedIn(k, w)[new]
    BY <1>6
  <2>5. NotedIn(k, w)[copy[c]] <= NotedIn(k, w)[new]
    BY <1>6
  <2>6. Accounted(NotedIn(k, w), e, Past(k))'
    BY <1>2, <1>4, <2>1, <2>2, <2>3, <2>4, <2>5
  <2> QED
    BY <2>6 DEF Accounted
<1>7. ASSUME NEW j \in Jobs
      PROVE  /\ Accounted(CountOf(j), tried[j], {"save"})'
             /\ Accounted(StampOf(j), tried[j], {"save"})'
  <2> PICK d \in Nat : d = tried[j]
    BY CountsType DEF AccountInv, Base
  <2>1. /\ CountOf(j) \in [State -> Nat] /\ StampOf(j) \in [State -> Nat]
        /\ {"save"} \in SUBSET Places /\ copy[c] \in State
    BY KnownType, PastPlaces DEF AccountInv, Base, TypeOK
  <2>2. /\ Accounted(CountOf(j), d, {"save"})
        /\ Accounted(StampOf(j), d, {"save"})
    BY DEF AccountInv, ReplaysAccounted
  <2>3. CountOf(j)[copy[c]] = CountOf(j)[new] /\ StampOf(j)[copy[c]] = StampOf(j)[new]
    BY <2>1, SameKnown
  <2>4. /\ CountOf(j)[copy[c]] <= CountOf(j)[new]
        /\ StampOf(j)[copy[c]] <= StampOf(j)[new]
    BY <2>1, <2>3
  <2>5. Accounted(CountOf(j), d, {"save"})' /\ Accounted(StampOf(j), d, {"save"})'
    BY <1>1, <1>4, <2>1, <2>2, <2>4
  <2>6. tried'[j] = d
    OBVIOUS
  <2> QED
    BY <2>5, <2>6 DEF Accounted
<1> QED
  BY <1>3, <1>5, <1>6, <1>7 DEF BudgetsAccounted, ReplaysAccounted

\* A state admits to no less than itself.
LEMMA KnownReflexive ==
  ASSUME NEW s \in State
  PROVE  \A k \in Kinds, w \in Windows : /\ UsedIn(k, w)[s] <= UsedIn(k, w)[s]
                                         /\ NotedIn(k, w)[s] <= NotedIn(k, w)[s]
<1>1. ASSUME NEW k \in Kinds, NEW w \in Windows
      PROVE  UsedIn(k, w)[s] \in Nat /\ NotedIn(k, w)[s] \in Nat
  BY KnownType
<1> QED
  BY <1>1

LEMMA PassAccount ==
  ASSUME AccountInv, NEW c \in Cycles, NEW kind \in {"reflection", "workflow"},
         Pass(c, kind)
  PROVE  AllSane' /\ BudgetsAccounted' /\ ReplaysAccounted'
<1>1. /\ copy[c] \in State /\ copy \in [Cycles -> State]
      /\ Sane(copy[c], window, tried) /\ lost \in Nat
  BY DEF AccountInv, Base, TypeOK, AllSane
<1>2. /\ pc[c] = kind /\ Goto(c, After(kind))
      /\ UNCHANGED <<window, saved, copy, lost, dirty, dueBusy, dueCopy, overtaken,
                     spent, woken, tried>>
  BY DEF Pass, due, letters, budgets
<1>3. Goes(c, copy[c], After(kind))
  BY <1>1, <1>2 DEF Goes
<1>4. SameReplays(copy[c], copy[c])
  BY DEF SameReplays
<1> QED
  BY <1>1, <1>2, <1>3, <1>4, KnownReflexive, SpendingAccounts

LEMMA SpendAccount ==
  ASSUME AccountInv, NEW c \in Cycles, NEW kind \in Kinds, Spend(c, kind)
  PROVE  AllSane' /\ BudgetsAccounted' /\ ReplaysAccounted'
<1> PICK s : s = copy[c]
  OBVIOUS
<1>1. /\ s \in State /\ copy \in [Cycles -> State] /\ s.window \in Windows
      /\ Sane(s, window, tried) /\ lost \in Nat
      /\ kind \in {"reflection", "workflow"}
  BY AutonomyAssumption
     DEF AccountInv, Base, TypeOK, AllSane, AutonomyAssumption, State
<1>2. /\ pc[c] = kind /\ MaySpend(c, kind) /\ Goto(c, After(kind))
      /\ pc[c] # "idle"
      /\ UNCHANGED <<window, saved, lost, dueBusy, dueCopy, overtaken, tried>>
  BY <1>1 DEF Spend, due, letters
<1>3. CASE SpendCadence(c, kind)
  <2> PICK new \in State : new = Counted(s, kind)
    BY <1>1, CountedType
  <2>1. s.used[kind] < Cap[kind]
    BY <1>2, <1>3 DEF MaySpend, SpendCadence
  <2>2. /\ copy' = [copy EXCEPT ![c] = new] /\ dirty' = dirty \cup {c}
        /\ woken' = woken
        /\ spent' = [spent EXCEPT ![kind][s.window] = @ + 1]
    BY <1>3 DEF SpendCadence
  <2>3. Goes(c, new, After(kind)) /\ c \in dirty'
    BY <1>1, <1>2, <2>2 DEF Goes
  <2>4. \A k \in Kinds, w \in Windows :
          spent'[k][w] = IF k = kind /\ w = s.window THEN spent[k][w] + 1
                         ELSE spent[k][w]
    BY <1>1, <2>2 DEF AccountInv, Base, TypeOK
  <2>5. /\ Sane(new, window, tried) /\ SameReplays(s, new)
        /\ \A k \in Kinds, w \in Windows :
             UsedIn(k, w)[s] <= UsedIn(k, w)[new] /\ NotedIn(k, w)[s] = NotedIn(k, w)[new]
        /\ UsedIn(kind, s.window)[s] + 1 = UsedIn(kind, s.window)[new]
    BY <1>1, <2>1, CountedKeeps
  <2>6. \A k \in Kinds, w \in Windows :
          /\ NotedIn(k, w)[s] <= NotedIn(k, w)[new]
          /\ UsedIn(k, w)[new] \in Nat
    BY <1>1, <2>5, KnownType
  <2>7. UsedIn(kind, s.window)[s] + 1 <= UsedIn(kind, s.window)[new]
    BY <1>1, <2>5, <2>6
  <2>8. \A k \in Kinds, w \in Windows :
           /\ UsedIn(k, w)[copy[c]] <= UsedIn(k, w)[new]
           /\ \/ spent'[k][w] = spent[k][w]
              \/ /\ spent'[k][w] = spent[k][w] + 1
                 /\ k = kind /\ c \in dirty'
                 /\ UsedIn(k, w)[copy[c]] + 1 <= UsedIn(k, w)[new]
    BY <2>3, <2>4, <2>5, <2>7
  <2>9. \A k \in Kinds, w \in Windows :
          /\ NotedIn(k, w)[copy[c]] <= NotedIn(k, w)[new]
          /\ woken'[k][w] = woken[k][w]
    BY <2>2, <2>6
  <2> QED
    BY <1>1, <1>2, <2>3, <2>5, <2>8, <2>9, SpendingAccounts
<1>4. CASE SpendStartup(c, kind)
  <2> PICK new \in State : new = Noted(s, kind)
    BY <1>1, NotedType
  <2>1. OrMinusOne(s.startup[kind]) # s.window
    BY <1>2, <1>4 DEF MaySpend, SpendStartup, StartupUsed
  <2>2. s.window # 0 => s.startup[kind] # s.window
    BY <2>1 DEF OrMinusOne
  <2>3. /\ copy' = [copy EXCEPT ![c] = new] /\ dirty' = dirty \cup {c}
        /\ spent' = spent
        /\ woken' = [woken EXCEPT ![kind][s.window] = @ + 1]
    BY <1>4 DEF SpendStartup
  <2>4. Goes(c, new, After(kind)) /\ c \in dirty'
    BY <1>1, <1>2, <2>3 DEF Goes
  <2>5. \A k \in Kinds, w \in Windows :
          woken'[k][w] = IF k = kind /\ w = s.window THEN woken[k][w] + 1
                         ELSE woken[k][w]
    BY <1>1, <2>3 DEF AccountInv, Base, TypeOK
  <2>6. /\ Sane(new, window, tried) /\ SameReplays(s, new)
        /\ \A k \in Kinds, w \in Windows :
             UsedIn(k, w)[s] = UsedIn(k, w)[new] /\ NotedIn(k, w)[s] <= NotedIn(k, w)[new]
        /\ s.window # 0 =>
             NotedIn(kind, s.window)[s] + 1 <= NotedIn(kind, s.window)[new]
    BY <1>1, <2>2, NotedKeeps
  <2>7. \A k \in Kinds, w \in Windows : UsedIn(k, w)[s] <= UsedIn(k, w)[new]
    BY <1>1, <2>6, KnownReflexive
  <2>8. \A k \in Kinds, w \in Windows :
          /\ UsedIn(k, w)[copy[c]] <= UsedIn(k, w)[new]
          /\ spent'[k][w] = spent[k][w]
    BY <2>3, <2>7
  <2>9. \A k \in Kinds, w \in Windows : w # 0 =>
           /\ NotedIn(k, w)[copy[c]] <= NotedIn(k, w)[new]
           /\ \/ woken'[k][w] = woken[k][w]
              \/ /\ woken'[k][w] = woken[k][w] + 1
                 /\ k = kind /\ c \in dirty'
                 /\ NotedIn(k, w)[copy[c]] + 1 <= NotedIn(k, w)[new]
    BY <2>4, <2>5, <2>6
  <2> QED
    BY <1>1, <1>2, <2>4, <2>6, <2>8, <2>9, SpendingAccounts
<1>5. CASE SpendForced(c, kind)
  <2> PICK new \in State : new = IF mode[c] = "forced" THEN Counted(s, kind) ELSE s
    BY <1>1, CountedType
  <2>1. /\ copy' = [copy EXCEPT ![c] = new] /\ dirty' = dirty
        /\ spent' = spent /\ woken' = woken
    BY <1>1, <1>5 DEF SpendForced
  <2>2. Goes(c, new, After(kind))
    BY <1>1, <1>2, <2>1 DEF Goes
  <2>3. /\ Sane(new, window, tried) /\ SameReplays(s, new)
        /\ \A k \in Kinds, w \in Windows :
             UsedIn(k, w)[s] <= UsedIn(k, w)[new] /\ NotedIn(k, w)[s] <= NotedIn(k, w)[new]
    <3>1. CASE mode[c] = "forced"
      BY <1>1, <3>1, CountedKeeps, KnownReflexive
    <3>2. CASE mode[c] # "forced"
      BY <1>1, <3>2, KnownReflexive DEF SameReplays
    <3> QED
      BY <3>1, <3>2
  <2> QED
    BY <1>1, <1>2, <2>1, <2>2, <2>3, SpendingAccounts
<1> QED
  BY <1>3, <1>4, <1>5 DEF Spend

\* Replays that the copy records, or whose record is lost.
LEMMA ReplayingAccounts ==
  ASSUME AccountInv, NEW c \in Cycles, NEW new \in State, pc[c] = "replay",
         Goes(c, new, "save"), Sane(new, window, tried'),
         SameBudgets(copy[c], new), UNCHANGED <<window, spent, woken>>,
         \A j \in Jobs :
           /\ copy[c].count[j] <= new.count[j] /\ copy[c].stamp[j] <= new.stamp[j]
           /\ \/ tried'[j] = tried[j]
              \/ tried'[j] = tried[j] + 1 /\ lost' = lost + 1
              \/ /\ tried'[j] = tried[j] + 1 /\ c \in dirty'
                 /\ copy[c].count[j] + 1 <= new.count[j]
                 /\ copy[c].stamp[j] + 1 <= new.stamp[j]
  PROVE  AllSane' /\ BudgetsAccounted' /\ ReplaysAccounted'
<1>1. "save" \in Places \ {"idle"} /\ copy[c] \in State
  BY DEF Places, AccountInv, Base, TypeOK
<1>2. \A k : "save" \in Past(k)
  BY DEF Past
<1>3. AllSane'
  <2>1. \A j \in Jobs : tried[j] <= tried'[j] /\ tried'[j] \in Nat
    BY CountsType DEF AccountInv, Base
  <2> QED
    BY <2>1, GoesSane
<1>4. ASSUME NEW K \in [State -> Nat], NEW d \in Nat, NEW e \in Nat,
             NEW P \in SUBSET Places, Accounted(K, d, P),
             K[copy[c]] <= K[new], "save" \in P,
             \/ e = d
             \/ e = d + 1 /\ lost' = lost + 1
             \/ /\ e = d + 1 /\ K[copy[c]] + 1 <= K[new]
                /\ c \in dirty' /\ "replay" \notin P
      PROVE  Accounted(K, e, P)'
  BY <1>1, <1>4, GoesAccounts DEF AccountInv
<1>5. ASSUME NEW k \in Kinds, NEW w \in Windows
      PROVE  /\ Accounted(UsedIn(k, w), spent[k][w], Past(k))'
             /\ w # 0 => Accounted(NotedIn(k, w), woken[k][w], Past(k))'
  <2> PICK d \in Nat : d = spent[k][w]
    BY CountsType DEF AccountInv, Base
  <2> PICK e \in Nat : e = woken[k][w]
    BY CountsType DEF AccountInv, Base
  <2>1. /\ UsedIn(k, w) \in [State -> Nat] /\ NotedIn(k, w) \in [State -> Nat]
        /\ Past(k) \in SUBSET Places
    BY KnownType, PastPlaces
  <2>2. /\ Accounted(UsedIn(k, w), d, Past(k))
        /\ w # 0 => Accounted(NotedIn(k, w), e, Past(k))
    BY DEF AccountInv, BudgetsAccounted
  <2>3. /\ UsedIn(k, w)[copy[c]] = UsedIn(k, w)[new]
        /\ NotedIn(k, w)[copy[c]] = NotedIn(k, w)[new]
    BY <1>1, SameKnown
  <2>4. /\ UsedIn(k, w)[copy[c]] <= UsedIn(k, w)[new]
        /\ NotedIn(k, w)[copy[c]] <= NotedIn(k, w)[new]
    BY <1>1, <2>3, KnownReflexive
  <2>5. Accounted(UsedIn(k, w), d, Past(k))'
    BY <1>2, <1>4, <2>1, <2>2, <2>4
  <2>6. w # 0 => Accounted(NotedIn(k, w), e, Past(k))'
    BY <1>2, <1>4, <2>1, <2>2, <2>4
  <2>7. spent'[k][w] = d /\ woken'[k][w] = e
    OBVIOUS
  <2> QED
    BY <2>5, <2>6, <2>7 DEF Accounted
<1>6. ASSUME NEW j \in Jobs
      PROVE  /\ Accounted(CountOf(j), tried[j], {"save"})'
             /\ Accounted(StampOf(j), tried[j], {"save"})'
  <2> PICK d \in Nat : d = tried[j]
    BY CountsType DEF AccountInv, Base
  <2> PICK e : e = tried'[j]
    OBVIOUS
  <2>1. /\ CountOf(j) \in [State -> Nat] /\ StampOf(j) \in [State -> Nat]
        /\ {"save"} \in SUBSET Places /\ "replay" \notin {"save"}
    BY KnownType, PastPlaces
  <2>2. /\ Accounted(CountOf(j), d, {"save"})
        /\ Accounted(StampOf(j), d, {"save"})
    BY DEF AccountInv, ReplaysAccounted
  <2>3. /\ CountOf(j)[copy[c]] = copy[c].count[j] /\ CountOf(j)[new] = new.count[j]
        /\ StampOf(j)[copy[c]] = copy[c].stamp[j] /\ StampOf(j)[new] = new.stamp[j]
    BY <1>1 DEF CountOf, StampOf
  <2>4. /\ e \in Nat
        /\ CountOf(j)[copy[c]] <= CountOf(j)[new]
        /\ StampOf(j)[copy[c]] <= StampOf(j)[new]
        /\ \/ e = d
           \/ e = d + 1 /\ lost' = lost + 1
           \/ /\ e = d + 1 /\ c \in dirty'
              /\ CountOf(j)[copy[c]] + 1 <= CountOf(j)[new]
              /\ StampOf(j)[copy[c]] + 1 <= StampOf(j)[new]
    BY <2>3
  <2>5. Accounted(CountOf(j), e, {"save"})' /\ Accounted(StampOf(j), e, {"save"})'
    BY <1>4, <2>1, <2>2, <2>4
  <2> QED
    BY <2>5 DEF Accounted
<1> QED
  BY <1>3, <1>5, <1>6 DEF BudgetsAccounted, ReplaysAccounted

LEMMA ReplayPassAccount ==
  ASSUME AccountInv, NEW c \in Cycles, ReplayPass(c)
  PROVE  AllSane' /\ BudgetsAccounted' /\ ReplaysAccounted'
<1> PICK s : s = copy[c]
  OBVIOUS
<1>1. /\ s \in State /\ copy \in [Cycles -> State] /\ TypeOK
      /\ Sane(s, window, tried) /\ lost \in Nat
      /\ \A j \in Jobs : /\ s.count[j] \in Nat /\ s.stamp[j] \in Nat
                         /\ tried[j] \in Nat
      /\ DueForReplay(s) \subseteq Jobs
      /\ \A all \in SUBSET Jobs : Outworn(s, all) \subseteq Jobs
  BY DEF AccountInv, Base, TypeOK, AllSane, State, DueForReplay, Outworn, Exhausted,
     JustExhausted, Open
<1>2. ASSUME NEW ok \in SUBSET DueForReplay(s), NEW failed \in SUBSET DueForReplay(s),
             NEW over \in SUBSET Outworn(s, ok \cup failed), Replay(c, ok, failed, over)
      PROVE  AllSane' /\ BudgetsAccounted' /\ ReplaysAccounted'
  <2> PICK new \in State : new = Recorded(s, ok, failed, over)
    BY <1>1, RecordedType DEF TypeOK
  <2>1. /\ pc[c] = "replay" /\ Goto(c, "save") /\ pc[c] # "idle"
        /\ copy' = [copy EXCEPT ![c] = new]
        /\ Tried(ok \cup failed)
        /\ dirty' = IF ok \cup failed \cup over = {} THEN dirty ELSE dirty \cup {c}
        /\ UNCHANGED <<window, saved, lost, dueBusy, dueCopy, overtaken, spent,
                       woken>>
    BY <1>2 DEF Replay, due, budgets
  <2>2. Goes(c, new, "save")
    BY <1>1, <2>1 DEF Goes
  <2>3. /\ Sane(new, window, tried') /\ SameBudgets(s, new)
        /\ \A j \in Jobs : s.count[j] <= new.count[j] /\ s.stamp[j] <= new.stamp[j]
        /\ \A j \in ok \cup failed :
             s.count[j] + 1 <= new.count[j] /\ s.stamp[j] + 1 <= new.stamp[j]
    BY <1>1, <2>1, RecordedKeeps
  <2>4. \A j \in Jobs :
          /\ j \in ok \cup failed => tried'[j] = tried[j] + 1 /\ c \in dirty'
          /\ j \notin ok \cup failed => tried'[j] = tried[j]
    BY <2>1 DEF Tried
  <2> QED
    BY <2>1, <2>2, <2>3, <2>4, ReplayingAccounts
<1>3. ASSUME NEW ok \in SUBSET DueForReplay(s), ReplayRaises(c, ok)
      PROVE  AllSane' /\ BudgetsAccounted' /\ ReplaysAccounted'
  <2>1. /\ pc[c] = "replay" /\ Goto(c, "save") /\ pc[c] # "idle"
        /\ copy' = [copy EXCEPT ![c] = s] /\ lost' = lost + 1
        /\ Tried(ok)
        /\ UNCHANGED <<window, saved, dirty, dueBusy, dueCopy, overtaken, spent,
                       woken>>
    BY <1>1, <1>3 DEF ReplayRaises, due, budgets
  <2>2. Goes(c, s, "save")
    BY <1>1, <2>1 DEF Goes
  <2>3. \A j \in Jobs : /\ tried'[j] = tried[j] \/ tried'[j] = tried[j] + 1
                        /\ tried[j] <= tried'[j]
    BY <1>1, <2>1 DEF Tried
  <2>4. Sane(s, window, tried') /\ SameBudgets(s, s)
    BY <1>1, <2>3 DEF Sane, SameBudgets
  <2>5. \A j \in Jobs : s.count[j] <= s.count[j] /\ s.stamp[j] <= s.stamp[j]
    BY <1>1
  <2> QED
    BY <1>1, <2>1, <2>2, <2>3, <2>4, <2>5, ReplayingAccounts
<1>4. CASE ReplaySkipped(c)
  <2>1. /\ pc[c] = "replay" /\ Goto(c, "save") /\ pc[c] # "idle"
        /\ copy' = [copy EXCEPT ![c] = s]
        /\ UNCHANGED <<window, saved, lost, dirty, dueBusy, dueCopy, overtaken,
                       spent, woken, tried>>
    BY <1>1, <1>4 DEF ReplaySkipped, due, letters, budgets
  <2>2. Goes(c, s, "save")
    BY <1>1, <2>1 DEF Goes
  <2>3. SameBudgets(s, s)
    BY DEF SameBudgets
  <2>4. \A j \in Jobs : s.count[j] <= s.count[j] /\ s.stamp[j] <= s.stamp[j]
    BY <1>1
  <2> QED
    BY <1>1, <2>1, <2>2, <2>3, <2>4, ReplayingAccounts
<1> QED
  BY <1>2, <1>3, <1>4 DEF ReplayPass

\* The types of the steps: a cycle that goes on, one that begins, one that
\* ends, and what touches no account.
LEMMA NextAccounts ==
  ASSUME AccountInv, [Next]_vars
  PROVE  AllSane' /\ BudgetsAccounted' /\ ReplaysAccounted'
<1>1. Sane(Default, window, tried)
  BY CapNat, CountsType
     DEF Sane, Default, AccountInv, Base, TypeOK, Windows
<1>2. ASSUME \/ \E c \in Cycles : Save(c) \/ Cut(c)
             \/ Restart \/ DueLoad \/ DueSave
      PROVE  AllSane' /\ BudgetsAccounted' /\ ReplaysAccounted'
  <2>1. UNCHANGED <<window, spent, woken, tried>>
    BY <1>2 DEF Save, Cut, Restart, DueLoad, DueSave, letters, budgets
  <2>2. copy \in [Cycles -> State]
    BY DEF AccountInv, Base, TypeOK
  <2>3. AllSane'
    BY <1>1, <1>2, <2>1, <2>2
       DEF AccountInv, AllSane, Save, Cut, Ended, Restart, DueLoad, DueSave, due,
           cycles
  <2> QED
    BY <1>2, <2>1, <2>3, EndsAccount
<1>3. ASSUME UNCHANGED <<saved, pc, copy, dirty, dueBusy, dueCopy, overtaken, lost,
                         spent, woken, tried>>,
             window' \in {window, window + 1}
      PROVE  AllSane' /\ BudgetsAccounted' /\ ReplaysAccounted'
  <2>1. ASSUME NEW s \in State, Sane(s, window, tried)
        PROVE  Sane(s, window', tried')
    <3>1. s.window \in Nat /\ window \in Nat
      BY CapNat DEF State, AccountInv, Base, TypeOK
    <3> QED
      BY <1>3, <2>1, <3>1 DEF Sane
  <2>2. AllSane'
    BY <1>3, <2>1 DEF AccountInv, AllSane, Base, TypeOK
  <2>3. BudgetsAccounted'
    BY <1>3 DEF AccountInv, BudgetsAccounted, Accounted, Unsaved
  <2>4. ReplaysAccounted'
    BY <1>3 DEF AccountInv, ReplaysAccounted, Accounted, Unsaved
  <2> QED
    BY <2>2, <2>3, <2>4
<1>4. CASE StartupRefused \/ NextWindow \/ UNCHANGED vars
  BY <1>3, <1>4
     DEF StartupRefused, NextWindow, vars, cycles, due, letters, budgets
<1>5. ASSUME NEW j \in Jobs,
             (\E replayable \in Failures[j] : DeadLetter(j, replayable)) \/ Cool(j)
      PROVE  AllSane' /\ BudgetsAccounted' /\ ReplaysAccounted'
  BY <1>3, <1>5 DEF DeadLetter, Cool, cycles, due, budgets
<1>6. ASSUME NEW c \in Cycles, Fail(c) \/ TimeOut(c)
      PROVE  AllSane' /\ BudgetsAccounted' /\ ReplaysAccounted'
  BY <1>2, <1>6 DEF Fail, TimeOut
<1>7. ASSUME NEW c \in Cycles, Advance(c)
      PROVE  AllSane' /\ BudgetsAccounted' /\ ReplaysAccounted'
  BY <1>2, <1>7, SpendAccount, PassAccount, ReplayPassAccount DEF Advance
<1> QED
  BY <1>2, <1>4, <1>5, <1>6, <1>7, BeginAccount DEF Next

\* Who has something to save is under way.
LEMMA NextDirtyBusy ==
  ASSUME Base, [Next]_vars
  PROVE  DirtyBusy'
<1>1. pc \in [Cycles -> Places] /\ dirty \subseteq Cycles
  BY DEF Base, TypeOK
<1>2. ASSUME NEW c \in Cycles, NEW place \in Places \ {"idle"}, Goto(c, place),
             dirty' \subseteq dirty \cup {c}
      PROVE  DirtyBusy'
  BY <1>1, <1>2 DEF Base, DirtyBusy, Goto
<1>3. ASSUME NEW c \in Cycles, Advance(c) PROVE DirtyBusy'
  <2>1. ASSUME NEW kind \in Kinds, Spend(c, kind) PROVE DirtyBusy'
    <3>1. dirty' \subseteq dirty \cup {c} /\ Goto(c, After(kind))
      BY <2>1 DEF Spend, SpendCadence, SpendStartup, SpendForced
    <3> QED
      BY <1>2, <3>1 DEF After, Places
  <2>2. ASSUME NEW kind \in {"reflection", "workflow"}, Pass(c, kind)
        PROVE  DirtyBusy'
    BY <1>2, <2>2 DEF Pass, After, Places
  <2>3. CASE ReplayPass(c)
    <3>1. dirty' \subseteq dirty \cup {c} /\ Goto(c, "save")
      BY <2>3 DEF ReplayPass, Replay, ReplayRaises, ReplaySkipped
    <3> QED
      BY <1>2, <3>1 DEF Places
  <2>4. CASE Save(c)
    BY <1>1, <2>4 DEF Save, Ended, Base, DirtyBusy
  <2> QED
    BY <1>3, <2>1, <2>2, <2>3, <2>4 DEF Advance
<1>4. ASSUME NEW c \in Cycles, NEW m \in Modes, NEW idle \in BOOLEAN,
             Begin(c, m, idle)
      PROVE  DirtyBusy'
  <2>1. dirty' = dirty /\ (Goto(c, "replay") \/ Goto(c, "reflection"))
    BY <1>4 DEF Begin
  <2> QED
    BY <1>2, <2>1 DEF Places
<1>5. ASSUME NEW c \in Cycles, Fail(c) \/ TimeOut(c) PROVE DirtyBusy'
  BY <1>1, <1>5 DEF Fail, TimeOut, Cut, Ended, Base, DirtyBusy
<1>6. CASE Restart
  BY <1>6 DEF Restart, DirtyBusy
<1>7. ASSUME UNCHANGED <<pc, dirty>> PROVE DirtyBusy'
  BY <1>7 DEF Base, DirtyBusy
<1>8. CASE StartupRefused \/ DueLoad \/ DueSave \/ NextWindow
  BY <1>7, <1>8 DEF StartupRefused, DueLoad, DueSave, NextWindow, cycles
<1>9. ASSUME NEW j \in Jobs,
             (\E replayable \in Failures[j] : DeadLetter(j, replayable)) \/ Cool(j)
      PROVE  DirtyBusy'
  BY <1>7, <1>9 DEF DeadLetter, Cool, cycles
<1>10. CASE UNCHANGED vars
  BY <1>7, <1>10 DEF vars, cycles
<1> QED
  BY <1>3, <1>4, <1>5, <1>6, <1>8, <1>9, <1>10 DEF Next

\* Replays only add up, and a cooldown ends on what was tried.
LEMMA NextCooled ==
  ASSUME TypeOK, CooledIsTried, [Next]_vars
  PROVE  CooledIsTried'
<1>1. \A j \in Jobs : cooled[j] \in Nat /\ tried[j] \in Nat
  BY DEF TypeOK
<1>2. ASSUME UNCHANGED cooled, \A j \in Jobs : tried'[j] \in {tried[j], tried[j] + 1}
      PROVE  CooledIsTried'
  BY <1>1, <1>2 DEF CooledIsTried
<1>3. ASSUME NEW all, Tried(all), UNCHANGED cooled PROVE CooledIsTried'
  BY <1>2, <1>3 DEF Tried
<1>4. ASSUME UNCHANGED <<cooled, tried>> PROVE CooledIsTried'
  BY <1>4 DEF CooledIsTried
<1>5. ASSUME NEW c \in Cycles, Advance(c) PROVE CooledIsTried'
  BY <1>3, <1>4, <1>5
     DEF Advance, Spend, Pass, ReplayPass, Replay, ReplayRaises, ReplaySkipped, Save,
         letters
<1>6. ASSUME NEW c \in Cycles, Fail(c) \/ TimeOut(c) PROVE CooledIsTried'
  BY <1>4, <1>6 DEF Fail, TimeOut, Cut, letters
<1>7. ASSUME NEW c \in Cycles, NEW m \in Modes, NEW idle \in BOOLEAN,
             Begin(c, m, idle)
      PROVE  CooledIsTried'
  BY <1>4, <1>7 DEF Begin, letters
<1>8. CASE StartupRefused \/ Restart \/ DueLoad \/ DueSave \/ NextWindow
  BY <1>4, <1>8 DEF StartupRefused, Restart, DueLoad, DueSave, NextWindow, letters
<1>9. ASSUME NEW j \in Jobs,
             \E replayable \in Failures[j] : DeadLetter(j, replayable)
      PROVE  CooledIsTried'
  BY <1>4, <1>9 DEF DeadLetter
<1>10. ASSUME NEW j \in Jobs, Cool(j) PROVE CooledIsTried'
  BY <1>1, <1>10 DEF Cool, TypeOK, CooledIsTried
<1>11. CASE UNCHANGED vars
  BY <1>4, <1>11 DEF vars, letters
<1> QED
  BY <1>5, <1>6, <1>7, <1>8, <1>9, <1>10, <1>11 DEF Next

LEMMA InitAccountInv == Init => AccountInv
<1> SUFFICES ASSUME Init PROVE AccountInv
  OBVIOUS
<1>1. Base
  BY InitTypeOK DEF Base, Exclusion, Alone, FlagTells, DirtyBusy, Init
<1>2. AllSane
  BY CapNat DEF AllSane, Sane, Default, Init
<1>3. ASSUME NEW K \in [State -> Nat], NEW P PROVE Accounted(K, 0, P)
  <2>1. K[saved] \in Nat /\ Unsaved(P) \in {0, 1}
    BY <1>1, UnsavedRange DEF Base, TypeOK
  <2> QED
    BY <2>1 DEF Init, Accounted
<1>4. BudgetsAccounted
  <2>1. \A k \in Kinds, w \in Windows : spent[k][w] = 0 /\ woken[k][w] = 0
    BY DEF Init
  <2> QED
    BY <1>3, <2>1, KnownType DEF BudgetsAccounted
<1>5. ReplaysAccounted /\ CooledIsTried
  <2>1. \A j \in Jobs : tried[j] = 0 /\ cooled[j] = 0
    BY DEF Init
  <2> QED
    BY <1>3, <2>1, KnownType DEF ReplaysAccounted, CooledIsTried
<1> QED
  BY <1>1, <1>2, <1>4, <1>5 DEF AccountInv

LEMMA NextAccountInv == AccountInv /\ [Next]_vars => AccountInv'
<1> SUFFICES ASSUME AccountInv, [Next]_vars PROVE AccountInv'
  OBVIOUS
<1>1. Base'
  BY NextTypeOK, NextExclusion, NextDirtyBusy DEF AccountInv, Base
<1>2. CooledIsTried'
  BY NextCooled DEF AccountInv, Base
<1> QED
  BY <1>1, <1>2, NextAccounts DEF AccountInv

\* Between cycles the file, and within one the cycle's copy, misses no more
\* than was lost.
LEMMA SomeStateAdmits ==
  ASSUME AccountInv, NEW K \in [State -> Nat], NEW d \in Nat, NEW P,
         Accounted(K, d, P)
  PROVE  \E s \in State : Sane(s, window, tried) /\ d <= K[s] + lost
<1>1. /\ saved \in State /\ copy \in [Cycles -> State] /\ lost \in Nat
      /\ dirty \subseteq Cycles
  BY DEF AccountInv, Base, TypeOK
<1>2. CASE \E c \in Cycles : pc[c] # "idle"
  BY <1>1, <1>2 DEF Accounted, AccountInv, AllSane
<1>3. CASE ~(\E c \in Cycles : pc[c] # "idle")
  <2>1. Unsaved(P) = 0
    BY <1>1, <1>3 DEF AccountInv, Base, DirtyBusy, Unsaved
  <2>2. d <= K[saved] + lost
    BY <1>1, <2>1 DEF Accounted
  <2> QED
    BY <1>1, <2>2 DEF AccountInv, AllSane
<1> QED
  BY <1>2, <1>3

-----------------------------------------------------------------------------
(* Theorems                                                                *)

LEMMA AccountBudgets == AccountInv => BudgetPerWindow
<1> SUFFICES ASSUME AccountInv, NEW k \in Kinds, NEW w \in Windows
             PROVE  spent[k][w] <= Cap[k] + lost
  BY DEF BudgetPerWindow
<1>1. /\ spent[k][w] \in Nat /\ lost \in Nat /\ Cap[k] \in Nat
      /\ UsedIn(k, w) \in [State -> Nat]
      /\ Accounted(UsedIn(k, w), spent[k][w], Past(k))
  BY CountsType, CapNat, KnownType DEF AccountInv, Base, TypeOK, BudgetsAccounted
<1>2. PICK s \in State : /\ Sane(s, window, tried)
                         /\ spent[k][w] <= UsedIn(k, w)[s] + lost
  BY <1>1, SomeStateAdmits
<1>3. s.used[k] <= Cap[k] /\ s.used[k] \in Nat
  BY <1>2 DEF Sane, State
<1>4. UsedIn(k, w)[s] <= Cap[k] /\ UsedIn(k, w)[s] \in Nat
  BY <1>1, <1>3 DEF UsedIn
<1> QED
  BY <1>1, <1>2, <1>4

LEMMA AccountStartup == AccountInv => StartupOncePerLaterWindow
<1> SUFFICES ASSUME AccountInv, NEW k \in Kinds, NEW w \in Windows \ {0}
             PROVE  woken[k][w] <= 1 + lost
  BY DEF StartupOncePerLaterWindow
<1>1. /\ woken[k][w] \in Nat /\ lost \in Nat
      /\ NotedIn(k, w) \in [State -> Nat]
      /\ Accounted(NotedIn(k, w), woken[k][w], Past(k))
  BY CountsType, KnownType DEF AccountInv, Base, TypeOK, BudgetsAccounted
<1>2. PICK s \in State : woken[k][w] <= NotedIn(k, w)[s] + lost
  BY <1>1, SomeStateAdmits
<1>3. NotedIn(k, w)[s] \in {0, 1}
  BY DEF NotedIn
<1> QED
  BY <1>1, <1>2, <1>3

LEMMA AccountReplays == AccountInv => ReplaysPerJob
<1> SUFFICES ASSUME AccountInv, NEW j \in Jobs
             PROVE  tried[j] <= MaxReplays + lost
  BY DEF ReplaysPerJob
<1>1. /\ tried[j] \in Nat /\ lost \in Nat /\ MaxReplays \in Nat
      /\ CountOf(j) \in [State -> Nat]
      /\ Accounted(CountOf(j), tried[j], {"save"})
  BY CountsType, CapNat, KnownType DEF AccountInv, Base, TypeOK, ReplaysAccounted
<1>2. PICK s \in State : /\ Sane(s, window, tried)
                         /\ tried[j] <= CountOf(j)[s] + lost
  BY <1>1, SomeStateAdmits
<1>3. CountOf(j)[s] <= MaxReplays /\ CountOf(j)[s] \in Nat
  BY <1>2 DEF CountOf, Sane, State
<1> QED
  BY <1>1, <1>2, <1>3

\* A pass replays what the copy's stamp lets it, and the stamp is the last
\* replay when nothing was lost.
LEMMA AccountCooldown ==
  ASSUME AccountInv, [Next]_vars, NEW j \in Jobs, tried'[j] # tried[j], lost' = 0
  PROVE  cooled[j] = tried[j]
<1>1. PICK c \in Cycles : ReplayPass(c)
  BY DEF Next, Begin, Advance, Spend, Pass, Save, Fail, TimeOut, Cut,
     StartupRefused, Restart, DueLoad, DueSave, NextWindow, DeadLetter, Cool, vars,
     letters
<1>2. PICK ok \in SUBSET DueForReplay(copy[c]), failed \in SUBSET DueForReplay(copy[c]) :
        pc[c] = "replay" /\ lost = 0 /\ Tried(ok \cup failed)
  <2>1. lost \in Nat
    BY DEF AccountInv, Base, TypeOK
  <2>2. ~ReplaySkipped(c)
    BY DEF ReplaySkipped, letters
  <2>3. \A ok : ~ReplayRaises(c, ok)
    BY <2>1 DEF ReplayRaises
  <2> QED
    BY <1>1, <2>2, <2>3 DEF ReplayPass, Replay
<1>3. j \in DueForReplay(copy[c])
  BY <1>2 DEF Tried, AccountInv, Base, TypeOK
<1>4. copy[c].stamp[j] <= cooled[j] /\ cooled[j] <= tried[j]
  BY <1>3 DEF DueForReplay, AccountInv, CooledIsTried
<1>5. copy[c] \in State /\ cooled[j] \in Nat /\ tried[j] \in Nat
  BY DEF AccountInv, Base, TypeOK
<1>6. copy[c].stamp[j] \in Nat /\ StampOf(j)[copy[c]] = copy[c].stamp[j]
  BY <1>5 DEF State, StampOf
<1>7. tried[j] <= StampOf(j)[copy[c]] + lost
  BY <1>2 DEF AccountInv, ReplaysAccounted, Accounted
<1> QED
  BY <1>2, <1>4, <1>5, <1>6, <1>7

\* Cadence cycles stay within the caps of a window, up to the spendings whose
\* record a cut, a restart or the due check's save has lost, however these
\* interleave: the copy, the file and the due check's copy each account for the
\* rest.
THEOREM BudgetsKept == Spec => []BudgetPerWindow
  BY InitAccountInv, NextAccountInv, AccountBudgets, PTL DEF Spec

\* Any number of restarts within a window spends its startup budget once, up to
\* the spendings that were lost.
THEOREM StartupOnce == Spec => []StartupOncePerLaterWindow
  BY InitAccountInv, NextAccountInv, AccountStartup, PTL DEF Spec

\* A job is replayed no more than MaxReplays times, up to the replays whose
\* record was lost.
THEOREM ReplaysBounded == Spec => []ReplaysPerJob
  BY InitAccountInv, NextAccountInv, AccountReplays, PTL DEF Spec

\* While no record has been lost, no pass replays a job that cools down,
\* whatever other passes and restarts came before.
THEOREM CooldownsKept == Spec => CooldownKept
<1>1. AccountInv /\ [Next]_vars =>
        [\A j \in Jobs : tried'[j] # tried[j] /\ lost' = 0
                         => cooled[j] = tried[j]]_vars
  BY AccountCooldown
<1> QED
  BY <1>1, InitAccountInv, NextAccountInv, PTL DEF Spec, CooldownKept
=============================================================================

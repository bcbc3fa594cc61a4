---------------------------- MODULE AutonomyCycle ----------------------------
(***************************************************************************)
(* The autonomy cycle of src/src/core/runtime/proactive_manager.py: its    *)
(* budgets of reflections and workflows per cadence window, the automatic  *)
(* replay of dead letters, and the state file all of it is kept in.        *)
(*                                                                         *)
(* A cycle loads the whole file when it begins, works on its copy across   *)
(* many awaits and writes the copy back when it ends.  The week1 due check *)
(* does the same with a copy of its own, and nothing keeps the two apart.  *)
(* What a cycle does to the world (a reflection, a replay in the runplane) *)
(* is done at once; only the record of it waits for the save.              *)
(*                                                                         *)
(* Left out: the executors, the calendar and the recommendations a cycle   *)
(* also runs, whose stamps in the file decide nothing below; the escalation*)
(* of deliveries and the audit, which keep nothing; the text of an entry.  *)
(***************************************************************************)
EXTENDS Integers, FiniteSets, Sequences, Functions

CONSTANTS
  Cycles,        \* coroutines of _run_autonomy_cycle_async
  Kinds,         \* what a window has budgets for, of "reflection", "workflow"
  Modes,         \* how cycles are called: by start() ("startup"), by the
                 \* cadence timer ("cadence"), by the API with force
                 \* ("forced"), or with force and a trigger that begins
                 \* with manual ("manual")
  Jobs,          \* jobs of the runplane
  Failures,      \* per job, whether its failures are of a class to replay:
                 \* always, never, or now one and now the other
  Cap,           \* reflections and workflows per window
  MaxReplays,    \* VERA_AUTONOMY_DEAD_LETTER_MAX_REPLAYS_PER_JOB
  MaxPerCycle,   \* VERA_AUTONOMY_DEAD_LETTER_REPLAY_MAX_PER_CYCLE
  FailureLimit,  \* VERA_AUTONOMY_DEAD_LETTER_REPLAY_FAIL_ESCALATION_THRESHOLD
  ScanLimit,     \* dead letters a pass lists: max(20, 20 * MaxPerCycle)
  LettersKept,   \* the runplane's _max_dead_letters
  WindowBound,   \* bound: the last cadence window
  StopBound,     \* bound: restarts, cycles cut short, replay passes that raise
  DueBound       \* bound: due checks that reach the executor

ASSUME AutonomyAssumption ==
  /\ Kinds \subseteq {"reflection", "workflow"}
  /\ "startup" \in Modes => "reflection" \in Kinds
  /\ Modes \subseteq {"startup", "cadence", "forced", "manual"}
  /\ "cadence" \in Modes
  /\ IsFiniteSet(Jobs) /\ IsFiniteSet(Cycles)
  /\ Failures \in [Jobs -> SUBSET BOOLEAN]
  /\ Cap \in [Kinds -> Nat \ {0}]
  /\ {MaxReplays, MaxPerCycle, FailureLimit, ScanLimit, LettersKept} \subseteq Nat \ {0}
  /\ {WindowBound, StopBound, DueBound} \subseteq Nat

Windows == 0 .. WindowBound
NoWindow == -1

\* Where a cycle is: the next thing it will do.
Places == {"idle", "reflection", "workflow", "replay", "save"}

VARIABLES
  window,     \* the cadence window the clock is in
  saved,      \* autonomy_cadence_state.json
  running,    \* _autonomy_cycle_running
  pc, mode,   \* where each cycle is, and how it was called
  copy,       \* the state each cycle works on
  dueBusy,    \* a due check awaits its executor
  dueCopy,    \* the state the due check works on
  booting,    \* the startup cycle was scheduled and has not begun
  dead,       \* the runplane's dead letters, oldest first
  cooled,     \* per job, the attempts whose cooldown is over
  spent,      \* history: counted spendings of cadence cycles
  woken,      \* history: spendings of startup cycles
  tried,      \* history: replays attempted
  dirty,      \* cycles with something done that is not saved
  overtaken,  \* cycles that saved such a thing while the due check waits
  lost,       \* history: records of something done that were lost
  reported,   \* cycles the API reported in progress that have not saved
  stops, dues

cycles  == <<running, pc, mode, copy, dirty, reported>>
due     == <<dueBusy, dueCopy, overtaken, dues>>
letters == <<dead, cooled, tried>>
budgets == <<spent, woken>>
vars == <<window, saved, booting, lost, stops, cycles, due, letters, budgets>>

State == [window : Windows, used : [Kinds -> Nat],
          startup : [Kinds -> Windows \cup {NoWindow}],
          count : [Jobs -> Nat], fails : [Jobs -> Nat], stamp : [Jobs -> Nat],
          escalated : SUBSET Jobs]

\* A letter can be replayed when its failure class is on the list for it; the
\* others every pass skips and leaves to an operator.
Letter == [job : Jobs, replayable : BOOLEAN]

\* _default_autonomy_state.
Default ==
  [window |-> 0, used |-> [k \in Kinds |-> 0],
   startup |-> [k \in Kinds |-> NoWindow],
   count |-> [j \in Jobs |-> 0], fails |-> [j \in Jobs |-> 0],
   stamp |-> [j \in Jobs |-> 0], escalated |-> {}]

TypeOK ==
  /\ window \in Windows
  /\ saved \in State /\ dueCopy \in State
  /\ running \in BOOLEAN /\ dueBusy \in BOOLEAN /\ booting \in BOOLEAN
  /\ pc \in [Cycles -> Places]
  /\ mode \in [Cycles -> Modes]
  /\ copy \in [Cycles -> State]
  /\ dead \in Seq(Letter)
  /\ cooled \in [Jobs -> Nat] /\ tried \in [Jobs -> Nat]
  /\ spent \in [Kinds -> [Windows -> Nat]]
  /\ woken \in [Kinds -> [Windows -> Nat]]
  /\ dirty \subseteq Cycles /\ reported \subseteq Cycles
  /\ {overtaken, lost} \subseteq Nat
  /\ stops \in 0 .. StopBound /\ dues \in 0 .. DueBound

Init ==
  /\ window = 0
  /\ saved = Default /\ dueCopy = Default
  /\ running = FALSE /\ dueBusy = FALSE /\ booting = TRUE
  /\ pc = [c \in Cycles |-> "idle"]
  /\ mode = [c \in Cycles |-> "cadence"]
  /\ copy = [c \in Cycles |-> Default]
  /\ dead = <<>>
  /\ cooled = [j \in Jobs |-> 0] /\ tried = [j \in Jobs |-> 0]
  /\ spent = [k \in Kinds |-> [w \in Windows |-> 0]]
  /\ woken = [k \in Kinds |-> [w \in Windows |-> 0]]
  /\ dirty = {} /\ reported = {}
  /\ overtaken = 0 /\ lost = 0 /\ stops = 0 /\ dues = 0

-----------------------------------------------------------------------------
Goto(c, place) == pc' = [pc EXCEPT ![c] = place]

\* Mutated form: every cycle gives the budgets back.
RenewedAlways(s) ==
  [s EXCEPT !.window = window, !.used = Default.used,
            !.startup = Default.startup]

\* A new window gives back the budgets and forgets the startup cycle.
Renewed(s) ==
  IF s.window = window THEN s
  ELSE [s EXCEPT !.window = window, !.used = Default.used,
                 !.startup = Default.startup]

\* int(index or -1): window 0 reads as no window.
OrMinusOne(index) == IF index = 0 THEN NoWindow ELSE index

\* A startup cycle has already spent the kind in this window.
StartupUsed(s, kind) == OrMinusOne(s.startup[kind]) = s.window

\* Mutated form: the guard is gone.
FreeAlways == TRUE

Free == ~running

\* The guard at the head of the cycle and the load.  An idle window spends
\* nothing, nor does a startup cycle after an earlier one that reflected.
Begin(c, m, idle) ==
  /\ pc[c] = "idle" /\ Free
  /\ m = "startup" => booting
  /\ m \in {"forced", "manual"} => ~idle
  /\ running' = TRUE
  /\ booting' = (booting /\ m # "startup")
  /\ copy' = [copy EXCEPT ![c] = Renewed(saved)]
  /\ mode' = [mode EXCEPT ![c] = m]
  /\ LET skips == idle \/ (m = "startup" /\ StartupUsed(copy'[c], "reflection"))
     IN Goto(c, IF skips THEN "replay" ELSE "reflection")
  /\ UNCHANGED <<window, saved, lost, stops, dirty, reported, due, letters,
                 budgets>>

\* The startup cycle finds another one running and is not tried again.
StartupRefused ==
  /\ booting /\ running
  /\ booting' = FALSE
  /\ UNCHANGED <<window, saved, lost, stops, cycles, due, letters, budgets>>

\* A forced cycle reflects beyond the cap; only a manual one works beyond it.
MaySpend(c, kind) ==
  \/ mode[c] = "startup" /\ ~StartupUsed(copy[c], kind)
  \/ mode[c] # "startup" /\ copy[c].used[kind] < Cap[kind]
  \/ mode[c] = "forced" /\ kind = "reflection"
  \/ mode[c] = "manual"

\* Only `used < Cap' is ever asked, so the counter stops at the cap.
Counted(s, kind) ==
  [s EXCEPT !.used[kind] = IF @ < Cap[kind] THEN @ + 1 ELSE @]

\* Mutated form: the startup spending is not remembered.
NotedNowhere(s, kind) == s

Noted(s, kind) == [s EXCEPT !.startup[kind] = s.window]

After(kind) == IF kind = "reflection" THEN "workflow" ELSE "replay"

\* The awaited reflection or workflow and the count that follows it.
SpendCadence(c, kind) ==
  /\ mode[c] = "cadence"
  /\ copy' = [copy EXCEPT ![c] = Counted(@, kind)]
  /\ spent' = [spent EXCEPT ![kind][copy[c].window] = @ + 1]
  /\ dirty' = dirty \cup {c}
  /\ UNCHANGED woken

SpendStartup(c, kind) ==
  /\ mode[c] = "startup"
  /\ copy' = [copy EXCEPT ![c] = Noted(@, kind)]
  /\ woken' = [woken EXCEPT ![kind][copy[c].window] = @ + 1]
  /\ dirty' = dirty \cup {c}
  /\ UNCHANGED spent

\* A forced cycle counts what it spends, a manual one does not.
SpendForced(c, kind) ==
  /\ mode[c] \in {"forced", "manual"}
  /\ copy' = IF mode[c] = "forced"
             THEN [copy EXCEPT ![c] = Counted(@, kind)] ELSE copy
  /\ UNCHANGED <<spent, woken, dirty>>

Spend(c, kind) ==
  /\ pc[c] = kind
  /\ MaySpend(c, kind)
  /\ SpendCadence(c, kind) \/ SpendStartup(c, kind) \/ SpendForced(c, kind)
  /\ Goto(c, After(kind))
  /\ UNCHANGED <<window, saved, booting, lost, stops, running, mode, reported,
                 due, letters>>

\* Nothing to do, no budget, an error, or a reflection on actionable work
\* that stays internal and is not counted.
Pass(c, kind) ==
  /\ pc[c] = kind
  /\ Goto(c, After(kind))
  /\ UNCHANGED <<window, saved, booting, lost, stops, running, mode, copy,
                 dirty, reported, due, letters, budgets>>

-----------------------------------------------------------------------------
\* A pass lists the newest letters of all jobs, whatever can be done with them.
Listed == {i \in 1 .. Len(dead) : Len(dead) < i + ScanLimit}

\* The listed letters of a job that can be replayed.
Letters(j) == {i \in Listed : dead[i].job = j /\ dead[i].replayable}

Open(s) == {j \in Jobs : Letters(j) # {}} \ s.escalated
Exhausted(s) == {j \in Open(s) : s.count[j] >= MaxReplays}

\* Mutated form: the cooldown is not looked at.
DueUncooled(s) == Open(s) \ Exhausted(s)

DueForReplay(s) == {j \in Open(s) \ Exhausted(s) : s.stamp[j] <= cooled[j]}

\* Mutated forms: nobody is escalated; only a replay that succeeds is recorded.
NeverEscalated(s, ok, failed, over) ==
  LET all == ok \cup failed IN
  [s EXCEPT
    !.count = [j \in Jobs |-> IF j \in all THEN @[j] + 1 ELSE @[j]],
    !.stamp = [j \in Jobs |-> IF j \in all THEN tried[j] + 1 ELSE @[j]]]
RecordedWhenOk(s, ok, failed, over) ==
  [s EXCEPT
    !.count = [j \in Jobs |-> IF j \in ok THEN @[j] + 1 ELSE @[j]],
    !.stamp = [j \in Jobs |-> IF j \in ok THEN tried[j] + 1 ELSE @[j]]]

\* The entries after a pass.  `ok' and `failed' were replayed, `over' are out
\* of replays; too many failures in a row escalate a job as well.
Recorded(s, ok, failed, over) ==
  LET all == ok \cup failed
      fails == [j \in Jobs |-> IF j \in ok THEN 0
                               ELSE IF j \in failed THEN s.fails[j] + 1
                               ELSE s.fails[j]]
  IN [s EXCEPT
       !.count = [j \in Jobs |-> IF j \in all THEN @[j] + 1 ELSE @[j]],
       !.stamp = [j \in Jobs |-> IF j \in all THEN tried[j] + 1 ELSE @[j]],
       !.fails = fails,
       !.escalated = @ \cup over \cup {j \in failed : fails[j] >= FailureLimit}]

\* A job whose last replay was this pass's, and that has another letter.
JustExhausted(s, all) ==
  {j \in all : s.count[j] + 1 >= MaxReplays /\ Cardinality(Letters(j)) > 1}

Outworn(s, all) == Exhausted(s) \cup JustExhausted(s, all)

\* The first letter of the job in the list.
Newest(j) == CHOOSE i \in Letters(j) : \A k \in Letters(j) : k <= i

\* These letters are taken out; the others keep their order.
TakenOut(gone) ==
  LET stay == (1 .. Len(dead)) \ gone IN
  \E n \in 0 .. Len(dead) : \E place \in [1 .. n -> stay] :
    /\ Range(place) = stay
    /\ \A k, m \in 1 .. n : k < m => place[k] < place[m]
    /\ dead' = [k \in 1 .. n |-> dead[place[k]]]

\* A replay takes one letter of its job, which may have more of them.
Tried(all) ==
  /\ tried' = [j \in Jobs |-> IF j \in all THEN tried[j] + 1 ELSE tried[j]]
  /\ TakenOut({Newest(j) : j \in all})

\* _auto_replay_dead_letters.  It stops after MaxPerCycle replays, otherwise
\* it goes through every listed letter.  A replay fails when another thread's
\* failure has pushed the letter out of the runplane's list in between.
Replay(c, ok, failed, over) ==
  /\ pc[c] = "replay" /\ mode[c] # "manual"
  /\ ok \cap failed = {} /\ Cardinality(ok) <= MaxPerCycle
  /\ Cardinality(ok) < MaxPerCycle =>
       ok \cup failed = DueForReplay(copy[c]) /\ over = Outworn(copy[c], ok \cup failed)
  /\ copy' = [copy EXCEPT ![c] = Recorded(@, ok, failed, over)]
  /\ Tried(ok \cup failed)
  /\ dirty' = IF ok \cup failed \cup over = {} THEN dirty ELSE dirty \cup {c}
  /\ Goto(c, "save")
  /\ UNCHANGED <<window, saved, booting, lost, stops, running, mode, reported,
                 due, cooled, budgets>>

\* The pass raises after some replays: its entries are a local dict until the
\* last line, and the cycle goes on with the old ones.
ReplayRaises(c, ok) ==
  /\ pc[c] = "replay" /\ mode[c] # "manual"
  /\ stops < StopBound /\ stops' = stops + 1
  /\ Cardinality(ok) \in 1 .. MaxPerCycle
  /\ Tried(ok)
  /\ lost' = lost + 1
  /\ Goto(c, "save")
  /\ UNCHANGED <<window, saved, booting, running, mode, copy, dirty, reported,
                 due, cooled, budgets>>

\* A manual cycle replays nothing.
ReplaySkipped(c) ==
  /\ pc[c] = "replay" /\ mode[c] = "manual"
  /\ Goto(c, "save")
  /\ UNCHANGED <<window, saved, booting, lost, stops, running, mode, copy,
                 dirty, reported, due, letters, budgets>>

ReplayPass(c) ==
  \/ ReplaySkipped(c)
  \/ \E ok \in SUBSET DueForReplay(copy[c]) :
       \/ ReplayRaises(c, ok)
       \/ \E failed \in SUBSET DueForReplay(copy[c]) :
            \E over \in SUBSET Outworn(copy[c], ok \cup failed) :
              Replay(c, ok, failed, over)

\* What a cycle leaves behind.
Ended(c) ==
  /\ pc' = [pc EXCEPT ![c] = "idle"]
  /\ mode' = [mode EXCEPT ![c] = "cadence"]
  /\ copy' = [copy EXCEPT ![c] = Default]
  /\ dirty' = dirty \ {c}

\* The copy is written and the finally clause frees the guard.
Save(c) ==
  /\ pc[c] = "save"
  /\ saved' = copy[c]
  /\ overtaken' = IF dueBusy /\ c \in dirty THEN overtaken + 1 ELSE overtaken
  /\ reported' = reported \ {c}
  /\ running' = FALSE
  /\ Ended(c)
  /\ UNCHANGED <<window, booting, lost, stops, dueBusy, dueCopy, dues,
                 letters, budgets>>

\* The steps of a cycle that has begun.
Advance(c) ==
  \/ \E kind \in Kinds : Spend(c, kind)
  \/ \E kind \in {"reflection", "workflow"} : Pass(c, kind)
  \/ ReplayPass(c)
  \/ Save(c)

\* Mutated form: the guard is not freed when a cycle is cut short.
Unfreed == running

Freed == FALSE

\* A cycle is cancelled, or raises, before its save.  With the red-team run
\* switched on it awaits once more after the replays.
Cut(c) ==
  /\ pc[c] # "idle"
  /\ stops < StopBound /\ stops' = stops + 1
  /\ lost' = IF c \in dirty THEN lost + 1 ELSE lost
  /\ running' = Freed
  /\ Ended(c)
  /\ UNCHANGED <<window, saved, booting, due, letters, budgets>>

Fail(c) == Cut(c) /\ UNCHANGED reported

\* An API call that waits for its cycle times out: wait_for cancels the cycle,
\* the answer says that it is in progress and continues in the background.
TimeOut(c) == Cut(c) /\ reported' = reported \cup {c}

\* The process ends, cleanly or not, and starts again.
Restart ==
  /\ stops < StopBound /\ stops' = stops + 1
  /\ lost' = lost + Cardinality(dirty)
  /\ dirty' = {} /\ reported' = {}
  /\ pc' = [c \in Cycles |-> "idle"]
  /\ mode' = [c \in Cycles |-> "cadence"]
  /\ copy' = [c \in Cycles |-> Default]
  /\ running' = FALSE /\ booting' = TRUE
  /\ dueBusy' = FALSE /\ dueCopy' = Default /\ overtaken' = 0
  /\ UNCHANGED <<window, saved, dues, letters, budgets>>

-----------------------------------------------------------------------------
\* The due check has found work, loads the state and awaits its executor.
DueLoad ==
  /\ ~dueBusy
  /\ dues < DueBound /\ dues' = dues + 1
  /\ dueBusy' = TRUE /\ dueCopy' = saved /\ overtaken' = 0
  /\ UNCHANGED <<window, saved, booting, lost, stops, cycles, letters, budgets>>

\* It stamps its copy and saves it, whatever was saved since.
DueSave ==
  /\ dueBusy
  /\ saved' = dueCopy
  /\ lost' = lost + overtaken
  /\ dueBusy' = FALSE /\ dueCopy' = Default /\ overtaken' = 0
  /\ UNCHANGED <<window, booting, stops, dues, cycles, letters, budgets>>

-----------------------------------------------------------------------------
\* A run of the job fails for good and leaves a letter; past its cap the
\* runplane's list loses the oldest one.
DeadLetter(j, replayable) ==
  /\ LET all == Append(dead, [job |-> j, replayable |-> replayable]) IN
     dead' = IF Len(all) > LettersKept THEN Tail(all) ELSE all
  /\ UNCHANGED <<window, saved, booting, lost, stops, cycles, due, cooled,
                 tried, budgets>>

\* The cooldown of the job's replays is over.
Cool(j) ==
  /\ cooled' = [cooled EXCEPT ![j] = tried[j]]
  /\ UNCHANGED <<window, saved, booting, lost, stops, cycles, due, dead, tried,
                 budgets>>

NextWindow ==
  /\ window < WindowBound /\ window' = window + 1
  /\ UNCHANGED <<saved, booting, lost, stops, cycles, due, letters, budgets>>

Next ==
  \/ \E c \in Cycles :
       \/ \E m \in Modes, idle \in BOOLEAN : Begin(c, m, idle)
       \/ Advance(c) \/ Fail(c) \/ TimeOut(c)
  \/ StartupRefused \/ Restart \/ DueLoad \/ DueSave \/ NextWindow
  \/ \E j \in Jobs : Cool(j) \/ \E replayable \in Failures[j] : DeadLetter(j, replayable)

Spec == Init /\ [][Next]_vars

\* A cycle that has begun goes on, as does the due check; time passes; and the
\* cadence timer, which fires for ever, does not always find a cycle running.
FairSpec ==
  /\ Spec
  /\ \A c \in Cycles : WF_vars(Advance(c))
  /\ WF_vars(DueSave)
  /\ \A j \in Jobs : WF_vars(Cool(j))
  /\ SF_vars(\E c \in Cycles, idle \in BOOLEAN : Begin(c, "cadence", idle))

-----------------------------------------------------------------------------
\* One cycle works at a time, and the flag says when: cycles that are cut
\* short at any await leave it free.
OneCycleAtATime ==
  /\ Cardinality({c \in Cycles : pc[c] # "idle"}) <= 1
  /\ running <=> \E c \in Cycles : pc[c] # "idle"

\* Cadence cycles spend no more in a window than its cap, except for what was
\* spent and then lost from the record: a cycle cut short after spending, or
\* overwritten by a due check that loaded before.
BudgetPerWindow ==
  \A k \in Kinds, w \in Windows : spent[k][w] <= Cap[k] + lost

\* Restarts within one window spend its startup budget once, with the same
\* exception, in every window but the first.
StartupOncePerLaterWindow ==
  \A k \in Kinds, w \in Windows \ {0} : woken[k][w] <= 1 + lost

\* A job is replayed at most MaxReplays times, and once more for every record
\* that was lost.
ReplaysPerJob == \A j \in Jobs : tried[j] <= MaxReplays + lost

\* Unless a record was lost, a job is not replayed again in its cooldown.
CooldownKept ==
  [][\A j \in Jobs : tried'[j] # tried[j] /\ lost' = 0 => cooled[j] = tried[j]]_vars

HasLetter(j) == \E i \in 1 .. Len(dead) : dead[i].job = j /\ dead[i].replayable

\* The list is full of letters that no pass will touch: of classes that are
\* not replayed, or of jobs given up.  None of them leaves by itself.
ListBlocked == Len(dead) > ScanLimit /\ Open(saved) = {}

\* A dead letter does not wait for ever: it is replayed or displaced, its job
\* is given up and escalated, or the newer letters that keep it out of the
\* list come to be ones that no pass touches, and then it is not looked at.
LettersSettle ==
  \A j \in Jobs :
    HasLetter(j) ~> (~HasLetter(j) \/ j \in saved.escalated \/ ListBlocked)

\* "autonomy cycle timed out; continuing in background": no other cycle begins
\* before the one reported in progress has saved.
ReportedCycleContinues ==
  [][\A c \in Cycles :
       pc[c] = "idle" /\ pc'[c] # "idle" => reported = {}]_vars
=============================================================================

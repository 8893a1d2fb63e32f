--------------------------- MODULE ScenarioProofs ---------------------------
(* What is proved of a scenario (module Scenario), for every executor, any     *)
(* number of VUs, any budget of iterations and any number of arrivals.         *)
EXTENDS Scenario, FiniteSetTheorems, TLAPS

-----------------------------------------------------------------------------
(* The inductive invariant.                                                    *)

\* The types; the bounds of the counters follow from the parts below.
Tokens ==
  /\ kind \in Kinds
  /\ phase \in {"waiting", "running", "draining", "joining", "done"}
  /\ soft \in BOOLEAN /\ hard \in BOOLEAN /\ abort \in BOOLEAN /\ cancel \in BOOLEAN
  /\ pause \in BOOLEAN /\ pauses \in 0..MaxPauses /\ deadline \in BOOLEAN
  /\ sender \in BOOLEAN /\ closed \in BOOLEAN /\ expiry \in BOOLEAN
  /\ watchdog \in {"off", "armed", "grace"}
Tasks ==
  /\ vu \in [Vu -> VuStates]
  /\ counted \in SUBSET Vu /\ note \in SUBSET Vu /\ timer \in SUBSET Vu
  /\ allowed \in 0..Pool
Counters ==
  /\ remaining \in 0..Iterations /\ seen \in [Vu -> 0..Iterations] /\ done \in [Vu -> Nat]
  /\ pool \in Nat /\ published \in Nat /\ dropped \in Nat /\ claimed \in Nat
  /\ late \in [Vu -> Nat]

\* States of a VU task before it counts itself in and after it counts itself out.
Outside == {"unborn", "spawned", "exit"}

\* Which executor a VU state, a phase and a counter belong to.
KindInv ==
  /\ \A v \in Vu : /\ vu[v] \in {"held", "granted"} => kind = "arrival"
                   /\ vu[v] = "claim" => kind = "shared"
                   /\ kind = "arrival" => vu[v] # "unpause"
  /\ phase \in {"draining", "joining"} => kind = "arrival"
  /\ kind # "arrival" => pool = 0 /\ published = 0 /\ dropped = 0
  /\ kind \notin {"arrival", "shared"} => claimed = 0
  /\ published <= MaxArrivals

\* Before the scenario starts no VU task lives and nothing was published; when
\* it is over none lives any more and no permit is left.
PhaseInv ==
  /\ phase = "waiting" => \A v \in Vu : vu[v] = "unborn"
  /\ phase = "done" => \A v \in Vu : vu[v] \in {"unborn", "exit"}
  /\ phase \in {"waiting", "done"} => pool = 0

\* active_vus is the number of VUs that count.
CountInv == active_vus = Cardinality(counted)

\* A VU that runs an iteration counts, and outside a pool so does every VU whose
\* task has begun; one that has not begun or has ended does not.
ActiveInv ==
  /\ \A v \in counted : vu[v] \notin Outside
  /\ \A v \in Vu : vu[v] = "run" => v \in counted
  /\ kind \notin PoolKinds => \A v \in Vu : vu[v] \notin Outside => v \in counted

\* An arrival is in one place, and one that can be claimed expires.
ArrivalInv ==
  kind = "arrival" =>
    /\ published = claimed + dropped + pool + Cardinality(Granted)
    /\ pool > 0 => expiry \/ closed \/ cancel

\* A VU with a budget of its own is never in more iterations than it allows.
IterationInv ==
  \A v \in Vu : /\ done[v] <= Iterations
                /\ kind = "per_vu" /\ vu[v] \in {"unpause", "run"} => done[v] < Iterations

\* A VU that started late is in that iteration, at the head of its loop, where
\* it sees the stop, or has ended.
PromptInv ==
  kind # "arrival" =>
    \A v \in Vu : late[v] # 0 => late[v] = 1 /\ soft /\ vu[v] \in {"run", "top", "exit"}

ScenarioInv ==
  /\ Tokens /\ Tasks /\ Counters /\ KindInv /\ PhaseInv
  /\ CountInv /\ ActiveInv /\ ArrivalInv /\ BudgetExact /\ IterationInv /\ PromptInv

-----------------------------------------------------------------------------
(* Counting.                                                                   *)

\* Every set of VUs is finite.
LEMMA VuSets ==
  ASSUME NEW S, S \subseteq Vu
  PROVE  IsFiniteSet(S) /\ Cardinality(S) \in Nat /\ Cardinality(S) <= Pool
<1>1. IsFiniteSet(Vu) /\ Cardinality(Vu) = Pool
  BY SizeAssumption, FS_Interval DEF Vu
<1>2. IsFiniteSet(S) /\ Cardinality(S) <= Cardinality(Vu)
  BY <1>1, FS_Subset
<1> QED
  BY <1>1, <1>2, FS_CardinalityType

\* A VU that counts itself in is added once, if it does not count yet.
LEMMA CountInKeeps ==
  ASSUME Tasks, CountInv, NEW v \in Vu, v \notin counted, CountIn(v)
  PROVE  CountInv'
<1>1. IsFiniteSet(counted)
  BY VuSets DEF Tasks
<1>2. Cardinality(counted \cup {v}) = Cardinality(counted) + 1
  BY <1>1, FS_AddElement
<1> QED
  BY <1>2 DEF CountInv, CountIn

\* A VU that counts itself out is taken away once, if it counts.
LEMMA CountOutKeeps ==
  ASSUME Tasks, CountInv, NEW v \in Vu, CountOut(v)
  PROVE  CountInv'
<1>1. IsFiniteSet(counted)
  BY VuSets DEF Tasks
<1>2. /\ v \in counted => Cardinality(counted \ {v}) = Cardinality(counted) - 1
      /\ v \notin counted => Cardinality(counted \ {v}) = Cardinality(counted)
  BY <1>1, FS_RemoveElement
<1> QED
  BY <1>2 DEF CountInv, CountOut

\* A step that leaves the counter and its set alone.
LEMMA CountSame ==
  ASSUME CountInv, UNCHANGED count
  PROVE  CountInv'
BY DEF CountInv, count

\* The workers with a permit are a finite set.
LEMMA GrantedCount == IsFiniteSet(Granted) /\ Cardinality(Granted) \in Nat
BY VuSets DEF Granted

\* A worker that takes its permit, or gives it back, leaves the set.
LEMMA GrantedShrinks ==
  ASSUME NEW v \in Granted
  PROVE  /\ Cardinality(Granted \ {v}) = Cardinality(Granted) - 1
         /\ Cardinality(Granted) > 0
<1>1. Cardinality(Granted \ {v}) = Cardinality(Granted) - 1 /\ IsFiniteSet(Granted \ {v})
  BY GrantedCount, FS_RemoveElement
<1>2. Cardinality(Granted \ {v}) \in Nat
  BY <1>1, FS_CardinalityType
<1> QED
  BY <1>1, <1>2, GrantedCount

\* The smaller of two numbers.
LEMMA MinBound ==
  ASSUME NEW a \in Int, NEW b \in Int
  PROVE  Min({a, b}) \in {a, b} /\ Min({a, b}) <= a /\ Min({a, b}) <= b
<1>1. \E m \in {a, b} : \A y \in {a, b} : m <= y
  <2>1. CASE a <= b
    BY <2>1
  <2>2. CASE b <= a
    BY <2>2
  <2> QED
    BY <2>1, <2>2
<1> QED
  BY <1>1 DEF Min

\* While no VU gets or loses a permit, the set stays.
LEMMA GrantedSame ==
  ASSUME \A v \in Vu : vu'[v] = "granted" <=> vu[v] = "granted"
  PROVE  Granted' = Granted
BY DEF Granted

-----------------------------------------------------------------------------
(* Every action preserves the invariant.                                       *)

\* A kill ends the wait for the start time.
LEMMA KilledWhileWaitingPreserves ==
  ASSUME ScenarioInv, KilledWhileWaiting
  PROVE  ScenarioInv'
<1> USE SizeAssumption DEF ScenarioInv, tokens, budget, target, gate, count
<1>1. Tokens' /\ Tasks' /\ Counters'
  BY DEF KilledWhileWaiting, Tokens, Tasks, Counters, VuStates
<1>2. CountInv'
  BY CountSame DEF KilledWhileWaiting
<1>3. KindInv' /\ PhaseInv' /\ ActiveInv'
  BY DEF KilledWhileWaiting, KindInv, PhaseInv, ActiveInv, PoolKinds, Outside, Tokens, Tasks, Counters
<1>4. ArrivalInv' /\ BudgetExact' /\ IterationInv' /\ PromptInv'
  BY DEF KilledWhileWaiting, ArrivalInv, BudgetExact, IterationInv, PromptInv, Granted, Tokens, Tasks, Counters
<1> QED
  BY <1>1, <1>2, <1>3, <1>4

\* A kill cancels the scenario.
LEMMA HardPropagatesPreserves ==
  ASSUME ScenarioInv, HardPropagates
  PROVE  ScenarioInv'
<1> USE SizeAssumption DEF ScenarioInv, tokens, budget, target, gate, count
<1>1. Tokens' /\ Tasks' /\ Counters'
  BY DEF HardPropagates, Tokens, Tasks, Counters, VuStates
<1>2. CountInv'
  BY CountSame DEF HardPropagates
<1>3. KindInv' /\ PhaseInv' /\ ActiveInv'
  BY DEF HardPropagates, KindInv, PhaseInv, ActiveInv, PoolKinds, Outside, Tokens, Tasks, Counters
<1>4. ArrivalInv' /\ BudgetExact' /\ IterationInv' /\ PromptInv'
  BY DEF HardPropagates, ArrivalInv, BudgetExact, IterationInv, PromptInv, Granted, Tokens, Tasks, Counters
<1> QED
  BY <1>1, <1>2, <1>3, <1>4

\* The grace period begins.
LEMMA WatchdogWakesPreserves ==
  ASSUME ScenarioInv, WatchdogWakes
  PROVE  ScenarioInv'
<1> USE SizeAssumption DEF ScenarioInv, tokens, budget, target, gate, count
<1>1. Tokens' /\ Tasks' /\ Counters'
  BY DEF WatchdogWakes, Tokens, Tasks, Counters, VuStates
<1>2. CountInv'
  BY CountSame DEF WatchdogWakes
<1>3. KindInv' /\ PhaseInv' /\ ActiveInv'
  BY DEF WatchdogWakes, KindInv, PhaseInv, ActiveInv, PoolKinds, Outside, Tokens, Tasks, Counters
<1>4. ArrivalInv' /\ BudgetExact' /\ IterationInv' /\ PromptInv'
  BY DEF WatchdogWakes, ArrivalInv, BudgetExact, IterationInv, PromptInv, Granted, Tokens, Tasks, Counters
<1> QED
  BY <1>1, <1>2, <1>3, <1>4

\* It is over: the scenario is cancelled.
LEMMA GraceExpiresPreserves ==
  ASSUME ScenarioInv, GraceExpires
  PROVE  ScenarioInv'
<1> USE SizeAssumption DEF ScenarioInv, tokens, budget, target, gate, count
<1>1. Tokens' /\ Tasks' /\ Counters'
  BY DEF GraceExpires, Tokens, Tasks, Counters, VuStates
<1>2. CountInv'
  BY CountSame DEF GraceExpires
<1>3. KindInv' /\ PhaseInv' /\ ActiveInv'
  BY DEF GraceExpires, KindInv, PhaseInv, ActiveInv, PoolKinds, Outside, Tokens, Tasks, Counters
<1>4. ArrivalInv' /\ BudgetExact' /\ IterationInv' /\ PromptInv'
  BY DEF GraceExpires, ArrivalInv, BudgetExact, IterationInv, PromptInv, Granted, Tokens, Tasks, Counters
<1> QED
  BY <1>1, <1>2, <1>3, <1>4

\* The deadline passes.
LEMMA DeadlineElapsesPreserves ==
  ASSUME ScenarioInv, DeadlineElapses
  PROVE  ScenarioInv'
<1> USE SizeAssumption DEF ScenarioInv, tokens, budget, target, gate, count
<1>1. Tokens' /\ Tasks' /\ Counters'
  BY DEF DeadlineElapses, Tokens, Tasks, Counters, VuStates
<1>2. CountInv'
  BY CountSame DEF DeadlineElapses
<1>3. KindInv' /\ PhaseInv' /\ ActiveInv'
  BY DEF DeadlineElapses, KindInv, PhaseInv, ActiveInv, PoolKinds, Outside, Tokens, Tasks, Counters
<1>4. ArrivalInv' /\ BudgetExact' /\ IterationInv' /\ PromptInv'
  BY DEF DeadlineElapses, ArrivalInv, BudgetExact, IterationInv, PromptInv, Granted, Tokens, Tasks, Counters
<1> QED
  BY <1>1, <1>2, <1>3, <1>4

\* The run is stopped.
LEMMA StopPreserves ==
  ASSUME ScenarioInv, Stop
  PROVE  ScenarioInv'
<1> USE SizeAssumption DEF ScenarioInv, tokens, budget, target, gate, count
<1>1. Tokens' /\ Tasks' /\ Counters'
  BY DEF Stop, Tokens, Tasks, Counters, VuStates
<1>2. CountInv'
  BY CountSame DEF Stop
<1>3. KindInv' /\ PhaseInv' /\ ActiveInv'
  BY DEF Stop, KindInv, PhaseInv, ActiveInv, PoolKinds, Outside, Tokens, Tasks, Counters
<1>4. ArrivalInv' /\ BudgetExact' /\ IterationInv' /\ PromptInv'
  BY DEF Stop, ArrivalInv, BudgetExact, IterationInv, PromptInv, Granted, Tokens, Tasks, Counters
<1> QED
  BY <1>1, <1>2, <1>3, <1>4

\* The run is killed.
LEMMA KillPreserves ==
  ASSUME ScenarioInv, Kill
  PROVE  ScenarioInv'
<1> USE SizeAssumption DEF ScenarioInv, tokens, budget, target, gate, count
<1>1. Tokens' /\ Tasks' /\ Counters'
  BY DEF Kill, Tokens, Tasks, Counters, VuStates
<1>2. CountInv'
  BY CountSame DEF Kill
<1>3. KindInv' /\ PhaseInv' /\ ActiveInv'
  BY DEF Kill, KindInv, PhaseInv, ActiveInv, PoolKinds, Outside, Tokens, Tasks, Counters
<1>4. ArrivalInv' /\ BudgetExact' /\ IterationInv' /\ PromptInv'
  BY DEF Kill, ArrivalInv, BudgetExact, IterationInv, PromptInv, Granted, Tokens, Tasks, Counters
<1> QED
  BY <1>1, <1>2, <1>3, <1>4

\* The run is paused or resumed.
LEMMA PausePreserves ==
  ASSUME ScenarioInv, Pause
  PROVE  ScenarioInv'
<1> USE SizeAssumption DEF ScenarioInv, tokens, budget, target, gate, count
<1>1. Tokens' /\ Tasks' /\ Counters'
  BY DEF Pause, Tokens, Tasks, Counters, VuStates
<1>2. CountInv'
  BY CountSame DEF Pause
<1>3. KindInv' /\ PhaseInv' /\ ActiveInv'
  BY DEF Pause, KindInv, PhaseInv, ActiveInv, PoolKinds, Outside, Tokens, Tasks, Counters
<1>4. ArrivalInv' /\ BudgetExact' /\ IterationInv' /\ PromptInv'
  BY DEF Pause, ArrivalInv, BudgetExact, IterationInv, PromptInv, Granted, Tokens, Tasks, Counters
<1> QED
  BY <1>1, <1>2, <1>3, <1>4

\* An external scenario is scaled.
LEMMA ScalePreserves ==
  ASSUME ScenarioInv, Scale
  PROVE  ScenarioInv'
<1> USE SizeAssumption DEF ScenarioInv, tokens, budget, target, gate, count
<1>1. Tokens' /\ Tasks' /\ Counters'
  BY DEF Scale, SetTarget, Tokens, Tasks, Counters, VuStates
<1>2. CountInv'
  BY CountSame DEF Scale, SetTarget
<1>3. KindInv' /\ PhaseInv' /\ ActiveInv'
  BY DEF Scale, SetTarget, KindInv, PhaseInv, ActiveInv, PoolKinds, Outside, Tokens, Tasks, Counters
<1>4. ArrivalInv' /\ BudgetExact' /\ IterationInv' /\ PromptInv'
  BY DEF Scale, SetTarget, ArrivalInv, BudgetExact, IterationInv, PromptInv, Granted, Tokens, Tasks, Counters
<1> QED
  BY <1>1, <1>2, <1>3, <1>4

\* A ramp sets its target.
LEMMA RampTickPreserves ==
  ASSUME ScenarioInv, RampTick
  PROVE  ScenarioInv'
<1> USE SizeAssumption DEF ScenarioInv, tokens, budget, target, gate, count
<1>1. Tokens' /\ Tasks' /\ Counters'
  BY DEF RampTick, SetTarget, Tokens, Tasks, Counters, VuStates
<1>2. CountInv'
  BY CountSame DEF RampTick, SetTarget
<1>3. KindInv' /\ PhaseInv' /\ ActiveInv'
  BY DEF RampTick, SetTarget, KindInv, PhaseInv, ActiveInv, PoolKinds, Outside, Tokens, Tasks, Counters
<1>4. ArrivalInv' /\ BudgetExact' /\ IterationInv' /\ PromptInv'
  BY DEF RampTick, SetTarget, ArrivalInv, BudgetExact, IterationInv, PromptInv, Granted, Tokens, Tasks, Counters
<1> QED
  BY <1>1, <1>2, <1>3, <1>4

\* The ramp controller ends.
LEMMA RampCancelledPreserves ==
  ASSUME ScenarioInv, RampCancelled
  PROVE  ScenarioInv'
<1> USE SizeAssumption DEF ScenarioInv, tokens, budget, target, gate, count
<1>1. Tokens' /\ Tasks' /\ Counters'
  BY ZenonT(40) DEF RampCancelled, Tokens, Tasks, Counters, VuStates
<1>2. CountInv'
  BY CountSame DEF RampCancelled
<1>3. KindInv' /\ PhaseInv' /\ ActiveInv'
  BY DEF RampCancelled, KindInv, PhaseInv, ActiveInv, PoolKinds, Outside, Tokens, Tasks, Counters
<1>4. ArrivalInv' /\ BudgetExact' /\ IterationInv' /\ PromptInv'
  BY DEF RampCancelled, ArrivalInv, BudgetExact, IterationInv, PromptInv, Granted, Tokens, Tasks, Counters
<1> QED
  BY <1>1, <1>2, <1>3, <1>4

\* The ramp-down grace of an iteration begins.
LEMMA RampGraceStartsPreserves ==
  ASSUME ScenarioInv, NEW v \in Vu, RampGraceStarts(v)
  PROVE  ScenarioInv'
<1> USE SizeAssumption DEF ScenarioInv, tokens, budget, target, gate, count
<1>1. Tokens' /\ Tasks' /\ Counters'
  BY DEF RampGraceStarts, Tokens, Tasks, Counters, VuStates
<1>2. CountInv'
  BY CountSame DEF RampGraceStarts
<1>3. KindInv' /\ PhaseInv' /\ ActiveInv'
  BY DEF RampGraceStarts, KindInv, PhaseInv, ActiveInv, PoolKinds, Outside, Tokens, Tasks, Counters
<1>4. ArrivalInv' /\ BudgetExact' /\ IterationInv' /\ PromptInv'
  BY DEF RampGraceStarts, ArrivalInv, BudgetExact, IterationInv, PromptInv, Granted, Tokens, Tasks, Counters
<1> QED
  BY <1>1, <1>2, <1>3, <1>4

\* The executor starts.
LEMMA StartScenarioPreserves ==
  ASSUME ScenarioInv, StartScenario
  PROVE  ScenarioInv'
<1> USE SizeAssumption DEF ScenarioInv, tokens, budget, target, gate, count
<1>1. Tokens' /\ Tasks' /\ Counters'
  BY DEF StartScenario, Tokens, Tasks, Counters, VuStates
<1>2. KindInv' /\ PhaseInv'
  BY DEF StartScenario, KindInv, PhaseInv, PoolKinds, Tokens, Tasks, Counters
<1>3. CountInv'
  BY CountSame DEF StartScenario
<1>4. ActiveInv'
  BY DEF StartScenario, ActiveInv, PoolKinds, Outside, PhaseInv, Tokens, Tasks, Counters
<1>5. ArrivalInv'
  <2>1. Granted' = Granted
    BY GrantedSame DEF StartScenario, PhaseInv, FirstVus
  <2> QED
    BY <2>1 DEF StartScenario, ArrivalInv
<1>6. BudgetExact' /\ IterationInv' /\ PromptInv'
  BY DEF StartScenario, BudgetExact, IterationInv, PromptInv, PhaseInv, Tokens, Tasks, Counters
<1> QED
  BY <1>1, <1>2, <1>3, <1>4, <1>5, <1>6

\* The executor returns.
LEMMA ScenarioEndsPreserves ==
  ASSUME ScenarioInv, ScenarioEnds
  PROVE  ScenarioInv'
<1> USE SizeAssumption DEF ScenarioInv, tokens, budget, target, gate, count
<1>1. Tokens' /\ Tasks' /\ Counters'
  BY DEF ScenarioEnds, Tokens, Tasks, Counters, VuStates
<1>2. KindInv' /\ PhaseInv'
  BY DEF ScenarioEnds, KindInv, PhaseInv, PoolKinds, Tokens, Tasks, Counters
<1>3. CountInv'
  BY CountSame DEF ScenarioEnds
<1>4. ActiveInv'
  BY DEF ScenarioEnds, ActiveInv, PoolKinds, Outside, Tokens, Tasks, Counters
<1>5. ArrivalInv'
  BY DEF ScenarioEnds, ArrivalInv, Granted, Tokens, Tasks, Counters
<1>6. BudgetExact' /\ IterationInv' /\ PromptInv'
  BY DEF ScenarioEnds, BudgetExact, IterationInv, PromptInv, Tokens, Tasks, Counters
<1> QED
  BY <1>1, <1>2, <1>3, <1>4, <1>5, <1>6

\* A tick while paused.
LEMMA PausedTickPreserves ==
  ASSUME ScenarioInv, PausedTick
  PROVE  ScenarioInv'
<1> USE SizeAssumption DEF ScenarioInv, tokens, budget, target, gate, count
<1>1. Tokens'
  BY DEF PausedTick, Left, Lost, Expiring, AfterTick, Tokens
<1>2. Tasks' /\ Counters'
  BY DEF PausedTick, Left, Lost, Expiring, AfterTick, Tasks, Counters, VuStates
<1>3. KindInv' /\ PhaseInv'
  BY DEF PausedTick, Left, Lost, Expiring, AfterTick, KindInv, PhaseInv, PoolKinds, Tokens, Tasks, Counters
<1>4. CountInv'
  BY CountSame DEF PausedTick
<1>5. ActiveInv'
  BY DEF PausedTick, Left, Lost, Expiring, AfterTick, ActiveInv, PoolKinds, Outside, Tokens, Tasks, Counters
<1>6. ArrivalInv'
  BY DEF PausedTick, Left, Lost, Expiring, AfterTick, ArrivalInv, Granted, Tokens, Tasks, Counters
<1>7. BudgetExact' /\ IterationInv' /\ PromptInv'
  BY DEF PausedTick, Left, Lost, Expiring, AfterTick, BudgetExact, IterationInv, PromptInv, Tokens, Tasks, Counters
<1> QED
  BY <1>1, <1>2, <1>3, <1>4, <1>5, <1>6, <1>7

\* A tick with nothing due.
LEMMA IdleTickPreserves ==
  ASSUME ScenarioInv, IdleTick
  PROVE  ScenarioInv'
<1> USE SizeAssumption DEF ScenarioInv, tokens, budget, target, gate, count
<1>1. Tokens' /\ Tasks' /\ Counters'
  BY DEF IdleTick, Left, Lost, Expiring, AfterTick, Tokens, Tasks, Counters, VuStates
<1>2. KindInv' /\ PhaseInv'
  BY DEF IdleTick, Left, Lost, Expiring, AfterTick, KindInv, PhaseInv, PoolKinds, Tokens, Tasks, Counters
<1>3. CountInv'
  BY CountSame DEF IdleTick
<1>4. ActiveInv'
  BY DEF IdleTick, Left, Lost, Expiring, AfterTick, ActiveInv, PoolKinds, Outside, Tokens, Tasks, Counters
<1>5. ArrivalInv'
  BY DEF IdleTick, Left, Lost, Expiring, AfterTick, ArrivalInv, Granted, Tokens, Tasks, Counters
<1>6. BudgetExact' /\ IterationInv' /\ PromptInv'
  BY DEF IdleTick, Left, Lost, Expiring, AfterTick, BudgetExact, IterationInv, PromptInv, Tokens, Tasks, Counters
<1> QED
  BY <1>1, <1>2, <1>3, <1>4, <1>5, <1>6

\* The last batch expires.
LEMMA DrainTickPreserves ==
  ASSUME ScenarioInv, DrainTick
  PROVE  ScenarioInv'
<1> USE SizeAssumption DEF ScenarioInv, tokens, budget, target, gate, count
<1>1. Tokens'
  BY DEF DrainTick, Tokens
<1>2. Tasks' /\ Counters'
  BY DEF DrainTick, Tasks, Counters, VuStates
<1>3. KindInv' /\ PhaseInv'
  BY DEF DrainTick, KindInv, PhaseInv, PoolKinds, Tokens, Tasks, Counters
<1>4. CountInv'
  BY CountSame DEF DrainTick
<1>5. ActiveInv'
  BY DEF DrainTick, ActiveInv, PoolKinds, Outside, Tokens, Tasks, Counters
<1>6. ArrivalInv'
  BY DEF DrainTick, ArrivalInv, Granted, Tokens, Tasks, Counters
<1>7. BudgetExact' /\ IterationInv' /\ PromptInv'
  BY DEF DrainTick, BudgetExact, IterationInv, PromptInv, Tokens, Tasks, Counters
<1> QED
  BY <1>1, <1>2, <1>3, <1>4, <1>5, <1>6, <1>7

\* The gate closes.
LEMMA CloseGatePreserves ==
  ASSUME ScenarioInv, CloseGate
  PROVE  ScenarioInv'
<1> USE SizeAssumption DEF ScenarioInv, tokens, budget, target, gate, count
<1>1. Tokens' /\ Tasks' /\ Counters'
  BY DEF CloseGate, Tokens, Tasks, Counters, VuStates
<1>2. KindInv' /\ PhaseInv'
  BY DEF CloseGate, KindInv, PhaseInv, PoolKinds, Tokens, Tasks, Counters
<1>3. CountInv'
  BY CountSame DEF CloseGate
<1>4. ActiveInv'
  BY DEF CloseGate, ActiveInv, PoolKinds, Outside, Tokens, Tasks, Counters
<1>5. ArrivalInv'
  BY DEF CloseGate, ArrivalInv, Granted, Tokens, Tasks, Counters
<1>6. BudgetExact' /\ IterationInv' /\ PromptInv'
  BY DEF CloseGate, BudgetExact, IterationInv, PromptInv, Tokens, Tasks, Counters
<1> QED
  BY <1>1, <1>2, <1>3, <1>4, <1>5, <1>6

\* An iteration completes, retires its VU or aborts.
LEMMA IterationEndsPreserves ==
  ASSUME ScenarioInv, NEW v \in Vu, IterationEnds(v)
  PROVE  ScenarioInv'
<1> USE SizeAssumption DEF ScenarioInv, tokens, budget, target, gate, count
<1>1. Tokens'
  <2>1. abort' \in BOOLEAN /\ cancel' \in BOOLEAN
    BY Zenon DEF IterationEnds, Tokens
  <2>2. UNCHANGED <<kind, phase, soft, hard, pause, pauses, deadline, watchdog, sender, gate>>
    BY DEF IterationEnds
  <2> QED
    BY <2>1, <2>2 DEF Tokens
<1>2. Tasks' /\ Counters'
  BY DEF IterationEnds, Goto, Exit, CountOut, Tasks, Counters, VuStates
<1>3. KindInv' /\ PhaseInv'
  BY DEF IterationEnds, Goto, Exit, CountOut, KindInv, PhaseInv, PoolKinds, Tokens, Tasks, Counters
<1>4. CountInv'
  BY CountSame, CountOutKeeps DEF IterationEnds, Exit
<1>5. ActiveInv'
  BY DEF IterationEnds, Goto, Exit, CountOut, ActiveInv, PoolKinds, Outside, Tokens, Tasks, Counters
<1>6. ArrivalInv'
  BY DEF IterationEnds, Goto, Exit, CountOut, ArrivalInv, Granted, Tokens, Tasks, Counters
<1>7. BudgetExact' /\ IterationInv' /\ PromptInv'
  BY DEF IterationEnds, Goto, Exit, CountOut, BudgetExact, IterationInv, PromptInv, Tokens, Tasks, Counters
<1> QED
  BY <1>1, <1>2, <1>3, <1>4, <1>5, <1>6, <1>7

\* The ramp-down grace is over.
LEMMA RampGraceEndsPreserves ==
  ASSUME ScenarioInv, NEW v \in Vu, RampGraceEnds(v)
  PROVE  ScenarioInv'
<1> USE SizeAssumption DEF ScenarioInv, tokens, budget, target, gate, count
<1>1. Tokens' /\ Tasks' /\ Counters'
  BY DEF RampGraceEnds, Goto, Tokens, Tasks, Counters, VuStates
<1>2. KindInv' /\ PhaseInv'
  BY DEF RampGraceEnds, Goto, KindInv, PhaseInv, PoolKinds, Tokens, Tasks, Counters
<1>3. CountInv'
  BY CountSame DEF RampGraceEnds
<1>4. ActiveInv'
  BY DEF RampGraceEnds, Goto, ActiveInv, PoolKinds, Outside, Tokens, Tasks, Counters
<1>5. ArrivalInv'
  BY DEF RampGraceEnds, Goto, ArrivalInv, Granted, Tokens, Tasks, Counters
<1>6. BudgetExact' /\ IterationInv' /\ PromptInv'
  BY DEF RampGraceEnds, Goto, BudgetExact, IterationInv, PromptInv, Tokens, Tasks, Counters
<1> QED
  BY <1>1, <1>2, <1>3, <1>4, <1>5, <1>6

\* A VU task is polled for the first time.
LEMMA BeginPreserves ==
  ASSUME ScenarioInv, NEW v \in Vu, Begin(v)
  PROVE  ScenarioInv'
<1> USE SizeAssumption DEF ScenarioInv, tokens, budget, target, gate, count
<1>1. Tokens' /\ Tasks' /\ Counters'
  BY DEF Begin, Goto, CountIn, Tokens, Tasks, Counters, VuStates
<1>2. KindInv' /\ PhaseInv'
  BY DEF Begin, Goto, CountIn, KindInv, PhaseInv, PoolKinds, Tokens, Tasks, Counters
<1>3. CountInv'
  BY CountSame, CountInKeeps DEF Begin, ActiveInv, Outside
<1>4. ActiveInv'
  BY DEF Begin, Goto, CountIn, ActiveInv, PoolKinds, Outside, Tokens, Tasks, Counters
<1>5. ArrivalInv'
  BY DEF Begin, Goto, CountIn, ArrivalInv, Granted, Tokens, Tasks, Counters
<1>6. BudgetExact' /\ IterationInv' /\ PromptInv'
  BY DEF Begin, Goto, CountIn, BudgetExact, IterationInv, PromptInv, Tokens, Tasks, Counters
<1> QED
  BY <1>1, <1>2, <1>3, <1>4, <1>5, <1>6

\* The head of the loop of the closed executors.
LEMMA LoopHeadPreserves ==
  ASSUME ScenarioInv, NEW v \in Vu, LoopHead(v)
  PROVE  ScenarioInv'
<1> USE SizeAssumption DEF ScenarioInv, tokens, budget, target, gate, count
<1>1. Tokens' /\ Tasks' /\ Counters'
  BY DEF LoopHead, Goto, Exit, CountOut, ShouldStop, Tokens, Tasks, Counters, VuStates
<1>2. KindInv' /\ PhaseInv'
  BY DEF LoopHead, Goto, Exit, CountOut, ShouldStop, KindInv, PhaseInv, PoolKinds, Tokens, Tasks, Counters
<1>3. CountInv'
  BY CountSame, CountOutKeeps DEF LoopHead, Exit
<1>4. ActiveInv'
  BY DEF LoopHead, Goto, Exit, CountOut, ShouldStop, ActiveInv, PoolKinds, Outside, Tokens, Tasks, Counters
<1>5. ArrivalInv'
  BY DEF LoopHead, Goto, Exit, CountOut, ShouldStop, ArrivalInv, Granted, Tokens, Tasks, Counters
<1>6. BudgetExact' /\ IterationInv' /\ PromptInv'
  BY DEF LoopHead, Goto, Exit, CountOut, ShouldStop, BudgetExact, IterationInv, PromptInv, Tokens, Tasks, Counters
<1> QED
  BY <1>1, <1>2, <1>3, <1>4, <1>5, <1>6

\* A round of the compare-and-exchange loop.
LEMMA ClaimSharedPreserves ==
  ASSUME ScenarioInv, NEW v \in Vu, ClaimShared(v)
  PROVE  ScenarioInv'
<1> USE SizeAssumption DEF ScenarioInv, tokens, budget, target, gate, count
<1>1. Tokens' /\ Tasks' /\ Counters'
  BY DEF ClaimShared, Goto, Exit, CountOut, Tokens, Tasks, Counters, VuStates
<1>2. KindInv' /\ PhaseInv'
  BY DEF ClaimShared, Goto, Exit, CountOut, KindInv, PhaseInv, PoolKinds, Tokens, Tasks, Counters
<1>3. CountInv'
  BY CountSame, CountOutKeeps DEF ClaimShared, Exit
<1>4. ActiveInv'
  BY DEF ClaimShared, Goto, Exit, CountOut, ActiveInv, PoolKinds, Outside, Tokens, Tasks, Counters
<1>5. ArrivalInv'
  BY DEF ClaimShared, KindInv, ArrivalInv
<1>6. BudgetExact' /\ IterationInv' /\ PromptInv'
  BY DEF ClaimShared, Goto, Exit, CountOut, BudgetExact, IterationInv, PromptInv, KindInv, Tokens, Tasks, Counters
<1> QED
  BY <1>1, <1>2, <1>3, <1>4, <1>5, <1>6

\* wait_unpaused returns.
LEMMA UnpausedPreserves ==
  ASSUME ScenarioInv, NEW v \in Vu, Unpaused(v)
  PROVE  ScenarioInv'
<1> USE SizeAssumption DEF ScenarioInv, tokens, budget, target, gate, count
<1>1. Tokens' /\ Tasks' /\ Counters'
  BY DEF Unpaused, Goto, Exit, CountOut, CountIn, StartsLate, Tokens, Tasks, Counters, VuStates
<1>2. KindInv' /\ PhaseInv'
  BY DEF Unpaused, Goto, Exit, CountOut, CountIn, StartsLate, KindInv, PhaseInv, PoolKinds, Tokens, Tasks, Counters
<1>3. CountInv'
  BY CountSame, CountInKeeps, CountOutKeeps DEF Unpaused, Exit
<1>4. ActiveInv'
  BY DEF Unpaused, Goto, Exit, CountOut, CountIn, StartsLate, ActiveInv, PoolKinds, Outside, Tokens, Tasks, Counters
<1>5. ArrivalInv'
  BY DEF Unpaused, Goto, Exit, CountOut, CountIn, StartsLate, ArrivalInv, Granted, Tokens, Tasks, Counters
<1>6. BudgetExact' /\ IterationInv' /\ PromptInv'
  BY DEF Unpaused, Goto, Exit, CountOut, CountIn, StartsLate, BudgetExact, IterationInv, PromptInv, Tokens, Tasks, Counters
<1> QED
  BY <1>1, <1>2, <1>3, <1>4, <1>5, <1>6

\* The iteration of a cancelled scenario is dropped.
LEMMA IterationCancelledPreserves ==
  ASSUME ScenarioInv, NEW v \in Vu, IterationCancelled(v)
  PROVE  ScenarioInv'
<1> USE SizeAssumption DEF ScenarioInv, tokens, budget, target, gate, count
<1>1. Tokens' /\ Tasks' /\ Counters'
  BY DEF IterationCancelled, Goto, Exit, CountOut, Tokens, Tasks, Counters, VuStates
<1>2. KindInv' /\ PhaseInv'
  BY DEF IterationCancelled, Goto, Exit, CountOut, KindInv, PhaseInv, PoolKinds, Tokens, Tasks, Counters
<1>3. CountInv'
  BY CountSame, CountOutKeeps DEF IterationCancelled, Exit
<1>4. ActiveInv'
  BY DEF IterationCancelled, Goto, Exit, CountOut, ActiveInv, PoolKinds, Outside, Tokens, Tasks, Counters
<1>5. ArrivalInv'
  BY DEF IterationCancelled, Goto, Exit, CountOut, ArrivalInv, Granted, Tokens, Tasks, Counters
<1>6. BudgetExact' /\ IterationInv' /\ PromptInv'
  BY DEF IterationCancelled, Goto, Exit, CountOut, BudgetExact, IterationInv, PromptInv, Tokens, Tasks, Counters
<1> QED
  BY <1>1, <1>2, <1>3, <1>4, <1>5, <1>6

\* The head of the loop of a VU pool.
LEMMA PoolHeadPreserves ==
  ASSUME ScenarioInv, NEW v \in Vu, PoolHead(v)
  PROVE  ScenarioInv'
<1> USE SizeAssumption DEF ScenarioInv, tokens, budget, target, gate, count
<1>1. Tokens' /\ Tasks' /\ Counters'
  BY DEF PoolHead, Goto, Exit, CountOut, ShouldStop, Tokens, Tasks, Counters, VuStates
<1>2. KindInv' /\ PhaseInv'
  BY DEF PoolHead, Goto, Exit, CountOut, ShouldStop, KindInv, PhaseInv, PoolKinds, Tokens, Tasks, Counters
<1>3. CountInv'
  BY CountSame, CountOutKeeps DEF PoolHead, Exit
<1>4. ActiveInv'
  BY DEF PoolHead, Goto, Exit, CountOut, ShouldStop, ActiveInv, PoolKinds, Outside, Tokens, Tasks, Counters
<1>5. ArrivalInv'
  BY DEF PoolHead, Goto, Exit, CountOut, ShouldStop, ArrivalInv, Granted, Tokens, Tasks, Counters
<1>6. BudgetExact' /\ IterationInv' /\ PromptInv'
  BY DEF PoolHead, Goto, Exit, CountOut, ShouldStop, BudgetExact, IterationInv, PromptInv, PoolKinds, Tokens, Tasks, Counters
<1> QED
  BY <1>1, <1>2, <1>3, <1>4, <1>5, <1>6

\* A parked VU of a pool wakes or ends.
LEMMA PoolWakesPreserves ==
  ASSUME ScenarioInv, NEW v \in Vu, PoolWakes(v)
  PROVE  ScenarioInv'
<1> USE SizeAssumption DEF ScenarioInv, tokens, budget, target, gate, count
<1>1. Tokens' /\ Tasks' /\ Counters'
  BY DEF PoolWakes, Goto, Exit, CountOut, Tokens, Tasks, Counters, VuStates
<1>2. KindInv' /\ PhaseInv'
  BY DEF PoolWakes, Goto, Exit, CountOut, KindInv, PhaseInv, PoolKinds, Tokens, Tasks, Counters
<1>3. CountInv'
  BY CountSame, CountOutKeeps DEF PoolWakes, Exit
<1>4. ActiveInv'
  BY DEF PoolWakes, Goto, Exit, CountOut, ActiveInv, PoolKinds, Outside, Tokens, Tasks, Counters
<1>5. ArrivalInv'
  BY DEF PoolWakes, Goto, Exit, CountOut, ArrivalInv, Granted, Tokens, Tasks, Counters
<1>6. BudgetExact' /\ IterationInv' /\ PromptInv'
  BY DEF PoolWakes, Goto, Exit, CountOut, BudgetExact, IterationInv, PromptInv, Tokens, Tasks, Counters
<1> QED
  BY <1>1, <1>2, <1>3, <1>4, <1>5, <1>6

\* An arrival worker looks for an arrival.
LEMMA WorkerHeadPreserves ==
  ASSUME ScenarioInv, NEW v \in Vu, WorkerHead(v)
  PROVE  ScenarioInv'
<1> USE SizeAssumption DEF ScenarioInv, tokens, budget, target, gate, count
<1>1. Tokens' /\ Tasks' /\ Counters'
  BY DEF WorkerHead, Goto, Exit, CountOut, StartsLate, Tokens, Tasks, Counters, VuStates
<1>2. KindInv' /\ PhaseInv'
  BY DEF WorkerHead, Goto, Exit, CountOut, StartsLate, KindInv, PhaseInv, PoolKinds, Tokens, Tasks, Counters
<1>3. CountInv'
  BY CountSame, CountOutKeeps DEF WorkerHead, Exit
<1>4. ActiveInv'
  BY DEF WorkerHead, Goto, Exit, CountOut, StartsLate, ActiveInv, PoolKinds, Outside, Tokens, Tasks, Counters
<1>5. ArrivalInv'
  <2>1. Granted' = Granted
    BY GrantedSame DEF WorkerHead, Goto, Exit, Tasks
  <2> QED
    BY <2>1, GrantedCount DEF WorkerHead, ArrivalInv, Counters
<1>6. BudgetExact' /\ IterationInv' /\ PromptInv'
  BY DEF WorkerHead, Goto, Exit, CountOut, StartsLate, BudgetExact, IterationInv, PromptInv, Tokens, Tasks, Counters
<1> QED
  BY <1>1, <1>2, <1>3, <1>4, <1>5, <1>6

\* A worker held by a pause goes on.
LEMMA WorkerHeldPreserves ==
  ASSUME ScenarioInv, NEW v \in Vu, WorkerHeld(v)
  PROVE  ScenarioInv'
<1> USE SizeAssumption DEF ScenarioInv, tokens, budget, target, gate, count
<1>1. Tokens' /\ Tasks' /\ Counters'
  BY DEF WorkerHeld, Goto, Exit, CountOut, Tokens, Tasks, Counters, VuStates
<1>2. KindInv' /\ PhaseInv'
  BY DEF WorkerHeld, Goto, Exit, CountOut, KindInv, PhaseInv, PoolKinds, Tokens, Tasks, Counters
<1>3. CountInv'
  BY CountSame, CountOutKeeps DEF WorkerHeld, Exit
<1>4. ActiveInv'
  BY DEF WorkerHeld, Goto, Exit, CountOut, ActiveInv, PoolKinds, Outside, Tokens, Tasks, Counters
<1>5. ArrivalInv'
  BY DEF WorkerHeld, Goto, Exit, CountOut, ArrivalInv, Granted, Tokens, Tasks, Counters
<1>6. BudgetExact' /\ IterationInv' /\ PromptInv'
  BY DEF WorkerHeld, Goto, Exit, CountOut, BudgetExact, IterationInv, PromptInv, KindInv, Tokens, Tasks, Counters
<1> QED
  BY <1>1, <1>2, <1>3, <1>4, <1>5, <1>6

\* A worker takes the permit it was assigned.
LEMMA WorkerGrantedPreserves ==
  ASSUME ScenarioInv, NEW v \in Vu, WorkerGranted(v)
  PROVE  ScenarioInv'
<1> USE SizeAssumption DEF ScenarioInv, tokens, budget, target, gate, count
<1>1. Tokens' /\ Tasks' /\ Counters'
  BY DEF WorkerGranted, Goto, StartsLate, Tokens, Tasks, Counters, VuStates
<1>2. KindInv' /\ PhaseInv'
  BY DEF WorkerGranted, Goto, StartsLate, KindInv, PhaseInv, PoolKinds, Tokens, Tasks, Counters
<1>3. CountInv'
  BY CountSame DEF WorkerGranted
<1>4. ActiveInv'
  BY DEF WorkerGranted, Goto, StartsLate, ActiveInv, PoolKinds, Outside, KindInv, Tokens, Tasks, Counters
<1>5. ArrivalInv'
  <2>1. v \in Granted /\ Granted' = Granted \ {v}
    BY DEF WorkerGranted, Goto, Granted, Tasks
  <2>2. Cardinality(Granted') = Cardinality(Granted) - 1
    BY <2>1, GrantedShrinks
  <2> QED
    BY <2>2, GrantedCount DEF WorkerGranted, ArrivalInv, Counters
<1>6. BudgetExact' /\ IterationInv' /\ PromptInv'
  BY DEF WorkerGranted, Goto, StartsLate, BudgetExact, IterationInv, PromptInv, KindInv, Tokens, Tasks, Counters
<1> QED
  BY <1>1, <1>2, <1>3, <1>4, <1>5, <1>6

\* A wait ends without a claim.
LEMMA WorkerLeavesPreserves ==
  ASSUME ScenarioInv, NEW v \in Vu, WorkerLeaves(v)
  PROVE  ScenarioInv'
<1> USE SizeAssumption DEF ScenarioInv, tokens, budget, target, gate, count
<1>1. Tokens' /\ Tasks' /\ Counters'
  BY DEF WorkerLeaves, Goto, CountOut, Tokens, Tasks, Counters, VuStates
<1>2. KindInv' /\ PhaseInv'
  BY DEF WorkerLeaves, Goto, CountOut, KindInv, PhaseInv, PoolKinds, Tokens, Tasks, Counters
<1>3. CountInv'
  BY CountOutKeeps DEF WorkerLeaves
<1>4. ActiveInv'
  <2>1. PICK w \in Vu : \/ vu' = [vu EXCEPT ![v] = "exit"]
                        \/ vu[w] = "parked" /\ vu' = [vu EXCEPT ![v] = "exit", ![w] = "granted"]
    BY DEF WorkerLeaves, Goto, Waiting
  <2>2. counted' = counted \ {v} /\ kind = "arrival" /\ kind' = kind
    BY DEF WorkerLeaves, CountOut
  <2> QED
    BY <2>1, <2>2 DEF ActiveInv, PoolKinds, Outside, Tasks
<1>5. ArrivalInv'
  <2> USE GrantedCount DEF WorkerLeaves, ArrivalInv
  <2>1. CASE vu[v] = "parked"
    <3>1. Granted' = Granted
      BY <2>1, GrantedSame DEF Goto, Tasks
    <3> QED
      BY <2>1, <3>1
  <2>2. CASE vu[v] # "parked" /\ (closed \/ Waiting = {})
    <3>1. v \in Granted /\ Granted' = Granted \ {v}
      BY <2>2 DEF Goto, Granted, Tasks
    <3>2. Cardinality(Granted') = Cardinality(Granted) - 1
      BY <3>1, GrantedShrinks
    <3> QED
      BY <2>2, <3>2 DEF Counters
  <2>3. CASE vu[v] # "parked" /\ ~(closed \/ Waiting = {})
    <3>1. PICK w \in Waiting : vu' = [vu EXCEPT ![v] = "exit", ![w] = "granted"]
      BY <2>3
    <3>2. v \in Granted /\ w \notin Granted /\ Granted' = (Granted \ {v}) \cup {w}
      BY <2>3, <3>1 DEF Granted, Waiting, Tasks
    <3>a. PICK R : R = Granted \ {v}
      OBVIOUS
    <3>3. Cardinality(R) = Cardinality(Granted) - 1 /\ IsFiniteSet(R) /\ w \notin R
      BY <3>a, <3>2, GrantedShrinks, FS_RemoveElement
    <3>4. Cardinality(Granted') = Cardinality(Granted)
      <4>1. Cardinality(R \cup {w}) = Cardinality(R) + 1
        BY <3>3, FS_AddElement
      <4> QED
        BY <4>1, <3>a, <3>2, <3>3
    <3> QED
      BY <2>3, <3>4
  <2> QED
    BY <2>1, <2>2, <2>3
<1>6. BudgetExact' /\ IterationInv' /\ PromptInv'
  BY DEF WorkerLeaves, Goto, CountOut, BudgetExact, IterationInv, PromptInv, Tokens, Tasks, Counters
<1> QED
  BY <1>1, <1>2, <1>3, <1>4, <1>5, <1>6

\* A tick publishes arrivals.
LEMMA PublishPreserves ==
  ASSUME ScenarioInv, NEW n \in 1..MaxArrivals, Publish(n)
  PROVE  ScenarioInv'
<1> USE SizeAssumption DEF ScenarioInv, tokens, budget, target, gate, count
<1>a. PICK x \in Expiring, B \in SUBSET {v \in Vu : vu[v] = "unborn"}, S \in SUBSET Waiting :
        /\ Cardinality(S) = Min({n, Cardinality(Waiting)})
        /\ vu' = [v \in Vu |-> IF v \in B THEN "spawned"
                               ELSE IF v \in S THEN "granted" ELSE vu[v]]
        /\ pool' = Left(x) + n - Cardinality(S)
        /\ dropped' = Lost(x)
  BY DEF Publish
<1>b. /\ kind = "arrival" /\ phase = "running" /\ published + n <= MaxArrivals
      /\ expiry' = TRUE /\ published' = published + n /\ AfterTick
      /\ UNCHANGED <<kind, tokens, cancel, watchdog, count, budget, target, closed, claimed, late>>
  BY DEF Publish
<1>c. PICK k \in Nat : Cardinality(S) = k /\ k <= n
  <2>1. Waiting \subseteq Vu /\ Cardinality(Waiting) \in Nat /\ Cardinality(S) \in Nat
    BY VuSets DEF Waiting
  <2>2. PICK w \in Int : w = Cardinality(Waiting)
    BY <2>1
  <2>a. n \in Int
    OBVIOUS
  <2>3. Min({n, w}) <= n
    BY <2>a, MinBound
  <2>4. Cardinality(S) <= n
    BY <1>a, <2>2, <2>3
  <2> QED
    BY <2>1, <2>4
<1>1. Tokens'
  BY <1>b DEF Tokens, AfterTick
<1>2. Tasks'
  BY <1>a, <1>b DEF Tasks, VuStates
<1>3. Counters'
  BY <1>a, <1>b, <1>c DEF Counters, Left, Lost
<1>4. KindInv'
  BY <1>a, <1>b DEF KindInv, AfterTick, Tokens
<1>5. PhaseInv'
  BY <1>b DEF PhaseInv, AfterTick
<1>6. CountInv'
  BY <1>b, CountSame
<1>7. ActiveInv'
  BY <1>a, <1>b DEF ActiveInv, Outside, PoolKinds, Waiting, Tasks
<1>8. ArrivalInv'
  <2>1. Granted' = Granted \cup S /\ Granted \cap S = {}
    BY <1>a DEF Granted, Waiting, Tasks
  <2>2. IsFiniteSet(S) /\ Cardinality({}) = 0
    BY VuSets, FS_EmptySet DEF Waiting
  <2>3. Cardinality(Granted \cup S) =
          Cardinality(Granted) + Cardinality(S) - Cardinality(Granted \cap S)
    BY <2>2, GrantedCount, FS_Union
  <2>a. PICK g \in Nat : Cardinality(Granted) = g
    BY GrantedCount
  <2>c. Cardinality(Granted \cap S) = 0
    BY <2>1, <2>2
  <2>b. Cardinality(Granted \cup S) = g + k
    BY <2>3, <2>a, <2>c, <1>c
  <2>4. Cardinality(Granted) = g /\ Cardinality(Granted') = g + k
    BY <2>1, <2>a, <2>b
  <2>5. published = claimed + dropped + pool + g
    BY <1>b, <2>4 DEF ArrivalInv
  <2>6. CASE x
    BY <1>a, <1>b, <1>c, <2>4, <2>5, <2>6 DEF ArrivalInv, Left, Lost, Counters
  <2>7. CASE ~x
    BY <1>a, <1>b, <1>c, <2>4, <2>5, <2>7 DEF ArrivalInv, Left, Lost, Counters
  <2> QED
    BY <2>6, <2>7
<1>9. BudgetExact'
  BY <1>b DEF BudgetExact
<1>10. IterationInv'
  BY <1>b DEF IterationInv
<1>11. PromptInv'
  BY <1>b DEF PromptInv
<1> QED
  BY <1>1, <1>2, <1>3, <1>4, <1>5, <1>6, <1>7, <1>8, <1>9, <1>10, <1>11
-----------------------------------------------------------------------------
(* The theorems.                                                               *)

\* A scenario begins in the invariant.
LEMMA ScenarioInit == Init => ScenarioInv
<1> SUFFICES ASSUME Init PROVE ScenarioInv
  OBVIOUS
<1> USE SizeAssumption DEF Init
<1>1. /\ soft \in BOOLEAN /\ hard \in BOOLEAN /\ abort \in BOOLEAN /\ cancel \in BOOLEAN
      /\ pause \in BOOLEAN /\ deadline \in BOOLEAN
      /\ sender \in BOOLEAN /\ closed \in BOOLEAN /\ expiry \in BOOLEAN
  BY Zenon
<1>2. Tokens
  BY <1>1 DEF Tokens
<1>3. Tasks /\ Counters
  BY DEF Tasks, VuStates, Counters
<1>4. CountInv
  BY FS_EmptySet DEF CountInv
<1>5. Granted = {}
  BY DEF Granted
<1>6. ArrivalInv
  BY <1>5, FS_EmptySet DEF ArrivalInv
<1>7. KindInv /\ PhaseInv /\ ActiveInv
  BY DEF KindInv, PhaseInv, ActiveInv, Outside
<1>8. BudgetExact /\ IterationInv /\ PromptInv
  BY DEF BudgetExact, IterationInv, PromptInv
<1> QED
  BY <1>2, <1>3, <1>4, <1>6, <1>7, <1>8 DEF ScenarioInv

\* And every step keeps it.
LEMMA ScenarioStep == ScenarioInv /\ [Next]_vars => ScenarioInv'
<1> SUFFICES ASSUME ScenarioInv, [Next]_vars PROVE ScenarioInv'
  OBVIOUS
<1>1. CASE Lifecycle
  BY <1>1, StartScenarioPreserves, KilledWhileWaitingPreserves, HardPropagatesPreserves,
     WatchdogWakesPreserves, GraceExpiresPreserves, ScenarioEndsPreserves,
     RampCancelledPreserves DEF Lifecycle
<1>2. CASE Dispatch
  BY <1>2, PausedTickPreserves, IdleTickPreserves, DrainTickPreserves, CloseGatePreserves
     DEF Dispatch
<1>3. CASE Environment
  BY <1>3, DeadlineElapsesPreserves, StopPreserves, KillPreserves, PausePreserves,
     ScalePreserves, RampTickPreserves, PublishPreserves, IterationEndsPreserves,
     RampGraceStartsPreserves, RampGraceEndsPreserves DEF Environment
<1>4. CASE EngineAborts
  BY <1>4, StopPreserves DEF EngineAborts
<1>5. ASSUME NEW v \in Vu, VuStep(v) PROVE ScenarioInv'
  BY <1>5, BeginPreserves, LoopHeadPreserves, ClaimSharedPreserves, UnpausedPreserves,
     IterationCancelledPreserves, PoolHeadPreserves, PoolWakesPreserves,
     WorkerHeadPreserves, WorkerHeldPreserves, WorkerGrantedPreserves,
     WorkerLeavesPreserves DEF VuStep
<1>6. CASE UNCHANGED vars
  <2> USE <1>6 DEF vars, tokens, budget, target, gate, count, ScenarioInv
  <2>1. Tokens' /\ Tasks' /\ Counters'
    BY DEF Tokens, Tasks, Counters
  <2>2. KindInv' /\ PhaseInv' /\ CountInv' /\ ActiveInv'
    BY DEF KindInv, PhaseInv, CountInv, ActiveInv
  <2>3. ArrivalInv' /\ BudgetExact' /\ IterationInv' /\ PromptInv'
    BY DEF ArrivalInv, Granted, BudgetExact, IterationInv, PromptInv
  <2> QED
    BY <2>1, <2>2, <2>3
<1> QED
  BY <1>1, <1>2, <1>3, <1>4, <1>5, <1>6 DEF Next, Finished

\* Every reachable state of a scenario satisfies the invariant.
THEOREM ScenarioInvariance == Spec => []ScenarioInv
BY ScenarioInit, ScenarioStep, PTL DEF Spec

\* The larger of two numbers.
LEMMA MaxBound ==
  ASSUME NEW a \in Int, NEW b \in Int
  PROVE  Max({a, b}) \in {a, b} /\ a <= Max({a, b}) /\ b <= Max({a, b})
<1>1. \E m \in {a, b} : \A y \in {a, b} : m >= y
  <2>1. CASE a >= b
    BY <2>1
  <2>2. CASE b >= a
    BY <2>2
  <2> QED
    BY <2>1, <2>2
<1> QED
  BY <1>1 DEF Max

\* The bounds of every counter follow: no more arrivals are dropped, claimed or
\* claimable than were published, and no VU counts twice.
LEMMA ScenarioBounds ==
  ASSUME ScenarioInv
  PROVE  TypeOK
<1> USE SizeAssumption DEF ScenarioInv
<1>1. active_vus \in 0..Pool
  BY VuSets DEF CountInv, Tasks
<1>2. /\ pool \in 0..MaxArrivals /\ published \in 0..MaxArrivals /\ dropped \in 0..MaxArrivals
      /\ kind = "arrival" => claimed <= MaxArrivals
  BY GrantedCount DEF ArrivalInv, KindInv, Counters
<1>3. kind # "arrival" => claimed <= Iterations
  BY DEF BudgetExact, KindInv, Counters
<1>4. claimed \in 0..Max({MaxArrivals, Iterations})
  <2>1. PICK m \in Int : m = Max({MaxArrivals, Iterations}) /\ MaxArrivals <= m /\ Iterations <= m
    BY MaxBound
  <2> QED
    BY <1>2, <1>3, <2>1 DEF Counters
<1>5. done \in [Vu -> 0..Iterations]
  BY DEF IterationInv, Counters
<1> QED
  BY <1>1, <1>2, <1>4, <1>5 DEF TypeOK, Tokens, Tasks, Counters

\* Every arrival that run_arrival_rate publishes is claimed once, dropped, in
\* the pool or assigned, through expiry, pause, cancelled waits and the closing
\* of the gate, and none that can be claimed is left without an expiry.
THEOREM ArrivalsTheorem == Spec => []ArrivalsConserved
<1>1. ScenarioInv => ArrivalsConserved
  <2> SUFFICES ASSUME ScenarioInv, kind = "arrival"
               PROVE  /\ published = claimed + dropped + pool + Cardinality(Granted)
                      /\ phase = "done" => published = claimed + dropped
                      /\ pool > 0 => expiry \/ closed \/ cancel
    BY DEF ArrivalsConserved
  <2> USE DEF ScenarioInv
  <2>1. /\ published = claimed + dropped + pool + Cardinality(Granted)
        /\ pool > 0 => expiry \/ closed \/ cancel
    BY DEF ArrivalInv
  <2>2. phase = "done" => published = claimed + dropped
    <3> SUFFICES ASSUME phase = "done" PROVE published = claimed + dropped
      OBVIOUS
    <3>1. Granted = {} /\ pool = 0
      BY DEF PhaseInv, Granted
    <3>2. Cardinality(Granted) = 0
      BY <3>1, FS_EmptySet
    <3> QED
      BY <2>1, <3>1, <3>2 DEF Counters
  <2> QED
    BY <2>1, <2>2
<1> QED
  BY <1>1, ScenarioInvariance, PTL

\* The shared budget is handed out exactly, although a VU claims with a value of
\* it that it loaded earlier.
THEOREM BudgetTheorem == Spec => []BudgetExact
<1>1. ScenarioInv => BudgetExact
  BY DEF ScenarioInv
<1> QED
  BY <1>1, ScenarioInvariance, PTL

\* The vus gauge counts exactly the VUs that are active, every VU in an
\* iteration among them, and none once the scenario has ended.
THEOREM ActiveTheorem == Spec => []ActiveSettles
<1>1. ScenarioInv => ActiveSettles
  <2> SUFFICES ASSUME ScenarioInv PROVE ActiveSettles
    OBVIOUS
  <2> USE DEF ScenarioInv
  <2>1. TypeOK
    BY ScenarioBounds
  <2>2. phase = "done" => active_vus = 0
    <3> SUFFICES ASSUME phase = "done" PROVE active_vus = 0
      OBVIOUS
    <3>1. counted = {}
      BY DEF PhaseInv, ActiveInv, Outside, Tasks
    <3> QED
      BY <3>1, FS_EmptySet DEF CountInv
  <2> QED
    BY <2>1, <2>2 DEF ActiveSettles, CountInv, ActiveInv
<1> QED
  BY <1>1, ScenarioInvariance, PTL

\* After a soft stop a VU of a closed executor starts at most one iteration.
THEOREM PromptTheorem == Spec => []StopIsPrompt
<1>1. ScenarioInv => StopIsPrompt
  BY DEF ScenarioInv, PromptInv, StopIsPrompt, Counters
<1> QED
  BY <1>1, ScenarioInvariance, PTL
=============================================================================

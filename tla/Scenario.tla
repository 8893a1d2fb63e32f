------------------------------ MODULE Scenario ------------------------------
(* One scenario of an engine: its executor and its virtual users (VUs), from   *)
(* crates/loadr-core/src/executor.rs.  Init chooses one of the executors; the  *)
(* run's stop tokens, its pause switch and the timers act beside it.           *)
(*                                                                             *)
(* Time is abstract: a deadline, a grace period or a tick is an event that may *)
(* happen once it is armed.  An iteration is a state of its VU; what happens   *)
(* inside one is the subject of module Flow.                                   *)
EXTENDS Integers, FiniteSets, FiniteSetsExt

CONSTANTS
  Kinds,         \* the executors that Init may choose
  Pool,          \* the largest number of VUs of the scenario
  PreAllocated,  \* VUs an arrival-rate scenario starts with
  Iterations,    \* iteration budget, shared or of each VU
  MaxArrivals,   \* bound: arrivals published in all
  MaxPauses      \* bound: how often the run is paused

Vu == 1..Pool

\* constant-vus; ramping-vus and externally-controlled, which share a pool of
\* parked VUs; the two iteration budgets; both arrival rates.
AllKinds == {"vus", "ramping", "external", "per_vu", "shared", "arrival"}
PoolKinds == {"ramping", "external"}

ASSUME KindAssumption == Kinds \subseteq AllKinds
ASSUME SizeAssumption ==
  /\ Pool \in Nat \ {0} /\ PreAllocated \in 0..Pool
  /\ Iterations \in Nat /\ MaxArrivals \in Nat /\ MaxPauses \in Nat

VARIABLES
  kind,       \* the executor
  phase,      \* run_scenario: waiting for start_time, running, draining, joining, done
  soft, hard, \* the run's stop tokens
  abort,      \* an abort_test reason is on its way to the engine
  cancel,     \* scenario_cancel
  pause,      \* the pause switch
  pauses,     \* how often it was thrown
  deadline,   \* the soft deadline has passed
  watchdog,   \* the task of arm_graceful_stop
  vu,         \* what each VU task does
  counted,    \* VUs that count themselves in active_vus
  active_vus, \* the counter behind the vus gauge
  remaining,  \* shared iteration budget
  seen,       \* the value of it a VU has loaded
  done,       \* iterations a VU has completed or had cancelled
  allowed,    \* target of a VU pool
  note,       \* VUs for which the target was sent since they last looked
  sender,     \* the sender of the target lives
  timer,      \* VUs whose ramp-down grace is running
  pool,       \* ArrivalGate: permits that no worker holds
  closed,     \* ArrivalGate: the semaphore is closed
  expiry,     \* a batch of arrivals waits to expire
  published, dropped, claimed,  \* history: arrivals (or shared iterations) and their fate
  late        \* history: iterations each VU started after a soft stop

tokens == <<soft, hard, abort, pause, pauses, deadline>>
budget == <<remaining, seen, done>>
target == <<allowed, note, sender, timer>>
gate == <<pool, closed, expiry, published, dropped, claimed>>
count == <<counted, active_vus>>
vars == <<kind, phase, tokens, cancel, watchdog, vu, count, budget, target, gate, late>>

\* Where a VU task stands: not spawned or not yet polled; at the head of its
\* loop; in the compare-and-exchange loop; in wait_unpaused; an arrival worker
\* held by a pause; parked, or parked with a permit; in an iteration; ended.
VuStates == {"unborn", "spawned", "top", "claim", "unpause", "held", "parked",
             "granted", "run", "exit"}

Init ==
  /\ kind \in Kinds
  /\ phase = "waiting"
  /\ soft = FALSE /\ hard = FALSE /\ abort = FALSE
  /\ cancel = FALSE /\ pause = FALSE /\ pauses = 0 /\ deadline = FALSE
  /\ watchdog = "off"
  /\ vu = [v \in Vu |-> "unborn"]
  /\ counted = {} /\ active_vus = 0
  /\ remaining = Iterations /\ seen = [v \in Vu |-> 0] /\ done = [v \in Vu |-> 0]
  /\ allowed = 0 /\ note = {} /\ sender = TRUE /\ timer = {}
  /\ pool = 0 /\ closed = FALSE /\ expiry = FALSE
  /\ published = 0 /\ dropped = 0 /\ claimed = 0
  /\ late = [v \in Vu |-> 0]
-----------------------------------------------------------------------------
(* run_scenario, its timers and the user's commands. *)

\* VUs that the executor spawns at once.
FirstVus == IF kind = "arrival" THEN 1..PreAllocated ELSE Vu

\* start_time passes: the executor starts, arms the graceful stop, spawns.
\* A ramp starts at any target; an external scenario at the scaled one.
StartScenario ==
  /\ phase = "waiting"
  /\ phase' = "running"
  /\ watchdog' = "armed"
  /\ vu' = [v \in Vu |-> IF v \in FirstVus THEN "spawned" ELSE "unborn"]
  /\ IF kind = "ramping" THEN allowed' \in 0..Pool ELSE UNCHANGED allowed
  /\ UNCHANGED <<kind, tokens, cancel, count, budget, note, sender, timer, gate, late>>

\* hard_stop ends the wait for start_time ...
KilledWhileWaiting ==
  /\ phase = "waiting" /\ hard
  /\ phase' = "done"
  /\ UNCHANGED <<kind, tokens, cancel, watchdog, vu, count, budget, target, gate, late>>

\* ... and cancels a scenario that runs.
HardPropagates ==
  /\ phase \notin {"waiting", "done"} /\ hard /\ ~cancel
  /\ cancel' = TRUE
  /\ UNCHANGED <<kind, phase, tokens, watchdog, vu, count, budget, target, gate, late>>

\* arm_graceful_stop: the deadline or a soft stop starts the grace period.
WatchdogWakes ==
  /\ watchdog = "armed" /\ (deadline \/ soft) /\ ~cancel
  /\ watchdog' = "grace"
  /\ UNCHANGED <<kind, phase, tokens, cancel, vu, count, budget, target, gate, late>>

GraceExpires ==
  /\ watchdog = "grace" /\ ~cancel
  /\ watchdog' = "off" /\ cancel' = TRUE
  /\ UNCHANGED <<kind, phase, tokens, vu, count, budget, target, gate, late>>

DeadlineElapses ==
  /\ phase = "running" /\ ~deadline
  /\ deadline' = TRUE
  /\ UNCHANGED <<kind, phase, soft, hard, abort, cancel, pause, pauses, watchdog,
                 vu, count, budget, target, gate, late>>

\* The executor returns once all VU tasks have ended.  An arrival executor
\* sweeps the permits its cancelled workers gave back.
ScenarioEnds ==
  /\ phase = IF kind = "arrival" THEN "joining" ELSE "running"
  /\ \A v \in Vu : vu[v] \in {"unborn", "exit"}
  /\ phase' = "done" /\ cancel' = TRUE
  /\ dropped' = dropped + pool /\ pool' = 0
  /\ UNCHANGED <<kind, tokens, watchdog, vu, count, budget, target, closed, expiry,
                 published, claimed, late>>

\* RunHandle::stop, or the engine's reaction to an abort.
Stop ==
  /\ ~soft /\ soft' = TRUE
  /\ UNCHANGED <<kind, phase, hard, abort, cancel, pause, pauses, deadline, watchdog,
                 vu, count, budget, target, gate, late>>

\* RunHandle::kill, or the engine's safety net.
Kill ==
  /\ ~hard /\ hard' = TRUE /\ soft' = TRUE
  /\ UNCHANGED <<kind, phase, abort, cancel, pause, pauses, deadline, watchdog,
                 vu, count, budget, target, gate, late>>

\* RunHandle::pause.
Pause ==
  /\ pause \/ pauses < MaxPauses
  /\ pause' = ~pause /\ pauses' = IF pause THEN pauses ELSE pauses + 1
  /\ UNCHANGED <<kind, phase, soft, hard, abort, cancel, deadline, watchdog,
                 vu, count, budget, target, gate, late>>

\* RunHandle::scale; the ramp controller's tick.  Every receiver is notified.
SetTarget(n) ==
  /\ allowed' = n /\ note' = Vu
  /\ UNCHANGED <<kind, phase, tokens, cancel, watchdog, vu, count, budget, timer, gate, late>>

Scale == kind = "external" /\ \E n \in 0..Pool : n # allowed /\ SetTarget(n) /\ UNCHANGED sender

RampTick ==
  /\ kind = "ramping" /\ phase = "running" /\ sender /\ ~cancel
  /\ \E n \in 0..Pool : SetTarget(n)
  /\ sender' = ~deadline

RampCancelled ==
  /\ kind = "ramping" /\ sender /\ cancel
  /\ sender' = FALSE
  /\ UNCHANGED <<kind, phase, tokens, cancel, watchdog, vu, count, budget, allowed, note,
                 timer, gate, late>>
-----------------------------------------------------------------------------
(* A VU task. *)

Goto(v, s) == vu' = [vu EXCEPT ![v] = s]

\* The task counts itself in or out of active_vus.
CountIn(v) == counted' = counted \cup {v} /\ active_vus' = active_vus + 1
CountOut(v) ==
  /\ counted' = counted \ {v}
  /\ active_vus' = IF v \in counted THEN active_vus - 1 ELSE active_vus

Exit(v) == Goto(v, "exit") /\ CountOut(v)

\* The task is polled for the first time.  A VU of a pool has no worker yet.
Begin(v) ==
  /\ vu[v] = "spawned"
  /\ Goto(v, "top")
  /\ IF kind \in PoolKinds THEN UNCHANGED count ELSE CountIn(v)
  /\ UNCHANGED <<kind, phase, tokens, cancel, watchdog, budget, target, gate, late>>

\* Fault: the loop looks at the deadline and the cancellation only.
StopUnseen == cancel \/ deadline

\* What ends a loop at its head.
ShouldStop == cancel \/ soft \/ deadline

\* Head of the loop of constant-vus and of the iteration executors.
LoopHead(v) ==
  /\ vu[v] = "top" /\ kind \in {"vus", "per_vu", "shared"}
  /\ \/ /\ ShouldStop \/ (kind = "per_vu" /\ done[v] >= Iterations)
        /\ Exit(v) /\ UNCHANGED seen
     \/ /\ ~ShouldStop /\ kind = "shared"
        /\ Goto(v, "claim") /\ seen' = [seen EXCEPT ![v] = remaining] /\ UNCHANGED count
     \/ /\ ~ShouldStop /\ (kind = "vus" \/ (kind = "per_vu" /\ done[v] < Iterations))
        /\ Goto(v, "unpause") /\ UNCHANGED <<count, seen>>
  /\ UNCHANGED <<kind, phase, tokens, cancel, watchdog, remaining, done, target, gate, late>>

\* Fault: the claim stores what it computed from the value it loaded.
ClaimSharedBlind(v) ==
  /\ vu[v] = "claim"
  /\ IF seen[v] = 0 THEN Exit(v) /\ UNCHANGED <<remaining, claimed>>
     ELSE /\ remaining' = seen[v] - 1 /\ claimed' = claimed + 1
          /\ Goto(v, "unpause") /\ UNCHANGED count
  /\ UNCHANGED <<kind, phase, tokens, cancel, watchdog, seen, done, target, pool, closed, expiry,
                 published, dropped, late>>

\* One round of the compare-and-exchange loop, which may also fail spuriously.
ClaimShared(v) ==
  /\ vu[v] = "claim"
  /\ \/ seen[v] = 0 /\ Exit(v) /\ UNCHANGED <<remaining, seen, claimed>>
     \/ /\ seen[v] > 0 /\ remaining = seen[v]
        /\ remaining' = remaining - 1 /\ claimed' = claimed + 1
        /\ Goto(v, "unpause") /\ UNCHANGED <<count, seen>>
     \/ /\ seen[v] > 0 /\ remaining # seen[v]
        /\ seen' = [seen EXCEPT ![v] = remaining]
        /\ UNCHANGED <<vu, count, remaining, claimed>>
  /\ UNCHANGED <<kind, phase, tokens, cancel, watchdog, done, target, pool, closed, expiry,
                 published, dropped, late>>

\* A VU starts an iteration.
StartsLate(v) == late' = IF soft THEN [late EXCEPT ![v] = @ + 1] ELSE late

\* wait_unpaused returns: the VU ends, or starts an iteration (run_one).
Unpaused(v) ==
  /\ vu[v] = "unpause"
  /\ \/ cancel /\ Exit(v) /\ UNCHANGED late
     \/ /\ ~cancel /\ ~pause
        /\ Goto(v, "run") /\ StartsLate(v)
        /\ IF kind \in PoolKinds /\ v \notin counted THEN CountIn(v) ELSE UNCHANGED count
  /\ UNCHANGED <<kind, phase, tokens, cancel, watchdog, budget, target, gate>>

\* run_one: the iteration completes, retires its VU, or aborts scenario or test.
IterationEnds(v) ==
  /\ vu[v] = "run" /\ ~cancel
  /\ done' = IF kind = "per_vu" THEN [done EXCEPT ![v] = @ + 1] ELSE done
  /\ timer' = timer \ {v}
  /\ \/ Goto(v, "top") /\ UNCHANGED <<count, cancel, abort>>
     \/ Exit(v) /\ UNCHANGED <<cancel, abort>>
     \/ Exit(v) /\ cancel' = TRUE /\ UNCHANGED abort
     \/ Exit(v) /\ abort' = TRUE /\ UNCHANGED cancel
  /\ UNCHANGED <<kind, phase, soft, hard, pause, pauses, deadline, watchdog, remaining,
                 seen, allowed, note, sender, gate, late>>

\* The biased select drops the iteration of a cancelled scenario.
IterationCancelled(v) ==
  /\ vu[v] = "run" /\ cancel
  /\ Exit(v) /\ timer' = timer \ {v}
  /\ UNCHANGED <<kind, phase, tokens, cancel, watchdog, budget, allowed, note, sender, gate, late>>

\* The engine takes the abort reason and stops the run.
EngineAborts == abort /\ Stop
-----------------------------------------------------------------------------
(* run_allocated_pool: VU v runs while the target is at least v. *)

\* Fault: a VU that is parked still counts as active.
PoolHeadForgets(v) ==
  /\ vu[v] = "top" /\ kind \in PoolKinds
  /\ \/ ShouldStop /\ Exit(v)
     \/ /\ ~ShouldStop /\ allowed < v /\ Goto(v, "parked")
        /\ active_vus' = IF v \in counted THEN active_vus - 1 ELSE active_vus
        /\ UNCHANGED counted
     \/ ~ShouldStop /\ allowed >= v /\ Goto(v, "unpause") /\ UNCHANGED count
  /\ UNCHANGED <<kind, phase, tokens, cancel, watchdog, budget, target, gate, late>>

PoolHead(v) ==
  /\ vu[v] = "top" /\ kind \in PoolKinds
  /\ \/ ShouldStop /\ Exit(v)
     \/ ~ShouldStop /\ allowed < v /\ Goto(v, "parked") /\ CountOut(v)
     \/ ~ShouldStop /\ allowed >= v /\ Goto(v, "unpause") /\ UNCHANGED count
  /\ UNCHANGED <<kind, phase, tokens, cancel, watchdog, budget, target, gate, late>>

\* Fault: a parked VU does not hear that the scenario is cancelled.
PoolWakesDeaf(v) ==
  /\ vu[v] = "parked" /\ kind \in PoolKinds
  /\ \/ v \in note /\ note' = note \ {v} /\ Goto(v, "top") /\ UNCHANGED count
     \/ v \notin note /\ ~sender /\ Exit(v) /\ UNCHANGED note
  /\ UNCHANGED <<kind, phase, tokens, cancel, watchdog, budget, allowed, sender, timer, gate, late>>

\* A parked VU of a pool ends with the scenario, or wakes on allowed.changed():
\* there is a new target, or no sender is left.
PoolWakes(v) ==
  /\ vu[v] = "parked" /\ kind \in PoolKinds
  /\ \/ cancel /\ Exit(v) /\ UNCHANGED note
     \/ v \in note /\ note' = note \ {v} /\ Goto(v, "top") /\ UNCHANGED count
     \/ v \notin note /\ ~sender /\ Exit(v) /\ UNCHANGED note
  /\ UNCHANGED <<kind, phase, tokens, cancel, watchdog, budget, allowed, sender, timer, gate, late>>

\* An iteration of a VU above the target gets the ramp-down grace; when it is
\* over and the target is still below, the iteration is dropped.
RampGraceStarts(v) ==
  /\ vu[v] = "run" /\ kind \in PoolKinds /\ allowed < v /\ v \notin timer
  /\ timer' = timer \cup {v}
  /\ UNCHANGED <<kind, phase, tokens, cancel, watchdog, vu, count, budget, allowed, note,
                 sender, gate, late>>

RampGraceEnds(v) ==
  /\ vu[v] = "run" /\ v \in timer /\ ~cancel
  /\ timer' = timer \ {v}
  /\ IF allowed < v THEN Goto(v, "top") ELSE UNCHANGED vu
  /\ UNCHANGED <<kind, phase, tokens, cancel, watchdog, count, budget, allowed, note,
                 sender, gate, late>>
-----------------------------------------------------------------------------
(* run_arrival_rate: workers claim published arrivals; the dispatcher          *)
(* publishes, expires and closes.  The semaphore is tokio's: permits go to     *)
(* waiting workers first, and closing it fails the waits of all of them.       *)

Waiting == {v \in Vu : vu[v] = "parked"}
Granted == {v \in Vu : vu[v] = "granted"}

\* A worker looks at the pause switch, then tries to claim without waiting.
WorkerHead(v) ==
  /\ vu[v] = "top" /\ kind = "arrival"
  /\ \/ pause /\ Goto(v, "held") /\ UNCHANGED <<count, pool, claimed, late>>
     \/ /\ ~pause /\ ~closed /\ pool > 0
        /\ pool' = pool - 1 /\ claimed' = claimed + 1
        /\ Goto(v, "run") /\ StartsLate(v) /\ UNCHANGED count
     \/ ~pause /\ closed /\ Exit(v) /\ UNCHANGED <<pool, claimed, late>>
     \/ ~pause /\ ~closed /\ pool = 0 /\ Goto(v, "parked") /\ UNCHANGED <<count, pool, claimed, late>>
  /\ UNCHANGED <<kind, phase, tokens, cancel, watchdog, budget, target, closed, expiry,
                 published, dropped>>

\* A held worker hears the gate close, the scenario end, or the run resume.
WorkerHeld(v) ==
  /\ vu[v] = "held"
  /\ \/ (closed \/ cancel) /\ Exit(v)
     \/ ~cancel /\ ~pause /\ Goto(v, "top") /\ UNCHANGED count
  /\ UNCHANGED <<kind, phase, tokens, cancel, watchdog, budget, target, gate, late>>

\* A waiting worker has its permit; the closed bit wins over it.
WorkerGranted(v) ==
  /\ vu[v] = "granted" /\ ~closed
  /\ claimed' = claimed + 1
  /\ Goto(v, "run") /\ StartsLate(v)
  /\ UNCHANGED <<kind, phase, tokens, cancel, watchdog, count, budget, target, pool, closed,
                 expiry, published, dropped>>

\* Fault: a permit that was assigned is lost with the wait that is dropped.
WorkerLeavesLeaky(v) ==
  /\ kind = "arrival" /\ vu[v] \in {"parked", "granted"} /\ (cancel \/ closed)
  /\ Exit(v)
  /\ UNCHANGED <<kind, phase, tokens, cancel, watchdog, budget, target, gate, late>>

\* A wait ends without a claim: the scenario is cancelled or the gate closed.
\* A permit already assigned goes back, to another waiting worker or the pool.
WorkerLeaves(v) ==
  /\ kind = "arrival" /\ vu[v] \in {"parked", "granted"} /\ (cancel \/ closed)
  /\ CountOut(v)
  /\ IF vu[v] = "parked" \/ closed \/ Waiting = {}
     THEN Goto(v, "exit") /\ pool' = IF vu[v] = "granted" THEN pool + 1 ELSE pool
     ELSE /\ \E w \in Waiting : vu' = [vu EXCEPT ![v] = "exit", ![w] = "granted"]
          /\ UNCHANGED pool
  /\ UNCHANGED <<kind, phase, tokens, cancel, watchdog, budget, target, closed, expiry,
                 published, dropped, claimed, late>>

\* What is left of the pool and of the batch when a tick begins: the batch may
\* have reached its expiry (expire_due).
Left(expired) == IF expired THEN 0 ELSE pool
Lost(expired) == IF expired THEN dropped + pool ELSE dropped
Expiring == IF expiry THEN BOOLEAN ELSE {FALSE}

\* The dispatcher's loop ends when a tick sees the deadline.
AfterTick == phase' = IF deadline THEN "draining" ELSE phase

\* Fault: a paused tick forgets the batch but leaves its permits claimable.
PausedTickLeaves ==
  /\ kind = "arrival" /\ phase = "running" /\ pause
  /\ \E x \in Expiring : pool' = Left(x) /\ dropped' = Lost(x)
  /\ expiry' = FALSE
  /\ AfterTick
  /\ UNCHANGED <<kind, tokens, cancel, watchdog, vu, count, budget, target, closed, published,
                 claimed, late>>

\* A tick while paused publishes nothing and drops what was published.
PausedTick ==
  /\ kind = "arrival" /\ phase = "running" /\ pause
  /\ \E x \in Expiring :
       LET swept == x \/ expiry IN pool' = Left(swept) /\ dropped' = Lost(swept)
  /\ expiry' = FALSE
  /\ AfterTick
  /\ UNCHANGED <<kind, tokens, cancel, watchdog, vu, count, budget, target, closed, published,
                 claimed, late>>

\* A tick with no whole arrival due.
IdleTick ==
  /\ kind = "arrival" /\ phase = "running" /\ ~pause
  /\ \E x \in Expiring :
       pool' = Left(x) /\ dropped' = Lost(x) /\ expiry' = (expiry /\ ~x)
  /\ AfterTick
  /\ UNCHANGED <<kind, tokens, cancel, watchdog, vu, count, budget, target, closed, published,
                 claimed, late>>

\* A tick with n arrivals due: grow the pool for what parked workers (those with
\* a permit included) cannot absorb, then publish.  Permits go to waiting
\* workers; a new worker does not wait yet.
Publish(n) ==
  LET unborn == {v \in Vu : vu[v] = "unborn"}
      short  == Max({n - Cardinality(Waiting \cup Granted), 0})
  IN  /\ kind = "arrival" /\ phase = "running" /\ ~pause
      /\ published + n <= MaxArrivals
      /\ \E x \in Expiring, B \in SUBSET unborn, S \in SUBSET Waiting :
           /\ Cardinality(B) = Min({short, Cardinality(unborn)})
           /\ Cardinality(S) = Min({n, Cardinality(Waiting)})
           /\ vu' = [v \in Vu |-> IF v \in B THEN "spawned"
                                  ELSE IF v \in S THEN "granted" ELSE vu[v]]
           /\ pool' = Left(x) + n - Cardinality(S)
           /\ dropped' = Lost(x)
      /\ expiry' = TRUE /\ published' = published + n
      /\ AfterTick
      /\ UNCHANGED <<kind, tokens, cancel, watchdog, count, budget, target, closed, claimed, late>>

\* After a natural end the last batch lives out its claim window: it expires,
\* or is dropped because the run is paused.
DrainTick ==
  /\ phase = "draining" /\ expiry
  /\ expiry' = FALSE /\ pool' = 0 /\ dropped' = dropped + pool
  /\ UNCHANGED <<kind, phase, tokens, cancel, watchdog, vu, count, budget, target, closed,
                 published, claimed, late>>

\* ArrivalGate::close, on a stop or when nothing is left to drain.
CloseGate ==
  /\ kind = "arrival"
  /\ \/ phase = "draining" /\ ~expiry
     \/ phase \in {"running", "draining"} /\ (soft \/ cancel)
  /\ phase' = "joining" /\ closed' = TRUE
  /\ dropped' = dropped + pool /\ pool' = 0
  /\ UNCHANGED <<kind, tokens, cancel, watchdog, vu, count, budget, target, expiry, published,
                 claimed, late>>
-----------------------------------------------------------------------------
VuStep(v) ==
  \/ Begin(v) \/ LoopHead(v) \/ ClaimShared(v) \/ Unpaused(v)
  \/ IterationCancelled(v) \/ PoolHead(v) \/ PoolWakes(v)
  \/ WorkerHead(v) \/ WorkerHeld(v) \/ WorkerGranted(v) \/ WorkerLeaves(v)

Dispatch == PausedTick \/ IdleTick \/ DrainTick \/ CloseGate

Lifecycle ==
  \/ StartScenario \/ KilledWhileWaiting \/ HardPropagates \/ WatchdogWakes
  \/ GraceExpires \/ ScenarioEnds \/ RampCancelled

Environment ==
  \/ DeadlineElapses \/ Stop \/ Kill \/ Pause \/ Scale \/ RampTick
  \/ \E n \in 1..MaxArrivals : Publish(n)
  \/ \E v \in Vu : IterationEnds(v) \/ RampGraceStarts(v) \/ RampGraceEnds(v)

\* A finished scenario stays so.
Finished == phase = "done" /\ UNCHANGED vars

Next ==
  \/ Lifecycle \/ Dispatch \/ Environment \/ EngineAborts \/ Finished
  \/ \E v \in Vu : VuStep(v)

Spec == Init /\ [][Next]_vars

\* Every task is polled when it can go on, and an armed timer fires.  Nothing is
\* assumed of iterations, of users, or of the deadline.
FairSpec ==
  /\ Spec
  /\ WF_vars(StartScenario) /\ WF_vars(KilledWhileWaiting) /\ WF_vars(HardPropagates)
  /\ WF_vars(WatchdogWakes) /\ WF_vars(GraceExpires) /\ WF_vars(ScenarioEnds)
  /\ WF_vars(RampCancelled) /\ WF_vars(DrainTick) /\ WF_vars(CloseGate)
  /\ WF_vars(EngineAborts)
  /\ \A v \in Vu : WF_vars(VuStep(v))
-----------------------------------------------------------------------------
(* Properties. *)

TypeOK ==
  /\ kind \in Kinds
  /\ phase \in {"waiting", "running", "draining", "joining", "done"}
  /\ soft \in BOOLEAN /\ hard \in BOOLEAN /\ abort \in BOOLEAN /\ cancel \in BOOLEAN
  /\ pause \in BOOLEAN /\ pauses \in 0..MaxPauses /\ deadline \in BOOLEAN
  /\ sender \in BOOLEAN /\ closed \in BOOLEAN /\ expiry \in BOOLEAN
  /\ watchdog \in {"off", "armed", "grace"}
  /\ vu \in [Vu -> VuStates]
  /\ counted \in SUBSET Vu /\ note \in SUBSET Vu /\ timer \in SUBSET Vu
  /\ active_vus \in 0..Pool /\ allowed \in 0..Pool
  /\ remaining \in 0..Iterations /\ seen \in [Vu -> 0..Iterations] /\ done \in [Vu -> 0..Iterations]
  /\ pool \in 0..MaxArrivals /\ published \in 0..MaxArrivals
  /\ dropped \in 0..MaxArrivals /\ claimed \in 0..Max({MaxArrivals, Iterations})
  /\ late \in [Vu -> Nat]

\* Every published arrival is claimed by one worker, is dropped, is in the pool,
\* or is held by one waiting worker, through expiry, pause, cancelled waits and
\* the closing of the gate; when the scenario is over it was claimed or dropped.
\* One that can still be claimed has an expiry ahead of it, unless the scenario
\* is ending: pausing, resuming or idling never leaves a backlog.
ArrivalsConserved ==
  kind = "arrival" =>
    /\ published = claimed + dropped + pool + Cardinality(Granted)
    /\ phase = "done" => published = claimed + dropped
    /\ pool > 0 => expiry \/ closed \/ cancel

\* The shared budget is handed out exactly: iterations are claimed by
\* compare-and-exchange from a value that may be stale, none twice, none lost.
BudgetExact == kind = "shared" => remaining + claimed = Iterations

\* active_vus counts the VUs that are active, and none once the scenario ended.
ActiveSettles ==
  /\ TypeOK
  /\ active_vus = Cardinality(counted)
  /\ phase = "done" => active_vus = 0
  /\ \A v \in Vu : vu[v] = "run" => v \in counted

\* After a soft stop a VU of a closed model starts at most one more iteration,
\* however long a pause held it between its check of the token and its start.
StopIsPrompt == kind # "arrival" => \A v \in Vu : late[v] <= 1

\* A stop ends the scenario, whether it waits for its start time, is paused,
\* has parked VUs or iterations that never return.
StopEnds == (soft \/ hard) ~> (phase = "done")
=============================================================================

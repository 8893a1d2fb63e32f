------------------------------ MODULE EngineRun ------------------------------
(* One run of an engine: Engine::run, its aggregator task, its gauge task and  *)
(* its stop handle, from crates/loadr-core/src/engine.rs.                      *)
(*                                                                             *)
(* A scenario is what module Scenario shows of it: it works, records samples,  *)
(* may ask to abort the test, and ends, by itself or after a stop.  A sample   *)
(* is a unit of a counter; a gauge is the number of scenarios at work.         *)
EXTENDS Integers, FiniteSets

CONSTANTS
  Scenario,    \* the scenarios of the plan
  Tagged,      \* the plan has default tags
  MaxSamples,  \* bound: samples recorded in all
  MaxRefusals  \* bound: deltas the uplink refuses

ASSUME EngineAssumption ==
  /\ IsFiniteSet(Scenario)
  /\ Tagged \in BOOLEAN
  /\ MaxSamples \in Nat /\ MaxRefusals \in Nat

VARIABLES
  mode,      \* where samples go: a channel ("bus") or shard aggregators
  phase,     \* what Engine::run does or awaits
  status,    \* RunStatus
  soft, hard, reason,  \* RunHandle: the stop tokens and stop_reason
  operator,  \* a stop or kill in progress on another thread
  net,       \* the 35 s timer that hard-cancels a stop
  scenario,  \* the scenario tasks
  busy,      \* scenarios with a VU in a request
  aborts,    \* reasons in the abort channel
  aborted,   \* the reason Engine::run reports
  gauges,    \* the gauge task
  agg,       \* the aggregator task
  alerted,   \* abort_sent of the aggregator loop
  done,      \* the token that ends the shard loop
  held,      \* Engine::run holds its MetricsBus
  emitted,   \* last value recorded of each live gauge
  seen,      \* last value of it the aggregator holds
  pending,   \* samples in the channel or the shards
  total,     \* samples the aggregator holds
  flushed,   \* of these, the ones taken as a delta
  delivered, \* samples the uplink accepted
  refusals,  \* deltas refused so far
  recorded,  \* history: samples recorded
  early,     \* history: a stop was asked for while a scenario ran
  wanted,    \* history: a test abort was asked for while a scenario ran
  lost       \* history: the final delta was refused

handle == <<soft, hard, reason, operator, net>>
work == <<scenario, busy, aborts>>
meter == <<emitted, seen, pending, total, flushed, delivered, refusals, recorded>>
history == <<early, wanted, lost>>
ends == <<done, held>>
vars == <<mode, phase, status, handle, work, aborted, gauges, agg, alerted, ends,
          meter, history>>

\* Live gauges by series: vus and requests_in_flight with the default tags of
\* the plan, and requests_in_flight without tags.
Gauge == {"vus", "in_flight", "in_flight_untagged"}
InFlightSeries == IF Tagged THEN "in_flight_untagged" ELSE "in_flight"

Phases == {"start", "setup", "failing", "select", "drain", "ended", "gauges",
           "terminal", "join", "finished", "error"}

Init ==
  /\ mode \in {"bus", "shards"}
  /\ phase = "start" /\ status = "running"
  /\ soft = FALSE /\ hard = FALSE /\ reason = "none" /\ operator = "idle" /\ net = "off"
  /\ scenario = [s \in Scenario |-> "off"] /\ busy = {} /\ aborts = 0
  /\ aborted = "none" /\ gauges = "off" /\ agg = "off" /\ alerted = FALSE
  /\ done = FALSE /\ held = TRUE
  /\ emitted = [g \in Gauge |-> 0] /\ seen = emitted
  /\ pending = 0 /\ total = 0 /\ flushed = 0 /\ delivered = 0
  /\ refusals = 0 /\ recorded = 0
  /\ early = FALSE /\ wanted = FALSE /\ lost = FALSE

Running(s) == scenario[s] = "running"
SomeRunning == \E s \in Scenario : Running(s)
AllEnded == \A s \in Scenario : scenario[s] = "ended"

-----------------------------------------------------------------------------
(* Engine::run until the scenarios run.                                        *)

\* Outputs start, the aggregator task is spawned; an output that does not start
\* ends the run.
StartOutputs(ok) ==
  /\ phase = "start"
  /\ phase' = IF ok THEN "setup" ELSE "error"
  /\ agg' = IF ok THEN "on" ELSE "off"
  /\ UNCHANGED <<mode, status, handle, work, aborted, gauges, alerted, ends, meter, history>>

\* setup() succeeds (or there is no script): the gauge task and the scenarios
\* are spawned.
Setup ==
  /\ phase = "setup"
  /\ phase' = "select"
  /\ gauges' = "on"
  /\ scenario' = [s \in Scenario |-> "running"]
  /\ UNCHANGED <<mode, status, handle, busy, aborts, aborted, agg, alerted, ends, meter,
                 history>>

\* Fault: only the channel is closed.
SetupFailsOpen ==
  /\ phase = "setup"
  /\ phase' = "failing"
  /\ soft' = TRUE /\ hard' = TRUE /\ reason' = "setup"
  /\ held' = FALSE
  /\ UNCHANGED <<mode, status, operator, net, work, aborted, gauges, agg, alerted, done,
                 meter, history>>

\* setup() fails: the run is killed, and the end of input is signalled in both
\* modes before the aggregator is awaited.
SetupFails ==
  /\ phase = "setup"
  /\ phase' = "failing"
  /\ soft' = TRUE /\ hard' = TRUE /\ reason' = "setup"
  /\ done' = TRUE /\ held' = FALSE
  /\ UNCHANGED <<mode, status, operator, net, work, aborted, gauges, agg, alerted, meter,
                 history>>

SetupReturns ==
  /\ phase = "failing" /\ agg = "ended"
  /\ phase' = "error"
  /\ UNCHANGED <<mode, status, handle, work, aborted, gauges, agg, alerted, ends, meter,
                 history>>

-----------------------------------------------------------------------------
(* The scenarios.                                                              *)

\* One more sample in the channel or in a shard.
Record == recorded' = recorded + 1 /\ pending' = pending + 1

\* A VU begins an iteration: not after a stop.
Begin(s) ==
  /\ Running(s) /\ ~soft /\ s \notin busy
  /\ recorded + Cardinality(busy) < MaxSamples
  /\ busy' = busy \cup {s}
  /\ UNCHANGED <<mode, phase, status, handle, scenario, aborts, aborted, gauges, agg,
                 alerted, ends, meter, history>>

\* Its request ends and is recorded; a failed assertion may abort the test.
Complete(s, abort) ==
  /\ s \in busy
  /\ busy' = busy \ {s}
  /\ Record
  /\ aborts' = IF abort THEN aborts + 1 ELSE aborts
  /\ wanted' = (wanted \/ abort)
  /\ UNCHANGED <<mode, phase, status, handle, scenario, aborted, gauges, agg, alerted, ends,
                 emitted, seen, total, flushed, delivered, refusals, early, lost>>

\* A scenario ends when its work is done; a stop cuts what is left of it, and a
\* request that is cut is recorded as cancelled.
ScenarioEnds(s) ==
  /\ Running(s) /\ (s \notin busy \/ soft)
  /\ scenario' = [scenario EXCEPT ![s] = "ended"]
  /\ busy' = busy \ {s}
  /\ IF s \in busy THEN Record ELSE UNCHANGED <<recorded, pending>>
  /\ UNCHANGED <<mode, phase, status, handle, aborts, aborted, gauges, agg, alerted, ends,
                 emitted, seen, total, flushed, delivered, refusals, history>>

-----------------------------------------------------------------------------
(* RunHandle::stop and kill, on another thread: the reason is set before the   *)
(* tokens are cancelled, one after the other.  Bound: one such call.           *)

\* Fault: no reason is left.
StopBeginsSilent(kind) ==
  /\ operator = "idle" /\ phase \notin {"finished", "error"}
  /\ operator' = kind
  /\ UNCHANGED <<mode, phase, status, soft, hard, reason, net, work, aborted, gauges, agg,
                 alerted, ends, meter, history>>

\* The reason first.
StopBegins(kind) ==
  /\ operator = "idle" /\ phase \notin {"finished", "error"}
  /\ operator' = kind
  /\ reason' = kind
  /\ UNCHANGED <<mode, phase, status, soft, hard, net, work, aborted, gauges, agg, alerted,
                 ends, meter, history>>

StopCancels ==
  /\ operator \in {"stop", "kill"}
  /\ soft' = TRUE
  /\ early' = (early \/ (phase = "select" /\ SomeRunning))
  /\ operator' = IF operator = "kill" THEN "hard" ELSE "returned"
  /\ UNCHANGED <<mode, phase, status, hard, reason, net, work, aborted, gauges, agg, alerted,
                 ends, meter, wanted, lost>>

KillCancels ==
  /\ operator = "hard"
  /\ hard' = TRUE /\ operator' = "returned"
  /\ UNCHANGED <<mode, phase, status, soft, reason, net, work, aborted, gauges, agg, alerted,
                 ends, meter, history>>

\* The safety net of a stop.
NetFires ==
  /\ net = "armed"
  /\ net' = "spent" /\ hard' = TRUE
  /\ UNCHANGED <<mode, phase, status, soft, reason, operator, work, aborted, gauges, agg,
                 alerted, ends, meter, history>>

-----------------------------------------------------------------------------
(* Engine::run from the select! to its return.  A select! with several ready   *)
(* branches takes any of them.                                                 *)

AllDone ==
  /\ phase \in {"select", "drain"} /\ AllEnded
  /\ phase' = "ended"
  /\ UNCHANGED <<mode, status, handle, work, aborted, gauges, agg, alerted, ends, meter,
                 history>>

AbortReceived ==
  /\ phase = "select" /\ aborts > 0
  /\ aborts' = aborts - 1
  /\ aborted' = "abort" /\ reason' = "abort"
  /\ status' = "stopping" /\ soft' = TRUE /\ net' = "armed"
  /\ phase' = "drain"
  /\ UNCHANGED <<mode, hard, operator, scenario, busy, gauges, agg, alerted, ends, meter,
                 history>>

StopSeen ==
  /\ phase = "select" /\ soft
  /\ status' = "stopping" /\ net' = "armed"
  /\ phase' = "drain"
  /\ UNCHANGED <<mode, soft, hard, reason, operator, work, aborted, gauges, agg, alerted,
                 ends, meter, history>>

\* The reason of a stop is read once the scenarios have ended; then teardown().
Teardown ==
  /\ phase = "ended"
  /\ aborted' = IF aborted = "none" THEN reason ELSE aborted
  /\ phase' = "gauges"
  /\ UNCHANGED <<mode, status, handle, work, gauges, agg, alerted, ends, meter, history>>

\* The gauge task has been told to end, and it has.
GaugesJoined ==
  /\ phase = "gauges" /\ gauges = "ended"
  /\ phase' = "terminal"
  /\ UNCHANGED <<mode, status, handle, work, aborted, gauges, agg, alerted, ends, meter,
                 history>>

\* Terminal gauge values; requests_in_flight goes to the series without tags.
TerminalGauges == [emitted EXCEPT !["vus"] = 0, ![InFlightSeries] = Cardinality(busy)]

\* They are recorded, then the end of input is signalled.
Close ==
  /\ phase = "terminal"
  /\ emitted' = TerminalGauges
  /\ done' = TRUE /\ held' = FALSE
  /\ phase' = "join"
  /\ UNCHANGED <<mode, status, handle, work, aborted, gauges, agg, alerted, seen, pending,
                 total, flushed, delivered, refusals, recorded, history>>

\* The aggregator has ended: summary, outputs finished, result.
Finish ==
  /\ phase = "join" /\ agg = "ended"
  /\ phase' = "finished" /\ status' = "finished"
  /\ UNCHANGED <<mode, handle, work, aborted, gauges, agg, alerted, ends, meter, history>>

-----------------------------------------------------------------------------
(* The gauge task: once a second.                                              *)

GaugeTick ==
  /\ gauges = "on"
  /\ emitted' = [emitted EXCEPT !["vus"] = Cardinality(busy),
                                !["in_flight"] = Cardinality(busy)]
  /\ UNCHANGED <<mode, phase, status, handle, work, aborted, gauges, agg, alerted, ends,
                 seen, pending, total, flushed, delivered, refusals, recorded, history>>

\* It ends when the run is over, or on a hard stop.
GaugesEnd ==
  /\ gauges = "on" /\ (hard \/ phase \in {"gauges", "terminal", "join", "finished"})
  /\ gauges' = "ended"
  /\ UNCHANGED <<mode, phase, status, handle, work, aborted, agg, alerted, ends, meter,
                 history>>

-----------------------------------------------------------------------------
(* The aggregator task.                                                        *)

\* Fault: what came after the last tick is left where it is.
DrainNothing == total' = total /\ UNCHANGED <<pending, seen>>

\* What the aggregator takes over of the channel or the shards.
Drain == total' = total + pending /\ pending' = 0 /\ seen' = emitted
FinalDrain == Drain

\* Fault: a refused delta is forgotten.
RestoredNot(base) == total'

\* restore_delta: a refused delta is taken again with the next one.
Restored(base) == base

\* dispatch_delta takes what is not flushed yet; a refused delta is restored.
Dispatch(ok) ==
  IF total' = flushed
    THEN UNCHANGED <<flushed, delivered, refusals>>
    ELSE IF ok
      THEN /\ flushed' = total' /\ delivered' = delivered + (total' - flushed)
           /\ UNCHANGED refusals
      ELSE /\ refusals < MaxRefusals /\ refusals' = refusals + 1
           /\ flushed' = Restored(flushed) /\ UNCHANGED delivered

\* Bus mode: samples are read as they come.
Receive ==
  /\ agg = "on" /\ mode = "bus" /\ (pending > 0 \/ seen # emitted)
  /\ Drain
  /\ UNCHANGED <<mode, phase, status, handle, work, aborted, gauges, agg, alerted, ends,
                 emitted, flushed, delivered, refusals, recorded, history>>

\* A tick: shards are drained, the delta is dispatched, thresholds are evaluated
\* and may abort the test, once.
Tick(ok, crossed) ==
  /\ agg = "on"
  /\ IF mode = "shards" THEN Drain ELSE UNCHANGED <<total, pending, seen>>
  /\ Dispatch(ok)
  /\ alerted' = (alerted \/ crossed)
  /\ aborts' = IF crossed /\ ~alerted THEN aborts + 1 ELSE aborts
  /\ wanted' = (wanted \/ (crossed /\ ~alerted /\ SomeRunning))
  /\ UNCHANGED <<mode, phase, status, handle, scenario, busy, aborted, gauges, agg, ends,
                 emitted, recorded, early, lost>>

\* The end of input: the token in shard mode; in bus mode every sender is gone.
InputEnded ==
  IF mode = "shards" THEN done ELSE ~held /\ gauges # "on" /\ ~SomeRunning

\* The rest is drained, and the final delta dispatched: it blocks until it is
\* accepted, or the uplink is closed.
AggregatorEnds(ok) ==
  /\ agg = "on" /\ InputEnded
  /\ FinalDrain
  /\ Dispatch(ok)
  /\ lost' = (total' # flushed /\ ~ok)
  /\ agg' = "ended"
  /\ UNCHANGED <<mode, phase, status, handle, work, aborted, gauges, alerted, ends, emitted,
                 recorded, early, wanted>>

-----------------------------------------------------------------------------
MainStep ==
  \/ \E ok \in BOOLEAN : StartOutputs(ok)
  \/ Setup \/ SetupFails \/ SetupReturns \/ AllDone \/ AbortReceived \/ StopSeen
  \/ Teardown \/ GaugesJoined \/ Close \/ Finish

Returned == phase \in {"finished", "error"} /\ UNCHANGED vars

Next ==
  \/ MainStep
  \/ \E s \in Scenario : Begin(s) \/ ScenarioEnds(s)
  \/ \E s \in Scenario, abort \in BOOLEAN : Complete(s, abort)
  \/ \E kind \in {"stop", "kill"} : StopBegins(kind)
  \/ StopCancels \/ KillCancels \/ NetFires
  \/ GaugeTick \/ GaugesEnd
  \/ Receive \/ \E ok, crossed \in BOOLEAN : Tick(ok, crossed)
  \/ \E ok \in BOOLEAN : AggregatorEnds(ok)
  \/ Returned

Spec == Init /\ [][Next]_vars

\* The engine's tasks are polled.  A scenario ends once it is told to stop
\* (module Scenario, StopEnds); without a stop it may run on.
FairSpec ==
  /\ Spec
  /\ WF_vars(MainStep) /\ WF_vars(GaugesEnd)
  /\ WF_vars(\E ok \in BOOLEAN : AggregatorEnds(ok))
  /\ \A s \in Scenario : WF_vars(soft /\ ScenarioEnds(s))

-----------------------------------------------------------------------------
(* Properties.                                                                 *)

TypeOK ==
  /\ mode \in {"bus", "shards"} /\ phase \in Phases
  /\ status \in {"running", "stopping", "finished"}
  /\ soft \in BOOLEAN /\ hard \in BOOLEAN
  /\ reason \in {"none", "setup", "stop", "kill", "abort"}
  /\ operator \in {"idle", "stop", "kill", "hard", "returned"}
  /\ net \in {"off", "armed", "spent"}
  /\ scenario \in [Scenario -> {"off", "running", "ended"}] /\ busy \subseteq Scenario
  /\ aborts \in Nat /\ aborted \in {"none", "setup", "stop", "kill", "abort"}
  /\ gauges \in {"off", "on", "ended"} /\ agg \in {"off", "on", "ended"}
  /\ alerted \in BOOLEAN /\ done \in BOOLEAN /\ held \in BOOLEAN
  /\ emitted \in [Gauge -> Nat] /\ seen \in [Gauge -> Nat]
  /\ pending \in Nat /\ total \in Nat /\ flushed \in Nat /\ delivered \in Nat
  /\ refusals \in 0..MaxRefusals /\ recorded \in 0..MaxSamples
  /\ early \in BOOLEAN /\ wanted \in BOOLEAN /\ lost \in BOOLEAN

\* However often the uplink refuses a delta, a sample is in exactly one place:
\* on its way to the aggregator, held there to be sent, or accepted by the
\* uplink, never sent twice and never dropped by a restore.
SamplesAccounted ==
  /\ TypeOK
  /\ recorded = pending + total
  /\ delivered = flushed /\ flushed <= total

\* Every sample of a finished run has reached the uplink, the ones recorded
\* after the last tick included, unless the uplink was gone at the end; and the
\* aggregator leaves no live gauge above zero behind, although the gauge task
\* ticks until the end (for a plan without default tags).
FinalDelivered ==
  phase = "finished" =>
    /\ lost \/ delivered = recorded
    /\ Tagged \/ \A g \in Gauge : seen[g] = 0

\* A run that was stopped while its scenarios ran is reported as aborted:
\* whoever sees the token cancelled also sees the reason.
StopReported == phase = "finished" /\ early => aborted # "none"

\* The engine returns after every stop, abort and failed setup: the aggregator
\* sees its end of input on every path, in both modes.
EngineReturns == soft ~> phase \in {"finished", "error"}

-----------------------------------------------------------------------------
(* What the docs say of a run, and the code does not do.                       *)

\* assertions-checks.md on abort_test: "stop the whole run (exit code reflects
\* failure)".  A run in which an assertion or a threshold asked to abort is
\* reported as aborted.
AbortReported == phase = "finished" /\ wanted => aborted # "none"

=============================================================================

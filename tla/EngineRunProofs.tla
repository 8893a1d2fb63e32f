--------------------------- MODULE EngineRunProofs ---------------------------
(* What is proved of an engine's run (module EngineRun), for any set of        *)
(* scenarios, with or without default tags, and for any bounds.                *)
EXTENDS EngineRun, FiniteSetTheorems, TLAPS

-----------------------------------------------------------------------------
(* The inductive invariant.                                                    *)

\* Every sample is in one place, and a VU in a request has room for the sample
\* it will record.
SamplesInv ==
  /\ recorded = pending + total
  /\ delivered = flushed /\ flushed <= total
  /\ recorded + Cardinality(busy) <= MaxSamples

\* Only a running scenario has a VU in a request; none runs before setup() or
\* after a failed one, and all have ended once Engine::run goes on to teardown.
WorkInv ==
  /\ \A s \in busy : Running(s)
  /\ phase \in {"start", "setup", "failing", "error"} =>
       gauges = "off" /\ \A s \in Scenario : scenario[s] = "off"
  /\ phase \in {"ended", "gauges", "terminal", "join", "finished"} => AllEnded

\* The end of input is signalled only when nobody is left to record: after a
\* failed setup, or behind the end of the gauge task.
InputInv ==
  /\ phase \in {"terminal", "join", "finished"} => gauges = "ended"
  /\ done \/ ~held => phase \in {"failing", "error", "join", "finished"}
  /\ agg = "ended" => done \/ ~held
  /\ phase = "finished" => agg = "ended"

\* The aggregator ends with nothing left behind in the channel or the shards,
\* and with everything it holds sent, unless the uplink refused it.
DrainedInv ==
  agg = "ended" => pending = 0 /\ seen = emitted /\ (lost \/ flushed = total)

\* The terminal values are the last ones recorded of every live gauge.
ZeroInv ==
  ~Tagged => /\ emitted["in_flight_untagged"] = 0
             /\ phase \in {"join", "finished"} => \A g \in Gauge : emitted[g] = 0

\* A stop leaves its reason before it cancels, and no reason is ever taken back.
ReasonInv ==
  /\ operator # "idle" => reason # "none"
  /\ early => reason # "none"
  /\ early /\ phase \in {"gauges", "terminal", "join", "finished"} => aborted # "none"

EngineInv ==
  /\ TypeOK /\ SamplesInv /\ WorkInv /\ InputInv /\ DrainedInv /\ ZeroInv /\ ReasonInv


-----------------------------------------------------------------------------
(* The number of VUs in a request.                                             *)

\* Whatever set of scenarios is busy, it is finite and its size is a number.
LEMMA BusyCount ==
  ASSUME busy \subseteq Scenario
  PROVE  IsFiniteSet(busy) /\ Cardinality(busy) \in Nat
BY EngineAssumption, FS_Subset, FS_CardinalityType

\* A VU that begins a request adds one.
LEMMA BusyGrows ==
  ASSUME busy \subseteq Scenario, NEW s \in Scenario, s \notin busy
  PROVE  Cardinality(busy \cup {s}) = Cardinality(busy) + 1
BY BusyCount, FS_AddElement

\* A VU whose request ends takes one away.
LEMMA BusyShrinks ==
  ASSUME busy \subseteq Scenario, NEW s \in busy
  PROVE  /\ Cardinality(busy \ {s}) = Cardinality(busy) - 1
         /\ Cardinality(busy \ {s}) \in Nat
BY BusyCount, FS_RemoveElement, FS_CardinalityType

\* Once every scenario has ended no VU is in a request.
LEMMA NobodyBusy ==
  ASSUME TypeOK, WorkInv, AllEnded
  PROVE  busy = {} /\ Cardinality(busy) = 0
<1>1. busy = {}
  BY DEF TypeOK, WorkInv, AllEnded, Running
<1> QED
  BY <1>1, FS_EmptySet

\* While a VU is in a request the aggregator has not ended.
LEMMA BusyIsHeard ==
  ASSUME TypeOK, WorkInv, InputInv, NEW s \in busy
  PROVE  agg # "ended"
<1>1. s \in Scenario /\ scenario[s] = "running"
  BY DEF TypeOK, WorkInv, Running
<1>2. phase \notin {"failing", "error", "join", "finished"}
  BY <1>1 DEF WorkInv, AllEnded
<1> QED
  BY <1>2 DEF InputInv

\* A delta leaves delivered and flushed equal, and behind what is held only when
\* it was refused.
LEMMA DispatchKeeps ==
  ASSUME TypeOK, SamplesInv, NEW ok \in BOOLEAN, Dispatch(ok),
         NEW t \in Nat, total' = t, total <= t
  PROVE  \E f \in Nat :
           /\ flushed' = f /\ delivered' = f /\ f <= t
           /\ refusals' \in 0..MaxRefusals
           /\ ok \/ t = flushed => f = t
<1> USE EngineAssumption DEF TypeOK, SamplesInv
<1>1. CASE t = flushed
  BY <1>1 DEF Dispatch
<1>2. CASE t # flushed /\ ok
  <2>1. /\ flushed' = t /\ delivered' = delivered + (t - flushed)
        /\ refusals' = refusals
    BY <1>2 DEF Dispatch
  <2> QED
    BY <1>2, <2>1
<1>3. CASE t # flushed /\ ~ok
  BY <1>3 DEF Dispatch, Restored
<1> QED
  BY <1>1, <1>2, <1>3

-----------------------------------------------------------------------------
(* Every action preserves the invariant.                                       *)

\* Outputs start, or the run ends at once.
LEMMA StartOutputsPreserves ==
  ASSUME EngineInv, NEW ok \in BOOLEAN, StartOutputs(ok)
  PROVE  EngineInv'
<1> USE EngineAssumption DEF EngineInv, handle, work, meter, history, ends
<1>1. TypeOK'
  BY DEF StartOutputs, TypeOK, Phases
<1>2. SamplesInv' /\ WorkInv' /\ InputInv'
  BY DEF StartOutputs, SamplesInv, WorkInv, InputInv, Running, AllEnded
<1>3. DrainedInv' /\ ZeroInv' /\ ReasonInv'
  BY DEF StartOutputs, DrainedInv, ZeroInv, ReasonInv, Gauge
<1> QED
  BY <1>1, <1>2, <1>3

\* setup() succeeds and the scenarios are spawned.
LEMMA SetupPreserves ==
  ASSUME EngineInv, Setup
  PROVE  EngineInv'
<1> USE EngineAssumption DEF EngineInv, handle, work, meter, history, ends
<1>1. TypeOK'
  BY DEF Setup, TypeOK, Phases
<1>2. WorkInv'
  BY DEF Setup, WorkInv, Running, AllEnded, TypeOK
<1>3. SamplesInv' /\ InputInv' /\ DrainedInv'
  BY DEF Setup, SamplesInv, InputInv, DrainedInv
<1>4. ZeroInv' /\ ReasonInv'
  BY DEF Setup, ZeroInv, ReasonInv, Gauge
<1> QED
  BY <1>1, <1>2, <1>3, <1>4

\* setup() fails: both ends of input are signalled.
LEMMA SetupFailsPreserves ==
  ASSUME EngineInv, SetupFails
  PROVE  EngineInv'
<1> USE EngineAssumption DEF EngineInv, handle, work, meter, history, ends
<1>0. soft' \in BOOLEAN /\ hard' \in BOOLEAN /\ done' \in BOOLEAN /\ held' \in BOOLEAN
  BY Zenon DEF SetupFails
<1>1. TypeOK'
  BY <1>0 DEF SetupFails, TypeOK, Phases
<1>2. SamplesInv' /\ WorkInv' /\ InputInv'
  BY DEF SetupFails, SamplesInv, WorkInv, InputInv, Running, AllEnded
<1>3. DrainedInv' /\ ZeroInv' /\ ReasonInv'
  BY DEF SetupFails, DrainedInv, ZeroInv, ReasonInv, Gauge
<1> QED
  BY <1>1, <1>2, <1>3

\* A failed run returns.
LEMMA SetupReturnsPreserves ==
  ASSUME EngineInv, SetupReturns
  PROVE  EngineInv'
<1> USE EngineAssumption DEF EngineInv, handle, work, meter, history, ends
<1>1. TypeOK'
  BY DEF SetupReturns, TypeOK, Phases
<1>2. SamplesInv' /\ WorkInv' /\ InputInv'
  BY DEF SetupReturns, SamplesInv, WorkInv, InputInv, Running, AllEnded
<1>3. DrainedInv' /\ ZeroInv' /\ ReasonInv'
  BY DEF SetupReturns, DrainedInv, ZeroInv, ReasonInv, Gauge
<1> QED
  BY <1>1, <1>2, <1>3

\* A VU begins a request.
LEMMA BeginPreserves ==
  ASSUME EngineInv, NEW s \in Scenario, Begin(s)
  PROVE  EngineInv'
<1> USE EngineAssumption DEF EngineInv, handle, work, meter, history, ends
<1>0. Cardinality(busy \cup {s}) = Cardinality(busy) + 1 /\ Cardinality(busy) \in Nat
  BY BusyCount, BusyGrows DEF Begin, TypeOK
<1>1. TypeOK'
  BY DEF Begin, TypeOK, Phases
<1>2. SamplesInv'
  BY <1>0 DEF Begin, SamplesInv
<1>3. WorkInv' /\ InputInv' /\ DrainedInv'
  BY DEF Begin, WorkInv, InputInv, DrainedInv, Running, AllEnded
<1>4. ZeroInv' /\ ReasonInv'
  BY DEF Begin, ZeroInv, ReasonInv, Gauge
<1> QED
  BY <1>1, <1>2, <1>3, <1>4

\* A request ends and is recorded.
LEMMA CompletePreserves ==
  ASSUME EngineInv, NEW s \in Scenario, NEW abort \in BOOLEAN, Complete(s, abort)
  PROVE  EngineInv'
<1> USE EngineAssumption DEF EngineInv, handle, work, meter, history, ends
<1>0. /\ Cardinality(busy \ {s}) = Cardinality(busy) - 1
     /\ Cardinality(busy \ {s}) \in Nat /\ Cardinality(busy) \in Nat /\ agg # "ended"
  BY BusyCount, BusyShrinks, BusyIsHeard DEF Complete, TypeOK
<1>1. TypeOK'
  BY <1>0 DEF Complete, Record, TypeOK, SamplesInv
<1>2. SamplesInv'
  BY <1>0 DEF Complete, Record, SamplesInv, TypeOK
<1>3. DrainedInv'
  BY <1>0 DEF Complete, DrainedInv
<1>4. WorkInv' /\ InputInv' /\ ZeroInv'
  BY DEF Complete, WorkInv, InputInv, ZeroInv, Running, AllEnded, Gauge
<1>5. ReasonInv'
  BY DEF Complete, ReasonInv
<1> QED
  BY <1>1, <1>2, <1>3, <1>4, <1>5

\* A scenario ends; a request that is cut is recorded.
LEMMA ScenarioEndsPreserves ==
  ASSUME EngineInv, NEW s \in Scenario, ScenarioEnds(s)
  PROVE  EngineInv'
<1> USE EngineAssumption DEF EngineInv, handle, work, meter, history, ends
<1>0. s \in busy =>
       /\ Cardinality(busy \ {s}) = Cardinality(busy) - 1
       /\ Cardinality(busy \ {s}) \in Nat /\ Cardinality(busy) \in Nat /\ agg # "ended"
  BY BusyCount, BusyShrinks, BusyIsHeard DEF ScenarioEnds, TypeOK
<1>0a. s \notin busy => busy' = busy /\ UNCHANGED <<recorded, pending>>
  BY DEF ScenarioEnds
<1>0b. s \in busy => /\ busy' = busy \ {s} /\ recorded' = recorded + 1
                     /\ pending' = pending + 1
  BY DEF ScenarioEnds, Record
<1>0c. UNCHANGED <<total, flushed, delivered>>
  BY DEF ScenarioEnds
<1>1. TypeOK'
  BY <1>0, <1>0a DEF ScenarioEnds, Record, TypeOK, SamplesInv
<1>2. SamplesInv'
  BY <1>0, <1>0a, <1>0b, <1>0c DEF SamplesInv, TypeOK
<1>3. DrainedInv'
  BY <1>0, <1>0a DEF ScenarioEnds, DrainedInv
<1>4. WorkInv' /\ InputInv' /\ ZeroInv'
  BY DEF ScenarioEnds, WorkInv, InputInv, ZeroInv, Running, AllEnded, Gauge
<1>5. ReasonInv'
  BY DEF ScenarioEnds, ReasonInv
<1> QED
  BY <1>1, <1>2, <1>3, <1>4, <1>5

\* A stop leaves its reason.
LEMMA StopBeginsPreserves ==
  ASSUME EngineInv, NEW kind \in {"stop", "kill"}, StopBegins(kind)
  PROVE  EngineInv'
<1> USE EngineAssumption DEF EngineInv, handle, work, meter, history, ends
<1>1. TypeOK'
  BY DEF StopBegins, TypeOK, Phases
<1>2. SamplesInv' /\ WorkInv' /\ InputInv'
  BY DEF StopBegins, SamplesInv, WorkInv, InputInv, Running, AllEnded
<1>3. DrainedInv' /\ ZeroInv' /\ ReasonInv'
  BY DEF StopBegins, DrainedInv, ZeroInv, ReasonInv, Gauge
<1> QED
  BY <1>1, <1>2, <1>3

\* It cancels the soft token.
LEMMA StopCancelsPreserves ==
  ASSUME EngineInv, StopCancels
  PROVE  EngineInv'
<1> USE EngineAssumption DEF EngineInv, handle, work, meter, history, ends
<1>1. TypeOK'
  BY DEF StopCancels, TypeOK, Phases
<1>2. SamplesInv' /\ WorkInv' /\ InputInv'
  BY DEF StopCancels, SamplesInv, WorkInv, InputInv, Running, AllEnded
<1>3. DrainedInv' /\ ZeroInv' /\ ReasonInv'
  BY DEF StopCancels, DrainedInv, ZeroInv, ReasonInv, Gauge
<1> QED
  BY <1>1, <1>2, <1>3

\* A kill cancels the hard token too.
LEMMA KillCancelsPreserves ==
  ASSUME EngineInv, KillCancels
  PROVE  EngineInv'
<1> USE EngineAssumption DEF EngineInv, handle, work, meter, history, ends
<1>1. TypeOK'
  BY DEF KillCancels, TypeOK, Phases
<1>2. SamplesInv' /\ WorkInv' /\ InputInv'
  BY DEF KillCancels, SamplesInv, WorkInv, InputInv, Running, AllEnded
<1>3. DrainedInv' /\ ZeroInv' /\ ReasonInv'
  BY DEF KillCancels, DrainedInv, ZeroInv, ReasonInv, Gauge
<1> QED
  BY <1>1, <1>2, <1>3

\* The safety net of a stop fires.
LEMMA NetFiresPreserves ==
  ASSUME EngineInv, NetFires
  PROVE  EngineInv'
<1> USE EngineAssumption DEF EngineInv, handle, work, meter, history, ends
<1>1. TypeOK'
  BY DEF NetFires, TypeOK, Phases
<1>2. SamplesInv' /\ WorkInv' /\ InputInv'
  BY DEF NetFires, SamplesInv, WorkInv, InputInv, Running, AllEnded
<1>3. DrainedInv' /\ ZeroInv' /\ ReasonInv'
  BY DEF NetFires, DrainedInv, ZeroInv, ReasonInv, Gauge
<1> QED
  BY <1>1, <1>2, <1>3

\* Engine::run sees that all scenarios have ended.
LEMMA AllDonePreserves ==
  ASSUME EngineInv, AllDone
  PROVE  EngineInv'
<1> USE EngineAssumption DEF EngineInv, handle, work, meter, history, ends
<1>1. TypeOK'
  BY DEF AllDone, TypeOK, Phases
<1>2. SamplesInv' /\ WorkInv' /\ InputInv'
  BY DEF AllDone, SamplesInv, WorkInv, InputInv, Running, AllEnded
<1>3. DrainedInv' /\ ZeroInv' /\ ReasonInv'
  BY DEF AllDone, DrainedInv, ZeroInv, ReasonInv, Gauge
<1> QED
  BY <1>1, <1>2, <1>3

\* Engine::run takes an abort reason.
LEMMA AbortReceivedPreserves ==
  ASSUME EngineInv, AbortReceived
  PROVE  EngineInv'
<1> USE EngineAssumption DEF EngineInv, handle, work, meter, history, ends
<1>1. TypeOK'
  BY DEF AbortReceived, TypeOK, Phases
<1>2. SamplesInv' /\ WorkInv' /\ InputInv'
  BY DEF AbortReceived, SamplesInv, WorkInv, InputInv, Running, AllEnded
<1>3. DrainedInv' /\ ZeroInv' /\ ReasonInv'
  BY DEF AbortReceived, DrainedInv, ZeroInv, ReasonInv, Gauge
<1> QED
  BY <1>1, <1>2, <1>3

\* Engine::run sees the soft token.
LEMMA StopSeenPreserves ==
  ASSUME EngineInv, StopSeen
  PROVE  EngineInv'
<1> USE EngineAssumption DEF EngineInv, handle, work, meter, history, ends
<1>1. TypeOK'
  BY DEF StopSeen, TypeOK, Phases
<1>2. SamplesInv' /\ WorkInv' /\ InputInv'
  BY DEF StopSeen, SamplesInv, WorkInv, InputInv, Running, AllEnded
<1>3. DrainedInv' /\ ZeroInv' /\ ReasonInv'
  BY DEF StopSeen, DrainedInv, ZeroInv, ReasonInv, Gauge
<1> QED
  BY <1>1, <1>2, <1>3

\* The reason of a stop is read.
LEMMA TeardownPreserves ==
  ASSUME EngineInv, Teardown
  PROVE  EngineInv'
<1> USE EngineAssumption DEF EngineInv, handle, work, meter, history, ends
<1>1. TypeOK'
  BY DEF Teardown, TypeOK, Phases
<1>2. SamplesInv' /\ WorkInv' /\ InputInv'
  BY DEF Teardown, SamplesInv, WorkInv, InputInv, Running, AllEnded
<1>3. DrainedInv' /\ ZeroInv' /\ ReasonInv'
  BY DEF Teardown, DrainedInv, ZeroInv, ReasonInv, Gauge
<1> QED
  BY <1>1, <1>2, <1>3

\* The gauge task is joined.
LEMMA GaugesJoinedPreserves ==
  ASSUME EngineInv, GaugesJoined
  PROVE  EngineInv'
<1> USE EngineAssumption DEF EngineInv, handle, work, meter, history, ends
<1>1. TypeOK'
  BY DEF GaugesJoined, TypeOK, Phases
<1>2. SamplesInv' /\ WorkInv' /\ InputInv'
  BY DEF GaugesJoined, SamplesInv, WorkInv, InputInv, Running, AllEnded
<1>3. DrainedInv' /\ ZeroInv' /\ ReasonInv'
  BY DEF GaugesJoined, DrainedInv, ZeroInv, ReasonInv, Gauge
<1> QED
  BY <1>1, <1>2, <1>3

\* Terminal gauges, then the end of input.
LEMMA ClosePreserves ==
  ASSUME EngineInv, Close
  PROVE  EngineInv'
<1> USE EngineAssumption DEF EngineInv, handle, work, meter, history, ends
<1>0. Cardinality(busy) = 0 /\ agg # "ended"
  BY NobodyBusy DEF Close, WorkInv, InputInv
<1>0a. /\ emitted' \in [Gauge -> Nat] /\ emitted'["vus"] = 0 /\ emitted'[InFlightSeries] = 0
     /\ \A g \in Gauge : g \notin {"vus", InFlightSeries} => emitted'[g] = emitted[g]
  BY <1>0 DEF Close, TerminalGauges, InFlightSeries, Gauge, TypeOK
<1>0b. done' \in BOOLEAN /\ held' \in BOOLEAN
  BY Zenon DEF Close
<1>1. TypeOK'
  BY <1>0a, <1>0b DEF Close, TypeOK, Phases
<1>2. DrainedInv'
  BY <1>0 DEF Close, DrainedInv
<1>3. ZeroInv'
  BY <1>0a DEF Close, ZeroInv, InFlightSeries, Gauge
<1>4. SamplesInv' /\ WorkInv' /\ InputInv'
  BY DEF Close, SamplesInv, WorkInv, InputInv, Running, AllEnded
<1>5. ReasonInv'
  BY DEF Close, ReasonInv
<1> QED
  BY <1>1, <1>2, <1>3, <1>4, <1>5

\* The aggregator is joined and the run finished.
LEMMA FinishPreserves ==
  ASSUME EngineInv, Finish
  PROVE  EngineInv'
<1> USE EngineAssumption DEF EngineInv, handle, work, meter, history, ends
<1>1. TypeOK'
  BY DEF Finish, TypeOK, Phases
<1>2. SamplesInv' /\ WorkInv' /\ InputInv'
  BY DEF Finish, SamplesInv, WorkInv, InputInv, Running, AllEnded
<1>3. DrainedInv' /\ ZeroInv' /\ ReasonInv'
  BY DEF Finish, DrainedInv, ZeroInv, ReasonInv, Gauge
<1> QED
  BY <1>1, <1>2, <1>3

\* A tick of the gauge task.
LEMMA GaugeTickPreserves ==
  ASSUME EngineInv, GaugeTick
  PROVE  EngineInv'
<1> USE EngineAssumption DEF EngineInv, handle, work, meter, history, ends
<1>0. Cardinality(busy) \in Nat
  BY BusyCount DEF TypeOK
<1>0a. /\ emitted' \in [Gauge -> Nat]
     /\ emitted'["in_flight_untagged"] = emitted["in_flight_untagged"]
  BY <1>0 DEF GaugeTick, Gauge, TypeOK
<1>0b. phase \notin {"failing", "error", "join", "finished"}
  BY DEF GaugeTick, InputInv, WorkInv
<1>1. TypeOK'
  BY <1>0a DEF GaugeTick, TypeOK
<1>2. DrainedInv'
  BY <1>0b DEF GaugeTick, DrainedInv, InputInv
<1>3. ZeroInv'
  BY <1>0a, <1>0b DEF GaugeTick, ZeroInv
<1>4. SamplesInv' /\ WorkInv' /\ InputInv'
  BY DEF GaugeTick, SamplesInv, WorkInv, InputInv, Running, AllEnded
<1>5. ReasonInv'
  BY DEF GaugeTick, ReasonInv
<1> QED
  BY <1>1, <1>2, <1>3, <1>4, <1>5

\* The gauge task ends.
LEMMA GaugesEndPreserves ==
  ASSUME EngineInv, GaugesEnd
  PROVE  EngineInv'
<1> USE EngineAssumption DEF EngineInv, handle, work, meter, history, ends
<1>1. TypeOK'
  BY DEF GaugesEnd, TypeOK, Phases
<1>2. SamplesInv' /\ WorkInv' /\ InputInv'
  BY DEF GaugesEnd, SamplesInv, WorkInv, InputInv, Running, AllEnded
<1>3. DrainedInv' /\ ZeroInv' /\ ReasonInv'
  BY DEF GaugesEnd, DrainedInv, ZeroInv, ReasonInv, Gauge
<1> QED
  BY <1>1, <1>2, <1>3

\* The aggregator reads the channel.
LEMMA ReceivePreserves ==
  ASSUME EngineInv, Receive
  PROVE  EngineInv'
<1> USE EngineAssumption DEF EngineInv, handle, work, meter, history, ends
<1>0. /\ total' = total + pending /\ pending' = 0 /\ seen' \in [Gauge -> Nat]
  BY DEF Receive, Drain, TypeOK
<1>0a. UNCHANGED <<recorded, busy, flushed, delivered>>
  BY DEF Receive
<1>1. TypeOK'
  BY <1>0 DEF Receive, TypeOK
<1>2. SamplesInv'
  BY <1>0, <1>0a DEF SamplesInv, TypeOK
<1>3. WorkInv' /\ InputInv' /\ DrainedInv'
  BY DEF Receive, WorkInv, InputInv, DrainedInv, Running, AllEnded
<1>4. ZeroInv' /\ ReasonInv'
  BY DEF Receive, ZeroInv, ReasonInv, Gauge
<1> QED
  BY <1>1, <1>2, <1>3, <1>4

\* A tick of the aggregator.
LEMMA TickPreserves ==
  ASSUME EngineInv, NEW ok \in BOOLEAN, NEW crossed \in BOOLEAN, Tick(ok, crossed)
  PROVE  EngineInv'
<1> USE EngineAssumption DEF EngineInv, handle, work, meter, history, ends
<1>0. PICK t \in Nat, p \in Nat :
       /\ total' = t /\ pending' = p /\ t + p = total + pending /\ total <= t
       /\ seen' \in [Gauge -> Nat]
  <2>1. CASE mode = "shards"
    BY <2>1 DEF Tick, Drain, TypeOK
  <2>2. CASE mode # "shards"
    BY <2>2 DEF Tick, TypeOK
  <2> QED
    BY <2>1, <2>2
<1>0a. PICK f \in Nat :
       flushed' = f /\ delivered' = f /\ f <= t /\ refusals' \in 0..MaxRefusals
  BY <1>0, DispatchKeeps DEF Tick
<1>0b. UNCHANGED <<recorded, busy>>
  BY DEF Tick
<1>1. TypeOK'
  BY <1>0, <1>0a DEF Tick, TypeOK
<1>2. SamplesInv'
  BY <1>0, <1>0a, <1>0b DEF SamplesInv, TypeOK
<1>3. WorkInv' /\ InputInv' /\ DrainedInv'
  BY DEF Tick, WorkInv, InputInv, DrainedInv, Running, AllEnded
<1>4. ZeroInv' /\ ReasonInv'
  BY DEF Tick, ZeroInv, ReasonInv, Gauge
<1> QED
  BY <1>1, <1>2, <1>3, <1>4

\* The aggregator ends.
LEMMA AggregatorEndsPreserves ==
  ASSUME EngineInv, NEW ok \in BOOLEAN, AggregatorEnds(ok)
  PROVE  EngineInv'
<1> USE EngineAssumption DEF EngineInv, handle, work, meter, history, ends
<1>0. PICK t \in Nat :
       /\ total' = t /\ pending' = 0 /\ t = total + pending /\ total <= t
       /\ seen' \in [Gauge -> Nat]
  BY DEF AggregatorEnds, FinalDrain, Drain, TypeOK
<1>0a. PICK f \in Nat :
       /\ flushed' = f /\ delivered' = f /\ f <= t /\ refusals' \in 0..MaxRefusals
       /\ ok \/ t = flushed => f = t
  BY <1>0, DispatchKeeps DEF AggregatorEnds
<1>0b. /\ UNCHANGED <<mode, phase, status, handle, work, aborted, gauges, alerted, ends,
                      emitted, recorded, early, wanted>>
      /\ agg' = "ended" /\ seen' = emitted'
  BY DEF AggregatorEnds, FinalDrain, Drain
<1>0c. lost' \in BOOLEAN /\ (lost' \/ ok \/ t = flushed)
  BY <1>0, Zenon DEF AggregatorEnds
<1>1. TypeOK'
  BY <1>0, <1>0a, <1>0b, <1>0c DEF TypeOK
<1>2. SamplesInv'
  <2>1. recorded' = pending' + total'
    BY <1>0, <1>0b DEF SamplesInv, TypeOK
  <2>2. recorded' + Cardinality(busy') <= MaxSamples
    BY <1>0b DEF SamplesInv
  <2> QED
    BY <1>0, <1>0a, <2>1, <2>2 DEF SamplesInv
<1>3. InputInv'
  BY DEF AggregatorEnds, InputInv, InputEnded
<1>4. DrainedInv'
  BY <1>0, <1>0a, <1>0b, <1>0c DEF DrainedInv
<1>5. WorkInv' /\ ZeroInv' /\ ReasonInv'
  BY DEF AggregatorEnds, WorkInv, ZeroInv, ReasonInv, Running, AllEnded, Gauge
<1> QED
  BY <1>1, <1>2, <1>3, <1>4, <1>5

-----------------------------------------------------------------------------
(* The theorems.                                                               *)

\* A run begins in the invariant.
LEMMA EngineInit == Init => EngineInv
<1> SUFFICES ASSUME Init PROVE EngineInv
  OBVIOUS
<1> USE EngineAssumption DEF Init
<1>1. busy = {} /\ Cardinality(busy) = 0
  BY FS_EmptySet
<1>2. \A b \in {soft, hard, alerted, done, held, early, wanted, lost} : b \in BOOLEAN
  BY Zenon
<1>2a. TypeOK
  BY <1>2 DEF TypeOK, Phases, Gauge
<1>3. SamplesInv /\ DrainedInv /\ ZeroInv /\ ReasonInv
  BY <1>1 DEF SamplesInv, DrainedInv, ZeroInv, ReasonInv, Gauge
<1>4. WorkInv /\ InputInv
  BY DEF WorkInv, InputInv
<1> QED
  BY <1>2a, <1>3, <1>4 DEF EngineInv

\* And every step keeps it.
LEMMA EngineStep == EngineInv /\ [Next]_vars => EngineInv'
<1> SUFFICES ASSUME EngineInv, [Next]_vars PROVE EngineInv'
  OBVIOUS
<1>1. CASE MainStep
  BY <1>1, StartOutputsPreserves, SetupPreserves, SetupFailsPreserves, SetupReturnsPreserves,
     AllDonePreserves, AbortReceivedPreserves, StopSeenPreserves, TeardownPreserves,
     GaugesJoinedPreserves, ClosePreserves, FinishPreserves DEF MainStep
<1>2. CASE \E s \in Scenario : Begin(s) \/ ScenarioEnds(s)
  BY <1>2, BeginPreserves, ScenarioEndsPreserves
<1>3. CASE \E s \in Scenario, abort \in BOOLEAN : Complete(s, abort)
  BY <1>3, CompletePreserves
<1>4. CASE \E kind \in {"stop", "kill"} : StopBegins(kind)
  BY <1>4, StopBeginsPreserves
<1>5. CASE StopCancels \/ KillCancels \/ NetFires
  BY <1>5, StopCancelsPreserves, KillCancelsPreserves, NetFiresPreserves
<1>6. CASE GaugeTick \/ GaugesEnd \/ Receive
  BY <1>6, GaugeTickPreserves, GaugesEndPreserves, ReceivePreserves
<1>7. CASE \E ok, crossed \in BOOLEAN : Tick(ok, crossed)
  BY <1>7, TickPreserves
<1>8. CASE \E ok \in BOOLEAN : AggregatorEnds(ok)
  BY <1>8, AggregatorEndsPreserves
<1>9. CASE UNCHANGED vars
  <2> USE <1>9 DEF vars, handle, work, meter, history, ends
  <2>1. TypeOK' /\ SamplesInv' /\ WorkInv'
    BY DEF EngineInv, TypeOK, SamplesInv, WorkInv, Running, AllEnded
  <2>2. InputInv' /\ DrainedInv' /\ ZeroInv' /\ ReasonInv'
    BY DEF EngineInv, InputInv, DrainedInv, ZeroInv, ReasonInv
  <2> QED
    BY <2>1, <2>2 DEF EngineInv
<1> QED
  BY <1>1, <1>2, <1>3, <1>4, <1>5, <1>6, <1>7, <1>8, <1>9 DEF Next, Returned

\* Every reachable state of a run satisfies the invariant.
THEOREM EngineInvariance == Spec => []EngineInv
BY EngineInit, EngineStep, PTL DEF Spec

\* However often the uplink refuses a delta, every sample that Engine::run's
\* tasks record is in exactly one place: none is sent twice or dropped.
THEOREM SamplesTheorem == Spec => []SamplesAccounted
<1>1. EngineInv => SamplesAccounted
  BY DEF EngineInv, SamplesInv, SamplesAccounted
<1> QED
  BY <1>1, EngineInvariance, PTL

\* A run is finished only when all its samples have been delivered (or the
\* uplink was gone) and no live gauge is left above zero.
THEOREM FinalTheorem == Spec => []FinalDelivered
<1>1. EngineInv => FinalDelivered
  <2> SUFFICES ASSUME EngineInv, phase = "finished"
               PROVE  /\ lost \/ delivered = recorded
                      /\ Tagged \/ \A g \in Gauge : seen[g] = 0
    BY DEF FinalDelivered
  <2>1. agg = "ended"
    BY DEF EngineInv, InputInv
  <2>2. lost \/ delivered = recorded
    BY <2>1 DEF EngineInv, DrainedInv, SamplesInv, TypeOK
  <2>3. Tagged \/ \A g \in Gauge : seen[g] = 0
    BY <2>1, EngineAssumption DEF EngineInv, DrainedInv, ZeroInv
  <2> QED
    BY <2>2, <2>3
<1> QED
  BY <1>1, EngineInvariance, PTL

\* A run that was stopped while its scenarios ran is reported as aborted.
THEOREM StopTheorem == Spec => []StopReported
<1>1. EngineInv => StopReported
  BY DEF EngineInv, ReasonInv, StopReported
<1> QED
  BY <1>1, EngineInvariance, PTL
=============================================================================

---------------------------- MODULE Aggregation -----------------------------
(* Metrics of a distributed run on their way through three tiers of            *)
(* aggregators (crates/loadr-core/src/aggregate.rs): VUs record into the shards*)
(* of their agent, the engine drains the shards and takes deltas, and the      *)
(* controller merges the deltas.  A delta the uplink refuses is restored.      *)
(*                                                                             *)
(* One metric, whose kind Init chooses, in one series per agent: the agent is  *)
(* a tag.  What a series holds is a function from its cells to numbers: the    *)
(* total of a counter, the passes and the total of a rate, the buckets of the  *)
(* histogram of a trend.  A value is its bucket: the rounding of HDR           *)
(* histograms, and sums of trends, are left out.                               *)
EXTENDS Integers, Sequences, FiniteSetsExt, Functions

CONSTANTS
  Agent,       \* agents of the run
  Shards,      \* shards of an agent
  Kinds,       \* metric kinds that Init may choose
  Values,      \* values of samples
  MaxSamples,  \* bound: samples recorded
  MaxFlushes   \* bound: deltas taken, accepted or refused

Shard == 1..Shards
None == Max(Values) + 1   \* no value yet: above every value, as min starts out

AggregationAssumption ==
  /\ Kinds \subseteq {"counter", "rate", "trend", "gauge"}
  /\ Shards \in Nat \ {0} /\ IsFiniteSet(Values) /\ Values \subseteq Nat /\ Values # {}
  /\ MaxSamples \in Nat /\ MaxFlushes \in Nat

VARIABLES
  kind,      \* MetricKind of the metric
  shard,     \* MetricShards: a series per agent and shard
  agg,       \* the aggregator of each engine
  drained,   \* how many shards drain_into has folded in this tick
  up,        \* deltas on their way to the controller
  fleet,     \* the controller's aggregator: a series per agent
  seq,       \* its sequence number
  stamp,     \* the sequence number of each series (gauges)
  flushes,   \* deltas taken so far
  recorded,  \* history: samples of each agent, by value
  latest,    \* history: the value recorded last
  mark,      \* history: samples of an agent when its tick began
  reached    \* history: of these, the ones the controller has merged

tiers == <<shard, agg, fleet>>
history == <<recorded, latest, mark, reached>>
vars == <<kind, tiers, drained, up, seq, stamp, flushes, history>>
-----------------------------------------------------------------------------
(* Series. *)

Cells == CASE kind = "counter" -> {"sum"}
           [] kind = "rate" -> {"passes", "total"}
           [] kind = "trend" -> Values
           [] kind = "gauge" -> {}
Zero == [x \in Cells |-> 0]
Plus(f, g) == [x \in Cells |-> f[x] + g[x]]
Minus(f, g) == [x \in Cells |-> f[x] - g[x]]

\* What one sample adds.
Unit(v) == [x \in Cells |->
  CASE kind = "counter" -> v
    [] kind = "rate" -> (IF x = "total" \/ v # 0 THEN 1 ELSE 0)
    [] OTHER -> (IF x = v THEN 1 ELSE 0)]

Low(x, y) == IF x < y THEN x ELSE y
\* None is also where max starts out.
High(x, y) == IF x = None \/ (y # None /\ y > x) THEN y ELSE x

\* total is cumulative; flushed is what a delta has taken of it (counter, rate);
\* delta_hist is what no delta has taken (trend); the rest are the last value
\* and the envelope (gauge, trend).
Empty(zero) == [total |-> zero, flushed |-> zero, delta_hist |-> zero,
                last |-> None, min |-> None, max |-> None]

HasEnvelope == kind \in {"gauge", "trend"}

\* Series::record.
Recorded(s, v) ==
  [s EXCEPT !.total = Plus(@, Unit(v)),
            !.delta_hist = IF kind = "trend" THEN Plus(@, Unit(v)) ELSE @,
            !.last = IF kind = "gauge" THEN v ELSE @,
            !.min = IF HasEnvelope THEN Low(@, v) ELSE @,
            !.max = IF HasEnvelope THEN High(@, v) ELSE @]

\* What take_delta finds to send: for a gauge always its value.
Unsent(s) == IF kind = "trend" THEN s.delta_hist ELSE Minus(s.total, s.flushed)
Delta(s) == [cells |-> Unsent(s), last |-> s.last, min |-> s.min, max |-> s.max]
HasDelta(s) == IF kind = "gauge" THEN s.last # None ELSE Unsent(s) # Zero

Taken(s) == [s EXCEPT !.flushed = IF kind = "trend" THEN @ ELSE s.total, !.delta_hist = Zero]

\* restore_delta: what the delta took is unsent again.
Restored(s, d) ==
  IF kind = "trend" THEN [s EXCEPT !.delta_hist = Plus(@, d.cells)]
  ELSE [s EXCEPT !.flushed = Minus(@, d.cells)]

\* Fault: a merged histogram is not sent on.
MergedOnce(s, d) ==
  [s EXCEPT !.total = Plus(@, d.cells),
            !.last = IF kind = "gauge" THEN d.last ELSE @,
            !.min = IF HasEnvelope THEN Low(@, d.min) ELSE @,
            !.max = IF HasEnvelope THEN High(@, d.max) ELSE @]

\* Fault: the envelope is taken over, not widened.
MergedOver(s, d) ==
  [s EXCEPT !.total = Plus(@, d.cells),
            !.delta_hist = IF kind = "trend" THEN Plus(@, d.cells) ELSE @,
            !.last = IF kind = "gauge" THEN d.last ELSE @,
            !.min = IF HasEnvelope THEN d.min ELSE @,
            !.max = IF HasEnvelope THEN d.max ELSE @]

\* merge_delta: also feeds delta_hist, for the next tier.
Merged(s, d) ==
  [s EXCEPT !.total = Plus(@, d.cells),
            !.delta_hist = IF kind = "trend" THEN Plus(@, d.cells) ELSE @,
            !.last = IF kind = "gauge" THEN d.last ELSE @,
            !.min = IF HasEnvelope THEN Low(@, d.min) ELSE @,
            !.max = IF HasEnvelope THEN High(@, d.max) ELSE @]
-----------------------------------------------------------------------------

Samples(a) == SumFunction(recorded[a])
AllSamples == SumFunction([a \in Agent |-> Samples(a)])

Init ==
  /\ kind \in Kinds
  /\ shard = [a \in Agent |-> [i \in Shard |-> Empty(Zero)]]
  /\ agg = [a \in Agent |-> Empty(Zero)] /\ fleet = [a \in Agent |-> Empty(Zero)]
  /\ drained = [a \in Agent |-> 0]
  /\ up = [a \in Agent |-> <<>>]
  /\ seq = 0 /\ stamp = [a \in Agent |-> 0] /\ flushes = 0
  /\ recorded = [a \in Agent |-> [v \in Values |-> 0]] /\ latest = None
  /\ mark = [a \in Agent |-> 0] /\ reached = [a \in Agent |-> 0]

\* A VU records into the shard it is pinned to, beside the drain of others.
Record(a, i, v) ==
  /\ AllSamples < MaxSamples
  /\ shard' = [shard EXCEPT ![a][i] = Recorded(@, v)]
  /\ recorded' = [recorded EXCEPT ![a][v] = @ + 1] /\ latest' = v
  /\ UNCHANGED <<kind, agg, fleet, drained, up, seq, stamp, flushes, mark, reached>>

\* drain_into, one shard: take_delta under its lock, then merge_delta.
DrainShard(a) ==
  LET i == drained[a] + 1
      s == shard[a][i]
  IN
  /\ drained[a] < Shards
  /\ drained' = [drained EXCEPT ![a] = i]
  /\ shard' = IF HasDelta(s) THEN [shard EXCEPT ![a][i] = Taken(s)] ELSE shard
  /\ agg' = IF HasDelta(s) THEN [agg EXCEPT ![a] = Merged(@, Delta(s))] ELSE agg
  /\ mark' = IF i = 1 THEN [mark EXCEPT ![a] = Samples(a)] ELSE mark
  /\ UNCHANGED <<kind, fleet, up, seq, stamp, flushes, recorded, latest, reached>>

\* The tick's delta is taken and queued, or refused and restored.
Flush(a, accepted) ==
  LET s == agg[a] IN
  /\ drained[a] = Shards
  /\ drained' = [drained EXCEPT ![a] = 0]
  /\ \/ /\ ~HasDelta(s) /\ accepted
        /\ UNCHANGED <<agg, up, flushes>>
     \/ /\ HasDelta(s) /\ flushes < MaxFlushes
        /\ flushes' = flushes + 1
        /\ agg' = [agg EXCEPT ![a] =
             IF accepted THEN Taken(s) ELSE Restored(Taken(s), Delta(s))]
        /\ up' = IF accepted
                 THEN [up EXCEPT ![a] = Append(@, [delta |-> Delta(s), mark |-> mark[a]])]
                 ELSE up
  /\ UNCHANGED <<kind, shard, fleet, seq, stamp, history>>

\* The controller merges a delta into the series of its agent.
MergeDelta(a) ==
  /\ up[a] # <<>>
  /\ up' = [up EXCEPT ![a] = Tail(@)]
  /\ fleet' = [fleet EXCEPT ![a] = Merged(@, Head(up[a]).delta)]
  /\ seq' = seq + 1 /\ stamp' = [stamp EXCEPT ![a] = seq + 1]
  /\ reached' = [reached EXCEPT ![a] = Head(up[a]).mark]
  /\ UNCHANGED <<kind, shard, agg, drained, flushes, recorded, latest, mark>>

Next ==
  \E a \in Agent :
    \/ \E i \in Shard, v \in Values : Record(a, i, v)
    \/ DrainShard(a) \/ \E ok \in BOOLEAN : Flush(a, ok) \/ MergeDelta(a)

Spec == Init /\ [][Next]_vars
-----------------------------------------------------------------------------
(* Properties. *)

Series(a) == {agg[a], fleet[a]} \cup {shard[a][i] : i \in Shard}

TypeOK ==
  /\ kind \in Kinds
  /\ drained \in [Agent -> 0..Shards] /\ flushes \in 0..MaxFlushes
  /\ \A a \in Agent : \A s \in Series(a) :
       /\ s.total \in [Cells -> Nat] /\ s.flushed \in [Cells -> Nat]
       /\ {s.last, s.min, s.max} \subseteq Values \cup {None}

InShards(a, x) == SumFunction([i \in Shard |-> Unsent(shard[a][i])[x]])
InFlight(a, x) == SumFunction([n \in DOMAIN up[a] |-> up[a][n].delta.cells[x]])
InSamples(a, x) == SumFunction([v \in Values |-> recorded[a][v] * Unit(v)[x]])

\* Every sample is in exactly one place on its way: unsent in a shard, unsent in
\* the engine, in a delta, or in the controller's total; so an engine's own
\* totals, and after the last delta the fleet's, are those of a single
\* aggregator, whatever was refused, restored and recorded meanwhile.
TiersConserve ==
  /\ TypeOK
  /\ \A a \in Agent : \A x \in Cells :
       /\ agg[a].total[x] + InShards(a, x) = InSamples(a, x)
       /\ fleet[a].total[x] + InFlight(a, x) + Unsent(agg[a])[x] + InShards(a, x)
            = InSamples(a, x)

\* The envelope of a trend is that of its histogram in every tier, although a
\* delta carries the cumulative minimum and maximum beside a partial histogram:
\* no percentile of a fleet lies outside its minimum and maximum.
EnvelopeTrue ==
  kind = "trend" =>
    \A a \in Agent : \A s \in Series(a) :
      LET seen == {v \in Values : s.total[v] > 0}
      IN s.min = (IF seen = {} THEN None ELSE Min(seen)) /\
         s.max = (IF seen = {} THEN None ELSE Max(seen))

\* Every agent's samples have been drained, taken and merged.
Settled == \A a \in Agent : reached[a] = Samples(a)

\* merge_series on the gauge series of all agents: the latest stamp wins.
FleetValue ==
  LET newest == CHOOSE a \in Agent : \A b \in Agent : stamp[b] <= stamp[a]
  IN fleet[newest].last

\* docs/src/distributed/metrics-merging.md: "other gauges keep the most recent
\* value".  Once everything has arrived, the fleet's value is the last recorded.
GaugeLatest == kind = "gauge" /\ Settled /\ AllSamples > 0 => FleetValue = latest
=============================================================================

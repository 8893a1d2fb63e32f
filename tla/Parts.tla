-------------------------------- MODULE Parts --------------------------------
(* Parts of a run that share no state with one another: the uplink window of an *)
(* agent, the gRPC channel of its VUs, the clean-up of a run's data, metric     *)
(* aggregation, the feeds of plugin rows, the MQTT pool and the containers of a *)
(* plan.  Init chooses the part that takes steps; the others stay as they start. *)
EXTENDS Naturals, Sequences

CONSTANTS
  Explored,                                                                    \* parts to choose from
  Producer, Sizes, MaxBytes, MaxMessages, Capacity, MaxSession, MaxSeq,        \* UplinkWindow
  MaxCalls, Limit, MaxDials,                                                   \* GrpcChannel
  Resource, Worker,                                                            \* Cleanup
  Agent, Shards, Kinds, Values, MaxSamples, MaxFlushes,                        \* Aggregation
  Count, Plans, MaxId, Branches, MaxRows, MaxRequests, MaxIterations,          \* DataFeeds
  Topic, Qos, MaxOps, MaxConns,                                                \* MqttPool
  Services, Each, MaxPresses                                                   \* Fixtures

VARIABLES
  part,  \* the part that takes steps
  next_seq, pending, cursor, bytes, epoch, closed, permit, waiters, room, producer, writer, hand,
  aborted, chan, cur, acking, closing, delivered, taken,
  at, permits, gate, conn, dialled, open, stream, cooldown,
  lenient, line, handler, accepting, shutdown, stop, registry, queue, worker, abort, deleted,
  errors, settled, drawn, tried,
  kind, shard, agg, drained, up, fleet, seq, stamp, flushes, recorded, latest, mark, reached,
  plan, vu_ids, workers, sequence, context, iterations, requests, pulled, rendered, reported,
  pool, made, op_at, want, op_conn, reused, got, cut, dropped, tx, rx, subs, held, forwarded,
  phase, ui, service, step, launched, started, victims, ctrl_c, woken, presses, exists, ready,
  refused, unknown

uplink ==
  <<next_seq, pending, cursor, bytes, epoch, closed, permit, waiters, room, producer, writer,
    hand, aborted, chan, cur, acking, closing, delivered, taken>>
grpc == <<at, permits, gate, conn, dialled, open, stream, cooldown>>
cleanup ==
  <<lenient, line, handler, accepting, shutdown, stop, registry, queue, worker, abort, deleted,
    errors, settled, drawn, tried>>
aggregation ==
  <<kind, shard, agg, drained, up, fleet, seq, stamp, flushes, recorded, latest, mark, reached>>
feeds ==
  <<plan, vu_ids, workers, sequence, context, iterations, requests, pulled, rendered, reported>>
mqtt ==
  <<pool, made, op_at, want, op_conn, reused, got, cut, dropped, tx, rx, subs, held, forwarded>>
fixtures ==
  <<phase, ui, service, step, launched, started, victims, ctrl_c, woken, presses, exists, ready,
    refused, unknown>>
vars == <<part, uplink, grpc, cleanup, aggregation, feeds, mqtt, fixtures>>

Uplink == INSTANCE UplinkWindow
Grpc == INSTANCE GrpcChannel
Data == INSTANCE Cleanup WITH taken <- drawn
Agg == INSTANCE Aggregation
Feeds == INSTANCE DataFeeds
Mqtt == INSTANCE MqttPool WITH at <- op_at, conn <- op_conn, taken <- forwarded
Docker == INSTANCE Fixtures WITH handler <- ctrl_c

ASSUME PartsAssumption ==
  /\ Uplink!WindowAssumption /\ Grpc!ChannelAssumption /\ Data!CleanupAssumption
  /\ Agg!AggregationAssumption /\ Feeds!CountAssumption
  /\ Mqtt!PoolAssumption /\ Docker!FixturesAssumption

\* A part that takes no steps starts in one of its initial states.
Init ==
  /\ part \in Explored
  /\ Uplink!Init /\ Grpc!Init /\ Data!Init /\ Agg!Init /\ Feeds!Init /\ Mqtt!Init /\ Docker!Init
  /\ part # "cleanup" => ~lenient
  /\ part # "aggregation" => kind = CHOOSE k \in Kinds : TRUE
  /\ part # "feeds" => plan = CHOOSE p \in Plans : TRUE
  /\ part # "fixtures" => ~ui

Next ==
  \/ /\ part = "uplink" /\ Uplink!Next
     /\ UNCHANGED <<part, grpc, cleanup, aggregation, feeds, mqtt, fixtures>>
  \/ /\ part = "grpc" /\ Grpc!Next
     /\ UNCHANGED <<part, uplink, cleanup, aggregation, feeds, mqtt, fixtures>>
  \/ /\ part = "cleanup" /\ Data!Next
     /\ UNCHANGED <<part, uplink, grpc, aggregation, feeds, mqtt, fixtures>>
  \/ /\ part = "aggregation" /\ Agg!Next
     /\ UNCHANGED <<part, uplink, grpc, cleanup, feeds, mqtt, fixtures>>
  \/ /\ part = "feeds" /\ Feeds!Next
     /\ UNCHANGED <<part, uplink, grpc, cleanup, aggregation, mqtt, fixtures>>
  \/ /\ part = "mqtt" /\ Mqtt!Next
     /\ UNCHANGED <<part, uplink, grpc, cleanup, aggregation, feeds, fixtures>>
  \/ /\ part = "fixtures" /\ Docker!Next
     /\ UNCHANGED <<part, uplink, grpc, cleanup, aggregation, feeds, mqtt>>

Spec == Init /\ [][Next]_vars

\* Each part's own fairness, while it is the one that takes steps.
FairUplink ==
  /\ \A p \in Producer : WF_uplink(part = "uplink" /\ Uplink!ProducerStep(p))
  /\ \A w \in Uplink!Session : WF_uplink(part = "uplink" /\ Uplink!WriterStep(w))
  /\ WF_uplink(part = "uplink" /\ Uplink!Receive)
  /\ WF_uplink(part = "uplink" /\ (Uplink!Rewind \/ Uplink!Close))
  /\ WF_uplink(part = "uplink" /\ \E n \in 1..MaxSeq : Uplink!Ack(n))
  /\ WF_uplink(/\ part = "uplink"
               /\ Uplink!TellProducers \/ Uplink!CloseTellsWriter \/ Uplink!CloseTellsProducers)
FairGrpc == \A c \in Grpc!Call : WF_grpc(part = "grpc" /\ Grpc!Step(c))
FairCleanup ==
  /\ WF_cleanup(part = "cleanup" /\ Data!AcceptStep)
  /\ WF_cleanup(part = "cleanup" /\ Data!StopStep)
  /\ \A w \in Worker : WF_cleanup(part = "cleanup" /\ Data!WorkerStep(w))

FairSpec == Spec /\ FairUplink /\ FairGrpc /\ FairCleanup
-----------------------------------------------------------------------------
(* Properties, each of one part. *)

\* The uplink window is the unacknowledged tail of the sequence, within its
\* budgets, and its byte count is exact.
WindowExact == Uplink!WindowExact

\* The cursor splits the window into what the session's writer has taken and
\* what it has not, although a superseded writer may still be running.
CursorTrue == Uplink!CursorTrue

\* No wake-up is lost: producers that wait for room return, and what is queued
\* is sent and acknowledged.
WindowMoves == Uplink!ProducersReturn /\ Uplink!WindowEmpties

\* Streams stay within max_streams_per_conn, no permit is lost, and no
\* connection is dialled and forgotten.
ChannelBounded == Grpc!StreamsBounded /\ Grpc!OneConnection

\* Every acknowledged id is tried, none twice, and the counters are exact.
DataCleaned == Data!CountsExact /\ Data!AcknowledgedTried

\* A gRPC call that has a permit ends, although others are dropped while they
\* dial; and the clean-up's stop() returns, whatever connections are open.
WaitsEnd == Grpc!CallsEnd /\ Data!CleanupEnds

\* No sample is lost or counted twice on its way from a shard to the fleet's
\* total, and the minimum and maximum of a trend are those of its histogram.
SamplesConserved == part = "aggregation" => Agg!TiersConserve /\ Agg!EnvelopeTrue

\* No row identity is generated twice in the fleet, and a row serves the one
\* request it was generated for.
RowsOwned == part = "feeds" => Feeds!IdentityUnique /\ Feeds!RowsMatch

\* A pooled connection serves one operation at a time, a confirmed publish has
\* been forwarded, and none is forwarded more often than it is sent.
PublishesHonest ==
  part = "mqtt" => Mqtt!Exclusive /\ Mqtt!ConfirmedTaken /\ Mqtt!TakenAtMostTwice

\* Scenarios run with every container ready, and a failed start or a returned
\* run leaves only containers that Docker would not remove.
ContainersTracked ==
  part = "fixtures" => Docker!FixturesUp /\ Docker!StartUndone /\ Docker!StoppedClean
=============================================================================

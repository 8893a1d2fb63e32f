----------------------------- MODULE PartsProofs -----------------------------
(* What is proved of the parts of a run (module Parts), for every value of      *)
(* their constants.  Each part has an inductive invariant over its own          *)
(* variables; a step of another part leaves it alone.                           *)
EXTENDS Parts, OperatorProofs, SequenceTheorems

-----------------------------------------------------------------------------
(* Counting. *)

\* The members of S whose value under f is in K.
Those(S, f, K) == {x \in S : f[x] \in K}

\* One of them changes: how their number changes with it.
LEMMA ThoseChange ==
  ASSUME NEW S, IsFiniteSet(S), NEW K, NEW f, NEW e, NEW c \in S, NEW d, e[c] = d,
         \A x \in S : x # c => e[x] = f[x]
  PROVE  /\ Cardinality(Those(S, f, K)) \in Nat /\ Cardinality(Those(S, e, K)) \in Nat
         /\ f[c] \in K /\ d \in K => Cardinality(Those(S, e, K)) = Cardinality(Those(S, f, K))
         /\ f[c] \notin K /\ d \notin K =>
              Cardinality(Those(S, e, K)) = Cardinality(Those(S, f, K))
         /\ f[c] \notin K /\ d \in K =>
              Cardinality(Those(S, e, K)) = Cardinality(Those(S, f, K)) + 1
         /\ f[c] \in K /\ d \notin K =>
              Cardinality(Those(S, e, K)) = Cardinality(Those(S, f, K)) - 1
<1>1. PICK A, B : A = Those(S, f, K) /\ B = Those(S, e, K)
  OBVIOUS
<1>2. IsFiniteSet(A) /\ IsFiniteSet(B)
  BY <1>1, FS_Subset DEF Those
<1>3. Cardinality(A) \in Nat /\ Cardinality(B) \in Nat
  BY <1>2, FS_CardinalityType
<1>4. ASSUME f[c] \in K, d \in K PROVE A = B
  BY <1>1, <1>4 DEF Those
<1>5. ASSUME f[c] \notin K, d \notin K PROVE A = B
  BY <1>1, <1>5 DEF Those
<1>6. ASSUME f[c] \notin K, d \in K PROVE Cardinality(B) = Cardinality(A) + 1
  <2>1. c \notin A /\ B = A \cup {c}
    BY <1>1, <1>6 DEF Those
  <2> QED BY <1>2, <2>1, FS_AddElement
<1>7. ASSUME f[c] \in K, d \notin K PROVE Cardinality(B) = Cardinality(A) - 1
  <2>1. c \in A /\ B = A \ {c}
    BY <1>1, <1>7 DEF Those
  <2> QED BY <1>2, <2>1, FS_RemoveElement
<1> QED BY <1>1, <1>3, <1>4, <1>5, <1>6, <1>7

\* One that was not among them joins, and nothing else changes.
Joins(S, f, e, K, c) ==
  c \in S /\ f[c] \notin K /\ e[c] \in K /\ \A x \in S : x # c => e[x] = f[x]

\* Then there is one more of them.
LEMMA ThoseJoin ==
  ASSUME NEW S, IsFiniteSet(S), NEW K, NEW f, NEW e, NEW c, Joins(S, f, e, K, c)
  PROVE  /\ Cardinality(Those(S, f, K)) \in Nat
         /\ Cardinality(Those(S, e, K)) = Cardinality(Those(S, f, K)) + 1
<1>1. c \in S /\ f[c] \notin K /\ e[c] \in K /\ \A x \in S : x # c => e[x] = f[x]
  BY DEF Joins
<1> QED BY <1>1, ThoseChange

-----------------------------------------------------------------------------
(* The gRPC channel. *)

Stages == {"idle", "permit"} \cup Grpc!Holding \cup Grpc!Ended

\* The types, and the permits: a call that holds one has taken it from the semaphore.
GrpcTypes ==
  /\ at \in [Grpc!Call -> Stages] /\ stream \in [Grpc!Call -> Nat]
  /\ permits \in Nat /\ gate \in 0..MaxCalls /\ dialled \in Nat /\ conn \in 0..dialled
  /\ open \subseteq 1..dialled /\ cooldown \in BOOLEAN
Permits == permits = Limit - Cardinality(Those(Grpc!Call, at, Grpc!Holding))

\* A stream belongs to a call that has a sender; the gate is held by the one call
\* that is between its second look and the end of its dial; and while it dials
\* there is no connection that takes streams.
StreamInv == \A c \in Grpc!Call : stream[c] # 0 => at[c] \in {"sending", "body"}
GateInv ==
  /\ \A c \in Grpc!Call : at[c] \in {"gated", "dialing"} <=> gate = c
  /\ \A c \in Grpc!Call : at[c] = "dialing" => conn \notin open
  /\ open \subseteq {conn}

GrpcInv == GrpcTypes /\ Permits /\ StreamInv /\ GateInv

\* What a step of call c to stage s does: it gives a permit back or takes one (n);
\* its stream is on connection k, and it has one only with a sender; it takes the
\* gate only when it is free and gives it back when it leaves it; and while a
\* call dials there is no connection that takes streams.
Moves(c, s, n) ==
  /\ n \in Int /\ (permits > 0 \/ n >= 0)
  /\ at' = [at EXCEPT ![c] = s]
  /\ permits' = permits + n
  /\ n = (IF at[c] \in Grpc!Holding THEN 1 ELSE 0) - (IF s \in Grpc!Holding THEN 1 ELSE 0)
Streams(c, s, k) ==
  k \in Nat /\ stream' = [stream EXCEPT ![c] = k] /\ (k # 0 => s \in {"sending", "body"})
Gate(c, s) ==
  /\ gate' = (IF s \in {"gated", "dialing"} THEN c ELSE IF gate = c THEN 0 ELSE gate)
  /\ s \in {"gated", "dialing"} => gate \in {0, c}
Connections(c, s) ==
  /\ dialled' \in Nat /\ conn' \in 0..dialled' /\ open' \subseteq 1..dialled'
  /\ cooldown' \in BOOLEAN /\ open' \subseteq {conn'}
  /\ s = "dialing" => conn' \notin open'
  /\ \A d \in Grpc!Call : d # c /\ at[d] = "dialing" => conn' \notin open'

\* Permits are conserved by every move.
LEMMA MovesKeepPermits ==
  ASSUME GrpcTypes, Permits, NEW c \in Grpc!Call, NEW s \in Stages, NEW n, Moves(c, s, n)
  PROVE  /\ at' \in [Grpc!Call -> Stages] /\ permits' \in Nat
         /\ Permits'
<1>1. at' = [at EXCEPT ![c] = s] /\ at \in [Grpc!Call -> Stages]
  BY DEF Moves, GrpcTypes
<1>2. at' \in [Grpc!Call -> Stages]
  BY <1>1
<1>3. IsFiniteSet(Grpc!Call)
  BY PartsAssumption, FS_Interval DEF Grpc!Call, Grpc!ChannelAssumption
<1>4. PICK e : e = at' /\ e = [at EXCEPT ![c] = s]
  BY <1>1
<1>5. PICK K, u, v : /\ K = Grpc!Holding
                     /\ u = Cardinality(Those(Grpc!Call, at, K))
                     /\ v = Cardinality(Those(Grpc!Call, e, K))
  OBVIOUS
<1>6. /\ u \in Nat /\ v \in Nat
      /\ at[c] \in K /\ s \in K => v = u
      /\ at[c] \notin K /\ s \notin K => v = u
      /\ at[c] \notin K /\ s \in K => v = u + 1
      /\ at[c] \in K /\ s \notin K => v = u - 1
  <2>1. e[c] = s /\ \A x \in Grpc!Call : x # c => e[x] = at[x]
    BY <1>1, <1>4
  <2>2. /\ Cardinality(Those(Grpc!Call, at, K)) \in Nat /\ Cardinality(Those(Grpc!Call, e, K)) \in Nat
        /\ at[c] \in K /\ s \in K =>
             Cardinality(Those(Grpc!Call, e, K)) = Cardinality(Those(Grpc!Call, at, K))
        /\ at[c] \notin K /\ s \notin K =>
             Cardinality(Those(Grpc!Call, e, K)) = Cardinality(Those(Grpc!Call, at, K))
        /\ at[c] \notin K /\ s \in K =>
             Cardinality(Those(Grpc!Call, e, K)) = Cardinality(Those(Grpc!Call, at, K)) + 1
        /\ at[c] \in K /\ s \notin K =>
             Cardinality(Those(Grpc!Call, e, K)) = Cardinality(Those(Grpc!Call, at, K)) - 1
    BY <1>3, <2>1, ThoseChange
  <2> QED BY <1>5, <2>2
<1>7. Limit \in Nat /\ permits \in Nat /\ permits = Limit - u /\ permits' = permits + n
  BY <1>5, PartsAssumption DEF Grpc!ChannelAssumption, GrpcTypes, Permits, Moves
<1>8. /\ n \in Int /\ (permits > 0 \/ n >= 0)
      /\ n = (IF at[c] \in K THEN 1 ELSE 0) - (IF s \in K THEN 1 ELSE 0)
  BY <1>5 DEF Moves
<1>9. permits + n = Limit - v /\ permits + n \in Nat
  BY <1>6, <1>7, <1>8
<1>10. Permits' <=> permits' = Limit - v
  BY <1>4, <1>5 DEF Permits
<1> QED BY <1>2, <1>7, <1>9, <1>10

\* Such a step keeps the invariant.
LEMMA CallMoves ==
  ASSUME GrpcInv, NEW c \in Grpc!Call, NEW s \in Stages, NEW n, NEW k,
         Moves(c, s, n), Streams(c, s, k), Gate(c, s), Connections(c, s)
  PROVE  GrpcInv'
<1> USE DEF GrpcInv
<1>1. at' \in [Grpc!Call -> Stages] /\ permits' \in Nat /\ Permits'
  BY MovesKeepPermits
<1>2. /\ at' = [at EXCEPT ![c] = s] /\ at \in [Grpc!Call -> Stages]
      /\ k \in Nat /\ stream' = [stream EXCEPT ![c] = k] /\ stream \in [Grpc!Call -> Nat]
      /\ gate \in 0..MaxCalls /\ Grpc!Call = 1..MaxCalls /\ MaxCalls \in Nat
  BY PartsAssumption DEF Moves, Streams, GrpcTypes, Grpc!Call, Grpc!ChannelAssumption
<1>3. at'[c] = s /\ \A d \in Grpc!Call : d # c => at'[d] = at[d]
  BY <1>2
<1>4. gate' \in 0..MaxCalls
  BY <1>2 DEF Gate
<1>5. stream' \in [Grpc!Call -> Nat]
  BY <1>2
<1>6. GrpcTypes'
  BY <1>1, <1>4, <1>5 DEF GrpcTypes, Connections
<1>7. StreamInv'
  BY <1>2, <1>3 DEF StreamInv, Streams
<1>8. c # 0 /\ \A d \in Grpc!Call : d # 0
  BY <1>2
<1>9. \A d \in Grpc!Call : at'[d] \in {"gated", "dialing"} <=> gate' = d
  <2>1. at'[c] \in {"gated", "dialing"} <=> gate' = c
    BY <1>3, <1>8 DEF Gate
  <2>2. ASSUME NEW d \in Grpc!Call, d # c
        PROVE  at'[d] \in {"gated", "dialing"} <=> gate' = d
    <3>1. at[d] \in {"gated", "dialing"} <=> gate = d
      BY DEF GateInv
    <3> QED BY <1>3, <1>8, <2>2, <3>1 DEF Gate
  <2> QED BY <2>1, <2>2
<1>10. \A d \in Grpc!Call : at'[d] = "dialing" => conn' \notin open'
  BY <1>3 DEF Connections
<1>11. GateInv'
  BY <1>9, <1>10 DEF GateInv, Connections
<1> QED BY <1>1, <1>6, <1>7, <1>11

\* The connections as they are.
LEMMA SameConnections ==
  ASSUME GrpcInv, NEW c \in Grpc!Call, NEW s, UNCHANGED <<conn, dialled, open>>,
         cooldown' \in BOOLEAN, s = "dialing" => conn \notin open
  PROVE  Connections(c, s)
BY DEF GrpcInv, GrpcTypes, GateInv, Connections

\* A call that is not asking for the gate, and a stream that does not change.
LEMMA GrpcPoints ==
  ASSUME GrpcInv, NEW c \in Grpc!Call
  PROVE  /\ stream = [stream EXCEPT ![c] = stream[c]] /\ stream[c] \in Nat
         /\ stream[c] # 0 => at[c] \in {"sending", "body"}
         /\ at[c] \in {"gated", "dialing"} <=> gate = c
         /\ gate \in 0..MaxCalls /\ cooldown \in BOOLEAN /\ permits \in Nat
         /\ c # 0
BY PartsAssumption DEF GrpcInv, GrpcTypes, StreamInv, GateInv, Grpc!Call, Grpc!ChannelAssumption

\* Begin.
LEMMA BeginPreserves ==
  ASSUME GrpcInv, NEW c \in Grpc!Call, Grpc!Begin(c)
  PROVE  GrpcInv'
<1>1. "permit" \in Stages /\ "permit" \notin Grpc!Holding /\ "idle" \notin Grpc!Holding
  BY DEF Stages, Grpc!Holding
<1>2. /\ at[c] = "idle" /\ at' = [at EXCEPT ![c] = "permit"]
      /\ UNCHANGED <<permits, gate, conn, dialled, open, stream, cooldown>>
  BY DEF Grpc!Begin, Grpc!Goto
<1>3. Moves(c, "permit", 0)
  BY <1>1, <1>2, GrpcPoints DEF Moves
<1>4. Streams(c, "permit", 0) /\ Gate(c, "permit")
  BY <1>2, GrpcPoints DEF Streams, Gate
<1>5. Connections(c, "permit")
  BY <1>2, SameConnections, GrpcPoints
<1> QED BY <1>1, <1>3, <1>4, <1>5, CallMoves

\* acquire_owned.
LEMMA AcquirePreserves ==
  ASSUME GrpcInv, NEW c \in Grpc!Call, Grpc!Acquire(c)
  PROVE  GrpcInv'
<1>1. "sender" \in Stages /\ "sender" \in Grpc!Holding /\ "permit" \notin Grpc!Holding
  BY DEF Stages, Grpc!Holding
<1>2. /\ at[c] = "permit" /\ permits > 0 /\ permits' = permits - 1
      /\ at' = [at EXCEPT ![c] = "sender"]
      /\ UNCHANGED <<gate, conn, dialled, open, stream, cooldown>>
  BY DEF Grpc!Acquire, Grpc!Goto
<1>3. Moves(c, "sender", -1)
  BY <1>1, <1>2, GrpcPoints DEF Moves
<1>4. Streams(c, "sender", 0) /\ Gate(c, "sender")
  BY <1>2, GrpcPoints DEF Streams, Gate
<1>5. Connections(c, "sender")
  BY <1>2, SameConnections, GrpcPoints
<1> QED BY <1>1, <1>3, <1>4, <1>5, CallMoves

\* The first look of sender.
LEMMA FirstLookPreserves ==
  ASSUME GrpcInv, NEW c \in Grpc!Call, Grpc!FirstLook(c)
  PROVE  GrpcInv'
<1>1. /\ {"sending", "waiting"} \subseteq Stages
      /\ {"sending", "waiting", "sender"} \subseteq Grpc!Holding
  BY DEF Stages, Grpc!Holding
<1>2. PICK s \in {"sending", "waiting"}, k \in Nat :
        /\ at[c] = "sender" /\ at' = [at EXCEPT ![c] = s]
        /\ stream' = [stream EXCEPT ![c] = k] /\ (k # 0 => s = "sending")
        /\ UNCHANGED <<permits, gate, conn, dialled, open, cooldown>>
  <2>1. conn \in Nat /\ at[c] = "sender" => stream[c] = 0
    BY GrpcPoints DEF GrpcInv, GrpcTypes
  <2>2. CASE conn \in open
    BY <2>1, <2>2 DEF Grpc!FirstLook, Grpc!Live, Grpc!TakeSender, Grpc!Goto, GrpcInv, GrpcTypes
  <2>3. CASE conn \notin open
    BY <2>1, <2>3, GrpcPoints DEF Grpc!FirstLook, Grpc!Live, Grpc!Goto
  <2> QED BY <2>2, <2>3
<1>3. Moves(c, s, 0)
  BY <1>1, <1>2, GrpcPoints DEF Moves
<1>4. Streams(c, s, k) /\ Gate(c, s)
  BY <1>2, GrpcPoints DEF Streams, Gate
<1>5. Connections(c, s)
  BY <1>2, SameConnections, GrpcPoints
<1> QED BY <1>1, <1>3, <1>4, <1>5, CallMoves

\* The gate is locked.
LEMMA LockGatePreserves ==
  ASSUME GrpcInv, NEW c \in Grpc!Call, Grpc!LockGate(c)
  PROVE  GrpcInv'
<1>1. "gated" \in Stages /\ {"gated", "waiting"} \subseteq Grpc!Holding
  BY DEF Stages, Grpc!Holding
<1>2. /\ at[c] = "waiting" /\ gate = 0 /\ gate' = c
      /\ at' = [at EXCEPT ![c] = "gated"]
      /\ UNCHANGED <<permits, conn, dialled, open, stream, cooldown>>
  BY DEF Grpc!LockGate, Grpc!Goto
<1>3. Moves(c, "gated", 0)
  BY <1>1, <1>2, GrpcPoints DEF Moves
<1>4. Streams(c, "gated", 0) /\ Gate(c, "gated")
  BY <1>2, GrpcPoints DEF Streams, Gate
<1>5. Connections(c, "gated")
  BY <1>2, SameConnections, GrpcPoints
<1> QED BY <1>1, <1>3, <1>4, <1>5, CallMoves

\* A call that ends, wherever it stands, gives back what it holds.
LEMMA EndPreserves ==
  ASSUME GrpcInv, NEW c \in Grpc!Call, NEW s \in Grpc!Ended, at[c] \in Grpc!Holding,
         Grpc!Goto(c, s), Grpc!Release(c), UNCHANGED <<conn, dialled, open>>,
         cooldown' \in BOOLEAN
  PROVE  GrpcInv'
<1>1. s \in Stages /\ s \notin Grpc!Holding /\ s \notin {"gated", "dialing"}
  BY DEF Stages, Grpc!Holding, Grpc!Ended
<1>2. Moves(c, s, 1)
  BY <1>1, GrpcPoints DEF Moves, Grpc!Goto, Grpc!Release
<1>3. Streams(c, s, 0) /\ Gate(c, s)
  BY <1>1, GrpcPoints DEF Streams, Gate, Grpc!Release
<1>4. Connections(c, s)
  BY <1>1, SameConnections
<1> QED BY <1>1, <1>2, <1>3, <1>4, CallMoves

\* The second look, under the gate.
LEMMA SecondLookPreserves ==
  ASSUME GrpcInv, NEW c \in Grpc!Call, Grpc!SecondLook(c)
  PROVE  GrpcInv'
<1>1. /\ {"sending", "dialing"} \subseteq Stages /\ "unavailable" \in Grpc!Ended
      /\ {"sending", "dialing", "gated"} \subseteq Grpc!Holding
  BY DEF Stages, Grpc!Holding, Grpc!Ended
<1>2. at[c] = "gated" /\ gate = c /\ UNCHANGED <<conn, dialled, open, cooldown>>
  BY GrpcPoints DEF Grpc!SecondLook
<1>3. CASE /\ Grpc!Live /\ Grpc!TakeSender(c) /\ gate' = 0 /\ UNCHANGED permits
  <2>1. at' = [at EXCEPT ![c] = "sending"] /\ stream' = [stream EXCEPT ![c] = conn]
    BY <1>3 DEF Grpc!TakeSender, Grpc!Goto
  <2>2. Moves(c, "sending", 0)
    BY <1>1, <1>2, <1>3, <2>1, GrpcPoints DEF Moves
  <2>3. conn \in Nat
    BY DEF GrpcInv, GrpcTypes
  <2>4. Streams(c, "sending", conn) /\ Gate(c, "sending")
    BY <1>2, <1>3, <2>1, <2>3 DEF Streams, Gate
  <2>5. Connections(c, "sending")
    BY <1>2, SameConnections, GrpcPoints
  <2> QED BY <1>1, <2>2, <2>4, <2>5, CallMoves
<1>4. CASE Grpc!Goto(c, "unavailable") /\ Grpc!Release(c)
  BY <1>1, <1>2, <1>4, EndPreserves, GrpcPoints
<1>5. CASE ~Grpc!Live /\ Grpc!Goto(c, "dialing") /\ UNCHANGED <<permits, gate, stream>>
  <2>1. at' = [at EXCEPT ![c] = "dialing"] /\ conn \notin open
    BY <1>5 DEF Grpc!Goto, Grpc!Live
  <2>2. Moves(c, "dialing", 0)
    BY <1>1, <1>2, <1>5, <2>1, GrpcPoints DEF Moves
  <2>3. Streams(c, "dialing", 0) /\ Gate(c, "dialing")
    BY <1>2, <1>5, GrpcPoints DEF Streams, Gate
  <2>4. Connections(c, "dialing")
    BY <1>2, <2>1, SameConnections, GrpcPoints
  <2> QED BY <1>1, <2>2, <2>3, <2>4, CallMoves
<1> QED BY <1>3, <1>4, <1>5 DEF Grpc!SecondLook

\* A dial succeeds: the one call that dials stores the only open connection.
LEMMA DialledPreserves ==
  ASSUME GrpcInv, NEW c \in Grpc!Call, Grpc!Dialled(c)
  PROVE  GrpcInv'
<1>1. "sending" \in Stages /\ {"sending", "dialing"} \subseteq Grpc!Holding
  BY DEF Stages, Grpc!Holding
<1>2. /\ at[c] = "dialing" /\ at' = [at EXCEPT ![c] = "sending"] /\ permits' = permits
      /\ dialled' = dialled + 1 /\ open' = open \cup {dialled + 1} /\ conn' = dialled + 1
      /\ cooldown' = FALSE /\ gate' = 0 /\ stream' = [stream EXCEPT ![c] = dialled + 1]
  BY DEF Grpc!Dialled, Grpc!Goto
<1>3. /\ dialled \in Nat /\ open \subseteq 1..dialled /\ open \subseteq {conn} /\ conn \notin open
      /\ gate = c /\ \A d \in Grpc!Call : d # c => at[d] # "dialing"
  BY <1>2 DEF GrpcInv, GrpcTypes, GateInv
<1>4. Moves(c, "sending", 0)
  BY <1>1, <1>2, GrpcPoints DEF Moves
<1>5. Streams(c, "sending", dialled + 1) /\ Gate(c, "sending")
  BY <1>2, <1>3 DEF Streams, Gate
<1>6. open' = {dialled + 1}
  BY <1>2, <1>3
<1>7. Connections(c, "sending")
  <2>1. PICK t \in Nat : t = dialled + 1
    BY <1>3
  <2>2. dialled' = t /\ conn' = t /\ open' = {t} /\ t \in 0..t /\ {t} \subseteq 1..t
    BY <1>2, <1>3, <1>6, <2>1
  <2>3. cooldown' \in BOOLEAN
    BY <1>2
  <2>4. \A d \in Grpc!Call : ~(d # c /\ at[d] = "dialing")
    BY <1>3
  <2>5. dialled' \in Nat /\ conn' \in 0..dialled' /\ open' \subseteq 1..dialled'
    BY <2>2
  <2> QED BY <2>2, <2>3, <2>4, <2>5 DEF Connections
<1> QED BY <1>1, <1>4, <1>5, <1>7, CallMoves

\* The response head arrives.
LEMMA RespondPreserves ==
  ASSUME GrpcInv, NEW c \in Grpc!Call, Grpc!Respond(c)
  PROVE  GrpcInv'
<1>1. "body" \in Stages /\ {"sending", "body"} \subseteq Grpc!Holding
  BY DEF Stages, Grpc!Holding
<1>2. /\ at[c] = "sending" /\ at' = [at EXCEPT ![c] = "body"]
      /\ UNCHANGED <<permits, gate, conn, dialled, open, stream, cooldown>>
  BY DEF Grpc!Respond, Grpc!Goto
<1>3. Moves(c, "body", 0)
  BY <1>1, <1>2, GrpcPoints DEF Moves
<1>4. Streams(c, "body", stream[c]) /\ Gate(c, "body")
  BY <1>2, GrpcPoints DEF Streams, Gate
<1>5. Connections(c, "body")
  BY <1>2, SameConnections, GrpcPoints
<1> QED BY <1>1, <1>3, <1>4, <1>5, CallMoves

\* The ways a call ends: a failed dial, a body read to its end, a broken stream, a
\* timeout.
LEMMA EndsPreserve ==
  ASSUME GrpcInv, NEW c \in Grpc!Call,
         Grpc!DialFails(c) \/ Grpc!Finish(c) \/ Grpc!Fails(c) \/ Grpc!Cancel(c)
  PROVE  GrpcInv'
<1>1. /\ {"unavailable", "done", "broken", "dropped"} \subseteq Grpc!Ended
      /\ {"dialing", "body", "sending"} \subseteq Grpc!Holding
  BY DEF Grpc!Ended, Grpc!Holding
<1>2. cooldown \in BOOLEAN
  BY GrpcPoints
<1>3. CASE Grpc!DialFails(c)
  BY <1>1, <1>3, EndPreserves DEF Grpc!DialFails
<1>4. CASE Grpc!Finish(c)
  BY <1>1, <1>2, <1>4, EndPreserves DEF Grpc!Finish
<1>5. CASE Grpc!Fails(c)
  BY <1>1, <1>2, <1>5, EndPreserves DEF Grpc!Fails
<1>6. CASE Grpc!Cancel(c) /\ at[c] \in Grpc!Holding
  BY <1>1, <1>2, <1>6, EndPreserves DEF Grpc!Cancel
<1>7. CASE Grpc!Cancel(c) /\ at[c] \notin Grpc!Holding
  <2>1. /\ at' = [at EXCEPT ![c] = "dropped"]
        /\ UNCHANGED <<permits, gate, stream, conn, dialled, open, cooldown>>
    BY <1>7 DEF Grpc!Cancel, Grpc!Goto
  <2>2. "dropped" \in Stages /\ "dropped" \notin Grpc!Holding
        /\ {"gated", "dialing", "sending", "body"} \subseteq Grpc!Holding
    BY DEF Stages, Grpc!Holding, Grpc!Ended
  <2>3. Moves(c, "dropped", 0)
    BY <1>7, <2>1, <2>2, GrpcPoints DEF Moves
  <2>4. Streams(c, "dropped", 0) /\ Gate(c, "dropped")
    BY <1>7, <2>1, <2>2, GrpcPoints DEF Streams, Gate
  <2>5. Connections(c, "dropped")
    BY <1>2, <2>1, SameConnections
  <2> QED BY <2>2, <2>3, <2>4, <2>5, CallMoves
<1> QED BY <1>3, <1>4, <1>5, <1>6, <1>7

\* The peer, and time.
LEMMA PeerPreserves ==
  ASSUME GrpcInv, (\E k \in 1..MaxDials : Grpc!CloseConn(k)) \/ Grpc!CooldownPasses
  PROVE  GrpcInv'
<1>1. /\ UNCHANGED <<at, permits, gate, conn, dialled, stream>> /\ open' \subseteq open
      /\ cooldown' \in BOOLEAN
  BY DEF Grpc!CloseConn, Grpc!CooldownPasses, GrpcInv, GrpcTypes
<1> QED BY <1>1 DEF GrpcInv, GrpcTypes, Permits, StreamInv, GateInv

\* The channel starts and stays within its invariant.
LEMMA InitGrpc ==
  ASSUME Grpc!Init
  PROVE  GrpcInv
<1>1. Limit \in Nat /\ MaxCalls \in Nat
  BY PartsAssumption DEF Grpc!ChannelAssumption
<1>2. /\ at = [c \in Grpc!Call |-> "idle"] /\ permits = Limit /\ gate = 0 /\ conn = 0
      /\ dialled = 0 /\ open = {} /\ stream = [c \in Grpc!Call |-> 0] /\ cooldown = FALSE
  BY DEF Grpc!Init
<1>3. "idle" \in Stages /\ "idle" \notin Grpc!Holding
  BY DEF Stages, Grpc!Holding
<1>4. GrpcTypes /\ StreamInv
  <2>1. at \in [Grpc!Call -> Stages] /\ stream \in [Grpc!Call -> Nat]
    BY <1>2, <1>3
  <2>2. permits \in Nat /\ gate \in 0..MaxCalls /\ dialled \in Nat /\ conn \in 0..dialled
    BY <1>1, <1>2
  <2>3. open \subseteq 1..dialled /\ cooldown \in BOOLEAN
    BY <1>2
  <2>4. StreamInv
    BY <1>2 DEF StreamInv
  <2> QED BY <2>1, <2>2, <2>3, <2>4 DEF GrpcTypes
<1>5. Those(Grpc!Call, at, Grpc!Holding) = {}
  BY <1>2, <1>3 DEF Those
<1>6. Permits
  BY <1>1, <1>2, <1>5, FS_EmptySet DEF Permits
<1>7. GateInv
  BY <1>1, <1>2 DEF GateInv, Grpc!Call
<1> QED BY <1>4, <1>6, <1>7 DEF GrpcInv

\* Every step of the specification keeps the channel's invariant.
LEMMA StepGrpc ==
  ASSUME GrpcInv, [Next]_vars
  PROVE  GrpcInv'
<1>1. CASE UNCHANGED grpc
  <2>1. UNCHANGED <<at, permits, gate, conn, dialled, open, stream, cooldown>>
    BY <1>1 DEF grpc
  <2> QED BY <2>1 DEF GrpcInv, GrpcTypes, Permits, StreamInv, GateInv
<1>2. CASE Grpc!Next
  <2>1. ASSUME NEW c \in Grpc!Call, Grpc!Begin(c) \/ Grpc!Step(c) \/ Grpc!Cancel(c)
        PROVE  GrpcInv'
    BY <2>1, BeginPreserves, AcquirePreserves, FirstLookPreserves, LockGatePreserves,
       SecondLookPreserves, DialledPreserves, RespondPreserves, EndsPreserve DEF Grpc!Step
  <2> QED BY <1>2, <2>1, PeerPreserves DEF Grpc!Next
<1> QED BY <1>1, <1>2 DEF Next, vars

\* The streams of all calls are never more than max_streams_per_conn, no way for a
\* call to end loses a permit, and however many calls find no connection at once
\* no connection is dialled and forgotten: for any number of calls and dials.
THEOREM ChannelTheorem == Spec => []ChannelBounded
<1>1. ASSUME GrpcInv PROVE ChannelBounded
  <2>1. IsFiniteSet(Grpc!Call) /\ Limit \in Nat
    BY PartsAssumption, FS_Interval DEF Grpc!Call, Grpc!ChannelAssumption
  <2>2. PICK H, R : H = Those(Grpc!Call, at, Grpc!Holding) /\ R = {c \in Grpc!Call : stream[c] # 0}
    OBVIOUS
  <2>3. IsFiniteSet(H) /\ IsFiniteSet(R) /\ R \subseteq H
    <3>1. H \subseteq Grpc!Call /\ R \subseteq Grpc!Call
      BY <2>2 DEF Those
    <3>2. R \subseteq H
      BY <1>1, <2>2 DEF GrpcInv, StreamInv, Those, Grpc!Holding
    <3> QED BY <2>1, <3>1, <3>2, FS_Subset
  <2>4. Cardinality(H) \in Nat /\ Cardinality(R) \in Nat /\ Cardinality(R) <= Cardinality(H)
    BY <2>3, FS_Subset, FS_CardinalityType
  <2>5. permits \in Nat /\ permits = Limit - Cardinality(H)
    BY <1>1, <2>2 DEF GrpcInv, GrpcTypes, Permits
  <2>6. permits \in 0..Limit /\ Cardinality(R) <= Limit
    BY <2>1, <2>4, <2>5
  <2>7. Grpc!TypeOK
    BY <1>1, <2>6 DEF GrpcInv, GrpcTypes, Stages, Grpc!TypeOK
  <2>8. Grpc!StreamsBounded
    <3>1. Cardinality({c \in Grpc!Call : stream[c] # 0}) = Cardinality(R)
      BY <2>2
    <3>2. Cardinality({c \in Grpc!Call : at[c] \in Grpc!Holding}) = Cardinality(H)
      BY <2>2, Zenon DEF Those
    <3>3. Cardinality({c \in Grpc!Call : stream[c] # 0}) <= Limit
      BY <2>6, <3>1
    <3>4. permits = Limit - Cardinality({c \in Grpc!Call : at[c] \in Grpc!Holding})
      BY <2>5, <3>2
    <3>5. \A S : Grpc!Cardinality(S) = Cardinality(S)
      BY Zenon DEF Grpc!Cardinality, Cardinality, Grpc!IsFiniteSet, IsFiniteSet
    <3> QED BY <2>7, <3>3, <3>4, <3>5, Zenon DEF Grpc!StreamsBounded
  <2>9. Grpc!OneConnection
    BY <1>1 DEF GrpcInv, GateInv, Grpc!OneConnection
  <2> QED BY <2>8, <2>9 DEF ChannelBounded
<1>2. Init => GrpcInv
  BY InitGrpc DEF Init
<1>3. GrpcInv /\ [Next]_vars => GrpcInv'
  BY StepGrpc
<1> QED
  BY <1>1, <1>2, <1>3, PTL DEF Spec

-----------------------------------------------------------------------------
(* The clean-up of a run's data. *)

\* The types.
DataTypes ==
  /\ lenient \in BOOLEAN /\ abort \in BOOLEAN
  /\ line \in [Resource -> {"none", "written", "acked"}]
  /\ handler \in [Resource -> {"none", "check", "read", "reply", "ended"}]
  /\ stop \in {"idle", "join", "clean", "done"}
  /\ registry \subseteq Resource /\ queue \subseteq Resource
  /\ drawn \subseteq Resource /\ settled \subseteq Resource
  /\ worker \in [Worker -> {"check", "pop", "ended"} \cup Resource]
  /\ tried \in [Resource -> {0, 1}] /\ deleted \in Nat /\ errors \in Nat

\* The delete calls made are those counted and those under way.
CountInv ==
  deleted + errors + Cardinality(Those(Worker, worker, Resource))
    = Cardinality(Those(Resource, tried, {1}))

\* An id in the queue has not been tried, one that has left it has; the work ends
\* early only on a failure that is to end it; and a worker ends otherwise only
\* when the queue is empty.
DrainInv ==
  /\ \A r \in queue : tried[r] = 0
  /\ \A r \in drawn : r \in queue \/ tried[r] = 1
  /\ abort => ~lenient /\ errors > 0
  /\ \A w \in Worker : worker[w] = "ended" /\ ~abort => queue = {}
  /\ stop \in {"idle", "join"} =>
       /\ queue = {} /\ drawn = {}
       /\ \A w \in Worker : worker[w] = "ended"
       /\ \A r \in Resource : tried[r] = 0

\* An id is acknowledged only after it is buffered, and the registry is taken whole.
IngestInv ==
  /\ stop \in {"idle", "join"} =>
       \A r \in Resource : line[r] = "acked" \/ handler[r] = "reply" => r \in registry
  /\ stop = "idle" => settled = {}
  /\ stop = "join" => settled \subseteq registry
  /\ stop \in {"clean", "done"} => settled \subseteq drawn
  /\ stop = "done" => \A w \in Worker : worker[w] = "ended"

DataInv == DataTypes /\ CountInv /\ DrainInv /\ IngestInv

\* Ids and workers are finitely many.
LEMMA DataFinite == IsFiniteSet(Resource) /\ IsFiniteSet(Worker)
BY PartsAssumption, Zenon DEF Data!CleanupAssumption, Data!IsFiniteSet, IsFiniteSet

\* The endpoint's steps only add to the registry, and acknowledge what is in it.
LEMMA EndpointPreserves ==
  ASSUME DataInv,
         UNCHANGED <<lenient, stop, queue, worker, abort, deleted, errors, settled, drawn, tried>>,
         line' \in [Resource -> {"none", "written", "acked"}],
         handler' \in [Resource -> {"none", "check", "read", "reply", "ended"}],
         registry' \subseteq Resource, registry \subseteq registry',
         \A r \in Resource : line'[r] = "acked" \/ handler'[r] = "reply" =>
           line[r] = "acked" \/ handler[r] = "reply" \/ r \in registry'
  PROVE  DataInv'
<1> USE DEF DataInv
<1>1. DataTypes'
  BY DEF DataTypes
<1>2. CountInv'
  BY DEF CountInv
<1>3. DrainInv'
  BY DEF DrainInv
<1>4. IngestInv'
  BY DEF IngestInv
<1> QED BY <1>1, <1>2, <1>3, <1>4

\* The endpoint: a VU writes, the loop accepts, a thread reads and replies.
LEMMA IngestPreserves ==
  ASSUME DataInv,
         Data!AcceptStep \/ \E r \in Resource : Data!Write(r) \/ Data!HandlerStep(r)
  PROVE  DataInv'
<1> USE DEF Data!drain, Data!history
<1>0. DataTypes
  BY DEF DataInv
<1>1. CASE Data!LoopFlag
  <2>1. UNCHANGED <<lenient, stop, queue, worker, abort, deleted, errors, settled, drawn, tried,
                    line, handler, registry>>
    BY <1>1 DEF Data!LoopFlag
  <2> QED BY <1>0, <2>1, EndpointPreserves DEF DataTypes
<1>2. CASE Data!Accept
  <2>1. UNCHANGED <<lenient, stop, queue, worker, abort, deleted, errors, settled, drawn, tried,
                    line, registry>>
    BY <1>2 DEF Data!Accept
  <2>2. CASE UNCHANGED handler
    BY <1>0, <2>1, <2>2, EndpointPreserves DEF DataTypes
  <2>3. CASE \E r \in Resource : handler' = [handler EXCEPT ![r] = "check"]
    BY <1>0, <2>1, <2>3, EndpointPreserves DEF DataTypes
  <2> QED BY <1>2, <2>2, <2>3 DEF Data!Accept
<1>3. ASSUME NEW r \in Resource, Data!Write(r) PROVE DataInv'
  <2>1. /\ UNCHANGED <<lenient, stop, queue, worker, abort, deleted, errors, settled, drawn, tried,
                       handler, registry>>
        /\ line' = [line EXCEPT ![r] = "written"]
    BY <1>3 DEF Data!Write
  <2> QED BY <1>0, <2>1, EndpointPreserves DEF DataTypes
<1>4. ASSUME NEW r \in Resource, Data!CheckFlag(r) \/ Data!Disconnected(r) PROVE DataInv'
  <2>1. /\ UNCHANGED <<lenient, stop, queue, worker, abort, deleted, errors, settled, drawn, tried,
                       line, registry>>
        /\ \E s \in {"ended", "read"} : handler' = [handler EXCEPT ![r] = s]
    BY <1>4 DEF Data!CheckFlag, Data!Disconnected
  <2> QED BY <1>0, <2>1, EndpointPreserves DEF DataTypes
<1>5. ASSUME NEW r \in Resource, Data!Push(r) PROVE DataInv'
  <2>1. /\ UNCHANGED <<lenient, stop, queue, worker, abort, deleted, errors, settled, drawn, tried,
                       line>>
        /\ handler' = [handler EXCEPT ![r] = "reply"] /\ registry' = registry \cup {r}
    BY <1>5 DEF Data!Push
  <2> QED BY <1>0, <2>1, EndpointPreserves DEF DataTypes
<1>6. ASSUME NEW r \in Resource, Data!Reply(r) PROVE DataInv'
  <2>1. /\ UNCHANGED <<lenient, stop, queue, worker, abort, deleted, errors, settled, drawn, tried,
                       registry>>
        /\ handler[r] = "reply" /\ handler' = [handler EXCEPT ![r] = "ended"]
        /\ line' = [line EXCEPT ![r] = "acked"]
    BY <1>6 DEF Data!Reply
  <2> QED BY <1>0, <2>1, EndpointPreserves DEF DataTypes
<1> QED BY <1>1, <1>2, <1>3, <1>4, <1>5, <1>6 DEF Data!AcceptStep, Data!HandlerStep

\* stop(): the flag, the registry, the return.
LEMMA StopPreserves ==
  ASSUME DataInv, Data!SetShutdown \/ Data!StopStep
  PROVE  DataInv'
<1> USE DEF DataInv
<1>1. CASE Data!SetShutdown
  <2>1. /\ stop = "idle" /\ stop' = "join" /\ settled' = {r \in Resource : line[r] = "acked"}
        /\ UNCHANGED <<lenient, line, handler, registry, queue, worker, abort, deleted, errors,
                       drawn, tried>>
    BY <1>1 DEF Data!SetShutdown, Data!ingest, Data!drain
  <2>2. DataTypes'
    BY <2>1 DEF DataTypes
  <2>3. CountInv'
    BY <2>1 DEF CountInv
  <2>4. DrainInv'
    BY <2>1 DEF DrainInv
  <2>5. IngestInv'
    BY <2>1 DEF IngestInv
  <2> QED BY <2>2, <2>3, <2>4, <2>5
<1>2. CASE Data!TakeRegistry
  <2>1. /\ stop = "join" /\ stop' = "clean" /\ registry' = {} /\ queue' = registry
        /\ drawn' = registry
        /\ worker' = [w \in Worker |-> IF registry = {} THEN "ended" ELSE "check"]
        /\ UNCHANGED <<lenient, line, handler, abort, deleted, errors, settled, tried>>
    BY <1>2 DEF Data!TakeRegistry
  <2>2. DataTypes'
    BY <2>1 DEF DataTypes
  <2>3. CountInv'
    <3>1. Resource \cap {"check", "pop", "ended"} = {}
      BY PartsAssumption DEF Data!CleanupAssumption
    <3>2. \A w \in Worker : worker[w] = "ended"
      BY <2>1 DEF DrainInv
    <3>3. PICK v : v = worker' /\ v = [w \in Worker |-> IF registry = {} THEN "ended" ELSE "check"]
      BY <2>1
    <3>4. Those(Worker, worker, Resource) = {} /\ Those(Worker, v, Resource) = {}
      BY <3>1, <3>2, <3>3 DEF Those
    <3> QED BY <2>1, <3>3, <3>4 DEF CountInv
  <2>4. DrainInv'
    BY <2>1 DEF DrainInv, DataTypes
  <2>5. IngestInv'
    BY <2>1 DEF IngestInv
  <2> QED BY <2>2, <2>3, <2>4, <2>5
<1>3. CASE Data!StopReturns
  <2>1. /\ stop = "clean" /\ (\A w \in Worker : worker[w] = "ended") /\ stop' = "done"
        /\ UNCHANGED <<lenient, line, handler, registry, queue, worker, abort, deleted, errors,
                       settled, drawn, tried>>
    BY <1>3 DEF Data!StopReturns, Data!ingest, Data!drain, Data!history
  <2>2. DataTypes'
    BY <2>1 DEF DataTypes
  <2>3. CountInv'
    BY <2>1 DEF CountInv
  <2>4. DrainInv'
    BY <2>1 DEF DrainInv
  <2>5. IngestInv'
    BY <2>1 DEF IngestInv
  <2> QED BY <2>2, <2>3, <2>4, <2>5
<1> QED BY <1>1, <1>2, <1>3 DEF Data!StopStep

\* A worker between two calls looks at the abort flag, or finds the queue empty.
LEMMA IdleWorkerPreserves ==
  ASSUME DataInv, NEW w \in Worker, worker[w] \in {"check", "pop"}, NEW pc \in {"pop", "ended"},
         worker' = [worker EXCEPT ![w] = pc], pc = "ended" => abort \/ queue = {},
         UNCHANGED <<lenient, line, handler, registry, stop, queue, abort, deleted, errors,
                     settled, drawn, tried>>
  PROVE  DataInv'
<1> USE DEF DataInv
<1>1. Resource \cap {"check", "pop", "ended"} = {}
  BY PartsAssumption DEF Data!CleanupAssumption
<1>2. PICK v : v = worker' /\ v = [worker EXCEPT ![w] = pc]
  OBVIOUS
<1>3. v[w] = pc /\ \A x \in Worker : x # w => v[x] = worker[x]
  BY <1>2 DEF DataTypes
<1>4. DataTypes'
  BY DEF DataTypes
<1>5. Those(Worker, worker, Resource) = Those(Worker, v, Resource)
  BY <1>1, <1>3 DEF Those
<1>6. CountInv'
  BY <1>2, <1>5 DEF CountInv
<1>7. DrainInv'
  BY <1>2, <1>3 DEF DrainInv
<1>8. IngestInv'
  BY <1>2, <1>3 DEF IngestInv
<1> QED BY <1>4, <1>6, <1>7, <1>8

\* An id leaves the queue for its one delete call.
LEMMA PopPreserves ==
  ASSUME DataInv, NEW w \in Worker, worker[w] = "pop", NEW r \in queue,
         worker' = [worker EXCEPT ![w] = r], tried' = [tried EXCEPT ![r] = tried[r] + 1],
         queue' = queue \ {r},
         UNCHANGED <<lenient, line, handler, registry, stop, abort, deleted, errors, settled,
                     drawn>>
  PROVE  DataInv'
<1> USE DEF DataInv
<1>1. /\ Resource \cap {"check", "pop", "ended"} = {}
      /\ IsFiniteSet(Resource) /\ IsFiniteSet(Worker)
  BY DataFinite, PartsAssumption DEF Data!CleanupAssumption
<1>2. r \in Resource /\ tried[r] = 0 /\ tried' = [tried EXCEPT ![r] = 1]
  <2>1. r \in Resource /\ tried[r] = 0
    BY DEF DataTypes, DrainInv
  <2>2. tried[r] + 1 = 1
    BY <2>1
  <2> QED BY <2>1, <2>2, Zenon
<1>3. PICK v, t : v = worker' /\ v = [worker EXCEPT ![w] = r]
               /\ t = tried' /\ t = [tried EXCEPT ![r] = 1]
  BY <1>2
<1>4. /\ v[w] = r /\ (\A x \in Worker : x # w => v[x] = worker[x])
      /\ t[r] = 1 /\ (\A x \in Resource : x # r => t[x] = tried[x])
  BY <1>2, <1>3 DEF DataTypes
<1>5. DataTypes'
  BY <1>2 DEF DataTypes
<1>6. PICK a, b, c, d :
        /\ a = Cardinality(Those(Worker, worker, Resource))
        /\ b = Cardinality(Those(Worker, v, Resource))
        /\ c = Cardinality(Those(Resource, tried, {1}))
        /\ d = Cardinality(Those(Resource, t, {1}))
  OBVIOUS
<1>7. a \in Nat /\ b = a + 1
  <2>1. Joins(Worker, worker, v, Resource, w)
    BY <1>1, <1>2, <1>4 DEF Joins
  <2>2. /\ Cardinality(Those(Worker, worker, Resource)) \in Nat
        /\ Cardinality(Those(Worker, v, Resource)) = Cardinality(Those(Worker, worker, Resource)) + 1
    BY <1>1, <2>1, ThoseJoin
  <2> QED BY <1>6, <2>2
<1>8. c \in Nat /\ d = c + 1
  <2>1. Joins(Resource, tried, t, {1}, r)
    BY <1>2, <1>4 DEF Joins
  <2>2. /\ Cardinality(Those(Resource, tried, {1})) \in Nat
        /\ Cardinality(Those(Resource, t, {1})) = Cardinality(Those(Resource, tried, {1})) + 1
    BY <1>1, <2>1, ThoseJoin
  <2> QED BY <1>6, <2>2
<1>9. deleted \in Nat /\ errors \in Nat /\ deleted + errors + a = c
  BY <1>6 DEF DataTypes, CountInv
<1>10. deleted + errors + b = d
  BY <1>7, <1>8, <1>9
<1>11. CountInv'
  BY <1>3, <1>6, <1>10 DEF CountInv
<1>12. stop \notin {"idle", "join"} /\ stop # "done"
  BY DEF DrainInv, IngestInv
<1>13. DrainInv'
  BY <1>1, <1>2, <1>3, <1>4, <1>12 DEF DrainInv, DataTypes
<1>14. IngestInv'
  BY <1>12 DEF IngestInv
<1> QED BY <1>5, <1>11, <1>13, <1>14

\* The call returns, and is counted.
LEMMA OutcomePreserves ==
  ASSUME DataInv, NEW w \in Worker, Data!Outcome(w)
  PROVE  DataInv'
<1> USE DEF DataInv
<1>1. /\ Resource \cap {"check", "pop", "ended"} = {} /\ IsFiniteSet(Worker)
  BY DataFinite, PartsAssumption DEF Data!CleanupAssumption
<1>2. /\ worker[w] \in Resource /\ worker' = [worker EXCEPT ![w] = "check"]
      /\ UNCHANGED <<lenient, line, handler, registry, stop, queue, settled, drawn, tried>>
  BY DEF Data!Outcome, Data!Ids, Data!Goto, Data!ingest, Data!history, DataTypes
<1>3. PICK v : v = worker' /\ v = [worker EXCEPT ![w] = "check"]
  BY <1>2
<1>4. v[w] = "check" /\ \A x \in Worker : x # w => v[x] = worker[x]
  BY <1>3 DEF DataTypes
<1>5. deleted \in Nat /\ errors \in Nat
  BY DEF DataTypes
<1>6. PICK m \in Nat, n \in Nat, z \in BOOLEAN :
        /\ m = deleted' /\ n = errors' /\ z = abort'
        /\ m + n = deleted + errors + 1 /\ n >= errors
        /\ z => abort \/ (~lenient /\ n > 0)
        /\ abort => z
  <2>1. CASE deleted' = deleted + 1 /\ UNCHANGED <<errors, abort>>
    BY <1>5, <2>1 DEF DataTypes
  <2>2. CASE errors' = errors + 1 /\ abort' = (abort \/ ~lenient) /\ UNCHANGED deleted
    <3>1. PICK n \in Nat : n = errors' /\ n = errors + 1
      BY <1>5, <2>2
    <3>2. PICK z \in BOOLEAN : z = abort' /\ z = (abort \/ ~lenient)
      BY <2>2, Zenon
    <3>3. deleted + n = deleted + errors + 1 /\ n >= errors /\ n > 0
      BY <1>5, <3>1
    <3> QED BY <1>5, <2>2, <3>1, <3>2, <3>3
  <2> QED BY <2>1, <2>2 DEF Data!Outcome
<1>7. DataTypes'
  BY <1>2, <1>6 DEF DataTypes
<1>8. PICK a, b, c :
        /\ a = Cardinality(Those(Worker, worker, Resource))
        /\ b = Cardinality(Those(Worker, v, Resource))
        /\ c = Cardinality(Those(Resource, tried, {1}))
  OBVIOUS
<1>9. a \in Nat /\ b \in Nat /\ b = a - 1
  BY <1>1, <1>2, <1>4, <1>8, ThoseChange
<1>10. deleted + errors + a = c
  BY <1>8 DEF CountInv
<1>11. m + n + b = c
  <2>1. m \in Nat /\ n \in Nat /\ m + n = deleted + errors + 1
    BY <1>6
  <2> QED BY <1>5, <1>9, <1>10, <2>1
<1>12. CountInv'
  BY <1>2, <1>3, <1>6, <1>8, <1>11 DEF CountInv
<1>13. stop \notin {"idle", "join"} /\ stop # "done"
  BY <1>1, <1>2 DEF DrainInv, IngestInv
<1>14. z => ~lenient /\ n > 0
  BY <1>5, <1>6 DEF DrainInv
<1>15. DrainInv'
  BY <1>2, <1>3, <1>4, <1>6, <1>13, <1>14 DEF DrainInv
<1>16. IngestInv'
  BY <1>2, <1>13 DEF IngestInv
<1> QED BY <1>7, <1>12, <1>15, <1>16

\* A worker's round.
LEMMA WorkerPreserves ==
  ASSUME DataInv, NEW w \in Worker, Data!WorkerStep(w)
  PROVE  DataInv'
<1> USE DEF Data!Goto, Data!ingest, Data!history
<1>1. CASE Data!CheckAbort(w)
  BY <1>1, IdleWorkerPreserves DEF Data!CheckAbort
<1>2. CASE Data!Pop(w)
  <2>1. CASE queue = {} /\ Data!Goto(w, "ended") /\ UNCHANGED <<queue, tried>>
    BY <1>2, <2>1, IdleWorkerPreserves DEF Data!Pop
  <2>2. ASSUME NEW r \in queue, Data!Goto(w, r), tried' = [tried EXCEPT ![r] = @ + 1],
               queue' = queue \ {r}
        PROVE  DataInv'
    BY <1>2, <2>2, PopPreserves DEF Data!Pop
  <2> QED BY <1>2, <2>1, <2>2 DEF Data!Pop
<1> QED BY <1>1, <1>2, OutcomePreserves DEF Data!WorkerStep

\* The clean-up starts and stays within its invariant.
LEMMA InitData ==
  ASSUME Data!Init
  PROVE  DataInv
<1>1. /\ Resource \cap {"check", "pop", "ended"} = {}
  BY PartsAssumption DEF Data!CleanupAssumption
<1>2. DataTypes
  BY DEF DataTypes, Data!Init
<1>3. Those(Worker, worker, Resource) = {} /\ Those(Resource, tried, {1}) = {}
  BY <1>1 DEF Those, Data!Init
<1>4. CountInv
  BY <1>3, FS_EmptySet DEF CountInv, Data!Init
<1>5. DrainInv
  BY DEF DrainInv, Data!Init
<1>6. IngestInv
  BY DEF IngestInv, Data!Init
<1> QED BY <1>2, <1>4, <1>5, <1>6 DEF DataInv

\* Every step of the specification keeps the clean-up's invariant.
LEMMA StepData ==
  ASSUME DataInv, [Next]_vars
  PROVE  DataInv'
<1>1. CASE UNCHANGED cleanup
  <2>1. UNCHANGED <<lenient, line, handler, registry, stop, queue, worker, abort, deleted, errors,
                    settled, drawn, tried>>
    BY <1>1 DEF cleanup
  <2> QED BY <2>1 DEF DataInv, DataTypes, CountInv, DrainInv, IngestInv
<1>2. CASE Data!Next
  BY <1>2, IngestPreserves, StopPreserves, WorkerPreserves DEF Data!Next
<1> QED BY <1>1, <1>2 DEF Next, vars

\* No id is deleted twice, the counters stop() reports are those of the calls made,
\* and once stop() has returned every id acknowledged while the run lasted has been
\* tried, unless a failure was to end the work: for any number of ids and workers.
THEOREM DataTheorem == Spec => []DataCleaned
<1>1. ASSUME DataInv PROVE DataCleaned
  <2>1. Data!TypeOK
    BY <1>1 DEF DataInv, DataTypes, Data!TypeOK
  <2>2. \A r \in Resource : tried[r] <= 1
    BY <1>1 DEF DataInv, DataTypes
  <2>3. Data!Calling = Those(Worker, worker, Resource)
    BY <1>1, PartsAssumption
       DEF Data!Calling, Data!Ids, Those, DataInv, DataTypes, Data!CleanupAssumption
  <2>4. {r \in Resource : tried[r] > 0} = Those(Resource, tried, {1})
    BY <1>1 DEF Those, DataInv, DataTypes
  <2>5. \A S : Data!Cardinality(S) = Cardinality(S)
    BY Zenon DEF Data!Cardinality, Cardinality, Data!IsFiniteSet, IsFiniteSet
  <2>6. deleted + errors + Data!Cardinality(Data!Calling)
          = Data!Cardinality({r \in Resource : tried[r] > 0})
    BY <1>1, <2>3, <2>4, <2>5, Zenon DEF DataInv, CountInv
  <2>7. Data!CountsExact
    BY <2>1, <2>2, <2>6, Zenon DEF Data!CountsExact
  <2>8. Data!AcknowledgedTried
    <3>1. Worker # {}
      BY PartsAssumption DEF Data!CleanupAssumption
    <3> QED BY <1>1, <3>1 DEF DataInv, DrainInv, IngestInv, Data!AcknowledgedTried
  <2> QED BY <2>7, <2>8 DEF DataCleaned
<1>2. Init => DataInv
  BY InitData DEF Init
<1>3. DataInv /\ [Next]_vars => DataInv'
  BY StepData
<1> QED
  BY <1>1, <1>2, <1>3, PTL DEF Spec

-----------------------------------------------------------------------------
(* The uplink window.  p is the window, n the last sequence stamped, c the      *)
(* cursor, b the byte count, t the messages taken in this epoch and d the last  *)
(* message the controller has read.                                             *)

\* What the entries of a window reserve.
Bytes(p) == [i \in 1..Len(p) |-> p[i].bytes]

\* The window is the tail of the sequence, from a message the controller has read.
WindowTail(p, n, d) ==
  /\ n \in Nat /\ p \in Seq(Uplink!Entry) /\ Len(p) <= n /\ d \in 0..n
  /\ \A i \in 1..Len(p) : p[i].seq = n - Len(p) + i
  /\ n - Len(p) <= d

\* Its budgets: the byte count is the sum of what its entries reserve.
WindowBudget(p, b) ==
  /\ b \in Nat /\ b = SumFunctionOnSet(Bytes(p), 1..Len(p))
  /\ Len(p) <= MaxMessages
  /\ Len(p) > 0 => b - p[Len(p)].bytes < MaxBytes

\* The cursor splits it, and what is taken has been stamped.
WindowSplit(p, n, c, t) ==
  /\ c \in 0..Len(p) /\ t \subseteq 1..n
  /\ \A i \in 1..Len(p) : (i <= c) <=> (p[i].seq \in t)

\* The constants of the window.
LEMMA WindowConstants ==
  /\ Sizes \subseteq Nat \ {0} /\ MaxBytes \in Nat \ {0} /\ MaxMessages \in Nat \ {0}
  /\ Capacity \in Nat \ {0} /\ MaxSession \in Nat /\ MaxSeq \in Nat
  /\ Uplink!Session = 1..MaxSession /\ IsFiniteSet(Producer)
<1>1. IsFiniteSet(Producer)
  BY PartsAssumption, Zenon DEF Uplink!WindowAssumption, Uplink!IsFiniteSet, IsFiniteSet
<1> QED BY <1>1, PartsAssumption DEF Uplink!WindowAssumption, Uplink!Session

\* Entries.
LEMMA Entries ==
  ASSUME NEW p \in Seq(Uplink!Entry)
  PROVE  /\ Len(p) \in Nat /\ DOMAIN p = 1..Len(p)
         /\ \A i \in 1..Len(p) : /\ p[i] \in Uplink!Entry /\ p[i].seq \in Nat
                                 /\ p[i].bytes \in Sizes /\ p[i].bytes \in Nat \ {0}
         /\ \A i \in 1..Len(p) : Bytes(p)[i] = p[i].bytes /\ Bytes(p)[i] \in Int
<1>1. Len(p) \in Nat /\ DOMAIN p = 1..Len(p)
  BY LenProperties
<1>2. \A i \in 1..Len(p) : p[i] \in Uplink!Entry
  BY ElementOfSeq
<1>3. \A x \in Uplink!Entry : x.seq \in Nat /\ x.bytes \in Sizes
  BY DEF Uplink!Entry
<1>4. \A i \in 1..Len(p) : p[i].bytes \in Nat \ {0}
  BY <1>2, <1>3, WindowConstants
<1>5. \A i \in 1..Len(p) : Bytes(p)[i] = p[i].bytes
  BY DEF Bytes
<1> QED BY <1>1, <1>2, <1>3, <1>4, <1>5

\* A message is admitted while neither budget is reached.
Admits(p, n, d, c, t, b, s, q) ==
  /\ WindowTail(p, n, d) /\ WindowBudget(p, b) /\ WindowSplit(p, n, c, t)
  /\ Len(p) < MaxMessages /\ b < MaxBytes
  /\ s \in Sizes /\ q = Append(p, [seq |-> n + 1, bytes |-> s])

\* Uplink::push keeps the sequence, the byte count and the split of the window.
LEMMA AdmitWindow ==
  ASSUME NEW p, NEW n, NEW d, NEW c, NEW t, NEW b, NEW s, NEW q, Admits(p, n, d, c, t, b, s, q)
  PROVE  WindowTail(q, n + 1, d) /\ WindowBudget(q, b + s) /\ WindowSplit(q, n + 1, c, t)
<1> USE DEF Admits
<1>1. n \in Nat /\ p \in Seq(Uplink!Entry) /\ Len(p) \in Nat /\ s \in Nat \ {0}
  BY Entries, WindowConstants DEF WindowTail
<1>2. PICK r \in Uplink!Entry : r = [seq |-> n + 1, bytes |-> s]
  BY <1>1 DEF Uplink!Entry
<1>3. /\ q \in Seq(Uplink!Entry) /\ Len(q) = Len(p) + 1
      /\ (\A i \in 1..Len(p) : q[i] = p[i]) /\ q[Len(p) + 1] = r
  BY <1>1, <1>2, AppendProperties
<1>4. r.seq = n + 1 /\ r.bytes = s
  BY <1>2
<1>5. \A i \in 1..Len(q) : i \in 1..Len(p) \/ i = Len(p) + 1
  BY <1>1, <1>3
<1>6. WindowTail(q, n + 1, d)
  <2>1. \A i \in 1..Len(q) : q[i].seq = (n + 1) - Len(q) + i
    <3>1. ASSUME NEW i \in 1..Len(p) PROVE q[i].seq = (n + 1) - Len(q) + i
      <4>1. q[i] = p[i] /\ p[i].seq = n - Len(p) + i
        BY <1>3 DEF WindowTail
      <4> QED BY <1>1, <1>3, <4>1
    <3>2. q[Len(p) + 1].seq = (n + 1) - Len(q) + (Len(p) + 1)
      BY <1>1, <1>3, <1>4
    <3> QED BY <1>5, <3>1, <3>2
  <2>2. n + 1 \in Nat /\ Len(q) <= n + 1 /\ d \in 0..(n + 1) /\ (n + 1) - Len(q) <= d
    BY <1>1, <1>3 DEF WindowTail
  <2> QED BY <1>3, <2>1, <2>2 DEF WindowTail
<1>7. WindowBudget(q, b + s)
  <2>1. b \in Nat /\ b = SumFunctionOnSet(Bytes(p), 1..Len(p))
    BY DEF WindowBudget
  <2>2. /\ \A i \in 1..Len(p) : Bytes(p)[i] \in Int /\ Bytes(q)[i] = Bytes(p)[i]
        /\ Bytes(q)[Len(p) + 1] = s
    <3>1. \A i \in 1..Len(p) : i \in 1..Len(q)
      BY <1>1, <1>3
    <3>2. Len(p) + 1 \in 1..Len(q)
      BY <1>1, <1>3
    <3>3. \A i \in 1..Len(q) : Bytes(q)[i] = q[i].bytes
      BY <1>3, Entries
    <3>4. \A i \in 1..Len(p) : Bytes(p)[i] = p[i].bytes /\ Bytes(p)[i] \in Int
      BY <1>1, Entries
    <3> QED BY <1>3, <1>4, <3>1, <3>2, <3>3, <3>4
  <2>3. PICK A, y : A = 1..Len(p) /\ y = Len(p) + 1
    OBVIOUS
  <2>4. IsFiniteSet(A) /\ y \notin A /\ 1..Len(q) = A \cup {y}
    <3>1. IsFiniteSet(A)
      BY <1>1, <2>3, FS_Interval
    <3>2. PICK l \in Nat : l = Len(p) /\ Len(q) = l + 1
      BY <1>1, <1>3
    <3>3. l + 1 \notin 1..l /\ 1..(l + 1) = 1..l \cup {l + 1}
      OBVIOUS
    <3> QED BY <2>3, <3>1, <3>2, <3>3
  <2>5. SumFunctionOnSet(Bytes(q), A) = SumFunctionOnSet(Bytes(p), A)
    BY <2>2, <2>3, <2>4, SumCong
  <2>6. \A x \in A \cup {y} : Bytes(q)[x] \in Int
    BY <1>1, <2>2, <2>3
  <2>7. SumFunctionOnSet(Bytes(q), A \cup {y}) = Bytes(q)[y] + SumFunctionOnSet(Bytes(q), A)
    BY <2>4, <2>6, SumAdd
  <2>8. b + s = SumFunctionOnSet(Bytes(q), 1..Len(q))
    <3>1. SumFunctionOnSet(Bytes(q), 1..Len(q)) = s + b
      BY <2>1, <2>2, <2>3, <2>4, <2>5, <2>7
    <3> QED BY <1>1, <2>1, <3>1
  <2>9. b + s \in Nat /\ Len(q) <= MaxMessages
    BY <1>1, <1>3, <2>1, WindowConstants
  <2>10. (b + s) - q[Len(q)].bytes < MaxBytes
    BY <1>1, <1>3, <1>4, <2>1, WindowConstants
  <2> QED BY <2>8, <2>9, <2>10 DEF WindowBudget
<1>8. WindowSplit(q, n + 1, c, t)
  <2>1. c \in 0..Len(p) /\ t \subseteq 1..n /\ n + 1 \notin t
    BY <1>1 DEF WindowSplit
  <2>2. \A i \in 1..Len(p) : (i <= c) <=> (q[i].seq \in t)
    BY <1>3 DEF WindowSplit
  <2>3. ((Len(p) + 1) <= c) <=> (q[Len(p) + 1].seq \in t)
    BY <1>1, <1>3, <1>4, <2>1
  <2>4. c \in 0..Len(q) /\ t \subseteq 1..(n + 1)
    BY <1>1, <1>3, <2>1
  <2> QED BY <1>5, <2>2, <2>3, <2>4 DEF WindowSplit
<1> QED BY <1>6, <1>7, <1>8

\* The writer takes the message at the cursor.
LEMMA TakeWindow ==
  ASSUME NEW p, NEW n, NEW d, NEW c, NEW t, NEW u, WindowTail(p, n, d), WindowSplit(p, n, c, t),
         c < Len(p), u = t \cup {p[c + 1].seq}
  PROVE  WindowSplit(p, n, c + 1, u) /\ p[c + 1].seq \in 1..n
<1>1. n \in Nat /\ p \in Seq(Uplink!Entry) /\ Len(p) \in Nat /\ Len(p) <= n /\ c \in 0..Len(p)
  BY Entries DEF WindowTail, WindowSplit
<1>2. c + 1 \in 1..Len(p) /\ c + 1 \in 0..Len(p)
  BY <1>1
<1>3. p[c + 1].seq = n - Len(p) + (c + 1)
  BY <1>2 DEF WindowTail
<1>4. p[c + 1].seq \in 1..n
  BY <1>1, <1>2, <1>3
<1>5. ASSUME NEW i \in 1..Len(p) PROVE (i <= c + 1) <=> (p[i].seq \in u)
  <2>1. p[i].seq = n - Len(p) + i /\ ((i <= c) <=> (p[i].seq \in t))
    BY DEF WindowTail, WindowSplit
  <2>2. p[i].seq = p[c + 1].seq <=> i = c + 1
    BY <1>1, <1>3, <2>1
  <2>3. (i <= c + 1) <=> (i <= c \/ i = c + 1)
    BY <1>1
  <2> QED BY <2>1, <2>2, <2>3
<1>6. u \subseteq 1..n
  BY <1>4 DEF WindowSplit
<1> QED BY <1>2, <1>4, <1>5, <1>6 DEF WindowSplit

\* How many entries an acknowledgement of message m retires.
Acked(p, m) == {i \in DOMAIN p : p[i].seq <= m}

\* Uplink::ack of m retires entries up to m, or none.
LEMMA RetiredEntries ==
  ASSUME NEW p, NEW n, NEW d, WindowTail(p, n, d), NEW m \in 0..d
  PROVE  /\ Cardinality(Acked(p, m)) \in 0..Len(p)
         /\ Cardinality(Acked(p, m)) > 0 => n - Len(p) + Cardinality(Acked(p, m)) = m
<1>1. PICK L \in Nat : L = Len(p) /\ DOMAIN p = 1..L
  BY Entries DEF WindowTail
<1>2. n \in Nat /\ d \in 0..n /\ L <= n /\ \A i \in 1..L : p[i].seq = n - L + i
  BY <1>1 DEF WindowTail
<1>3. PICK h \in Int : h = m - (n - L)
  BY <1>2
<1>4. \A i \in 1..L : p[i].seq <= m <=> i <= h
  BY <1>2, <1>3
<1>5. CASE h > 0
  <2>1. h \in 1..L
    BY <1>2, <1>3, <1>5
  <2>2. Acked(p, m) = 1..h
    BY <1>1, <1>4, <2>1 DEF Acked
  <2>3. Cardinality(Acked(p, m)) = h
    BY <2>1, <2>2, FS_Interval
  <2> QED BY <1>1, <1>2, <1>3, <2>1, <2>3
<1>6. CASE h <= 0
  <2>1. Acked(p, m) = {}
    BY <1>1, <1>4, <1>6 DEF Acked
  <2>2. Cardinality(Acked(p, m)) = 0
    BY <2>1, FS_EmptySet
  <2> QED BY <1>1, <2>2
<1> QED BY <1>5, <1>6

\* q is what is left of p without its first k entries.
Rest(p, q, k) ==
  /\ q \in Seq(Uplink!Entry) /\ Len(q) = Len(p) - k
  /\ \A i \in 1..Len(q) : q[i] = p[k + i]

\* SubSeq returns it.
LEMMA RestOf ==
  ASSUME NEW p \in Seq(Uplink!Entry), NEW k \in 1..Len(p)
  PROVE  Rest(p, SubSeq(p, k + 1, Len(p)), k)
<1>1. PICK L \in Nat : L = Len(p)
  BY Entries
<1>2. \A i \in (k + 1)..L : p[i] \in Uplink!Entry
  BY <1>1, Entries
<1>3. PICK q : q = SubSeq(p, k + 1, L)
  OBVIOUS
<1>4. k + 1 \in Int /\ L \in Int /\ k \in 1..L
  BY <1>1
<1>5. /\ q \in Seq(Uplink!Entry) /\ Len(q) = (IF k + 1 <= L THEN L - (k + 1) + 1 ELSE 0)
      /\ \A i \in 1..(L - (k + 1) + 1) : q[i] = p[(k + 1) + i - 1]
  BY <1>2, <1>3, <1>4, SubSeqProperties
<1>6. (IF k + 1 <= L THEN L - (k + 1) + 1 ELSE 0) = L - k /\ L - (k + 1) + 1 = L - k
  BY <1>4
<1>7. \A i \in 1..(L - k) : (k + 1) + i - 1 = k + i
  BY <1>4
<1>8. Len(q) = L - k /\ \A i \in 1..Len(q) : q[i] = p[k + i]
  BY <1>5, <1>6, <1>7
<1> QED BY <1>1, <1>3, <1>5, <1>8 DEF Rest

\* The first k entries are retired: the window is still the tail of the sequence,
LEMMA AckTail ==
  ASSUME NEW p, NEW n, NEW d, NEW k \in 1..Len(p), NEW q, WindowTail(p, n, d), Rest(p, q, k),
         n - Len(p) + k <= d
  PROVE  WindowTail(q, n, d)
<1>1. PICK L \in Nat : L = Len(p)
  BY Entries DEF WindowTail
<1>2. /\ n \in Nat /\ L <= n /\ d \in 0..n /\ k \in 1..L /\ n - L + k <= d
      /\ \A i \in 1..L : p[i].seq = n - L + i
  BY <1>1 DEF WindowTail
<1>3. PICK M \in Nat : M = Len(q) /\ M = L - k
  BY <1>1, <1>2 DEF Rest
<1>4. ASSUME NEW i \in 1..M PROVE q[i].seq = n - M + i
  <2>1. q[i] = p[k + i]
    BY <1>3 DEF Rest
  <2>2. k + i \in 1..L
    BY <1>2, <1>3
  <2>3. p[k + i].seq = n - L + (k + i)
    BY <1>2, <2>2
  <2> QED BY <1>2, <1>3, <2>1, <2>3
<1>5. M <= n /\ n - M <= d
  BY <1>2, <1>3
<1> QED BY <1>2, <1>3, <1>4, <1>5 DEF WindowTail, Rest

\* what they reserved is given back exactly,
LEMMA AckBudget ==
  ASSUME NEW p \in Seq(Uplink!Entry), NEW b, NEW k \in 1..Len(p), NEW q, NEW e,
         WindowBudget(p, b), Rest(p, q, k), e = b - SumFunctionOnSet(Bytes(p), 1..k)
  PROVE  WindowBudget(q, e)
<1>1. PICK L \in Nat : L = Len(p)
  BY Entries
<1>2. k \in 1..L /\ k \in Nat
  BY <1>1
<1>3. PICK M \in Nat : M = Len(q) /\ M = L - k
  BY <1>1, <1>2 DEF Rest
<1>4. PICK f, g : f = Bytes(p) /\ g = Bytes(q)
  OBVIOUS
<1>5. \A i \in 1..L : f[i] = p[i].bytes /\ f[i] \in Nat
  BY <1>1, <1>4, Entries
<1>6. q \in Seq(Uplink!Entry) /\ \A i \in 1..M : q[i] = p[k + i]
  BY <1>3 DEF Rest
<1>7. \A i \in 1..M : k + i \in 1..L
  BY <1>2, <1>3
<1>8. \A i \in 1..M : g[i] = f[k + i] /\ g[i] \in Nat
  <2>1. \A i \in 1..M : g[i] = q[i].bytes
    BY <1>3, <1>4, <1>6, Entries
  <2> QED BY <1>5, <1>6, <1>7, <2>1
<1>9. k + M = L
  BY <1>2, <1>3
<1>10. SumFunctionOnSet(f, 1..(k + M)) = SumFunctionOnSet(f, 1..k) + SumFunctionOnSet(g, 1..M)
  <2>1. \A i \in 1..(k + M) : f[i] \in Int
    <3>1. \A i \in 1..L : f[i] \in Int
      BY <1>5
    <3> QED BY <1>9, <3>1
  <2>2. k \in Nat /\ M \in Nat /\ \A i \in 1..M : g[i] = f[k + i]
    BY <1>2, <1>3, <1>8
  <2>3. Renumbered(f, g, k, M)
    BY <2>1, <2>2 DEF Renumbered
  <2> QED BY <2>3, SumShift
<1>11. SumFunctionOnSet(f, 1..k) \in Nat /\ SumFunctionOnSet(g, 1..M) \in Nat
  <2>1. IsFiniteSet(1..k) /\ IsFiniteSet(1..M)
    BY <1>2, FS_Interval
  <2>2. (\A i \in 1..k : f[i] \in Nat) /\ (\A i \in 1..M : g[i] \in Nat)
    BY <1>2, <1>5, <1>8
  <2> QED BY <2>1, <2>2, SumNat
<1>12. /\ b \in Nat /\ b = SumFunctionOnSet(f, 1..(k + M)) /\ L <= MaxMessages
       /\ b - p[L].bytes < MaxBytes
  BY <1>1, <1>2, <1>4, <1>9 DEF WindowBudget
<1>13. e = SumFunctionOnSet(g, 1..M) /\ e \in Nat /\ e <= b
  BY <1>4, <1>10, <1>11, <1>12
<1>14. M <= MaxMessages
  BY <1>2, <1>3, <1>12, WindowConstants
<1>15. ASSUME M > 0 PROVE e - q[M].bytes < MaxBytes
  <2>1. M \in 1..M /\ L \in 1..L /\ k + M = L
    BY <1>2, <1>9, <1>15
  <2>2. q[M] = p[L] /\ p[L].bytes \in Nat
    BY <1>5, <1>6, <2>1
  <2>3. PICK z \in Nat : z = p[L].bytes
    BY <2>2
  <2>4. e - z < MaxBytes
    BY <1>12, <1>13, <2>3, WindowConstants, SMTT(30)
  <2> QED BY <2>2, <2>3, <2>4
<1> QED BY <1>3, <1>4, <1>13, <1>14, <1>15 DEF WindowBudget

\* and the cursor names the same message.
LEMMA AckSplit ==
  ASSUME NEW p \in Seq(Uplink!Entry), NEW n, NEW c, NEW t, NEW k \in 1..Len(p), NEW q, NEW x,
         WindowSplit(p, n, c, t), Rest(p, q, k), x = IF c > k THEN c - k ELSE 0
  PROVE  WindowSplit(q, n, x, t)
<1>1. PICK L \in Nat : L = Len(p)
  BY Entries
<1>2. /\ k \in 1..L /\ c \in 0..L /\ t \subseteq 1..n
      /\ \A i \in 1..L : (i <= c) <=> (p[i].seq \in t)
  BY <1>1 DEF WindowSplit
<1>3. PICK M \in Nat : M = Len(q) /\ M = L - k
  BY <1>1, <1>2 DEF Rest
<1>4. x \in 0..M
  BY <1>2, <1>3
<1>5. ASSUME NEW i \in 1..M PROVE (i <= x) <=> (q[i].seq \in t)
  <2>1. q[i] = p[k + i]
    BY <1>3 DEF Rest
  <2>2. k + i \in 1..L
    BY <1>2, <1>3
  <2>3. (k + i <= c) <=> (p[k + i].seq \in t)
    BY <1>2, <2>2
  <2>4. (i <= x) <=> (k + i <= c)
    BY <1>2
  <2> QED BY <2>1, <2>3, <2>4
<1> QED BY <1>2, <1>3, <1>4, <1>5 DEF WindowSplit

\* Producers: their types, and the numbers left for those in enqueue.
Busy == {"registered", "full", "parked"}
ProducersInv ==
  /\ room \in [Producer -> {"none", "waiting", "notified"}]
  /\ producer \in [Producer -> Uplink!ProducerStates]
  /\ next_seq + Cardinality(Those(Producer, producer, Busy)) <= MaxSeq

\* Writers: their types; what they hold or have put in the channel has been stamped.
WritersInv ==
  /\ permit \in BOOLEAN /\ waiters \in Seq(Uplink!Session) /\ aborted \subseteq Uplink!Session
  /\ writer \in [Uplink!Session -> Uplink!WriterStates]
Held(h, wr, n) ==
  /\ h \in [Uplink!Session -> Nat]
  /\ \A w \in Uplink!Session : h[w] <= n /\ (wr[w] = "send" => h[w] # 0)
Under(ch, n) == ch \in Seq(Nat) /\ \A i \in 1..Len(ch) : ch[i] \in 1..n
SessionInv ==
  /\ epoch \in 0..MaxSession /\ closed \in BOOLEAN /\ cur \in {0} \cup Uplink!Session
  /\ acking \in BOOLEAN /\ closing \in {"open", "writer", "producers", "over"}

UplinkInv ==
  /\ WindowTail(pending, next_seq, delivered) /\ WindowBudget(pending, bytes)
  /\ WindowSplit(pending, next_seq, cursor, taken)
  /\ ProducersInv /\ WritersInv /\ SessionInv
  /\ Held(hand, writer, next_seq) /\ Under(chan, next_seq)

\* The producers that are in enqueue, as the bound counts them.
LEMMA BoundCounts ==
  ASSUME UplinkInv, NEW p \in Producer, Uplink!MayProduce(p)
  PROVE  producer[p] = "idle" /\ next_seq + Cardinality(Those(Producer, producer, Busy)) < MaxSeq
<1>1. {q \in Producer : producer[q] \notin {"idle", "pushed"}} = Those(Producer, producer, Busy)
  BY DEF UplinkInv, ProducersInv, Uplink!ProducerStates, Those, Busy
<1>2. \A S : Uplink!Cardinality(S) = Cardinality(S)
  BY Zenon DEF Uplink!Cardinality, Cardinality, Uplink!IsFiniteSet, IsFiniteSet
<1>3. /\ producer[p] = "idle"
      /\ next_seq + Uplink!Cardinality({q \in Producer : producer[q] \notin {"idle", "pushed"}})
           < MaxSeq
  BY DEF Uplink!MayProduce
<1>4. next_seq + Cardinality({q \in Producer : producer[q] \notin {"idle", "pushed"}}) < MaxSeq
  BY <1>2, <1>3, Zenon
<1> QED BY <1>1, <1>3, <1>4, Zenon

\* A producer moves to state s, and n numbers are then stamped.
Takes(s) == IF s \in Busy THEN 1 ELSE 0

\* The messages queued or about to be stay within MaxSeq.
LEMMA ProducerMoves ==
  ASSUME ProducersInv, next_seq \in Nat, NEW p \in Producer, NEW s \in Uplink!ProducerStates,
         producer' = [producer EXCEPT ![p] = s],
         room' \in [Producer -> {"none", "waiting", "notified"}], NEW n \in Nat, next_seq' = n,
         \/ n + Takes(s) <= next_seq + Takes(producer[p])
         \/ /\ n + Takes(s) <= next_seq + Takes(producer[p]) + 1
            /\ next_seq + Cardinality(Those(Producer, producer, Busy)) < MaxSeq
  PROVE  ProducersInv'
<1>1. PICK e : e = producer' /\ e = [producer EXCEPT ![p] = s]
  OBVIOUS
<1>2. producer \in [Producer -> Uplink!ProducerStates] /\ IsFiniteSet(Producer) /\ MaxSeq \in Nat
  BY WindowConstants DEF ProducersInv
<1>3. e[p] = s /\ \A x \in Producer : x # p => e[x] = producer[x]
  BY <1>1, <1>2
<1>4. PICK u, v : /\ u = Cardinality(Those(Producer, producer, Busy))
                  /\ v = Cardinality(Those(Producer, e, Busy))
  OBVIOUS
<1>5. /\ u \in Nat /\ v \in Nat
      /\ producer[p] \in Busy /\ s \in Busy => v = u
      /\ producer[p] \notin Busy /\ s \notin Busy => v = u
      /\ producer[p] \notin Busy /\ s \in Busy => v = u + 1
      /\ producer[p] \in Busy /\ s \notin Busy => v = u - 1
  <2>1. /\ Cardinality(Those(Producer, producer, Busy)) \in Nat
        /\ Cardinality(Those(Producer, e, Busy)) \in Nat
        /\ producer[p] \in Busy /\ s \in Busy =>
             Cardinality(Those(Producer, e, Busy)) = Cardinality(Those(Producer, producer, Busy))
        /\ producer[p] \notin Busy /\ s \notin Busy =>
             Cardinality(Those(Producer, e, Busy)) = Cardinality(Those(Producer, producer, Busy))
        /\ producer[p] \notin Busy /\ s \in Busy =>
             Cardinality(Those(Producer, e, Busy)) = Cardinality(Those(Producer, producer, Busy)) + 1
        /\ producer[p] \in Busy /\ s \notin Busy =>
             Cardinality(Those(Producer, e, Busy)) = Cardinality(Those(Producer, producer, Busy)) - 1
    BY <1>2, <1>3, ThoseChange
  <2> QED BY <1>4, <2>1
<1>6. v - u = Takes(s) - Takes(producer[p]) /\ Takes(s) \in Nat /\ Takes(producer[p]) \in Nat
  BY <1>5 DEF Takes
<1>7. next_seq + u <= MaxSeq
  BY <1>4 DEF ProducersInv
<1>8. n + v <= MaxSeq
  <2>1. PICK x \in Nat, y \in Nat : x = Takes(s) /\ y = Takes(producer[p])
    BY <1>6
  <2>2. v - u = x - y /\ \/ n + x <= next_seq + y
                         \/ n + x <= next_seq + y + 1 /\ next_seq + u < MaxSeq
    BY <1>4, <1>6, <2>1
  <2> QED BY <1>2, <1>5, <1>7, <2>2
<1>9. producer' \in [Producer -> Uplink!ProducerStates]
  BY <1>2
<1> QED BY <1>1, <1>4, <1>8, <1>9 DEF ProducersInv

\* notify_one, from where f leaves the writers.
LEMMA NotifyOneWrites ==
  ASSUME WritersInv, NEW f \in [Uplink!Session -> Uplink!WriterStates], Uplink!NotifyOne(f),
         aborted' = aborted
  PROVE  /\ WritersInv'
         /\ \A w \in Uplink!Session : writer'[w] = "send" => f[w] = "send"
<1>1. /\ permit' = (permit \/ waiters = <<>>)
      /\ waiters' = (IF waiters = <<>> THEN waiters ELSE Tail(waiters))
      /\ writer' = (IF waiters = <<>> THEN f ELSE [f EXCEPT ![Head(waiters)] = "woken"])
  BY DEF Uplink!NotifyOne
<1>2. permit' \in BOOLEAN
  BY <1>1, Zenon
<1>3. waiters # <<>> => Head(waiters) \in Uplink!Session /\ Tail(waiters) \in Seq(Uplink!Session)
  BY HeadTailProperties DEF WritersInv
<1>4. waiters' \in Seq(Uplink!Session) /\ aborted' \subseteq Uplink!Session
  BY <1>1, <1>3 DEF WritersInv
<1>5. "woken" \in Uplink!WriterStates
  BY DEF Uplink!WriterStates
<1>6. writer' \in [Uplink!Session -> Uplink!WriterStates]
  BY <1>1, <1>3, <1>5
<1>7. \A w \in Uplink!Session : writer'[w] = "send" => f[w] = "send"
  BY <1>1, <1>3
<1> QED BY <1>2, <1>4, <1>6, <1>7 DEF WritersInv

\* Steps that leave the window alone, and whose writers take nothing.
QuietWindow == UNCHANGED <<next_seq, pending, cursor, bytes, delivered, taken>>

\* They keep the invariant if the rest of it holds.
LEMMA QuietPreserves ==
  ASSUME UplinkInv, QuietWindow, ProducersInv', WritersInv', SessionInv',
         Held(hand', writer', next_seq), Under(chan', next_seq)
  PROVE  UplinkInv'
BY DEF UplinkInv, QuietWindow

\* Fewer writers send.
LEMMA HeldStill ==
  ASSUME NEW h, NEW wr, NEW v, NEW n, Held(h, wr, n),
         \A w \in Uplink!Session : v[w] = "send" => wr[w] = "send"
  PROVE  Held(h, v, n)
BY DEF Held

\* What one point of the invariant says.
LEMMA UplinkPoints ==
  ASSUME UplinkInv
  PROVE  /\ next_seq \in Nat /\ pending \in Seq(Uplink!Entry) /\ delivered \in 0..next_seq
         /\ bytes \in Nat /\ cursor \in 0..Len(pending)
         /\ ProducersInv /\ WritersInv /\ SessionInv
         /\ Held(hand, writer, next_seq) /\ Under(chan, next_seq)
         /\ room \in [Producer -> {"none", "waiting", "notified"}]
         /\ writer \in [Uplink!Session -> Uplink!WriterStates]
BY DEF UplinkInv, WindowTail, WindowBudget, WindowSplit, ProducersInv, WritersInv

\* A producer registers, is refused, waits, or is woken.
LEMMA ProducerQuietPreserves ==
  ASSUME UplinkInv, NEW p \in Producer, NEW s \in Uplink!ProducerStates, NEW r \in {"none", "waiting", "notified"},
         producer' = [producer EXCEPT ![p] = s],
         room' = room \/ room' = [room EXCEPT ![p] = r],
         \/ Takes(s) <= Takes(producer[p])
         \/ next_seq + Cardinality(Those(Producer, producer, Busy)) < MaxSeq,
         UNCHANGED <<next_seq, pending, cursor, bytes, epoch, closed, permit, waiters, writer, hand,
                     aborted, chan, cur, delivered, acking, closing, taken>>
  PROVE  UplinkInv'
<1>1. room' \in [Producer -> {"none", "waiting", "notified"}]
  BY UplinkPoints
<1>2. Takes(s) \in {0, 1} /\ Takes(producer[p]) \in {0, 1}
  BY DEF Takes
<1>3. next_seq' = next_seq /\ next_seq \in Nat /\ ProducersInv
  BY UplinkPoints
<1>4. \/ next_seq + Takes(s) <= next_seq + Takes(producer[p])
      \/ /\ next_seq + Takes(s) <= next_seq + Takes(producer[p]) + 1
         /\ next_seq + Cardinality(Those(Producer, producer, Busy)) < MaxSeq
  BY <1>2, <1>3
<1>5. ProducersInv'
  BY <1>1, <1>3, <1>4, ProducerMoves
<1>6. WritersInv' /\ SessionInv'
  BY UplinkPoints DEF WritersInv, SessionInv
<1>7. Held(hand', writer', next_seq) /\ Under(chan', next_seq)
  BY UplinkPoints
<1> QED BY <1>5, <1>6, <1>7, QuietPreserves DEF QuietWindow

\* A message is admitted.
LEMMA AdmitPreserves ==
  ASSUME UplinkInv, NEW p \in Producer, Uplink!Admit, ~Uplink!IsFull,
         producer' = [producer EXCEPT ![p] = "pushed"],
         room' = room \/ room' = [room EXCEPT ![p] = "none"],
         \/ producer[p] \in Busy
         \/ next_seq + Cardinality(Those(Producer, producer, Busy)) < MaxSeq,
         UNCHANGED <<permit, waiters, writer, hand, aborted, chan, cur, delivered, acking, closing, taken>>
  PROVE  UplinkInv'
<1>1. PICK n, s, q :
        /\ n \in Nat /\ s \in Sizes
        /\ n = next_seq + 1 /\ next_seq' = n
        /\ bytes' = bytes + s /\ q = Append(pending, [seq |-> next_seq + 1, bytes |-> s])
        /\ pending' = q /\ UNCHANGED <<cursor, epoch, closed>>
  <2>1. PICK b \in Sizes : bytes' = bytes + b /\ pending' = Append(pending, [seq |-> next_seq + 1, bytes |-> b])
    BY DEF Uplink!Admit
  <2>2. PICK k \in Nat : k = next_seq + 1
    BY UplinkPoints
  <2>3. next_seq' = next_seq + 1 /\ UNCHANGED <<cursor, epoch, closed>>
    BY DEF Uplink!Admit
  <2> QED BY <2>1, <2>2, <2>3
<1> n \in Nat /\ s \in Sizes
  BY <1>1
<1>2. bytes < MaxBytes /\ Len(pending) < MaxMessages
  BY UplinkPoints, WindowConstants, Entries DEF Uplink!IsFull
<1>3. /\ WindowTail(pending, next_seq, delivered) /\ WindowBudget(pending, bytes)
      /\ WindowSplit(pending, next_seq, cursor, taken)
  BY DEF UplinkInv
<1>4. /\ WindowTail(q, next_seq + 1, delivered) /\ WindowBudget(q, bytes + s)
      /\ WindowSplit(q, next_seq + 1, cursor, taken)
  <2>1. Admits(pending, next_seq, delivered, cursor, taken, bytes, s, q)
    BY <1>1, <1>2, <1>3 DEF Admits
  <2> QED BY <2>1, AdmitWindow
<1>5. ProducersInv'
  <2>1. room' \in [Producer -> {"none", "waiting", "notified"}]
    BY UplinkPoints
  <2>2. Takes("pushed") = 0 /\ Takes(producer[p]) \in {0, 1} /\ (producer[p] \in Busy => Takes(producer[p]) = 1)
        /\ "pushed" \in Uplink!ProducerStates
    BY DEF Takes, Busy, Uplink!ProducerStates
  <2>3. next_seq \in Nat /\ ProducersInv
    BY UplinkPoints
  <2>4. \/ n + Takes("pushed") <= next_seq + Takes(producer[p])
        \/ /\ n + Takes("pushed") <= next_seq + Takes(producer[p]) + 1
           /\ next_seq + Cardinality(Those(Producer, producer, Busy)) < MaxSeq
    BY <1>1, <2>2, <2>3
  <2> QED BY <1>1, <2>1, <2>2, <2>3, <2>4, ProducerMoves
<1>6. WritersInv' /\ SessionInv'
  BY <1>1, UplinkPoints DEF WritersInv, SessionInv
<1>7. Held(hand, writer, n) /\ Under(chan, n)
  BY <1>1, UplinkPoints, SMTT(30) DEF Held, Under
<1> QED BY <1>1, <1>4, <1>5, <1>6, <1>7 DEF UplinkInv

\* A step whose last act is notify_one: a producer past push, a writer that starts,
\* leaves or is dropped, and the close.
LEMMA NotifyPreserves ==
  ASSUME UplinkInv, NEW f \in [Uplink!Session -> Uplink!WriterStates], Uplink!NotifyOne(f),
         \A w \in Uplink!Session : f[w] = "send" => writer[w] = "send" /\ hand'[w] = hand[w],
         hand' \in [Uplink!Session -> Nat], \A w \in Uplink!Session : hand'[w] \in {0, hand[w]},
         ProducersInv', SessionInv', QuietWindow, UNCHANGED <<aborted, chan>>
  PROVE  UplinkInv'
<1>1. WritersInv' /\ \A w \in Uplink!Session : writer'[w] = "send" => f[w] = "send"
  BY UplinkPoints, NotifyOneWrites
<1>2. Held(hand', writer', next_seq)
  BY <1>1, UplinkPoints DEF Held
<1>3. Under(chan', next_seq)
  BY UplinkPoints
<1> QED BY <1>1, <1>2, <1>3, QuietPreserves

\* Producers.
LEMMA ProducerPreserves ==
  ASSUME UplinkInv, NEW p \in Producer,
         Uplink!Register(p) \/ Uplink!TryEnqueue(p) \/ Uplink!ProducerStep(p)
  PROVE  UplinkInv'
<1> USE DEF Uplink!window, Uplink!ready, Uplink!wire
<1>1. CASE Uplink!Register(p)
  <2>1. next_seq + Cardinality(Those(Producer, producer, Busy)) < MaxSeq
    BY <1>1, BoundCounts DEF Uplink!Register
  <2> QED BY <1>1, <2>1, ProducerQuietPreserves DEF Uplink!Register, Uplink!ProducerStates
<1>2. CASE Uplink!TryEnqueue(p)
  <2>1. next_seq + Cardinality(Those(Producer, producer, Busy)) < MaxSeq
    BY <1>2, BoundCounts DEF Uplink!TryEnqueue
  <2> QED BY <1>2, <2>1, AdmitPreserves DEF Uplink!TryEnqueue
<1>3. CASE Uplink!Push(p)
  <2>1. producer[p] = "registered" /\ "registered" \in Busy
        /\ UNCHANGED <<permit, waiters, writer, hand, aborted, chan, cur, delivered, acking, closing, taken>>
    BY <1>3 DEF Uplink!Push, Busy
  <2>2. CASE closed /\ producer' = [producer EXCEPT ![p] = "idle"] /\ room' = [room EXCEPT ![p] = "none"]
             /\ UNCHANGED Uplink!window
    <3>1. Takes("idle") <= Takes(producer[p]) /\ "idle" \in Uplink!ProducerStates
      BY <2>1 DEF Takes, Busy, Uplink!ProducerStates
    <3> QED BY <2>1, <2>2, <3>1, ProducerQuietPreserves
  <2>3. CASE producer' = [producer EXCEPT ![p] = "full"] /\ UNCHANGED <<Uplink!window, room>>
    <3>1. Takes("full") <= Takes(producer[p]) /\ "full" \in Uplink!ProducerStates
      BY <2>1 DEF Takes, Busy, Uplink!ProducerStates
    <3> QED BY <2>1, <2>3, <3>1, ProducerQuietPreserves
  <2>4. CASE /\ ~closed /\ ~Uplink!IsFull /\ Uplink!Admit
             /\ producer' = [producer EXCEPT ![p] = "pushed"]
             /\ room' = [room EXCEPT ![p] = "none"]
    BY <2>1, <2>4, AdmitPreserves
  <2> QED BY <1>3, <2>2, <2>3, <2>4 DEF Uplink!Push
<1>4. CASE Uplink!TellWriter(p)
  <2>1. /\ producer[p] = "pushed" /\ producer' = [producer EXCEPT ![p] = "idle"]
        /\ Uplink!NotifyOne(writer) /\ UNCHANGED <<room, hand, aborted, chan>> /\ QuietWindow
        /\ UNCHANGED <<epoch, closed, cur, acking, closing>>
    BY <1>4 DEF Uplink!TellWriter, QuietWindow
  <2>2. Takes("idle") = 0 /\ Takes(producer[p]) = 0 /\ "idle" \in Uplink!ProducerStates
    BY <2>1 DEF Takes, Busy, Uplink!ProducerStates
  <2>3. next_seq' = next_seq /\ next_seq \in Nat
        /\ next_seq + Takes("idle") <= next_seq + Takes(producer[p])
    BY <2>1, <2>2, UplinkPoints DEF QuietWindow
  <2>4. ProducersInv'
    BY <2>1, <2>2, <2>3, UplinkPoints, ProducerMoves
  <2>5. SessionInv'
    BY <2>1, UplinkPoints DEF SessionInv
  <2>6. hand' \in [Uplink!Session -> Nat] /\ \A w \in Uplink!Session : hand'[w] = hand[w]
    BY <2>1, UplinkPoints DEF Held
  <2> QED BY <2>1, <2>4, <2>5, <2>6, UplinkPoints, NotifyPreserves
<1>5. CASE Uplink!Await(p)
  <2>1. Takes("parked") <= Takes(producer[p]) /\ "parked" \in Uplink!ProducerStates
    BY <1>5 DEF Takes, Busy, Uplink!Await, Uplink!ProducerStates
  <2> QED BY <1>5, <2>1, ProducerQuietPreserves DEF Uplink!Await
<1>6. CASE Uplink!Retry(p)
  <2>1. Takes("registered") <= Takes(producer[p]) /\ "registered" \in Uplink!ProducerStates
    BY <1>6 DEF Takes, Busy, Uplink!Retry, Uplink!ProducerStates
  <2> QED BY <1>6, <2>1, ProducerQuietPreserves DEF Uplink!Retry
<1> QED BY <1>1, <1>2, <1>3, <1>4, <1>5, <1>6 DEF Uplink!ProducerStep

\* What a writer's step leaves alone.
Beside == UNCHANGED <<room, producer, epoch, closed, cur, acking, closing>>

\* It keeps what is said of producers and of sessions.
LEMMA BesidePreserves ==
  ASSUME UplinkInv, Beside, next_seq' = next_seq
  PROVE  ProducersInv' /\ SessionInv'
<1>1. ProducersInv /\ SessionInv
  BY UplinkPoints
<1>2. UNCHANGED <<room, producer, epoch, closed, cur, acking, closing, next_seq>>
  BY DEF Beside
<1>3. ProducersInv'
  BY <1>1, <1>2 DEF ProducersInv
<1>4. SessionInv'
  BY <1>1, <1>2 DEF SessionInv
<1> QED BY <1>3, <1>4

\* A writer moves to a state in which it sends nothing, and drops what it held.
LEMMA WriterRests ==
  ASSUME UplinkInv, NEW w \in Uplink!Session, NEW s \in Uplink!WriterStates, s # "send",
         writer' = [writer EXCEPT ![w] = s], hand' = hand \/ hand' = [hand EXCEPT ![w] = 0],
         permit' \in BOOLEAN, waiters' \in Seq(Uplink!Session),
         aborted' = aborted, Under(chan', next_seq), QuietWindow, Beside
  PROVE  UplinkInv'
<1>1. next_seq' = next_seq /\ next_seq \in Nat
  BY UplinkPoints DEF QuietWindow
<1>2. ProducersInv' /\ SessionInv'
  BY <1>1, BesidePreserves
<1>3. WritersInv'
  BY UplinkPoints DEF WritersInv
<1>4. Held(hand', writer', next_seq)
  <2>1. hand \in [Uplink!Session -> Nat] /\ writer \in [Uplink!Session -> Uplink!WriterStates]
        /\ \A x \in Uplink!Session : hand[x] <= next_seq /\ (writer[x] = "send" => hand[x] # 0)
    BY UplinkPoints DEF Held
  <2>2. hand' \in [Uplink!Session -> Nat]
    BY <2>1
  <2>3. ASSUME NEW x \in Uplink!Session PROVE hand'[x] <= next_seq /\ (writer'[x] = "send" => hand'[x] # 0)
    <3>1. CASE x = w
      BY <1>1, <2>1, <3>1
    <3>2. CASE x # w
      BY <1>1, <2>1, <3>2
    <3> QED BY <3>1, <3>2
  <2> QED BY <2>2, <2>3 DEF Held
<1> QED BY <1>2, <1>3, <1>4, QuietPreserves

\* Spawn, and a writer that leaves.
LEMMA HandOnPreserves ==
  ASSUME UplinkInv, NEW w \in Uplink!Session, NEW s \in {"spawned", "gone"},
         Uplink!NotifyOne([writer EXCEPT ![w] = s]),
         hand' = hand \/ hand' = [hand EXCEPT ![w] = 0],
         UNCHANGED <<aborted, chan>>, QuietWindow, Beside
  PROVE  UplinkInv'
<1>1. PICK f : f = [writer EXCEPT ![w] = s]
  OBVIOUS
<1>2. f \in [Uplink!Session -> Uplink!WriterStates] /\ Uplink!NotifyOne(f)
  BY <1>1, UplinkPoints DEF Uplink!WriterStates
<1>3. hand \in [Uplink!Session -> Nat] /\ writer \in [Uplink!Session -> Uplink!WriterStates]
  BY UplinkPoints DEF Held
<1>4. hand' \in [Uplink!Session -> Nat] /\ \A x \in Uplink!Session : hand'[x] \in {0, hand[x]}
  BY <1>3
<1>5. \A x \in Uplink!Session : f[x] = "send" => writer[x] = "send" /\ hand'[x] = hand[x]
  BY <1>1, <1>3
<1>6. ProducersInv' /\ SessionInv'
  BY BesidePreserves DEF QuietWindow
<1> QED BY <1>2, <1>4, <1>5, <1>6, NotifyPreserves

\* next_unsent.
LEMMA LookPreserves ==
  ASSUME UplinkInv, NEW w \in Uplink!Session, Uplink!Look(w)
  PROVE  UplinkInv'
<1>1. /\ UNCHANGED <<next_seq, pending, bytes, permit, waiters, aborted, chan, delivered>> /\ Beside
  BY DEF Uplink!Look, Uplink!ready, Uplink!wire, Beside
<1>2. permit \in BOOLEAN /\ waiters \in Seq(Uplink!Session) /\ Under(chan, next_seq)
  BY UplinkPoints DEF WritersInv
<1>3. CASE \E s \in {"leave", "poll"} : writer' = [writer EXCEPT ![w] = s] /\ UNCHANGED <<cursor, hand, taken>>
  <2>1. PICK s \in {"leave", "poll"} : writer' = [writer EXCEPT ![w] = s] /\ UNCHANGED <<cursor, hand, taken>>
    BY <1>3
  <2>2. s \in Uplink!WriterStates /\ s # "send" /\ QuietWindow
    BY <1>1, <2>1 DEF Uplink!WriterStates, QuietWindow
  <2>3. permit' \in BOOLEAN /\ waiters' \in Seq(Uplink!Session) /\ Under(chan', next_seq) /\ aborted' = aborted
    BY <1>1, <1>2
  <2> QED BY <1>1, <2>1, <2>2, <2>3, WriterRests
<1>4. CASE /\ Uplink!Unsent /\ cursor' = cursor + 1
           /\ hand' = [hand EXCEPT ![w] = pending[cursor + 1].seq]
           /\ taken' = taken \cup {pending[cursor + 1].seq}
           /\ writer' = [writer EXCEPT ![w] = "send"]
  <2>1. PICK m, u, c : m = pending[cursor + 1].seq /\ u = taken' /\ c = cursor' /\ c = cursor + 1
                       /\ u = taken \cup {m}
    BY <1>4
  <2>2. /\ WindowTail(pending, next_seq, delivered) /\ WindowBudget(pending, bytes)
        /\ WindowSplit(pending, next_seq, cursor, taken)
    BY DEF UplinkInv
  <2>3. cursor < Len(pending)
    BY <1>4 DEF Uplink!Unsent
  <2>4. WindowSplit(pending, next_seq, cursor + 1, u) /\ m \in 1..next_seq
    BY <2>1, <2>2, <2>3, TakeWindow
  <2>5. ProducersInv' /\ SessionInv'
    BY <1>1, BesidePreserves
  <2>6. WritersInv'
    BY <1>1, <1>4, UplinkPoints DEF WritersInv, Uplink!WriterStates
  <2>7. Held(hand', writer', next_seq)
    <3>1. /\ hand \in [Uplink!Session -> Nat] /\ writer \in [Uplink!Session -> Uplink!WriterStates]
          /\ \A x \in Uplink!Session : hand[x] <= next_seq /\ (writer[x] = "send" => hand[x] # 0)
          /\ next_seq \in Nat
      BY UplinkPoints DEF Held
    <3>2. hand' = [hand EXCEPT ![w] = m] /\ m \in Nat /\ m # 0 /\ m <= next_seq
      BY <1>4, <2>1, <2>4, <3>1
    <3>3. \A x \in Uplink!Session : hand'[x] <= next_seq /\ (writer'[x] = "send" => hand'[x] # 0)
      BY <1>4, <3>1, <3>2
    <3> QED BY <3>1, <3>2, <3>3 DEF Held
  <2>8. Under(chan', next_seq)
    BY <1>1, <1>2
  <2> QED BY <1>1, <2>1, <2>2, <2>4, <2>5, <2>6, <2>7, <2>8 DEF UplinkInv
<1> QED BY <1>3, <1>4 DEF Uplink!Look

\* A writer's other steps.
LEMMA WriterPreserves ==
  ASSUME UplinkInv, NEW w \in Uplink!Session, Uplink!WriterStep(w)
  PROVE  UplinkInv'
<1> USE DEF Uplink!window, Uplink!ready, Uplink!wire
<1>1. permit \in BOOLEAN /\ waiters \in Seq(Uplink!Session) /\ Under(chan, next_seq)
  BY UplinkPoints DEF WritersInv
<1>2. CASE Uplink!Spawn(w)
  <2>1. /\ Uplink!NotifyOne([writer EXCEPT ![w] = "spawned"]) /\ UNCHANGED <<hand, aborted, chan>>
        /\ QuietWindow /\ Beside
    BY <1>2 DEF Uplink!Spawn, QuietWindow, Beside
  <2> QED BY <2>1, HandOnPreserves
<1>3. CASE Uplink!Leave(w)
  <2>1. /\ Uplink!NotifyOne([writer EXCEPT ![w] = "gone"]) /\ UNCHANGED <<hand, aborted, chan>>
        /\ QuietWindow /\ Beside
    BY <1>3 DEF Uplink!Leave, QuietWindow, Beside
  <2> QED BY <2>1, HandOnPreserves
<1>4. CASE Uplink!Poll(w)
  <2>1. /\ permit' = FALSE /\ waiters' = (IF permit THEN waiters ELSE Append(waiters, w))
        /\ writer' = [writer EXCEPT ![w] = IF permit THEN "look" ELSE "parked"]
        /\ UNCHANGED <<hand, aborted, chan>> /\ QuietWindow /\ Beside
    BY <1>4 DEF Uplink!Poll, QuietWindow, Beside
  <2>2. PICK s : s = IF permit THEN "look" ELSE "parked"
    OBVIOUS
  <2>3. s \in Uplink!WriterStates /\ s # "send"
    BY <2>2 DEF Uplink!WriterStates
  <2>4. waiters' \in Seq(Uplink!Session)
    BY <1>1, <2>1, AppendProperties
  <2>5. permit' \in BOOLEAN /\ Under(chan', next_seq)
    BY <1>1, <2>1
  <2> QED BY <2>1, <2>2, <2>3, <2>4, <2>5, WriterRests
<1>5. CASE Uplink!Send(w)
  <2>1. /\ writer[w] = "send" /\ hand' = [hand EXCEPT ![w] = 0]
        /\ UNCHANGED <<permit, waiters, aborted>> /\ QuietWindow /\ Beside
    BY <1>5 DEF Uplink!Send, QuietWindow, Beside
  <2>2. hand[w] \in 1..next_seq /\ hand[w] \in Nat
    <3>1. hand[w] \in Nat /\ hand[w] <= next_seq /\ hand[w] # 0 /\ next_seq \in Nat
      BY <2>1, UplinkPoints DEF Held
    <3> QED BY <3>1
  <2>3. PICK s \in {"look", "gone"} : writer' = [writer EXCEPT ![w] = s]
    BY <1>5 DEF Uplink!Send
  <2>4. s \in Uplink!WriterStates /\ s # "send"
    BY DEF Uplink!WriterStates
  <2>5. Under(chan', next_seq)
    <3>1. CASE chan' = chan
      BY <1>1, <3>1
    <3>2. CASE chan' = Append(chan, hand[w])
      <4>1. PICK q, m : q = chan' /\ m = hand[w] /\ q = Append(chan, m)
        BY <3>2
      <4>2. chan \in Seq(Nat) /\ Len(chan) \in Nat /\ m \in Nat /\ m \in 1..next_seq
        BY <1>1, <2>2, <4>1, LenProperties DEF Under
      <4>3. /\ q \in Seq(Nat) /\ Len(q) = Len(chan) + 1
            /\ (\A i \in 1..Len(chan) : q[i] = chan[i]) /\ q[Len(chan) + 1] = m
        BY <4>1, <4>2, AppendProperties
      <4>4. \A i \in 1..Len(q) : i \in 1..Len(chan) \/ i = Len(chan) + 1
        BY <4>2, <4>3
      <4>5. \A i \in 1..Len(q) : q[i] \in 1..next_seq
        BY <1>1, <4>2, <4>3, <4>4 DEF Under
      <4> QED BY <4>1, <4>3, <4>5 DEF Under
    <3> QED BY <1>5, <3>1, <3>2 DEF Uplink!Send
  <2>6. permit' \in BOOLEAN /\ waiters' \in Seq(Uplink!Session) /\ aborted' = aborted
    BY <1>1, <2>1
  <2> QED BY <2>1, <2>3, <2>4, <2>5, <2>6, WriterRests
<1>6. CASE Uplink!AbortSeen(w)
  <2>1. hand' = [hand EXCEPT ![w] = 0] /\ UNCHANGED <<aborted, chan>> /\ QuietWindow /\ Beside
    BY <1>6 DEF Uplink!AbortSeen, QuietWindow, Beside
  <2>2. CASE Uplink!NotifyOne([writer EXCEPT ![w] = "gone"])
    BY <2>1, <2>2, HandOnPreserves
  <2>3. "gone" \in Uplink!WriterStates /\ Under(chan', next_seq)
    BY <1>1, <2>1 DEF Uplink!WriterStates
  <2>4. CASE writer' = [writer EXCEPT ![w] = "gone"] /\ UNCHANGED <<permit, waiters>>
    BY <1>1, <2>1, <2>3, <2>4, WriterRests
  <2>5. CASE /\ writer' = [writer EXCEPT ![w] = "gone"] /\ permit' = permit
             /\ \E i \in DOMAIN waiters : waiters' = Uplink!RemoveAt(waiters, i)
    <3>1. PICK i \in DOMAIN waiters : waiters' = SubSeq(waiters, 1, i - 1) \o SubSeq(waiters, i + 1, Len(waiters))
      BY <2>5 DEF Uplink!RemoveAt
    <3>2. DOMAIN waiters = 1..Len(waiters) /\ Len(waiters) \in Nat
          /\ \A j \in 1..Len(waiters) : waiters[j] \in Uplink!Session
      BY <1>1, LenProperties, ElementOfSeq
    <3>3. PICK L \in Nat : L = Len(waiters)
      BY <3>2
    <3>4. /\ i - 1 \in Int /\ i + 1 \in Int /\ i \in 1..L
          /\ \A j \in 1..(i - 1) : waiters[j] \in Uplink!Session
          /\ \A j \in (i + 1)..L : waiters[j] \in Uplink!Session
      BY <3>2, <3>3
    <3>5. SubSeq(waiters, 1, i - 1) \in Seq(Uplink!Session)
      BY <3>4, SubSeqProperties
    <3>6. SubSeq(waiters, i + 1, L) \in Seq(Uplink!Session)
      BY <3>4, SubSeqProperties
    <3>7. waiters' \in Seq(Uplink!Session)
      BY <3>1, <3>3, <3>5, <3>6, ConcatProperties
    <3> QED BY <1>1, <2>1, <2>3, <2>5, <3>7, WriterRests
  <2> QED BY <1>6, <2>2, <2>4, <2>5 DEF Uplink!AbortSeen
<1> QED BY <1>2, <1>3, <1>4, <1>5, <1>6, LookPreserves DEF Uplink!WriterStep

\* The controller reads something that has been stamped.
LEMMA ReadsMore ==
  ASSUME UplinkInv, NEW m \in 0..next_seq, Uplink!Reads(m)
  PROVE  delivered' \in 0..next_seq /\ WindowTail(pending, next_seq, delivered')
<1>1. /\ next_seq \in Nat /\ delivered \in 0..next_seq /\ Len(pending) \in Nat
      /\ next_seq - Len(pending) <= delivered
  BY UplinkPoints, Entries DEF UplinkInv, WindowTail
<1>2. PICK e \in 0..next_seq : delivered' = e /\ delivered <= e
  BY <1>1 DEF Uplink!Reads
<1>3. next_seq - Len(pending) <= e
  BY <1>1, <1>2
<1> QED BY <1>1, <1>2, <1>3 DEF UplinkInv, WindowTail

\* A message arrives, or the session ends and part of what was under way arrives.
LEMMA ReadPreserves ==
  ASSUME UplinkInv, Uplink!Receive \/ Uplink!EndSession
  PROVE  UplinkInv'
<1>1. /\ UNCHANGED <<next_seq, pending, cursor, bytes, taken, epoch, closed, permit, waiters, room,
                     producer, writer, hand, acking, closing>>
  BY DEF Uplink!Receive, Uplink!EndSession, Uplink!window, Uplink!ready
<1>2. next_seq \in Nat /\ chan \in Seq(Nat) /\ (\A i \in 1..Len(chan) : chan[i] \in 1..next_seq)
      /\ DOMAIN chan = 1..Len(chan) /\ Len(chan) \in Nat
  BY UplinkPoints, LenProperties DEF Under
<1>3. PICK m \in 0..next_seq : Uplink!Reads(m)
  <2>1. CASE Uplink!Receive
    <3>1. chan # <<>> /\ Uplink!Reads(Head(chan))
      BY <2>1 DEF Uplink!Receive
    <3>2. Head(chan) = chan[1] /\ 1 \in 1..Len(chan)
      BY <1>2, <3>1
    <3> QED BY <1>2, <3>1, <3>2
  <2>2. CASE Uplink!EndSession
    <3>1. PICK k \in {0} \cup {chan[i] : i \in DOMAIN chan} : Uplink!Reads(k)
      BY <2>2 DEF Uplink!EndSession
    <3> QED BY <1>2, <3>1
  <2> QED BY <2>1, <2>2
<1>4. WindowTail(pending, next_seq, delivered')
  BY <1>3, ReadsMore
<1>5. Under(chan', next_seq)
  <2>1. CASE Uplink!Receive
    <3>1. chan # <<>> /\ chan' = Tail(chan)
      BY <2>1 DEF Uplink!Receive
    <3>2. PICK q : q = chan' /\ q = Tail(chan)
      BY <3>1
    <3>3. q \in Seq(Nat) /\ Len(q) = Len(chan) - 1 /\ \A i \in 1..Len(q) : q[i] = chan[i + 1]
      BY <1>2, <3>1, <3>2, HeadTailProperties
    <3>4. \A i \in 1..Len(q) : i + 1 \in 1..Len(chan)
      BY <1>2, <3>3
    <3> QED BY <1>2, <3>2, <3>3, <3>4 DEF Under
  <2>2. CASE Uplink!EndSession
    <3>1. chan' = <<>>
      BY <2>2 DEF Uplink!EndSession
    <3> QED BY <3>1 DEF Under
  <2> QED BY <2>1, <2>2
<1>6. ProducersInv'
  BY <1>1, UplinkPoints DEF ProducersInv
<1>7. aborted' \subseteq Uplink!Session /\ cur' \in {0} \cup Uplink!Session
  <2>1. aborted \subseteq Uplink!Session /\ cur \in {0} \cup Uplink!Session
    BY UplinkPoints DEF WritersInv, SessionInv
  <2>2. CASE Uplink!Receive
    BY <2>1, <2>2 DEF Uplink!Receive
  <2>3. CASE Uplink!EndSession
    BY <2>1, <2>3 DEF Uplink!EndSession
  <2> QED BY <2>2, <2>3
<1>8. WritersInv' /\ SessionInv'
  BY <1>1, <1>7, UplinkPoints DEF WritersInv, SessionInv
<1>9. Held(hand', writer', next_seq)
  BY <1>1, UplinkPoints
<1>10. WindowBudget(pending, bytes) /\ WindowSplit(pending, next_seq, cursor, taken)
  BY DEF UplinkInv
<1> QED BY <1>1, <1>4, <1>5, <1>6, <1>8, <1>9, <1>10 DEF UplinkInv

\* A session opens: the cursor goes back to the start of the window.
LEMMA RewindPreserves ==
  ASSUME UplinkInv, Uplink!Rewind
  PROVE  UplinkInv'
<1>1. /\ epoch < MaxSession /\ epoch' = epoch + 1 /\ cursor' = 0 /\ taken' = {} /\ cur' = epoch + 1
      /\ writer' = [writer EXCEPT ![epoch + 1] = "rewound"]
      /\ UNCHANGED <<next_seq, pending, bytes, closed, permit, waiters, room, producer, hand,
                     aborted, chan, delivered, acking, closing>>
  BY DEF Uplink!Rewind, Uplink!ready
<1>2. epoch \in 0..MaxSession /\ MaxSession \in Nat /\ Uplink!Session = 1..MaxSession
  BY UplinkPoints, WindowConstants DEF SessionInv
<1>3. PICK w \in Uplink!Session : w = epoch + 1 /\ w \in 0..MaxSession
  BY <1>1, <1>2
<1>4. WindowSplit(pending, next_seq, 0, {})
  BY UplinkPoints, Entries DEF WindowSplit
<1>5. "rewound" \in Uplink!WriterStates /\ "rewound" # "send"
  BY DEF Uplink!WriterStates
<1>6. WritersInv'
  BY <1>1, <1>3, <1>5, UplinkPoints DEF WritersInv
<1>7. SessionInv'
  BY <1>1, <1>3, UplinkPoints DEF SessionInv
<1>8. ProducersInv'
  BY <1>1, UplinkPoints DEF ProducersInv
<1>9. \A x \in Uplink!Session : writer'[x] = "send" => writer[x] = "send"
  BY <1>1, <1>3, <1>5, UplinkPoints
<1>10. Held(hand', writer', next_seq) /\ Under(chan', next_seq)
  BY <1>1, <1>9, UplinkPoints DEF Held
<1>11. WindowTail(pending, next_seq, delivered) /\ WindowBudget(pending, bytes)
  BY DEF UplinkInv
<1> QED BY <1>1, <1>4, <1>6, <1>7, <1>8, <1>10, <1>11 DEF UplinkInv

\* The sums of the window's module are those of the lemmas.
LEMMA WindowSums ==
  /\ \A f, S : Uplink!SumFunctionOnSet(f, S) = SumFunctionOnSet(f, S)
  /\ UplinkInv => Uplink!Reserved = Bytes(pending)
<1>1. \A f, S : Uplink!SumFunctionOnSet(f, S) = SumFunctionOnSet(f, S)
  BY Zenon DEF Uplink!SumFunctionOnSet, SumFunctionOnSet, Uplink!FoldFunctionOnSet,
     FoldFunctionOnSet, Uplink!MapThenFoldSet, MapThenFoldSet
<1>2. ASSUME UplinkInv PROVE Uplink!Reserved = Bytes(pending)
  <2>1. DOMAIN pending = 1..Len(pending)
    BY <1>2, UplinkPoints, Entries
  <2> QED BY <2>1 DEF Uplink!Reserved, Bytes
<1> QED BY <1>1, <1>2

\* An acknowledgement.
LEMMA AckPreserves ==
  ASSUME UplinkInv, NEW m \in 1..MaxSeq, Uplink!Ack(m)
  PROVE  UplinkInv'
<1>1. PICK k : /\ k = Uplink!Retired(m) /\ k > 0 /\ (m <= delivered \/ m = next_seq + 1)
               /\ pending' = SubSeq(pending, k + 1, Len(pending))
               /\ bytes' = bytes - Uplink!Freed(k) /\ cursor' = Uplink!Shortened(k) /\ acking' = TRUE
               /\ UNCHANGED <<next_seq, epoch, closed, permit, waiters, room, producer, writer, hand,
                              aborted, chan, cur, delivered, closing, taken>>
  BY DEF Uplink!Ack, Uplink!ready, Uplink!wire
<1>2. next_seq \in Nat /\ delivered \in 0..next_seq /\ m \in Nat /\ pending \in Seq(Uplink!Entry)
      /\ bytes \in Nat /\ cursor \in 0..Len(pending)
  BY UplinkPoints, WindowConstants
<1>3. ~(m > next_seq) /\ m \in 0..delivered
  <2>1. m > next_seq => k = 0
    BY <1>1 DEF Uplink!Retired
  <2> QED BY <1>1, <1>2, <2>1
<1>4. k = Cardinality(Acked(pending, m))
  <2>1. \A S : Uplink!Cardinality(S) = Cardinality(S)
    BY Zenon DEF Uplink!Cardinality, Cardinality, Uplink!IsFiniteSet, IsFiniteSet
  <2>2. k = Uplink!Cardinality(Acked(pending, m))
    BY <1>1, <1>3, Zenon DEF Uplink!Retired, Acked
  <2> QED BY <2>1, <2>2
<1>5. /\ WindowTail(pending, next_seq, delivered) /\ WindowBudget(pending, bytes)
      /\ WindowSplit(pending, next_seq, cursor, taken)
  BY DEF UplinkInv
<1>6. /\ Cardinality(Acked(pending, m)) \in 0..Len(pending)
      /\ Cardinality(Acked(pending, m)) > 0 =>
           next_seq - Len(pending) + Cardinality(Acked(pending, m)) = m
  BY <1>3, <1>5, RetiredEntries
<1>7. k \in 1..Len(pending) /\ next_seq - Len(pending) + k <= delivered
  <2>1. k \in 0..Len(pending) /\ next_seq - Len(pending) + k = m
    BY <1>1, <1>4, <1>6
  <2>2. k \in Nat
    BY <1>1, <2>1
  <2> QED BY <1>1, <1>3, <2>1, <2>2
<1>8. PICK q, e, x : q = pending' /\ e = bytes' /\ x = cursor'
  OBVIOUS
<1>9. Rest(pending, q, k)
  BY <1>1, <1>2, <1>7, <1>8, RestOf
<1>10. e = bytes - SumFunctionOnSet(Bytes(pending), 1..k)
  BY <1>1, <1>8, WindowSums DEF Uplink!Freed
<1>11. x = IF cursor > k THEN cursor - k ELSE 0
  BY <1>1, <1>8 DEF Uplink!Shortened
<1>12. WindowTail(q, next_seq, delivered)
  BY <1>5, <1>7, <1>9, AckTail
<1>13. WindowBudget(q, e)
  BY <1>2, <1>5, <1>7, <1>9, <1>10, AckBudget
<1>14. WindowSplit(q, next_seq, x, taken)
  BY <1>2, <1>5, <1>7, <1>9, <1>11, AckSplit
<1>15. ProducersInv' /\ WritersInv' /\ SessionInv'
  BY <1>1, UplinkPoints DEF ProducersInv, WritersInv, SessionInv
<1>16. Held(hand', writer', next_seq) /\ Under(chan', next_seq)
  BY <1>1, UplinkPoints
<1> QED BY <1>1, <1>8, <1>12, <1>13, <1>14, <1>15, <1>16 DEF UplinkInv

\* notify_waiters, and the close.
LEMMA TellPreserves ==
  ASSUME UplinkInv, Uplink!TellProducers \/ Uplink!CloseTellsProducers \/ Uplink!Close
  PROVE  UplinkInv'
<1>1. UNCHANGED <<next_seq, pending, cursor, bytes, epoch, permit, waiters, producer, writer, hand,
                  aborted, chan, cur, delivered, taken>>
  BY DEF Uplink!TellProducers, Uplink!CloseTellsProducers, Uplink!Close, Uplink!window,
     Uplink!ready, Uplink!wire
<1>2. room' \in [Producer -> {"none", "waiting", "notified"}]
  BY UplinkPoints DEF Uplink!TellProducers, Uplink!CloseTellsProducers, Uplink!Close,
     Uplink!NotifyWaiters
<1>3. SessionInv
  BY UplinkPoints
<1>4. closed' \in BOOLEAN /\ acking' \in BOOLEAN
  <2>1. CASE Uplink!TellProducers
    BY <1>3, <2>1 DEF Uplink!TellProducers, Uplink!window, SessionInv
  <2>2. CASE Uplink!CloseTellsProducers
    BY <1>3, <2>2 DEF Uplink!CloseTellsProducers, Uplink!window, SessionInv
  <2>3. CASE Uplink!Close
    BY <1>3, <2>3 DEF Uplink!Close, SessionInv
  <2> QED BY <2>1, <2>2, <2>3
<1>5. closing' \in {"open", "writer", "producers", "over"}
  BY <1>3 DEF Uplink!TellProducers, Uplink!CloseTellsProducers, Uplink!Close, SessionInv
<1>6. SessionInv'
  BY <1>1, <1>3, <1>4, <1>5 DEF SessionInv
<1>7. ProducersInv' /\ WritersInv'
  BY <1>1, <1>2, UplinkPoints DEF ProducersInv, WritersInv
<1>8. Held(hand', writer', next_seq) /\ Under(chan', next_seq)
  BY <1>1, UplinkPoints
<1> QED BY <1>1, <1>6, <1>7, <1>8, QuietPreserves DEF QuietWindow

\* The close wakes the writer.
LEMMA CloseTellsWriterPreserves ==
  ASSUME UplinkInv, Uplink!CloseTellsWriter
  PROVE  UplinkInv'
<1>1. /\ closing' = "producers" /\ Uplink!NotifyOne(writer) /\ QuietWindow
      /\ UNCHANGED <<epoch, closed, room, producer, hand, aborted, chan, cur, acking>>
  BY DEF Uplink!CloseTellsWriter, Uplink!window, Uplink!wire, QuietWindow
<1>2. SessionInv'
  BY <1>1, UplinkPoints DEF SessionInv
<1>3. ProducersInv'
  BY <1>1, UplinkPoints DEF ProducersInv, QuietWindow
<1>4. hand' \in [Uplink!Session -> Nat] /\ \A w \in Uplink!Session : hand'[w] = hand[w]
  BY <1>1, UplinkPoints DEF Held
<1> QED BY <1>1, <1>2, <1>3, <1>4, UplinkPoints, NotifyPreserves

\* The window starts and stays within its invariant.
LEMMA InitUplink ==
  ASSUME Uplink!Init
  PROVE  UplinkInv
<1>1. /\ next_seq = 0 /\ pending = <<>> /\ cursor = 0 /\ bytes = 0 /\ delivered = 0 /\ taken = {}
      /\ epoch = 0 /\ closed = FALSE /\ permit = FALSE /\ waiters = <<>> /\ aborted = {}
      /\ chan = <<>> /\ cur = 0 /\ acking = FALSE /\ closing = "open"
      /\ room = [p \in Producer |-> "none"] /\ producer = [p \in Producer |-> "idle"]
      /\ writer = [w \in Uplink!Session |-> "unborn"] /\ hand = [w \in Uplink!Session |-> 0]
  BY DEF Uplink!Init
<1>2. pending \in Seq(Uplink!Entry) /\ Len(pending) = 0 /\ 1..0 = {}
  BY <1>1, EmptySeq
<1>3. WindowTail(pending, next_seq, delivered)
  BY <1>1, <1>2 DEF WindowTail
<1>4. WindowBudget(pending, bytes)
  <2>1. SumFunctionOnSet(Bytes(pending), 1..Len(pending)) = 0
    BY <1>2, SumEmpty
  <2> QED BY <1>1, <1>2, <2>1, WindowConstants DEF WindowBudget
<1>5. WindowSplit(pending, next_seq, cursor, taken)
  BY <1>1, <1>2 DEF WindowSplit
<1>6. ProducersInv
  <2>1. Those(Producer, producer, Busy) = {}
    BY <1>1 DEF Those, Busy
  <2>2. next_seq + Cardinality(Those(Producer, producer, Busy)) <= MaxSeq
    <3>1. Cardinality(Those(Producer, producer, Busy)) = 0 /\ MaxSeq \in Nat
      BY <2>1, FS_EmptySet, WindowConstants
    <3> QED BY <1>1, <3>1
  <2> QED BY <1>1, <2>2 DEF ProducersInv, Uplink!ProducerStates
<1>7. WritersInv
  <2>1. waiters \in Seq(Uplink!Session) /\ aborted \subseteq Uplink!Session
    BY <1>1, EmptySeq
  <2> QED BY <1>1, <2>1 DEF WritersInv, Uplink!WriterStates
<1>8. SessionInv
  <2>1. epoch \in 0..MaxSession
    BY <1>1, WindowConstants
  <2> QED BY <1>1, <2>1 DEF SessionInv
<1>9. Held(hand, writer, next_seq) /\ Under(chan, next_seq)
  BY <1>1, EmptySeq DEF Held, Under
<1> QED BY <1>3, <1>4, <1>5, <1>6, <1>7, <1>8, <1>9 DEF UplinkInv

\* Every step of the specification keeps the window's invariant.
LEMMA StepUplink ==
  ASSUME UplinkInv, [Next]_vars
  PROVE  UplinkInv'
<1>1. CASE UNCHANGED uplink
  <2>1. QuietWindow /\ Beside /\ UNCHANGED <<permit, waiters, writer, hand, aborted, chan>>
    BY <1>1 DEF uplink, QuietWindow, Beside
  <2>2. ProducersInv' /\ SessionInv'
    BY <2>1, BesidePreserves DEF QuietWindow
  <2>3. WritersInv'
    BY <2>1, UplinkPoints DEF WritersInv
  <2>4. Held(hand', writer', next_seq) /\ Under(chan', next_seq)
    BY <2>1, UplinkPoints
  <2> QED BY <2>1, <2>2, <2>3, <2>4, QuietPreserves
<1>2. CASE Uplink!Next
  BY <1>2, ProducerPreserves, WriterPreserves, ReadPreserves, RewindPreserves, AckPreserves,
     TellPreserves, CloseTellsWriterPreserves DEF Uplink!Next
<1> QED BY <1>1, <1>2 DEF Next, vars

\* The invariant holds in every reachable state.
LEMMA UplinkInvariant == Spec => []UplinkInv
<1>1. Init => UplinkInv
  BY InitUplink DEF Init
<1>2. UplinkInv /\ [Next]_vars => UplinkInv'
  BY StepUplink
<1> QED
  BY <1>1, <1>2, PTL DEF Spec

\* The window is the unacknowledged tail of the sequence, its byte count is the sum
\* of what its entries reserved (so ack gives back what push took), and it exceeds a
\* budget by at most the message that reached it: for any budgets, sizes, producers
\* and sessions.
THEOREM WindowTheorem == Spec => []WindowExact
<1>1. ASSUME UplinkInv PROVE WindowExact
  <2>1. next_seq \in Nat /\ MaxSeq \in Nat /\ next_seq <= MaxSeq
    <3>1. IsFiniteSet(Those(Producer, producer, Busy))
      BY WindowConstants, FS_Subset DEF Those
    <3>2. Cardinality(Those(Producer, producer, Busy)) \in Nat
      BY <3>1, FS_CardinalityType
    <3>3. next_seq + Cardinality(Those(Producer, producer, Busy)) <= MaxSeq
      BY <1>1 DEF UplinkInv, ProducersInv
    <3> QED BY <1>1, <3>2, <3>3, UplinkPoints, WindowConstants
  <2>2. pending \in Seq(Uplink!Entry) /\ DOMAIN pending = 1..Len(pending) /\ Len(pending) \in Nat
    BY <1>1, UplinkPoints, Entries
  <2>3. Uplink!TypeOK
    <3>1. next_seq \in 0..MaxSeq /\ delivered \in 0..MaxSeq /\ bytes \in Nat /\ cursor \in Nat
      BY <1>1, <2>1, <2>2, UplinkPoints
    <3>2. hand \in [Uplink!Session -> 0..MaxSeq]
      BY <1>1, <2>1 DEF UplinkInv, Held
    <3>3. chan \in Seq(1..MaxSeq)
      <4>1. chan \in [1..Len(chan) -> Nat] /\ Len(chan) \in Nat
            /\ \A i \in 1..Len(chan) : chan[i] \in 1..next_seq
        BY <1>1, LenProperties DEF UplinkInv, Under
      <4>2. chan \in [1..Len(chan) -> 1..MaxSeq]
        BY <2>1, <4>1
      <4> QED BY <4>1, <4>2, SeqDef
    <3>4. taken \subseteq 1..MaxSeq
      BY <1>1, <2>1 DEF UplinkInv, WindowSplit
    <3> QED BY <1>1, <2>2, <3>1, <3>2, <3>3, <3>4
            DEF UplinkInv, ProducersInv, WritersInv, SessionInv, Uplink!TypeOK
  <2>4. (\A i \in DOMAIN pending : pending[i].seq = next_seq - Len(pending) + i)
        /\ next_seq - Len(pending) <= delivered
    BY <1>1, <2>2 DEF UplinkInv, WindowTail
  <2>5. bytes = Uplink!SumFunction(Uplink!Reserved)
    <3>1. Uplink!Reserved = Bytes(pending) /\ DOMAIN Bytes(pending) = 1..Len(pending)
      BY <1>1, WindowSums DEF Bytes
    <3>2. Uplink!SumFunction(Uplink!Reserved) = SumFunctionOnSet(Bytes(pending), 1..Len(pending))
      BY <3>1, WindowSums, Zenon DEF Uplink!SumFunction
    <3> QED BY <1>1, <3>2 DEF UplinkInv, WindowBudget
  <2>6. Len(pending) <= MaxMessages /\ (pending # <<>> => bytes - pending[Len(pending)].bytes < MaxBytes)
    <3>1. pending # <<>> => Len(pending) > 0
      BY <2>2
    <3> QED BY <1>1, <3>1 DEF UplinkInv, WindowBudget
  <2> QED BY <2>3, <2>4, <2>5, <2>6 DEF WindowExact, Uplink!WindowExact
<1> QED
  BY <1>1, UplinkInvariant, PTL

\* The cursor splits the window into what the writer of the current session has taken
\* and what it has not, whatever a superseded writer does and however the window is
\* shortened under it.
THEOREM CursorTheorem == Spec => []CursorTrue
<1>1. ASSUME UplinkInv PROVE CursorTrue
  <2>1. DOMAIN pending = 1..Len(pending)
    BY <1>1, UplinkPoints, Entries
  <2> QED BY <1>1, <2>1 DEF UplinkInv, WindowSplit, CursorTrue, Uplink!CursorTrue
<1> QED
  BY <1>1, UplinkInvariant, PTL

-----------------------------------------------------------------------------
(* The containers of a plan. *)

\* c is in the sequence q.
In(c, q) == \E i \in 1..Len(q) : q[i] = c

\* Append adds its element and no other.
LEMMA InAppend ==
  ASSUME NEW S, NEW q \in Seq(S), NEW e \in S, NEW c
  PROVE  In(c, Append(q, e)) <=> (In(c, q) \/ c = e)
<1>1. PICK r : r = Append(q, e)
  OBVIOUS
<1>2. PICK L \in Nat : L = Len(q)
  BY LenProperties
<1>3. Len(r) = L + 1 /\ (\A i \in 1..L : r[i] = q[i]) /\ r[L + 1] = e
  BY <1>1, <1>2, AppendProperties
<1>4. 1..(L + 1) = 1..L \cup {L + 1}
  OBVIOUS
<1>5. In(c, r) <=> \E i \in 1..L \cup {L + 1} : r[i] = c
  BY <1>3, <1>4 DEF In
<1>6. In(c, q) <=> \E i \in 1..L : q[i] = c
  BY <1>2 DEF In
<1> QED BY <1>1, <1>3, <1>5, <1>6

\* Tail drops the first element and no other.
LEMMA InTail ==
  ASSUME NEW S, NEW q \in Seq(S), q # <<>>, NEW c, In(c, q)
  PROVE  c = Head(q) \/ In(c, Tail(q))
<1>1. PICK L \in Nat : L = Len(q)
  BY LenProperties
<1>2. PICK i \in 1..L : q[i] = c
  BY <1>1 DEF In
<1>3. PICK r : r = Tail(q)
  OBVIOUS
<1>4. Len(r) = L - 1 /\ \A j \in 1..Len(r) : r[j] = q[j + 1]
  BY <1>1, <1>3, HeadTailProperties
<1>5. CASE i = 1
  BY <1>2, <1>5
<1>6. CASE i # 1
  <2>1. i - 1 \in 1..Len(r) /\ (i - 1) + 1 = i
    BY <1>2, <1>4, <1>6
  <2>2. r[i - 1] = c
    BY <1>2, <1>4, <2>1
  <2> QED BY <1>3, <2>1, <2>2 DEF In
<1> QED BY <1>5, <1>6

\* A concatenation has the elements of both parts.
LEMMA InConcat ==
  ASSUME NEW S, NEW q \in Seq(S), NEW r \in Seq(S), NEW c, In(c, q) \/ In(c, r)
  PROVE  In(c, q \o r)
<1>1. PICK L \in Nat, M \in Nat : L = Len(q) /\ M = Len(r)
  BY LenProperties
<1>2. PICK z : z = q \o r
  OBVIOUS
<1>3. Len(z) = L + M /\ \A i \in 1..(L + M) : z[i] = IF i <= L THEN q[i] ELSE r[i - L]
  BY <1>1, <1>2, ConcatProperties
<1>4. ASSUME NEW i \in 1..L, q[i] = c PROVE In(c, z)
  <2>1. i \in 1..(L + M) /\ i <= L
    OBVIOUS
  <2>2. z[i] = c
    BY <1>3, <1>4, <2>1
  <2> QED BY <1>3, <2>1, <2>2 DEF In
<1>5. ASSUME NEW i \in 1..M, r[i] = c PROVE In(c, z)
  <2>1. PICK k : k = L + i
    OBVIOUS
  <2>2. k \in 1..(L + M) /\ ~(k <= L) /\ k - L = i
    BY <2>1
  <2>3. z[k] = c
    BY <1>3, <1>5, <2>2
  <2> QED BY <1>3, <2>2, <2>3 DEF In
<1> QED BY <1>1, <1>2, <1>4, <1>5 DEF In

\* The types.
BuildSteps == {"create", "pull", "retry", "bring_running", "started", "undo"}
DockerTypes ==
  /\ phase \in {"build", "run", "report", "serve", "stop"} \cup Docker!Over
  /\ step \in BuildSteps /\ ctrl_c \in {"none", "first", "second", "exiting"}
  /\ service \in 1..Services /\ exists \subseteq Docker!Container /\ ready \subseteq Docker!Container
  /\ launched \in Seq(Docker!Container) /\ victims \in Seq(Docker!Container)
  /\ started \in [1..Services -> Seq(Docker!Container)]

\* Service s is up and stop() will find all of its containers.
Recorded(s) == \A j \in 1..Each : In(<<s, j>>, started[s])
Up(s) == \A j \in 1..Each : <<s, j>> \in exists /\ <<s, j>> \in ready

\* While services are started: those before the one at hand are up and recorded, the
\* one at hand is up as far as its containers have been launched, and beyond them it
\* has only the container that is being brought up.
LaunchInv ==
  phase = "build" =>
    /\ Len(launched) <= Each /\ \A j \in 1..Len(launched) : launched[j] = <<service, j>>
    /\ step = "started" => Len(launched) = Each
    /\ step \in {"create", "pull", "retry", "bring_running"} => Len(launched) < Each
    /\ step # "undo" =>
         /\ \A s \in 1..Services : s < service => Up(s) /\ Recorded(s)
         /\ \A j \in 1..Len(launched) : <<service, j>> \in exists /\ <<service, j>> \in ready
         /\ \A c \in exists : c[1] <= service
         /\ \A c \in exists : c[1] = service =>
              c[2] <= Len(launched) \/ (step = "bring_running" /\ c[2] = Len(launched) + 1)
    /\ step = "bring_running" => <<service, Len(launched) + 1>> \in exists

\* A failed start is undone; a run finds everything; a stop leaves nothing behind.
UndoInv ==
  step = "undo" =>
    /\ phase \in {"build", "errored"} =>
         \A c \in exists : c[1] = service => In(c, victims) \/ c \in refused \cup unknown
    /\ phase = "errored" => victims = <<>>
UpInv ==
  /\ phase \in {"run", "report", "serve", "stop"} =>
       step # "undo" /\ \A s \in 1..Services : Recorded(s)
  /\ phase \in {"run", "report", "serve"} => \A s \in 1..Services : Up(s)
StopInv ==
  /\ phase = "stop" =>
       \A c \in exists : c \in refused \/ In(c, victims) \/ c[1] > service
  /\ phase = "returned" => exists \subseteq refused

DockerInv == DockerTypes /\ LaunchInv /\ UndoInv /\ UpInv /\ StopInv

\* Containers.
LEMMA Containers ==
  /\ Services \in Nat \ {0} /\ Each \in Nat \ {0}
  /\ Docker!Container = (1..Services) \X (1..Each)
  /\ \A c \in Docker!Container : c[1] \in 1..Services /\ c[2] \in 1..Each /\ c = <<c[1], c[2]>>
  /\ \A s \in 1..Services, j \in 1..Each : <<s, j>> \in Docker!Container
BY PartsAssumption DEF Docker!FixturesAssumption, Docker!Container

\* A process that is over, or exits, keeps the invariant.
LEMMA KilledPreserves ==
  ASSUME DockerInv, phase' \in {"killed", phase}, ctrl_c' \in {"none", "first", "second", "exiting"},
         UNCHANGED <<service, step, launched, started, victims, exists, ready, refused, unknown>>
  PROVE  DockerInv'
<1> USE DEF DockerInv
<1>1. DockerTypes'
  BY DEF DockerTypes, Docker!Over
<1>2. LaunchInv'
  BY DEF LaunchInv, Up, Recorded
<1>3. UndoInv' /\ UpInv' /\ StopInv'
  BY DEF UndoInv, UpInv, StopInv, Up, Recorded
<1> QED BY <1>1, <1>2, <1>3

\* The container at hand.
LEMMA CurrentContainer ==
  ASSUME DockerInv, phase = "build", step \in {"create", "pull", "retry", "bring_running"}
  PROVE  /\ Docker!Current = <<service, Len(launched) + 1>> /\ Docker!Current \in Docker!Container
         /\ Docker!Current[1] = service /\ Docker!Current[2] = Len(launched) + 1
         /\ Len(launched) \in Nat /\ Len(launched) + 1 \in 1..Each
<1>1. Len(launched) \in Nat /\ Len(launched) < Each /\ service \in 1..Services
  BY LenProperties DEF DockerInv, DockerTypes, LaunchInv
<1>2. Len(launched) + 1 \in 1..Each
  BY <1>1, Containers
<1> QED BY <1>1, <1>2, Containers DEF Docker!Current

\* What is launched is up, in the sequence launched.
LEMMA LaunchedIn ==
  ASSUME DockerInv, phase = "build", NEW j \in 1..Len(launched)
  PROVE  In(<<service, j>>, launched)
BY DEF In, DockerInv, LaunchInv

\* A start fails: everything of the service at hand is to be removed, but for a
\* container whose creation was not confirmed.
LEMMA UndoPreserves ==
  ASSUME DockerInv, phase = "build", step \in {"create", "pull", "retry", "bring_running"},
         NEW b \in BOOLEAN, b <=> step = "bring_running", Docker!Undo(b),
         \/ UNCHANGED <<exists, unknown>>
         \/ /\ exists' = exists \cup {Docker!Current}
            /\ unknown' = unknown \cup {Docker!Current},
         UNCHANGED <<phase, service, launched, started, ready, refused, ctrl_c>>
  PROVE  DockerInv'
<1> USE DEF DockerInv
<1>1. /\ Docker!Current \in Docker!Container /\ Docker!Current[1] = service
      /\ Docker!Current = <<service, Len(launched) + 1>> /\ Len(launched) \in Nat
  BY CurrentContainer
<1>2. PICK u, v : u = (IF b THEN <<Docker!Current>> ELSE <<>>) /\ v = victims' /\ v = u \o launched
                  /\ step' = "undo"
  BY DEF Docker!Undo
<1>3. u \in Seq(Docker!Container) /\ launched \in Seq(Docker!Container) /\ (b => In(Docker!Current, u))
  BY <1>1, <1>2 DEF DockerTypes, In
<1>4. v \in Seq(Docker!Container) /\ \A c : In(c, u) \/ In(c, launched) => In(c, v)
  <2>1. v \in Seq(Docker!Container)
    BY <1>2, <1>3, ConcatProperties
  <2>2. ASSUME NEW c, In(c, u) \/ In(c, launched) PROVE In(c, u \o launched)
    BY <1>3, <2>2, InConcat
  <2> QED BY <1>2, <2>1, <2>2
<1>5. exists \subseteq exists' /\ exists' \subseteq exists \cup {Docker!Current}
      /\ unknown \subseteq unknown' /\ (exists' # exists => Docker!Current \in unknown')
  OBVIOUS
<1>6. DockerTypes'
  BY <1>1, <1>2, <1>4, <1>5 DEF DockerTypes, BuildSteps
<1>7. LaunchInv'
  BY <1>2, <1>5 DEF LaunchInv, Up, Recorded
<1>8. UndoInv'
  <2>1. ASSUME NEW c \in exists', c[1] = service PROVE In(c, v) \/ c \in refused \cup unknown'
    <3>1. CASE c \notin exists
      BY <1>5, <2>1, <3>1
    <3>2. CASE c \in exists
      <4>1. c[2] <= Len(launched) \/ (b /\ c[2] = Len(launched) + 1)
        BY <2>1, <3>2 DEF LaunchInv
      <4>2. c = <<service, c[2]>> /\ c[2] \in 1..Each
        BY <2>1, <3>2, Containers DEF DockerTypes
      <4>3. CASE c[2] <= Len(launched)
        <5>1. c[2] \in 1..Len(launched)
          BY <1>1, <4>2, <4>3, Containers
        <5>2. In(<<service, c[2]>>, launched)
          BY <5>1, LaunchedIn
        <5> QED BY <1>4, <4>2, <5>2
      <4>4. CASE b /\ c[2] = Len(launched) + 1
        BY <1>1, <1>3, <1>4, <4>2, <4>4
      <4> QED BY <4>1, <4>3, <4>4
    <3> QED BY <3>1, <3>2
  <2> QED BY <1>2, <2>1 DEF UndoInv
<1>9. UpInv' /\ StopInv'
  BY DEF UpInv, StopInv
<1> QED BY <1>6, <1>7, <1>8, <1>9

\* create, and the pull before its retry.
LEMMA CreatePreserves ==
  ASSUME DockerInv, Docker!Create \/ Docker!Pull
  PROVE  DockerInv'
<1> USE DEF DockerInv
<1>1. /\ phase = "build" /\ step \in {"create", "pull", "retry"}
      /\ UNCHANGED <<phase, service, launched, started, ready, refused, ctrl_c>>
  BY DEF Docker!Create, Docker!Pull, Docker!signals, Docker!docker
<1>2. CASE Docker!Undo(FALSE) /\ (\/ UNCHANGED <<exists, unknown>>
                                  \/ /\ exists' = exists \cup {Docker!Current}
                                     /\ unknown' = unknown \cup {Docker!Current})
  BY <1>1, <1>2, UndoPreserves
<1>3. CASE step' \in {"pull", "retry"} /\ UNCHANGED <<victims, exists, unknown>>
  <2>1. DockerTypes'
    BY <1>1, <1>3 DEF DockerTypes, BuildSteps
  <2>2. LaunchInv'
    BY <1>1, <1>3 DEF LaunchInv, Up, Recorded
  <2>3. UndoInv' /\ UpInv' /\ StopInv'
    BY <1>1, <1>3 DEF UndoInv, UpInv, StopInv
  <2> QED BY <2>1, <2>2, <2>3
<1>4. CASE exists' = exists \cup {Docker!Current} /\ step' = "bring_running" /\ UNCHANGED <<victims, unknown>>
  <2>1. /\ Docker!Current \in Docker!Container /\ Docker!Current[1] = service
        /\ Docker!Current[2] = Len(launched) + 1
        /\ Docker!Current = <<service, Len(launched) + 1>> /\ Len(launched) \in Nat
    BY <1>1, CurrentContainer
  <2>2. DockerTypes'
    BY <1>1, <1>4, <2>1 DEF DockerTypes, BuildSteps
  <2>3. LaunchInv'
    <3>1. /\ \A j \in 1..Len(launched) : <<service, j>> \in exists' /\ <<service, j>> \in ready
          /\ \A s \in 1..Services : s < service => Up(s)' /\ Recorded(s)'
      BY <1>1, <1>4 DEF LaunchInv, Up, Recorded
    <3>2. \A c \in exists' : c[1] <= service
      BY <1>1, <1>4, <2>1 DEF LaunchInv, DockerTypes
    <3>3. \A c \in exists' : c[1] = service => c[2] <= Len(launched) \/ c[2] = Len(launched) + 1
      BY <1>1, <1>4, <2>1 DEF LaunchInv
    <3> QED BY <1>1, <1>4, <2>1, <3>1, <3>2, <3>3 DEF LaunchInv
  <2>4. UndoInv' /\ UpInv' /\ StopInv'
    BY <1>1, <1>4 DEF UndoInv, UpInv, StopInv
  <2> QED BY <2>2, <2>3, <2>4
<1> QED BY <1>1, <1>2, <1>3, <1>4 DEF Docker!Create, Docker!Pull, Docker!docker

\* bring_running.
LEMMA BringPreserves ==
  ASSUME DockerInv, Docker!BringRunning
  PROVE  DockerInv'
<1> USE DEF DockerInv
<1>1. /\ phase = "build" /\ step = "bring_running"
      /\ UNCHANGED <<phase, service, started, exists, unknown, refused, ctrl_c>>
  BY DEF Docker!BringRunning, Docker!signals
<1>2. CASE Docker!Undo(TRUE) /\ UNCHANGED <<launched, ready>>
  BY <1>1, <1>2, UndoPreserves
<1>3. CASE /\ ready' = ready \cup {Docker!Current} /\ launched' = Append(launched, Docker!Current)
           /\ step' = (IF Len(launched') = Each THEN "started" ELSE "create") /\ UNCHANGED victims
  <2>1. /\ Docker!Current \in Docker!Container
        /\ Docker!Current = <<service, Len(launched) + 1>> /\ Len(launched) + 1 \in 1..Each
    BY <1>1, CurrentContainer
  <2>2. PICK L, q : L \in Nat /\ L = Len(launched) /\ q = launched' /\ q = Append(launched, Docker!Current)
    BY <1>1, <1>3, CurrentContainer
  <2> L \in Nat
    BY <2>2
  <2>3. /\ q \in Seq(Docker!Container) /\ Len(q) = L + 1
        /\ (\A i \in 1..L : q[i] = launched[i]) /\ q[L + 1] = Docker!Current
    BY <2>1, <2>2, AppendProperties DEF DockerTypes
  <2>4. \A j \in 1..(L + 1) : j \in 1..L \/ j = L + 1
    OBVIOUS
  <2>5. DockerTypes'
    BY <1>1, <1>3, <2>1, <2>2, <2>3 DEF DockerTypes, BuildSteps
  <2>6. \A j \in 1..(L + 1) : q[j] = <<service, j>>
    <3>1. \A j \in 1..L : launched[j] = <<service, j>>
      BY <1>1, <2>2 DEF LaunchInv
    <3> QED BY <2>1, <2>2, <2>3, <2>4, <3>1
  <2>7. \A j \in 1..(L + 1) : <<service, j>> \in exists /\ <<service, j>> \in ready'
    <3>1. \A j \in 1..L : <<service, j>> \in exists /\ <<service, j>> \in ready
      BY <1>1, <2>2 DEF LaunchInv
    <3>2. <<service, L + 1>> \in exists
      BY <1>1, <2>2 DEF LaunchInv
    <3> QED BY <1>3, <2>1, <2>2, <2>4, <3>1, <3>2
  <2>8. LaunchInv'
    <3>1. L + 1 <= Each /\ (L + 1 # Each => L + 1 < Each)
      BY <2>1, <2>2, Containers
    <3>2. \A s \in 1..Services : s < service => Up(s)' /\ Recorded(s)'
      BY <1>1, <1>3 DEF LaunchInv, Up, Recorded
    <3>3. \A c \in exists : c[1] <= service /\ (c[1] = service => c[2] <= L + 1)
      <4>1. ASSUME NEW c \in exists PROVE c[1] <= service /\ (c[1] = service => c[2] <= L + 1)
        <5>1. c[1] <= service /\ (c[1] = service => c[2] <= L \/ c[2] = L + 1)
          BY <1>1, <2>2 DEF LaunchInv
        <5>2. c[2] \in Int
          BY Containers DEF DockerTypes
        <5> QED BY <5>1, <5>2
      <4> QED BY <4>1
    <3>4. step' \in {"started", "create"} /\ (step' = "started" => L + 1 = Each) /\ (step' = "create" => L + 1 # Each)
      BY <1>3, <2>2, <2>3
    <3> QED BY <1>1, <2>2, <2>3, <2>6, <2>7, <3>1, <3>2, <3>3, <3>4 DEF LaunchInv
  <2>9. UndoInv' /\ UpInv' /\ StopInv'
    BY <1>1, <1>3 DEF UndoInv, UpInv, StopInv
  <2> QED BY <2>5, <2>8, <2>9
<1> QED BY <1>2, <1>3 DEF Docker!BringRunning

\* start_with records what was launched; the next service follows, or the run.
LEMMA RecordPreserves ==
  ASSUME DockerInv, Docker!Record
  PROVE  DockerInv'
<1> USE DEF DockerInv
<1>1. /\ phase = "build" /\ step = "started" /\ step' = "create"
      /\ started' = [started EXCEPT ![service] = launched] /\ launched' = <<>>
      /\ UNCHANGED <<exists, ready, refused, unknown, victims>>
  BY DEF Docker!Record, Docker!docker
<1>2. /\ service \in 1..Services /\ Len(launched) = Each /\ launched \in Seq(Docker!Container)
      /\ \A j \in 1..Each : launched[j] = <<service, j>>
  BY <1>1 DEF DockerTypes, LaunchInv
<1>3. started' \in [1..Services -> Seq(Docker!Container)] /\ started'[service] = launched
      /\ \A s \in 1..Services : s # service => started'[s] = started[s]
  BY <1>1, <1>2 DEF DockerTypes
<1>4. \A s \in 1..Services : s <= service => Up(s)' /\ Recorded(s)'
  <2>1. ASSUME NEW s \in 1..Services, s = service PROVE Up(s)' /\ Recorded(s)'
    <3>1. \A j \in 1..Each : In(<<s, j>>, started'[s])
      BY <1>2, <1>3, <2>1 DEF In
    <3>2. Up(s)
      BY <1>1, <1>2, <2>1 DEF LaunchInv, Up
    <3> QED BY <1>1, <3>1, <3>2 DEF Up, Recorded
  <2>2. ASSUME NEW s \in 1..Services, s < service PROVE Up(s)' /\ Recorded(s)'
    <3>1. Up(s) /\ Recorded(s) /\ s # service
      BY <1>1, <1>2, <2>2, Containers DEF LaunchInv
    <3> QED BY <1>1, <1>3, <3>1 DEF Up, Recorded
  <2> QED BY <1>2, <2>1, <2>2, Containers
<1>5. \A c \in exists : c[1] <= service /\ c[1] \in Nat
  BY <1>1, Containers DEF LaunchInv, DockerTypes
<1>6. CASE service < Services
  <2>1. PICK k \in Nat : k = service' /\ k = service + 1
    BY <1>2, <1>6, Containers DEF Docker!Record
  <2>2. phase' = "build" /\ ctrl_c' = ctrl_c /\ k \in 1..Services
    BY <1>1, <1>2, <1>6, <2>1, Containers DEF Docker!Record
  <2>3. DockerTypes'
    BY <1>1, <1>3, <2>1, <2>2 DEF DockerTypes, BuildSteps
  <2>4. LaunchInv'
    <3>1. \A s \in 1..Services : s < k => Up(s)' /\ Recorded(s)'
      BY <1>2, <1>4, <2>1, Containers
    <3>2. \A c \in exists : c[1] <= k /\ c[1] # k
      BY <1>2, <1>5, <2>1
    <3>3. Len(launched') = 0 /\ 1..0 = {} /\ 0 < Each
      BY <1>1, Containers
    <3> QED BY <1>1, <2>1, <2>2, <3>1, <3>2, <3>3 DEF LaunchInv
  <2>5. UndoInv' /\ UpInv' /\ StopInv'
    BY <1>1, <2>2 DEF UndoInv, UpInv, StopInv
  <2> QED BY <2>3, <2>4, <2>5
<1>7. CASE ~(service < Services)
  <2>1. service' = 1 /\ phase' \in {"run", "errored"} /\ ctrl_c' \in {"first", ctrl_c}
    BY <1>1, <1>7 DEF Docker!Record
  <2>2. DockerTypes'
    BY <1>1, <1>3, <2>1, Containers, SMTT(30) DEF DockerTypes, BuildSteps, Docker!Over
  <2>3. \A s \in 1..Services : Up(s)' /\ Recorded(s)'
    BY <1>2, <1>4, <1>7, Containers
  <2>4. LaunchInv' /\ UndoInv' /\ UpInv' /\ StopInv'
    BY <1>1, <2>1, <2>3 DEF LaunchInv, UndoInv, UpInv, StopInv
  <2> QED BY <2>2, <2>4
<1> QED BY <1>6, <1>7

\* remove: what is gone or refused leaves the victims.
LEMMA RemovePreserves ==
  ASSUME DockerInv, Docker!Remove
  PROVE  DockerInv'
<1> USE DEF DockerInv
<1>1. /\ (phase = "build" /\ step = "undo") \/ phase = "stop"
      /\ victims # <<>> /\ victims' = Tail(victims) /\ victims \in Seq(Docker!Container)
      /\ UNCHANGED <<phase, service, step, launched, started, ready, unknown, ctrl_c>>
      /\ \/ exists' = exists \ {Head(victims)} /\ refused' = refused
         \/ refused' = refused \cup {Head(victims)} /\ exists' = exists
  BY DEF Docker!Remove, Docker!signals, DockerTypes
<1>2. PICK v, h : v = victims' /\ v = Tail(victims) /\ h = Head(victims) /\ v \in Seq(Docker!Container)
  BY <1>1, HeadTailProperties
<1>3. \A c : In(c, victims) => c = h \/ In(c, v)
  BY <1>1, <1>2, InTail
<1>4. /\ exists' \subseteq exists /\ refused \subseteq refused'
      /\ \A c \in exists' : c = h => c \in refused'
      /\ UNCHANGED <<phase, service, step, launched, started, ready, unknown, ctrl_c>>
  BY <1>1, <1>2
<1>5. DockerTypes'
  BY <1>2, <1>4 DEF DockerTypes
<1>6. LaunchInv'
  <2>1. CASE phase = "stop"
    BY <1>4, <2>1 DEF LaunchInv
  <2>2. CASE phase = "build" /\ step = "undo"
    BY <1>4, <2>2 DEF LaunchInv
  <2> QED BY <1>1, <2>1, <2>2
<1>7. UndoInv' /\ StopInv'
  BY <1>1, <1>2, <1>3, <1>4 DEF UndoInv, StopInv
<1>8. UpInv'
  BY <1>1, <1>4 DEF UpInv, Recorded
<1> QED BY <1>5, <1>6, <1>7, <1>8

\* stop() of a service takes what start() recorded of it; after the last one nothing is left.
LEMMA BeginStopPreserves ==
  ASSUME DockerInv, NEW k \in 1..(Services + 1), Docker!BeginStop(k), step # "undo",
         \A s \in 1..Services : Recorded(s),
         \A c \in exists : c \in refused \/ c[1] >= k,
         UNCHANGED <<step, launched, started, exists, ready, refused, unknown, ctrl_c>>
  PROVE  DockerInv'
<1> USE DEF DockerInv
<1>1. \A c \in exists : c[1] \in 1..Services /\ c[2] \in 1..Each /\ c = <<c[1], c[2]>>
  BY Containers DEF DockerTypes
<1>2. CASE k <= Services
  <2>1. phase' = "stop" /\ service' = k /\ victims' = started[k] /\ k \in 1..Services
    BY <1>2, Containers DEF Docker!BeginStop
  <2>2. DockerTypes'
    BY <2>1 DEF DockerTypes
  <2>3. \A c \in exists : c \in refused \/ In(c, started[k]) \/ c[1] > k
    <3>1. ASSUME NEW c \in exists, c[1] = k PROVE In(c, started[k])
      BY <1>1, <2>1, <3>1 DEF Recorded
    <3> QED BY <1>1, <3>1, Containers
  <2>4. LaunchInv' /\ UndoInv' /\ StopInv'
    BY <2>1, <2>3 DEF LaunchInv, UndoInv, StopInv
  <2>5. UpInv'
    BY <2>1 DEF UpInv, Recorded
  <2> QED BY <2>2, <2>4, <2>5
<1>3. CASE ~(k <= Services)
  <2>1. phase' = "returned" /\ UNCHANGED <<service, victims>>
    BY <1>3 DEF Docker!BeginStop
  <2>2. exists \subseteq refused
    BY <1>1, <1>3, Containers
  <2>3. DockerTypes'
    BY <2>1 DEF DockerTypes, Docker!Over
  <2>4. LaunchInv' /\ UndoInv' /\ StopInv' /\ UpInv'
    BY <2>1, <2>2 DEF LaunchInv, UndoInv, StopInv, UpInv
  <2> QED BY <2>3, <2>4
<1> QED BY <1>2, <1>3

\* The other steps of run_local.
LEMMA LocalPreserves ==
  ASSUME DockerInv,
         \/ Docker!StartFails \/ Docker!RunEnds \/ Docker!Report \/ Docker!ServeEnds \/ Docker!NextService
  PROVE  DockerInv'
<1> USE DEF DockerInv
<1>1. UNCHANGED <<step, launched, started, exists, ready, refused, unknown, ctrl_c>>
  BY DEF Docker!StartFails, Docker!RunEnds, Docker!Report, Docker!ServeEnds, Docker!NextService,
         Docker!plugin, Docker!docker, Docker!signals
<1>2. CASE /\ phase \in {"build", "run", "report"} /\ phase' \in {"report", "errored", "serve"}
           /\ phase = "build" => phase' = "errored" /\ step = "undo" /\ victims = <<>>
           /\ UNCHANGED <<service, victims>>
  <2>1. DockerTypes'
    BY <1>1, <1>2 DEF DockerTypes, Docker!Over
  <2>2. LaunchInv' /\ StopInv'
    BY <1>2 DEF LaunchInv, StopInv
  <2>3. UndoInv'
    BY <1>1, <1>2 DEF UndoInv, UpInv
  <2>4. UpInv'
    BY <1>1, <1>2 DEF UpInv, Up, Recorded
  <2> QED BY <2>1, <2>2, <2>3, <2>4
<1>3. CASE phase \in {"report", "serve"} /\ Docker!BeginStop(1)
  <2>1. \A c \in exists : c[1] >= 1
    BY Containers DEF DockerTypes
  <2>2. step # "undo" /\ (\A s \in 1..Services : Recorded(s)) /\ 1 \in 1..(Services + 1)
    BY <1>3, Containers DEF UpInv
  <2> QED BY <1>1, <1>3, <2>1, <2>2, BeginStopPreserves
<1>4. CASE phase = "stop" /\ victims = <<>> /\ Docker!BeginStop(service + 1)
  <2>1. PICK k : k = service + 1
    OBVIOUS
  <2>2. k \in 1..(Services + 1) /\ service \in Nat
    BY <2>1, Containers DEF DockerTypes
  <2>3. ASSUME NEW c \in exists PROVE c \in refused \/ c[1] >= k
    <3>1. ~In(c, victims) /\ c[1] \in Nat
      BY <1>4, Containers DEF DockerTypes, In
    <3>2. c \in refused \/ c[1] > service
      BY <1>4, <3>1 DEF StopInv
    <3> QED BY <2>1, <2>2, <3>1, <3>2
  <2>4. step # "undo" /\ \A s \in 1..Services : Recorded(s)
    BY <1>4 DEF UpInv
  <2>5. Docker!BeginStop(k)
    BY <1>4, <2>1
  <2> QED BY <1>1, <2>2, <2>3, <2>4, <2>5, BeginStopPreserves
<1> QED
  BY <1>2, <1>3, <1>4 DEF Docker!StartFails, Docker!RunEnds, Docker!Report, Docker!ServeEnds,
     Docker!NextService, Docker!plugin

\* Ctrl-C.
LEMMA PressPreserves ==
  ASSUME DockerInv, Docker!Press \/ Docker!Exit
  PROVE  DockerInv'
<1>1. UNCHANGED <<service, step, launched, started, victims, exists, ready, refused, unknown>>
  BY DEF Docker!Press, Docker!Exit, Docker!plugin, Docker!docker
<1>2. phase' \in {"killed", phase}
  BY DEF Docker!Press, Docker!Exit
<1>3. ctrl_c' \in {"none", "first", "second", "exiting"}
  BY DEF Docker!Press, Docker!Exit, DockerInv, DockerTypes, Docker!signals
<1> QED BY <1>1, <1>2, <1>3, KilledPreserves

\* The containers as they start.
LEMMA InitDocker == Init => DockerInv
<1> SUFFICES ASSUME Init PROVE DockerInv
  OBVIOUS
<1>1. /\ phase = "build" /\ service = 1 /\ step = "create" /\ launched = <<>> /\ victims = <<>>
      /\ started = [s \in 1..Services |-> <<>>] /\ ctrl_c = "none" /\ exists = {} /\ ready = {}
  BY DEF Init, Docker!Init
<1>2. DockerTypes
  BY <1>1, Containers DEF DockerTypes, BuildSteps
<1>3. LaunchInv
  BY <1>1, Containers DEF LaunchInv
<1>4. UndoInv /\ UpInv /\ StopInv
  BY <1>1 DEF UndoInv, UpInv, StopInv
<1> QED BY <1>2, <1>3, <1>4 DEF DockerInv

\* Every step keeps it.
LEMMA StepDocker ==
  ASSUME DockerInv, [Next]_vars
  PROVE  DockerInv'
<1>1. CASE Docker!Next
  BY <1>1, CreatePreserves, BringPreserves, RecordPreserves, RemovePreserves, LocalPreserves,
     PressPreserves DEF Docker!Next
<1>2. CASE UNCHANGED fixtures
  BY <1>2 DEF fixtures, DockerInv, DockerTypes, LaunchInv, UndoInv, UpInv, StopInv, Up, Recorded
<1> QED BY <1>1, <1>2 DEF Next, vars

\* Scenarios run with every container there and ready, a start that fails takes back
\* what it created but for what Docker refused to remove or never confirmed, and a run
\* that returns has removed everything that Docker would remove (run_local of
\* loadr-cli's run.rs; start, stop and launch_one of the testcontainers plugin), for
\* every number of services and of containers each.
THEOREM ContainersTheorem == Spec => []ContainersTracked
<1>1. DockerInv => ContainersTracked
  <2> SUFFICES ASSUME DockerInv PROVE Docker!FixturesUp /\ Docker!StartUndone /\ Docker!StoppedClean
    BY DEF ContainersTracked
  <2> USE DEF DockerInv
  <2>1. Docker!TypeOK
    BY DEF Docker!TypeOK, DockerTypes, BuildSteps, Docker!Over
  <2>2. ASSUME phase \in {"run", "report", "serve"}
        PROVE  exists = Docker!Container /\ ready = Docker!Container
    <3>1. \A c \in Docker!Container : c \in exists /\ c \in ready
      BY <2>2, Containers DEF UpInv, Up
    <3> QED BY <3>1 DEF DockerTypes
  <2>3. Docker!StartUndone
    <3>1. \A c : ~In(c, <<>>)
      BY DEF In
    <3> QED BY <3>1 DEF Docker!StartUndone, UndoInv
  <2> QED BY <2>1, <2>2, <2>3 DEF Docker!FixturesUp, Docker!StoppedClean, StopInv
<1> QED BY <1>1, InitDocker, StepDocker, PTL DEF Spec
-----------------------------------------------------------------------------
(* Data feeds. *)

\* The division of a plan, in the names of the feeds' module.
LEMMA FeedsDivide ==
  /\ Feeds!Executor = Executor
  /\ \A spec, i, n : Feeds!PartitionSpec(spec, i, n) = PartitionSpec(spec, i, n)
  /\ \A p, i, n : Feeds!Share(p, i, n) = Share(p, i, n)
  /\ \A p, i, n : Feeds!VuOffset(p, i, n) = VuOffset(p, i, n)
<1>1. \A m, i, n : Feeds!Split(m, i, n) = Split(m, i, n)
  BY Zenon DEF Feeds!Split, Split
<1>2. \A m, i, n : Feeds!SplitMin1(m, i, n) = SplitMin1(m, i, n)
  BY <1>1, Zenon DEF Feeds!SplitMin1, SplitMin1
<1>3. \A spec, i, n : Feeds!PartitionSpec(spec, i, n) = PartitionSpec(spec, i, n)
  BY <1>1, <1>2, ZenonT(40) DEF Feeds!PartitionSpec, PartitionSpec, Feeds!EveryAgent, EveryAgent
<1>4. \A spec : Feeds!VuCapacity(spec) = VuCapacity(spec)
  BY Zenon DEF Feeds!VuCapacity, VuCapacity, Feeds!Max, Max, Feeds!Range, Range
<1>5. \A f : Feeds!SumFunction(f) = SumFunction(f)
  BY Zenon DEF Feeds!SumFunction, SumFunction, Feeds!SumFunctionOnSet, SumFunctionOnSet,
     Feeds!FoldFunctionOnSet, FoldFunctionOnSet, Feeds!MapThenFoldSet, MapThenFoldSet
<1>6. ASSUME NEW p, NEW i, NEW n PROVE Feeds!Share(p, i, n) = Share(p, i, n)
  <2>1. [s \in DOMAIN p |-> Feeds!VuCapacity(Feeds!PartitionSpec(p[s], i, n))]
          = [s \in DOMAIN p |-> VuCapacity(PartitionSpec(p[s], i, n))]
    BY <1>3, <1>4
  <2>2. Feeds!Share(p, i, n) = SumFunction([s \in DOMAIN p |-> Feeds!VuCapacity(Feeds!PartitionSpec(p[s], i, n))])
    BY <1>5, Zenon DEF Feeds!Share
  <2>3. Share(p, i, n) = SumFunction([s \in DOMAIN p |-> VuCapacity(PartitionSpec(p[s], i, n))])
    BY Zenon DEF Share
  <2> QED BY <2>1, <2>2, <2>3, Zenon
<1>7. ASSUME NEW p, NEW i, NEW n PROVE Feeds!VuOffset(p, i, n) = VuOffset(p, i, n)
  <2>1. [j \in 0..(i - 1) |-> Feeds!Share(p, j, n)] = [j \in 0..(i - 1) |-> Share(p, j, n)]
    BY <1>6
  <2>2. Feeds!VuOffset(p, i, n) = SumFunction([j \in 0..(i - 1) |-> Feeds!Share(p, j, n)])
    BY <1>5, Zenon DEF Feeds!VuOffset
  <2>3. VuOffset(p, i, n) = SumFunction([j \in 0..(i - 1) |-> Share(p, j, n)])
    BY Zenon DEF VuOffset
  <2> QED BY <2>1, <2>2, <2>3, Zenon
<1>8. Feeds!Executor = Executor
  BY Zenon DEF Feeds!Executor, Executor
<1> QED BY <1>3, <1>6, <1>7, <1>8

\* The plans.
LEMMA FeedsConstants ==
  /\ Count \in Nat \ {0} /\ MaxId \in Nat /\ Plans \subseteq Seq(Executor)
  /\ Branches \in Nat /\ MaxRows \in Nat /\ MaxRequests \in Nat /\ MaxIterations \in Nat
  /\ Feeds!Index = 0..(Count - 1) /\ Feeds!Ids = 1..MaxId
  /\ \A p \in Plans, i \in Feeds!Index : Share(p, i, Count) <= MaxId
BY PartsAssumption, FeedsDivide DEF Feeds!CountAssumption, Feeds!Index, Feeds!Ids

\* The types.
FeedRow == [agent : Feeds!Index, vu : Feeds!Ids, seq : Nat, request : 0..MaxRequests]
FeedContext == [at : {"none", "idle", "steps", "forked", "prepare", "prepared"},
                request : 0..MaxRequests, row : 0..MaxRows, pending : SUBSET (1..MaxRows)]
FeedTypes ==
  /\ plan \in Plans /\ vu_ids \in [Feeds!Index -> {0} \cup Feeds!Ids]
  /\ sequence \in [Feeds!Index \X Feeds!Ids -> Nat]
  /\ context \in [Feeds!Context -> FeedContext]
  /\ iterations \in 0..MaxIterations /\ requests \in 0..MaxRequests
  /\ pulled \in Seq(FeedRow) /\ Len(pulled) <= MaxRows

\* The ids of an agent are those its pools have taken, none more than its capacity.
Pools(p, ids, pools) ==
  /\ pools \in [Feeds!Index -> [DOMAIN p -> Nat]]
  /\ \A i \in Feeds!Index :
       /\ ids[i] = SumFunctionOnSet(pools[i], DOMAIN p)
       /\ \A s \in DOMAIN p : pools[i][s] <= Capacities(p, i, Count)[s]

\* Who runs has an id.
Living(cs, ids) == \A c \in Feeds!Context : cs[c].at # "none" => c[2] <= ids[c[1]]

\* What a context has cached, or waiting for a result, was pulled; and for its request,
\* if it prepares one.
Caches(x, q) ==
  /\ x.row # 0 => x.row \in 1..Len(q) /\ (x.request # 0 => q[x.row].request = x.request)
  /\ \A n \in x.pending : n \in 1..Len(q) /\ (x.request # 0 => q[n].request = x.request)
  /\ x.at \in {"prepare", "prepared"} => x.request # 0
Cached(cs, q) == \A c \in Feeds!Context : Caches(cs[c], q)

\* The rows of the history were generated for the requests they are kept with.
Matched(r, q) == \A x \in r : x[2] \in 1..Len(q) /\ q[x[2]].request = x[1]

\* A VU that pulled has an id, and its counter is past what it has drawn.
Drawn(q, ids, counters) ==
  /\ \A n \in 1..Len(q) : q[n].vu <= ids[q[n].agent] /\ q[n].seq < counters[<<q[n].agent, q[n].vu>>]
  /\ \A m, n \in 1..Len(q) : m # n => q[m].agent # q[n].agent \/ q[m].vu # q[n].vu \/ q[m].seq # q[n].seq

FeedInv ==
  /\ FeedTypes /\ Pools(plan, vu_ids, workers) /\ Living(context, vu_ids) /\ Cached(context, pulled)
  /\ Matched(rendered, pulled) /\ Matched(reported, pulled) /\ Drawn(pulled, vu_ids, sequence)

\* A context that keeps the invariant.
Sound(c, x, ids, q) ==
  x \in FeedContext /\ (x.at # "none" => c[2] <= ids[c[1]]) /\ Caches(x, q)

\* The invariant says it of every context.
LEMMA AllSound ==
  FeedInv => \A c \in Feeds!Context : Sound(c, context[c], vu_ids, pulled)
BY DEF FeedInv, FeedTypes, Living, Cached, Sound

\* A context without data is sound.
LEMMA FreshSound ==
  ASSUME NEW c, NEW ids, NEW q, NEW st \in {"none", "idle", "steps"}, st # "none" => c[2] <= ids[c[1]]
  PROVE  Sound(c, Feeds!Fresh(st), ids, q)
<1>1. PICK x : x = Feeds!Fresh(st)
  OBVIOUS
<1>2. x.at = st /\ x.request = 0 /\ x.row = 0 /\ x.pending = {}
  BY <1>1 DEF Feeds!Fresh
<1>3. x \in FeedContext
  BY <1>1, FeedsConstants DEF Feeds!Fresh, FeedContext
<1> QED BY <1>1, <1>2, <1>3 DEF Sound, Caches

\* A step that changes contexts only, and leaves them sound.
LEMMA ContextPreserves ==
  ASSUME FeedInv, NEW f, f = context', f = [c \in Feeds!Context |-> f[c]],
         \A c \in Feeds!Context : Sound(c, f[c], vu_ids, pulled),
         iterations' \in 0..MaxIterations, requests' \in 0..MaxRequests,
         UNCHANGED <<plan, vu_ids, workers, sequence, pulled, rendered, reported>>
  PROVE  FeedInv'
<1>1. f \in [Feeds!Context -> FeedContext] /\ Living(f, vu_ids) /\ Cached(f, pulled)
  BY DEF Sound, Living, Cached
<1>2. FeedTypes'
  BY <1>1 DEF FeedInv, FeedTypes
<1> QED BY <1>1, <1>2 DEF FeedInv

\* The members of a context.
LEMMA ContextParts ==
  ASSUME NEW c \in Feeds!Context
  PROVE  /\ c[1] \in Feeds!Index /\ c[2] \in Feeds!Ids /\ c[3] \in 0..Branches
         /\ <<c[1], c[2]>> \in Feeds!Index \X Feeds!Ids
         /\ \A d \in Feeds!BranchesOf(c) : d[1] = c[1] /\ d[2] = c[2]
BY DEF Feeds!Context, Feeds!BranchesOf

\* Ids are natural numbers.
LEMMA IdNat == \A x \in {0} \cup Feeds!Ids : x \in Nat
BY DEF Feeds!Ids

\* The executor takes the agent's next id for a slot of its pool.
LEMMA NewWorkerPreserves ==
  ASSUME FeedInv, NEW i \in Feeds!Index, NEW s \in DOMAIN plan, Feeds!NewWorker(i, s)
  PROVE  FeedInv'
<1>1. /\ vu_ids' = [vu_ids EXCEPT ![i] = vu_ids[i] + 1]
      /\ workers' = [workers EXCEPT ![i] = [workers[i] EXCEPT ![s] = workers[i][s] + 1]]
      /\ context' = [context EXCEPT ![<<i, vu_ids[i] + 1, 0>>] = Feeds!Fresh("idle")]
      /\ UNCHANGED <<plan, sequence, iterations, requests, pulled, rendered, reported>>
  <2>1. UNCHANGED <<plan, sequence, iterations, requests, pulled, rendered, reported>>
    BY DEF Feeds!NewWorker, Feeds!history
  <2> QED BY <2>1, Zenon DEF Feeds!NewWorker
<1>2. PICK k \in DOMAIN plan[s].vus : workers[i][s] < PartitionSpec(plan[s], i, Count).vus[k]
  BY FeedsDivide DEF Feeds!NewWorker
<1>3. plan \in Seq(Executor) /\ plan[s] \in Executor /\ i \in Nat /\ Count \in Nat \ {0} /\ plan \in Plans
  BY FeedsConstants DEF FeedInv, FeedTypes
<1>4. PICK f, e, cap, S : /\ f = workers[i] /\ e = [f EXCEPT ![s] = f[s] + 1] /\ S = DOMAIN plan
                          /\ cap = Capacities(plan, i, Count)
  OBVIOUS
<1>5. /\ f \in [S -> Nat] /\ s \in S /\ IsFiniteSet(S) /\ \A x \in S : cap[x] \in Nat /\ f[x] <= cap[x]
      /\ Share(plan, i, Count) = SumFunctionOnSet(cap, S)
  BY <1>3, <1>4, ShareOf DEF FeedInv, Pools
<1>6. f[s] < cap[s]
  <2>1. /\ VuCapacity(PartitionSpec(plan[s], i, Count)) \in Nat
        /\ PartitionSpec(plan[s], i, Count).vus[k] \in Nat
        /\ PartitionSpec(plan[s], i, Count).vus[k] <= VuCapacity(PartitionSpec(plan[s], i, Count))
    BY <1>2, <1>3, CapacityOf
  <2>2. cap[s] = VuCapacity(PartitionSpec(plan[s], i, Count))
    BY <1>4 DEF Capacities
  <2> QED BY <1>2, <1>4, <1>5, <2>1, <2>2
<1>7. e \in [S -> Nat] /\ e[s] = f[s] + 1 /\ (\A x \in S : x # s => e[x] = f[x])
      /\ \A x \in S : e[x] <= cap[x]
  BY <1>4, <1>5, <1>6
<1>8. SumFunctionOnSet(e, S) = SumFunctionOnSet(f, S) + 1
  <2>1. (\A x \in S : f[x] \in Int) /\ e[s] \in Int
    BY <1>5, <1>7
  <2>2. SumFunctionOnSet(e, S) = SumFunctionOnSet(f, S) + (e[s] - f[s])
    BY <1>5, <1>7, <2>1, SumUpdate
  <2>3. e[s] - f[s] = 1
    BY <1>5, <1>7
  <2> QED BY <2>2, <2>3
<1>9. SumFunctionOnSet(e, S) <= SumFunctionOnSet(cap, S)
  <2>1. \A x \in S : e[x] \in Int /\ cap[x] \in Int /\ e[x] <= cap[x]
    BY <1>5, <1>7
  <2> QED BY <1>5, <2>1, SumMonotone
<1>10. PICK v \in Nat : v = vu_ids[i] /\ v = SumFunctionOnSet(f, S) /\ v + 1 \in 1..MaxId
  <2>1. vu_ids[i] = SumFunctionOnSet(f, S)
    BY <1>4 DEF FeedInv, Pools
  <2>2. vu_ids[i] \in Nat
    BY FeedsConstants DEF FeedInv, FeedTypes
  <2>3. SumFunctionOnSet(cap, S) <= MaxId /\ SumFunctionOnSet(cap, S) \in Nat /\ MaxId \in Nat
    BY <1>3, <1>5, FeedsConstants, ShareOf
  <2> QED BY <1>8, <1>9, <2>1, <2>2, <2>3
<1>11. PICK ids, pools : ids = vu_ids' /\ pools = workers'
  OBVIOUS
<1>12. /\ ids \in [Feeds!Index -> {0} \cup Feeds!Ids] /\ ids[i] = v + 1
       /\ \A j \in Feeds!Index : j # i => ids[j] = vu_ids[j]
  BY <1>1, <1>10, <1>11, FeedsConstants DEF FeedInv, FeedTypes
<1>13. /\ pools \in [Feeds!Index -> [DOMAIN plan -> Nat]] /\ pools[i] = e
       /\ \A j \in Feeds!Index : j # i => pools[j] = workers[j]
  BY <1>1, <1>4, <1>7, <1>11 DEF FeedInv, Pools
<1>14. Pools(plan, ids, pools)
  <2>1. ASSUME NEW j \in Feeds!Index
        PROVE  /\ ids[j] = SumFunctionOnSet(pools[j], DOMAIN plan)
               /\ \A x \in DOMAIN plan : pools[j][x] <= Capacities(plan, j, Count)[x]
    <3>1. CASE j = i
      BY <1>4, <1>7, <1>8, <1>10, <1>12, <1>13, <3>1
    <3>2. CASE j # i
      BY <1>12, <1>13, <3>2 DEF FeedInv, Pools
    <3> QED BY <3>1, <3>2
  <2> QED BY <1>13, <2>1 DEF Pools
<1>15. \A j \in Feeds!Index : vu_ids[j] \in Nat /\ ids[j] \in Nat /\ vu_ids[j] <= ids[j]
  <2>1. \A j \in Feeds!Index : vu_ids[j] \in Nat /\ ids[j] \in Nat
    BY <1>12, IdNat DEF FeedInv, FeedTypes
  <2>2. vu_ids[i] = v /\ ids[i] = v + 1
    BY <1>10, <1>12
  <2>3. vu_ids[i] <= ids[i]
    BY <2>2
  <2>4. \A j \in Feeds!Index : j # i => vu_ids[j] <= ids[j]
    BY <1>12, <2>1
  <2> QED BY <2>1, <2>3, <2>4
<1>16. PICK d, cs : d = <<i, v + 1, 0>> /\ cs = context' /\ cs = [context EXCEPT ![d] = Feeds!Fresh("idle")]
  BY <1>1, <1>10
<1>17. \A c \in Feeds!Context : Sound(c, cs[c], ids, pulled)
  <2>1. ASSUME NEW c \in Feeds!Context, c # d PROVE Sound(c, cs[c], ids, pulled)
    <3>1. Sound(c, context[c], vu_ids, pulled) /\ cs[c] = context[c]
      BY <1>16, <2>1, AllSound DEF FeedInv, FeedTypes
    <3>2. c[1] \in Feeds!Index /\ c[2] \in Nat
      BY ContextParts, IdNat
    <3>3. c[2] <= vu_ids[c[1]] => c[2] <= ids[c[1]]
      BY <1>15, <3>2
    <3> QED BY <3>1, <3>3 DEF Sound
  <2>2. ASSUME NEW c \in Feeds!Context, c = d PROVE Sound(c, cs[c], ids, pulled)
    <3>1. cs[c] = Feeds!Fresh("idle")
      BY <1>16, <2>2 DEF FeedInv, FeedTypes
    <3>2. c[2] <= ids[c[1]]
      BY <1>12, <1>16, <2>2
    <3> QED BY <3>1, <3>2, FreshSound
  <2> QED BY <2>1, <2>2
<1>18. cs \in [Feeds!Context -> FeedContext] /\ Living(cs, ids) /\ Cached(cs, pulled)
  <2>1. cs = [c \in Feeds!Context |-> cs[c]]
    BY <1>16 DEF FeedInv, FeedTypes
  <2> QED BY <1>17, <2>1 DEF Sound, Living, Cached
<1>19. Drawn(pulled, ids, sequence)
  <2>1. ASSUME NEW n \in 1..Len(pulled) PROVE pulled[n].vu <= ids[pulled[n].agent]
    <3>1. pulled[n].vu <= vu_ids[pulled[n].agent] /\ pulled[n].agent \in Feeds!Index /\ pulled[n].vu \in Nat
      <4>1. pulled[n] \in FeedRow
        BY DEF FeedInv, FeedTypes
      <4> QED BY <4>1, IdNat DEF FeedInv, Drawn, FeedRow
    <3> QED BY <1>15, <3>1
  <2> QED BY <2>1 DEF FeedInv, Drawn
<1>20. FeedTypes'
  BY <1>1, <1>11, <1>12, <1>16, <1>18 DEF FeedInv, FeedTypes
<1>21. UNCHANGED <<plan, sequence, pulled, rendered, reported>>
  BY <1>1
<1>22. Pools(plan', vu_ids', workers') /\ Drawn(pulled', vu_ids', sequence')
  BY <1>11, <1>14, <1>19, <1>21
<1>23. Living(context', vu_ids') /\ Cached(context', pulled')
  BY <1>11, <1>16, <1>18, <1>21
<1>24. Matched(rendered', pulled') /\ Matched(reported', pulled')
  BY <1>21 DEF FeedInv
<1> QED BY <1>20, <1>22, <1>23, <1>24, Zenon DEF FeedInv

\* What a context becomes: it forgets its request, goes on with it, or begins another
\* with nothing cached.
Becomes(x, y) ==
  /\ x.at # "none" /\ y \in FeedContext /\ y.row \in {0, x.row} /\ y.pending \subseteq x.pending
  /\ \/ y.request = 0 /\ y.at \notin {"prepare", "prepared"}
     \/ y.request = x.request /\ (y.at \in {"prepare", "prepared"} => x.at \in {"prepare", "prepared"})
     \/ y.request # 0 /\ y.row = 0 /\ y.pending = {}

\* Such a context is sound.
LEMMA BecomesSound ==
  ASSUME NEW c, NEW x, NEW y, NEW ids, NEW q, Sound(c, x, ids, q), Becomes(x, y)
  PROVE  Sound(c, y, ids, q)
BY DEF Sound, Caches, Becomes

\* One context changes.
LEMMA OneContext ==
  ASSUME FeedInv, NEW c \in Feeds!Context, NEW y, Becomes(context[c], y), context' = [context EXCEPT ![c] = y],
         iterations' \in 0..MaxIterations, requests' \in 0..MaxRequests,
         UNCHANGED <<plan, vu_ids, workers, sequence, pulled, rendered, reported>>
  PROVE  FeedInv'
<1>1. PICK f : f = context' /\ f = [context EXCEPT ![c] = y]
  OBVIOUS
<1>2. Sound(c, y, vu_ids, pulled)
  BY AllSound, BecomesSound
<1>3. f = [d \in Feeds!Context |-> f[d]] /\ f[c] = y /\ \A d \in Feeds!Context : d # c => f[d] = context[d]
  BY <1>1 DEF FeedInv, FeedTypes
<1>4. \A d \in Feeds!Context : Sound(d, f[d], vu_ids, pulled)
  BY <1>2, <1>3, AllSound
<1> QED BY <1>1, <1>3, <1>4, ContextPreserves

\* A VU and its branches change.
LEMMA Branching ==
  ASSUME FeedInv, NEW c \in Feeds!Context, NEW y, Becomes(context[c], y), NEW st \in {"none", "steps"}, c[3] = 0,
         context' = [d \in Feeds!Context |-> CASE d = c -> y
                                               [] d \in Feeds!BranchesOf(c) -> Feeds!Fresh(st)
                                               [] OTHER -> context[d]],
         UNCHANGED <<plan, vu_ids, workers, sequence, iterations, requests, pulled, rendered, reported>>
  PROVE  FeedInv'
<1>1. PICK f : f = context' /\ f = [d \in Feeds!Context |-> CASE d = c -> y
                                               [] d \in Feeds!BranchesOf(c) -> Feeds!Fresh(st)
                                               [] OTHER -> context[d]]
  OBVIOUS
<1>2. Sound(c, y, vu_ids, pulled)
  BY AllSound, BecomesSound
<1>3. ASSUME NEW d \in Feeds!BranchesOf(c) PROVE Sound(d, Feeds!Fresh(st), vu_ids, pulled)
  <2>1. d[1] = c[1] /\ d[2] = c[2]
    BY ContextParts
  <2>2. d[2] <= vu_ids[d[1]]
    BY <2>1 DEF Becomes, FeedInv, Living
  <2> QED BY <2>2, FreshSound
<1>4. f = [d \in Feeds!Context |-> f[d]]
  BY <1>1
<1>5. ASSUME NEW d \in Feeds!Context PROVE Sound(d, f[d], vu_ids, pulled)
  <2>1. CASE d = c
    <3>1. c \notin Feeds!BranchesOf(c)
      BY DEF Feeds!BranchesOf
    <3>2. f[c] = y
      BY <1>1, <3>1
    <3> QED BY <1>2, <2>1, <3>2
  <2>2. CASE d # c /\ d \in Feeds!BranchesOf(c)
    BY <1>1, <1>3, <2>2
  <2>3. CASE d # c /\ d \notin Feeds!BranchesOf(c)
    <3>1. f[d] = context[d]
      BY <1>1, <2>3
    <3> QED BY <3>1, AllSound
  <2> QED BY <2>1, <2>2, <2>3
<1>6. iterations' \in 0..MaxIterations /\ requests' \in 0..MaxRequests
  BY DEF FeedInv, FeedTypes
<1> QED BY <1>1, <1>4, <1>5, <1>6, ContextPreserves

\* Iterations and branches.
LEMMA IterationPreserves ==
  ASSUME FeedInv, NEW c \in Feeds!Context,
         Feeds!BeginIteration(c) \/ Feeds!EndIteration(c) \/ Feeds!Fork(c) \/ Feeds!Join(c)
  PROVE  FeedInv'
<1>1. PICK x : x = context[c] /\ x \in FeedContext
  BY DEF FeedInv, FeedTypes
<1>2. UNCHANGED <<plan, vu_ids, workers, sequence, requests, pulled, rendered, reported>>
  BY DEF Feeds!BeginIteration, Feeds!EndIteration, Feeds!Fork, Feeds!Join, Feeds!pool, Feeds!history
<1>3. CASE Feeds!BeginIteration(c)
  <2>1. PICK y : y = Feeds!Fresh("steps")
    OBVIOUS
  <2>2. Becomes(x, y)
    BY <1>1, <1>3, <2>1, FeedsConstants DEF Feeds!BeginIteration, Feeds!Fresh, Becomes, FeedContext
  <2>3. context' = [context EXCEPT ![c] = y]
    BY <1>3, <2>1 DEF Feeds!BeginIteration
  <2>4. iterations' \in 0..MaxIterations /\ requests' \in 0..MaxRequests
    BY <1>2, <1>3, FeedsConstants DEF Feeds!BeginIteration, FeedInv, FeedTypes
  <2> QED BY <1>1, <1>2, <2>2, <2>3, <2>4, OneContext
<1>4. CASE Feeds!EndIteration(c)
  <2>1. PICK y : y = [x EXCEPT !.at = "idle", !.request = 0]
    OBVIOUS
  <2>2. Becomes(x, y)
    <3>1. x.at # "none" /\ 0 \in 0..MaxRequests
      BY <1>1, <1>4, FeedsConstants DEF Feeds!EndIteration
    <3>2. y \in FeedContext /\ y.at = "idle" /\ y.request = 0 /\ y.row = x.row /\ y.pending = x.pending
      BY <1>1, <2>1, <3>1 DEF FeedContext
    <3> QED BY <3>1, <3>2 DEF Becomes
  <2>3. /\ iterations' = iterations /\ c[3] = 0
        /\ context' = [d \in Feeds!Context |-> CASE d = c -> y
                                               [] d \in Feeds!BranchesOf(c) -> Feeds!Fresh("none")
                                               [] OTHER -> context[d]]
    BY <1>1, <1>4, <2>1 DEF Feeds!EndIteration
  <2> QED BY <1>1, <1>2, <2>2, <2>3, Branching
<1>5. CASE Feeds!Fork(c)
  <2>1. PICK y : y = [x EXCEPT !.at = "forked"]
    OBVIOUS
  <2>2. Becomes(x, y)
    BY <1>1, <1>5, <2>1 DEF Feeds!Fork, Becomes, FeedContext
  <2>3. /\ iterations' = iterations /\ c[3] = 0
        /\ context' = [d \in Feeds!Context |-> CASE d = c -> y
                                               [] d \in Feeds!BranchesOf(c) -> Feeds!Fresh("steps")
                                               [] OTHER -> context[d]]
    BY <1>1, <1>5, <2>1 DEF Feeds!Fork
  <2> QED BY <1>1, <1>2, <2>2, <2>3, Branching
<1>6. CASE Feeds!Join(c)
  <2>1. PICK y : y = [x EXCEPT !.at = "steps"]
    OBVIOUS
  <2>2. Becomes(x, y)
    BY <1>1, <1>6, <2>1 DEF Feeds!Join, Becomes, FeedContext
  <2>3. /\ iterations' = iterations /\ c[3] = 0
        /\ context' = [d \in Feeds!Context |-> CASE d = c -> y
                                               [] d \in Feeds!BranchesOf(c) -> Feeds!Fresh("none")
                                               [] OTHER -> context[d]]
    BY <1>1, <1>6, <2>1 DEF Feeds!Join
  <2> QED BY <1>1, <1>2, <2>2, <2>3, Branching
<1> QED BY <1>3, <1>4, <1>5, <1>6

\* Requests, up to what is sent.
LEMMA RequestPreserves ==
  ASSUME FeedInv, NEW c \in Feeds!Context,
         Feeds!BeginRequest(c) \/ Feeds!BeginMessage(c) \/ Feeds!Prepared(c) \/ Feeds!NotSent(c)
  PROVE  FeedInv'
<1>1. PICK x : x = context[c] /\ x \in FeedContext
  BY DEF FeedInv, FeedTypes
<1>2. UNCHANGED <<plan, vu_ids, workers, sequence, iterations, pulled, rendered, reported>>
  BY DEF Feeds!BeginRequest, Feeds!BeginMessage, Feeds!Prepared, Feeds!NotSent, Feeds!pool, Feeds!history
<1>3. iterations' \in 0..MaxIterations /\ 0 \in 0..MaxRequests /\ 0 \in 0..MaxRows
  BY <1>2, FeedsConstants DEF FeedInv, FeedTypes
<1>4. CASE Feeds!BeginRequest(c)
  <2>1. PICK r \in 0..MaxRequests : r = requests + 1 /\ r # 0 /\ requests' = r
    BY <1>4, FeedsConstants DEF Feeds!BeginRequest, FeedInv, FeedTypes
  <2>2. PICK y : y = [x EXCEPT !.at = "prepare", !.request = r, !.row = 0, !.pending = {}]
    OBVIOUS
  <2>3. Becomes(x, y)
    <3>1. y \in FeedContext /\ y.at = "prepare" /\ y.request = r /\ y.row = 0 /\ y.pending = {}
      BY <1>1, <1>3, <2>1, <2>2 DEF FeedContext
    <3>2. x.at = "steps"
      BY <1>1, <1>4 DEF Feeds!BeginRequest
    <3> QED BY <2>1, <3>1, <3>2 DEF Becomes
  <2>4. context' = [context EXCEPT ![c] = y]
    BY <1>1, <1>4, <2>1, <2>2 DEF Feeds!BeginRequest, Feeds!Requesting
  <2> QED BY <1>1, <1>2, <1>3, <2>1, <2>3, <2>4, OneContext
<1>5. CASE Feeds!BeginMessage(c)
  <2>1. PICK y : y = [x EXCEPT !.row = 0]
    OBVIOUS
  <2>2. Becomes(x, y)
    <3>1. /\ y \in FeedContext /\ y.at = x.at /\ y.request = x.request /\ y.row = 0
          /\ y.pending = x.pending
      BY <1>1, <1>3, <2>1 DEF FeedContext
    <3>2. x.at = "prepare"
      BY <1>1, <1>5 DEF Feeds!BeginMessage
    <3> QED BY <3>1, <3>2 DEF Becomes
  <2>3. context' = [context EXCEPT ![c] = y] /\ requests' = requests
    BY <1>1, <1>5, <2>1 DEF Feeds!BeginMessage
  <2>4. requests' \in 0..MaxRequests
    BY <2>3 DEF FeedInv, FeedTypes
  <2> QED BY <1>1, <1>2, <1>3, <2>2, <2>3, <2>4, OneContext
<1>6. CASE Feeds!Prepared(c)
  <2>1. PICK y : y = [x EXCEPT !.at = "prepared"]
    OBVIOUS
  <2>2. Becomes(x, y)
    <3>1. /\ y \in FeedContext /\ y.at = "prepared" /\ y.request = x.request /\ y.row = x.row
          /\ y.pending = x.pending
      BY <1>1, <2>1 DEF FeedContext
    <3>2. x.at = "prepare"
      BY <1>1, <1>6 DEF Feeds!Prepared
    <3> QED BY <3>1, <3>2 DEF Becomes
  <2>3. context' = [context EXCEPT ![c] = y] /\ requests' = requests
    BY <1>1, <1>6, <2>1 DEF Feeds!Prepared
  <2>4. requests' \in 0..MaxRequests
    BY <2>3 DEF FeedInv, FeedTypes
  <2> QED BY <1>1, <1>2, <1>3, <2>2, <2>3, <2>4, OneContext
<1>7. CASE Feeds!NotSent(c)
  <2>1. PICK y : y = [x EXCEPT !.at = "steps", !.request = 0]
    OBVIOUS
  <2>2. Becomes(x, y)
    <3>1. /\ y \in FeedContext /\ y.at = "steps" /\ y.request = 0 /\ y.row = x.row
          /\ y.pending = x.pending
      BY <1>1, <1>3, <2>1 DEF FeedContext
    <3>2. x.at = "prepared"
      BY <1>1, <1>7 DEF Feeds!NotSent
    <3> QED BY <3>1, <3>2 DEF Becomes
  <2>3. context' = [context EXCEPT ![c] = y] /\ requests' = requests
    BY <1>1, <1>7, <2>1 DEF Feeds!NotSent
  <2>4. requests' \in 0..MaxRequests
    BY <2>3 DEF FeedInv, FeedTypes
  <2> QED BY <1>1, <1>2, <1>3, <2>2, <2>3, <2>4, OneContext
<1> QED BY <1>4, <1>5, <1>6, <1>7

\* A row from the cache is rendered into the request it was generated for.
LEMMA ReusePreserves ==
  ASSUME FeedInv, NEW c \in Feeds!Context, Feeds!Reuse(c)
  PROVE  FeedInv'
<1>1. /\ UNCHANGED <<plan, vu_ids, workers, sequence, context, iterations, requests, pulled, reported>>
      /\ context[c].row # 0
      /\ rendered' = rendered \cup Feeds!Renders(c, context[c].row)
  BY DEF Feeds!Reuse, Feeds!pool
<1>2. Caches(context[c], pulled)
  BY DEF FeedInv, Cached
<1>3. PICK x, q, r : x = context[c] /\ q = pulled /\ r = rendered'
  OBVIOUS
<1>4. Matched(rendered, q) /\ Caches(x, q) /\ x.row # 0
  BY <1>1, <1>2, <1>3 DEF FeedInv
<1>5. r = rendered \cup (IF x.request = 0 THEN {} ELSE {<<x.request, x.row>>})
  BY <1>1, <1>3 DEF Feeds!Renders
<1>6. Matched(r, q)
  BY <1>4, <1>5 DEF Matched, Caches
<1>7. FeedTypes'
  BY <1>1 DEF FeedInv, FeedTypes
<1> QED BY <1>1, <1>3, <1>6, <1>7 DEF FeedInv

\* The result of a request is reported for the rows that wait, all of them its own.
LEMMA RowsReported ==
  ASSUME FeedInv, NEW c \in Feeds!Context, Feeds!Respond(c)
  PROVE  FeedInv'
<1>1. PICK x : x = context[c] /\ x \in FeedContext
  BY DEF FeedInv, FeedTypes
<1>2. /\ UNCHANGED <<plan, vu_ids, workers, sequence, iterations, requests, pulled, rendered>>
      /\ x.at = "prepared"
      /\ reported' = reported \cup {<<x.request, n>> : n \in x.pending}
  BY <1>1 DEF Feeds!Respond, Feeds!pool
<1>3. PICK y : y = [x EXCEPT !.at = "steps", !.request = 0, !.pending = {}]
  OBVIOUS
<1>4. Sound(c, y, vu_ids, pulled)
  <2>1. /\ y \in FeedContext /\ y.at = "steps" /\ y.request = 0 /\ y.row = x.row /\ y.pending = {}
    <3>1. 0 \in 0..MaxRequests
      BY FeedsConstants
    <3> QED BY <1>1, <1>3, <3>1 DEF FeedContext
  <2>2. Becomes(x, y)
    BY <1>2, <2>1 DEF Becomes
  <2> QED BY <1>1, <2>2, AllSound, BecomesSound
<1>5. PICK f : f = context' /\ f = [context EXCEPT ![c] = y]
  BY <1>1, <1>3 DEF Feeds!Respond
<1>6. f = [d \in Feeds!Context |-> f[d]] /\ f[c] = y /\ \A d \in Feeds!Context : d # c => f[d] = context[d]
  BY <1>5 DEF FeedInv, FeedTypes
<1>7. \A d \in Feeds!Context : Sound(d, f[d], vu_ids, pulled)
  BY <1>4, <1>6, AllSound
<1>8. f \in [Feeds!Context -> FeedContext] /\ Living(f, vu_ids) /\ Cached(f, pulled)
  BY <1>6, <1>7 DEF Sound, Living, Cached
<1>9. PICK r : r = reported' /\ Matched(r, pulled)
  <2>1. Caches(x, pulled) /\ Matched(reported, pulled)
    BY <1>1 DEF FeedInv, Cached
  <2>2. ASSUME NEW z \in reported' PROVE z[2] \in 1..Len(pulled) /\ pulled[z[2]].request = z[1]
    <3>1. CASE z \in reported
      BY <2>1, <3>1 DEF Matched
    <3>2. ASSUME NEW n \in x.pending, z = <<x.request, n>> PROVE z[2] \in 1..Len(pulled) /\ pulled[z[2]].request = z[1]
      BY <1>2, <2>1, <3>2 DEF Caches
    <3> QED BY <1>2, <3>1, <3>2
  <2> QED BY <2>2 DEF Matched
<1>10. FeedTypes'
  BY <1>2, <1>5, <1>8 DEF FeedInv, FeedTypes
<1>11. UNCHANGED <<plan, vu_ids, workers, sequence, pulled, rendered>>
  BY <1>2
<1> QED BY <1>5, <1>8, <1>9, <1>10, <1>11 DEF FeedInv

\* Counters only grow.
Grown(g, h) == h \in [Feeds!Index \X Feeds!Ids -> Nat] /\ \A v \in Feeds!Index \X Feeds!Ids : g[v] <= h[v]

\* Drawing a number moves its VU's counter on and no other back.
LEMMA DrawGrows ==
  ASSUME FeedInv, NEW c \in Feeds!Context, Feeds!Draw(c)
  PROVE  /\ Grown(sequence, sequence') /\ sequence[<<c[1], c[2]>>] \in Nat
         /\ sequence[<<c[1], c[2]>>] < sequence'[<<c[1], c[2]>>]
<1>1. PICK v : v = <<c[1], c[2]>> /\ v \in Feeds!Index \X Feeds!Ids
  BY ContextParts
<1>2. PICK g : g = sequence' /\ g = [sequence EXCEPT ![v] = sequence[v] + 1]
  BY <1>1 DEF Feeds!Draw
<1>3. sequence \in [Feeds!Index \X Feeds!Ids -> Nat]
  BY DEF FeedInv, FeedTypes
<1>4. g \in [Feeds!Index \X Feeds!Ids -> Nat] /\ g[v] = sequence[v] + 1 /\ sequence[v] \in Nat
      /\ \A u \in Feeds!Index \X Feeds!Ids : u # v => g[u] = sequence[u]
  BY <1>1, <1>2, <1>3
<1>5. \A u \in Feeds!Index \X Feeds!Ids : sequence[u] \in Nat /\ sequence[u] <= g[u]
  BY <1>3, <1>4
<1>6. sequence[v] < g[v]
  BY <1>4
<1> QED BY <1>1, <1>2, <1>4, <1>5, <1>6 DEF Grown

\* What has been drawn stays behind the counters.
LEMMA DrawnGrows ==
  ASSUME NEW q \in Seq(FeedRow), NEW ids, NEW g \in [Feeds!Index \X Feeds!Ids -> Nat], NEW h, Grown(g, h),
         Drawn(q, ids, g)
  PROVE  Drawn(q, ids, h)
<1>1. ASSUME NEW n \in 1..Len(q) PROVE q[n].seq < h[<<q[n].agent, q[n].vu>>]
  <2>1. q[n] \in FeedRow
    OBVIOUS
  <2>2. PICK v : v = <<q[n].agent, q[n].vu>> /\ v \in Feeds!Index \X Feeds!Ids
    BY <2>1 DEF FeedRow
  <2>3. q[n].seq \in Nat /\ q[n].seq < g[v]
    BY <2>1, <2>2 DEF FeedRow, Drawn
  <2>4. g[v] \in Nat /\ h[v] \in Nat /\ g[v] <= h[v]
    BY <2>2 DEF Grown
  <2>5. q[n].seq < h[v]
    BY <2>3, <2>4
  <2> QED BY <2>2, <2>5
<1> QED BY <1>1 DEF Drawn

\* A pull that fails has drawn a number.
LEMMA PullFailsPreserves ==
  ASSUME FeedInv, NEW c \in Feeds!Context, Feeds!PullFails(c)
  PROVE  FeedInv'
<1>1. PICK x : x = context[c] /\ x \in FeedContext
  BY DEF FeedInv, FeedTypes
<1>2. /\ UNCHANGED <<plan, vu_ids, workers, iterations, requests, pulled, rendered, reported>>
      /\ x.at = "prepare" /\ Feeds!Draw(c)
  BY <1>1 DEF Feeds!PullFails, Feeds!pool, Feeds!history
<1>3. PICK y : y = [x EXCEPT !.at = "steps", !.request = 0]
  OBVIOUS
<1>4. Sound(c, y, vu_ids, pulled)
  <2>1. 0 \in 0..MaxRequests
    BY FeedsConstants
  <2>2. /\ y \in FeedContext /\ y.at = "steps" /\ y.request = 0 /\ y.row = x.row /\ y.pending = x.pending
    BY <1>1, <1>3, <2>1 DEF FeedContext
  <2>3. Becomes(x, y)
    BY <1>2, <2>2 DEF Becomes
  <2> QED BY <1>1, <2>3, AllSound, BecomesSound
<1>5. PICK f : f = context' /\ f = [context EXCEPT ![c] = y]
  BY <1>1, <1>3 DEF Feeds!PullFails
<1>6. f = [d \in Feeds!Context |-> f[d]] /\ f[c] = y /\ \A d \in Feeds!Context : d # c => f[d] = context[d]
  BY <1>5 DEF FeedInv, FeedTypes
<1>7. \A d \in Feeds!Context : Sound(d, f[d], vu_ids, pulled)
  BY <1>4, <1>6, AllSound
<1>8. f \in [Feeds!Context -> FeedContext] /\ Living(f, vu_ids) /\ Cached(f, pulled)
  BY <1>6, <1>7 DEF Sound, Living, Cached
<1>9. PICK h : h = sequence' /\ Grown(sequence, h)
  BY <1>2, DrawGrows
<1>10. Drawn(pulled, vu_ids, h)
  BY <1>9, DrawnGrows DEF FeedInv, FeedTypes
<1>11. FeedTypes'
  BY <1>2, <1>5, <1>8, <1>9 DEF FeedInv, FeedTypes, Grown
<1>12. UNCHANGED <<plan, vu_ids, workers, pulled, rendered, reported>>
  BY <1>2
<1> QED BY <1>5, <1>8, <1>9, <1>10, <1>11, <1>12 DEF FeedInv

\* One more row: what was cached or rendered before is as it was.
Longer(p, q, L, z) ==
  /\ L \in Nat /\ L = Len(p) /\ q \in Seq(FeedRow) /\ Len(q) = L + 1
  /\ (\A n \in 1..L : q[n] = p[n] /\ n \in 1..(L + 1)) /\ q[L + 1] = z
  /\ \A n \in 1..(L + 1) : n \in 1..L \/ n = L + 1

\* A cached row is still the one that was pulled.
LEMMA LongerCaches ==
  ASSUME NEW x, NEW p, NEW q, NEW L, NEW z, Longer(p, q, L, z), Caches(x, p)
  PROVE  Caches(x, q)
<1>1. \A n \in 1..Len(p) : n \in 1..Len(q) /\ q[n] = p[n]
  BY DEF Longer
<1> QED BY <1>1 DEF Caches

\* A rendered row is still the one that was pulled.
LEMMA LongerMatched ==
  ASSUME NEW r, NEW p, NEW q, NEW L, NEW z, Longer(p, q, L, z), Matched(r, p)
  PROVE  Matched(r, q)
<1>1. \A n \in 1..Len(p) : n \in 1..Len(q) /\ q[n] = p[n]
  BY DEF Longer
<1> QED BY <1>1 DEF Matched

\* A row is generated for the request that is being prepared, with a number that its VU
\* has not drawn before.
LEMMA PullPreserves ==
  ASSUME FeedInv, NEW c \in Feeds!Context, Feeds!Pull(c)
  PROVE  FeedInv'
<1>1. PICK x : x = context[c] /\ x \in FeedContext
  BY DEF FeedInv, FeedTypes
<1>2. PICK L, v, z : L \in Nat /\ L = Len(pulled) /\ v = <<c[1], c[2]>>
                   /\ z = [agent |-> c[1], vu |-> c[2], seq |-> sequence[v], request |-> x.request]
  BY LenProperties DEF FeedInv, FeedTypes
<1> L \in Nat
  BY <1>2
<1>3. /\ UNCHANGED <<plan, vu_ids, workers, iterations, requests, reported>>
      /\ L < MaxRows /\ Feeds!Draw(c) /\ pulled' = Append(pulled, z)
      /\ Feeds!Asks(c) /\ x.row = 0
      /\ rendered' = rendered \cup Feeds!Renders(c, L + 1)
      /\ context' = [context EXCEPT ![c] = [x EXCEPT !.row = L + 1, !.pending = @ \cup {L + 1}]]
  <2>1. UNCHANGED <<plan, vu_ids, workers, iterations, requests, reported>>
    BY DEF Feeds!Pull, Feeds!pool
  <2>2. context' = [context EXCEPT ![c] = [x EXCEPT !.row = L + 1, !.pending = @ \cup {L + 1}]]
    BY <1>1, <1>2 DEF Feeds!Pull, FeedInv, FeedTypes
  <2> QED BY <1>1, <1>2, <2>1, <2>2 DEF Feeds!Pull
<1>4. /\ v \in Feeds!Index \X Feeds!Ids /\ z \in FeedRow /\ z.agent = c[1] /\ z.vu = c[2]
      /\ z.seq = sequence[v] /\ z.request = x.request /\ sequence[v] \in Nat
  <2>1. v \in Feeds!Index \X Feeds!Ids /\ c[1] \in Feeds!Index /\ c[2] \in Feeds!Ids
    BY <1>2, ContextParts
  <2>2. sequence[v] \in Nat /\ x.request \in 0..MaxRequests
    BY <1>1, <2>1 DEF FeedInv, FeedTypes, FeedContext
  <2> QED BY <1>2, <2>1, <2>2 DEF FeedRow
<1>5. x.at # "none" /\ c[2] <= vu_ids[c[1]]
  <2>1. x.at # "none"
    BY <1>1, <1>3 DEF Feeds!Asks
  <2> QED BY <1>1, <2>1 DEF FeedInv, Living
<1>6. PICK q : q = pulled' /\ Longer(pulled, q, L, z)
  <2>1. PICK q : q = pulled' /\ q = Append(pulled, z)
    BY <1>3
  <2>2. q \in Seq(FeedRow) /\ Len(q) = L + 1 /\ (\A n \in 1..L : q[n] = pulled[n]) /\ q[L + 1] = z
    BY <1>2, <1>4, <2>1, AppendProperties DEF FeedInv, FeedTypes
  <2>3. (\A n \in 1..L : n \in 1..(L + 1)) /\ \A n \in 1..(L + 1) : n \in 1..L \/ n = L + 1
    OBVIOUS
  <2>4. Longer(pulled, q, L, z)
    BY <1>2, <2>2, <2>3 DEF Longer
  <2> QED BY <2>1, <2>4
<1>7. PICK y : y = [x EXCEPT !.row = L + 1, !.pending = @ \cup {L + 1}]
  OBVIOUS
<1>8. L + 1 \in 1..MaxRows /\ L + 1 # 0
  BY <1>2, <1>3, FeedsConstants
<1>9. /\ y \in FeedContext /\ y.at = x.at /\ y.request = x.request /\ y.row = L + 1
      /\ y.pending = x.pending \cup {L + 1}
  <2>1. x.pending \cup {L + 1} \in SUBSET (1..MaxRows) /\ L + 1 \in 0..MaxRows
    BY <1>1, <1>8 DEF FeedContext
  <2> QED BY <1>1, <1>7, <2>1 DEF FeedContext
<1>10. \A d \in Feeds!Context : Sound(d, context[d], vu_ids, q)
  <2>1. ASSUME NEW d \in Feeds!Context PROVE Sound(d, context[d], vu_ids, q)
    <3>1. Sound(d, context[d], vu_ids, pulled)
      BY AllSound
    <3>2. Caches(context[d], q)
      BY <1>6, <3>1, LongerCaches DEF Sound
    <3> QED BY <3>1, <3>2 DEF Sound
  <2> QED BY <2>1
<1>11. Sound(c, y, vu_ids, q)
  <2>1. Caches(x, q)
    BY <1>1, <1>10 DEF Sound
  <2>2. L + 1 \in 1..Len(q) /\ q[L + 1].request = x.request
    BY <1>4, <1>6, <1>8 DEF Longer
  <2>3. Caches(y, q)
    BY <1>9, <2>1, <2>2 DEF Caches
  <2> QED BY <1>5, <1>9, <2>3 DEF Sound
<1>12. PICK f : f = context' /\ f = [context EXCEPT ![c] = y]
  BY <1>3, <1>7
<1>13. f = [d \in Feeds!Context |-> f[d]] /\ f[c] = y /\ \A d \in Feeds!Context : d # c => f[d] = context[d]
  BY <1>12 DEF FeedInv, FeedTypes
<1>14. \A d \in Feeds!Context : Sound(d, f[d], vu_ids, q)
  BY <1>10, <1>11, <1>13
<1>15. f \in [Feeds!Context -> FeedContext] /\ Living(f, vu_ids) /\ Cached(f, q)
  BY <1>13, <1>14 DEF Sound, Living, Cached
<1>16. PICK r : r = rendered' /\ Matched(r, q) /\ Matched(reported, q)
  <2>1. Matched(rendered, q) /\ Matched(reported, q)
    BY <1>6, LongerMatched DEF FeedInv
  <2>2. rendered' = rendered \cup (IF x.request = 0 THEN {} ELSE {<<x.request, L + 1>>})
    BY <1>1, <1>3 DEF Feeds!Renders
  <2>3. L + 1 \in 1..Len(q) /\ q[L + 1].request = x.request
    BY <1>4, <1>6, <1>8 DEF Longer
  <2>4. ASSUME NEW u \in rendered' PROVE u[2] \in 1..Len(q) /\ q[u[2]].request = u[1]
    <3>1. CASE u \in rendered
      BY <2>1, <3>1 DEF Matched
    <3>2. CASE u = <<x.request, L + 1>>
      <4>1. u[1] = x.request /\ u[2] = L + 1
        BY <3>2
      <4> QED BY <2>3, <4>1
    <3> QED BY <2>2, <3>1, <3>2
  <2> QED BY <2>1, <2>4 DEF Matched
<1>17. PICK h : h = sequence' /\ Grown(sequence, h) /\ sequence[v] < h[v]
  BY <1>2, <1>3, DrawGrows
<1>18. Drawn(q, vu_ids, h)
  <2>1. Drawn(pulled, vu_ids, h)
    BY <1>17, DrawnGrows DEF FeedInv, FeedTypes
  <2>2. ASSUME NEW n \in 1..Len(q)
        PROVE  q[n].vu <= vu_ids[q[n].agent] /\ q[n].seq < h[<<q[n].agent, q[n].vu>>]
    <3>1. CASE n \in 1..L
      <4>1. q[n] = pulled[n] /\ n \in 1..Len(pulled)
        BY <1>2, <1>6, <3>1 DEF Longer
      <4> QED BY <2>1, <4>1 DEF Drawn
    <3>2. CASE n = L + 1
      BY <1>2, <1>4, <1>5, <1>6, <1>17, <3>2 DEF Longer
    <3> QED BY <1>6, <3>1, <3>2 DEF Longer
  <2>3. ASSUME NEW m \in 1..L PROVE pulled[m].agent # z.agent \/ pulled[m].vu # z.vu \/ pulled[m].seq # z.seq
    <3>1. pulled[m].seq < sequence[<<pulled[m].agent, pulled[m].vu>>] /\ pulled[m] \in FeedRow
      BY <1>2 DEF FeedInv, Drawn, FeedTypes
    <3>2. pulled[m].seq \in Nat
      BY <3>1 DEF FeedRow
    <3>3. ASSUME pulled[m].agent = z.agent, pulled[m].vu = z.vu PROVE pulled[m].seq < z.seq
      BY <1>2, <1>4, <3>1, <3>3
    <3> QED BY <1>4, <3>2, <3>3
  <2>4. ASSUME NEW m \in 1..Len(q), NEW n \in 1..Len(q), m # n
        PROVE  q[m].agent # q[n].agent \/ q[m].vu # q[n].vu \/ q[m].seq # q[n].seq
    <3>1. (m \in 1..L \/ m = L + 1) /\ (n \in 1..L \/ n = L + 1)
      BY <1>6 DEF Longer
    <3>2. CASE m \in 1..L /\ n \in 1..L
      <4>1. q[m] = pulled[m] /\ q[n] = pulled[n] /\ m \in 1..Len(pulled) /\ n \in 1..Len(pulled)
        BY <1>2, <1>6, <3>2 DEF Longer
      <4> QED BY <2>1, <2>4, <4>1 DEF Drawn
    <3>3. CASE m \in 1..L /\ n = L + 1
      BY <1>6, <2>3, <3>3 DEF Longer
    <3>4. CASE n \in 1..L /\ m = L + 1
      BY <1>6, <2>3, <3>4 DEF Longer
    <3> QED BY <2>4, <3>1, <3>2, <3>3, <3>4
  <2> QED BY <2>2, <2>4 DEF Drawn
<1>19. FeedTypes'
  <2>1. q \in Seq(FeedRow) /\ Len(q) <= MaxRows
    BY <1>6, <1>8, FeedsConstants DEF Longer
  <2> QED BY <1>3, <1>6, <1>12, <1>15, <1>17, <2>1 DEF FeedInv, FeedTypes, Grown
<1>20. UNCHANGED <<plan, vu_ids, workers, reported>>
  BY <1>3
<1> QED BY <1>6, <1>12, <1>15, <1>16, <1>17, <1>18, <1>19, <1>20 DEF FeedInv

\* The feeds as they start.
LEMMA InitFeeds == Init => FeedInv
<1> SUFFICES ASSUME Init PROVE FeedInv
  OBVIOUS
<1>1. /\ plan \in Plans /\ vu_ids = [i \in Feeds!Index |-> 0]
      /\ workers = [i \in Feeds!Index |-> [s \in DOMAIN plan |-> 0]]
      /\ sequence = [v \in Feeds!Index \X Feeds!Ids |-> 0]
      /\ context = [c \in Feeds!Context |-> Feeds!Fresh("none")]
      /\ iterations = 0 /\ requests = 0 /\ pulled = <<>> /\ rendered = {} /\ reported = {}
  BY DEF Init, Feeds!Init
<1>2. plan \in Seq(Executor) /\ Count \in Nat \ {0} /\ \A i \in Feeds!Index : i \in Nat
  BY <1>1, FeedsConstants
<1>3. Pools(plan, vu_ids, workers)
  <2>1. ASSUME NEW i \in Feeds!Index
        PROVE  /\ vu_ids[i] = SumFunctionOnSet(workers[i], DOMAIN plan)
               /\ \A s \in DOMAIN plan : workers[i][s] <= Capacities(plan, i, Count)[s]
    <3>1. PICK f, cap, S : f = workers[i] /\ cap = Capacities(plan, i, Count) /\ S = DOMAIN plan
      OBVIOUS
    <3>2. IsFiniteSet(S) /\ \A s \in S : cap[s] \in Nat
      BY <1>2, <3>1, ShareOf
    <3>3. \A s \in S : f[s] = 0
      BY <1>1, <3>1
    <3>4. SumFunctionOnSet(f, S) = 0
      BY <3>2, <3>3, SumZero
    <3> QED BY <1>1, <3>1, <3>2, <3>3, <3>4
  <2>2. workers \in [Feeds!Index -> [DOMAIN plan -> Nat]]
    BY <1>1
  <2> QED BY <2>1, <2>2 DEF Pools
<1>4. \A c \in Feeds!Context : Sound(c, context[c], vu_ids, pulled)
  <2>1. ASSUME NEW c \in Feeds!Context PROVE Sound(c, context[c], vu_ids, pulled)
    <3>1. context[c] = Feeds!Fresh("none")
      BY <1>1
    <3> QED BY <3>1, FreshSound
  <2> QED BY <2>1
<1>5. context \in [Feeds!Context -> FeedContext] /\ Living(context, vu_ids) /\ Cached(context, pulled)
  <2>1. context = [c \in Feeds!Context |-> context[c]]
    BY <1>1
  <2> QED BY <1>4, <2>1 DEF Sound, Living, Cached
<1>6. Len(pulled) = 0 /\ pulled \in Seq(FeedRow)
  BY <1>1
<1>7. FeedTypes
  BY <1>1, <1>5, <1>6, FeedsConstants DEF FeedTypes
<1>8. Drawn(pulled, vu_ids, sequence) /\ Matched(rendered, pulled) /\ Matched(reported, pulled)
  BY <1>1, <1>6 DEF Drawn, Matched
<1> QED BY <1>3, <1>5, <1>7, <1>8 DEF FeedInv

\* Every step keeps it.
LEMMA StepFeeds ==
  ASSUME FeedInv, [Next]_vars
  PROVE  FeedInv'
<1>1. CASE Feeds!Next
  BY <1>1, NewWorkerPreserves, IterationPreserves, RequestPreserves, PullPreserves, ReusePreserves,
     PullFailsPreserves, RowsReported DEF Feeds!Next
<1>2. CASE UNCHANGED feeds
  <2>1. FeedTypes'
    BY <1>2 DEF feeds, FeedInv, FeedTypes
  <2>2. UNCHANGED <<plan, vu_ids, workers, sequence, context, pulled, rendered, reported>>
    BY <1>2 DEF feeds
  <2> QED BY <2>1, <2>2 DEF FeedInv
<1> QED BY <1>1, <1>2 DEF Next, vars

\* No pair of a VU's place in the fleet and a sequence number is given to a plugin twice,
\* what a request renders was generated for it, and its result is reported for its own
\* rows only (DataFeeds of data.rs, the calls of flow.rs, vu_placement of engine.rs), for
\* every plan, and whatever the numbers of agents, VUs and branches.
THEOREM RowsTheorem == Spec => []RowsOwned
<1>1. FeedInv => RowsOwned
  <2> SUFFICES ASSUME FeedInv PROVE Feeds!IdentityUnique /\ Feeds!RowsMatch
    BY DEF RowsOwned
  <2>1. pulled \in Seq(FeedRow) /\ DOMAIN pulled = 1..Len(pulled) /\ plan \in Seq(Executor) /\ plan \in Plans
        /\ Count \in Nat \ {0}
    BY FeedsConstants DEF FeedInv, FeedTypes
  <2>2. ASSUME NEW n \in 1..Len(pulled)
        PROVE  /\ pulled[n].agent \in Nat /\ pulled[n].seq \in Nat
               /\ pulled[n].vu \in 1..Share(plan, pulled[n].agent, Count)
               /\ VuOffset(plan, pulled[n].agent, Count) \in Nat
    <3>1. pulled[n] \in FeedRow
      BY <2>1
    <3>2. PICK i \in Feeds!Index : i = pulled[n].agent
      BY <3>1 DEF FeedRow
    <3>3. i \in Nat
      BY <3>2, FeedsConstants
    <3>4. pulled[n].vu \in Nat /\ pulled[n].vu >= 1 /\ pulled[n].vu <= vu_ids[i] /\ pulled[n].seq \in Nat
      <4>1. pulled[n].vu \in 1..MaxId /\ pulled[n].seq \in Nat
        BY <3>1, FeedsConstants DEF FeedRow
      <4>2. pulled[n].vu <= vu_ids[i]
        BY <3>2 DEF FeedInv, Drawn
      <4> QED BY <4>1, <4>2, FeedsConstants
    <3>5. PICK f, cap, S : f = workers[i] /\ cap = Capacities(plan, i, Count) /\ S = DOMAIN plan
      OBVIOUS
    <3>6. /\ IsFiniteSet(S) /\ (\A s \in S : cap[s] \in Nat) /\ Share(plan, i, Count) \in Nat
          /\ Share(plan, i, Count) = SumFunctionOnSet(cap, S)
      BY <2>1, <3>3, <3>5, ShareOf
    <3>7. vu_ids[i] = SumFunctionOnSet(f, S) /\ f \in [S -> Nat] /\ \A s \in S : f[s] <= cap[s]
      BY <3>2, <3>5 DEF FeedInv, Pools
    <3>8. SumFunctionOnSet(f, S) <= SumFunctionOnSet(cap, S)
      <4>1. \A s \in S : f[s] \in Int /\ cap[s] \in Int /\ f[s] <= cap[s]
        BY <3>6, <3>7
      <4> QED BY <3>6, <4>1, SumMonotone
    <3>9. vu_ids[i] \in Nat
      BY <3>2, IdNat DEF FeedInv, FeedTypes
    <3>10. pulled[n].vu \in 1..Share(plan, i, Count)
      BY <3>4, <3>6, <3>7, <3>8, <3>9
    <3>11. VuOffset(plan, i, Count) \in Nat
      BY <2>1, <3>3, OffsetStep
    <3> QED BY <3>2, <3>3, <3>4, <3>10, <3>11
  <2>3. ASSUME NEW m \in 1..Len(pulled), NEW n \in 1..Len(pulled), pulled[m].agent < pulled[n].agent
        PROVE  VuOffset(plan, pulled[m].agent, Count) + pulled[m].vu
                 # VuOffset(plan, pulled[n].agent, Count) + pulled[n].vu
    <3>1. PICK i \in Nat, j \in Nat : i = pulled[m].agent /\ j = pulled[n].agent
      BY <2>2
    <3>2. PICK v \in 1..Share(plan, i, Count), w \in 1..Share(plan, j, Count) :
            v = pulled[m].vu /\ w = pulled[n].vu
      BY <2>2, <3>1
    <3>3. VuOffset(plan, i, Count) + v < VuOffset(plan, j, Count) + w
      BY <2>1, <2>3, <3>1, PlacesDisjoint
    <3>4. VuOffset(plan, i, Count) \in Nat /\ VuOffset(plan, j, Count) \in Nat /\ v \in Int /\ w \in Int
      BY <2>2, <3>1
    <3>5. VuOffset(plan, i, Count) + v # VuOffset(plan, j, Count) + w
      BY <3>3, <3>4
    <3> QED BY <3>1, <3>2, <3>5
  <2>4. ASSUME NEW m \in 1..Len(pulled), NEW n \in 1..Len(pulled), m # n
        PROVE  \/ VuOffset(plan, pulled[m].agent, Count) + pulled[m].vu
                    # VuOffset(plan, pulled[n].agent, Count) + pulled[n].vu
               \/ pulled[m].seq # pulled[n].seq
    <3>1. pulled[m].agent \in Nat /\ pulled[n].agent \in Nat
      BY <2>2
    <3>2. CASE pulled[m].agent = pulled[n].agent
      <4>1. pulled[m].vu # pulled[n].vu \/ pulled[m].seq # pulled[n].seq
        BY <2>4, <3>2 DEF FeedInv, Drawn
      <4>2. PICK o \in Nat : o = VuOffset(plan, pulled[m].agent, Count) /\ o = VuOffset(plan, pulled[n].agent, Count)
        BY <2>2, <3>2
      <4>3. pulled[m].vu \in Int /\ pulled[n].vu \in Int
        BY <2>2
      <4> QED BY <4>1, <4>2, <4>3
    <3>3. CASE pulled[m].agent < pulled[n].agent
      BY <2>3, <3>3
    <3>4. CASE pulled[n].agent < pulled[m].agent
      BY <2>3, <3>4
    <3> QED BY <3>1, <3>2, <3>3, <3>4
  <2>5. Feeds!IdentityUnique
    BY <2>1, <2>4, FeedsDivide DEF Feeds!IdentityUnique
  <2>6. Feeds!TypeOK
    BY DEF Feeds!TypeOK, FeedInv, FeedTypes, FeedContext
  <2>7. \A x \in rendered \cup reported : pulled[x[2]].request = x[1]
    BY DEF FeedInv, Matched
  <2> QED BY <2>5, <2>6, <2>7 DEF Feeds!RowsMatch
<1> QED BY <1>1, InitFeeds, StepFeeds, PTL DEF Spec
-----------------------------------------------------------------------------
(* Metric aggregation. *)

\* The metric's kinds and values.
LEMMA AggConstants ==
  /\ Kinds \subseteq {"counter", "rate", "trend", "gauge"} /\ Shards \in Nat \ {0}
  /\ IsFiniteSet(Values) /\ Values \subseteq Nat /\ Values # {} /\ MaxFlushes \in Nat
  /\ Agg!None \in Nat /\ \A v \in Values : v < Agg!None
<1>1. /\ Kinds \subseteq {"counter", "rate", "trend", "gauge"} /\ Shards \in Nat \ {0}
      /\ Agg!IsFiniteSet(Values) /\ Values \subseteq Nat /\ Values # {} /\ MaxFlushes \in Nat
  BY PartsAssumption DEF Agg!AggregationAssumption
<1>2. IsFiniteSet(Values)
  BY <1>1, Zenon DEF Agg!IsFiniteSet, IsFiniteSet
<1>3. Max(Values) \in Values /\ \A v \in Values : v <= Max(Values)
  BY <1>1, <1>2, MaxOf
<1>4. Agg!Max(Values) = Max(Values)
  BY Zenon DEF Agg!Max, Max
<1>5. PICK m \in Nat : m = Max(Values) /\ Agg!None = m + 1 /\ \A v \in Values : v <= m
  BY <1>1, <1>3, <1>4 DEF Agg!None
<1> QED BY <1>1, <1>2, <1>5

\* A series over the cells C, and what is unsent of it; t tells a trend.
AggValue == Values \cup {Agg!None}
AggSeries(C) == [total : [C -> Nat], flushed : [C -> Nat], delta_hist : [C -> Nat],
                 last : AggValue, min : AggValue, max : AggValue]
AggDelta(C) == [cells : [C -> Nat], last : AggValue, min : AggValue, max : AggValue]
Owed(s, t, x) == IF t THEN s.delta_hist[x] ELSE s.total[x] - s.flushed[x]
Sane(s, C) == s \in AggSeries(C) /\ \A x \in C : s.delta_hist[x] <= s.total[x] /\ s.flushed[x] <= s.total[x]

\* r is s with g added, sent or not.
Adds(s, r, g, C, t) ==
  Sane(r, C) /\ \A x \in C : r.total[x] = s.total[x] + g[x] /\ Owed(r, t, x) = Owed(s, t, x) + g[x]

\* The widened envelope.
Widens(s, r, lo, hi) == r.min = Agg!Low(s.min, lo) /\ r.max = Agg!High(s.max, hi)

\* Low and High choose one of their arguments.
LEMMA LowHigh ==
  \A x, y : Agg!Low(x, y) \in {x, y} /\ Agg!High(x, y) \in {x, y}
BY DEF Agg!Low, Agg!High

\* What a sample adds.
LEMMA UnitType ==
  ASSUME NEW v \in Values, kind \in Kinds
  PROVE  Agg!Unit(v) \in [Agg!Cells -> Nat]
<1>1. v \in Nat
  BY AggConstants
<1> QED BY <1>1 DEF Agg!Unit

\* A sum cell by cell.
Puts(s, r, g) ==
  /\ r = [total |-> r.total, flushed |-> s.flushed, delta_hist |-> r.delta_hist,
          last |-> r.last, min |-> r.min, max |-> r.max]
  /\ {r.last, r.min, r.max} \subseteq AggValue
  /\ r.total = Agg!Plus(s.total, g) /\ r.flushed = s.flushed
  /\ r.delta_hist = (IF kind = "trend" THEN Agg!Plus(s.delta_hist, g) ELSE s.delta_hist)

\* Then totals and what is unsent grow by the same.
LEMMA PutsAdds ==
  ASSUME NEW s, Sane(s, Agg!Cells), NEW r, NEW g \in [Agg!Cells -> Nat], Puts(s, r, g)
  PROVE  Adds(s, r, g, Agg!Cells, kind = "trend")
<1>1. PICK C : C = Agg!Cells
  OBVIOUS
<1>2. s \in AggSeries(C) /\ (\A x \in C : s.delta_hist[x] <= s.total[x] /\ s.flushed[x] <= s.total[x])
      /\ g \in [C -> Nat]
  BY <1>1 DEF Sane
<1>3. s.total \in [C -> Nat] /\ s.flushed \in [C -> Nat] /\ s.delta_hist \in [C -> Nat]
  BY <1>2 DEF AggSeries
<1>4. r.total \in [C -> Nat] /\ \A x \in C : r.total[x] = s.total[x] + g[x]
  BY <1>1, <1>2, <1>3 DEF Puts, Agg!Plus
<1>5. r.delta_hist \in [C -> Nat] /\ r.flushed = s.flushed
      /\ \A x \in C : r.delta_hist[x] = s.delta_hist[x] + (IF kind = "trend" THEN g[x] ELSE 0)
  BY <1>1, <1>2, <1>3 DEF Puts, Agg!Plus
<1>6. r \in AggSeries(C)
  BY <1>3, <1>4, <1>5 DEF Puts, AggSeries
<1>7. ASSUME NEW x \in C
      PROVE  /\ r.delta_hist[x] <= r.total[x] /\ r.flushed[x] <= r.total[x]
             /\ Owed(r, kind = "trend", x) = Owed(s, kind = "trend", x) + g[x]
  <2>1. PICK a \in Nat, b \in Nat, f \in Nat, h \in Nat :
          a = s.total[x] /\ b = s.delta_hist[x] /\ f = s.flushed[x] /\ h = g[x] /\ b <= a /\ f <= a
    BY <1>2, <1>3
  <2>2. r.total[x] = a + h /\ r.flushed[x] = f /\ r.delta_hist[x] = b + (IF kind = "trend" THEN h ELSE 0)
    BY <1>4, <1>5, <2>1
  <2> QED BY <2>1, <2>2 DEF Owed
<1> QED BY <1>1, <1>4, <1>6, <1>7 DEF Adds, Sane

\* Series::record.
LEMMA RecordAdds ==
  ASSUME kind \in Kinds, NEW s, Sane(s, Agg!Cells), NEW v \in Values
  PROVE  /\ Adds(s, Agg!Recorded(s, v), Agg!Unit(v), Agg!Cells, kind = "trend")
         /\ kind = "trend" => Widens(s, Agg!Recorded(s, v), v, v)
<1>1. PICK C : C = Agg!Cells
  OBVIOUS
<1>2. s \in AggSeries(C)
  BY <1>1 DEF Sane
<1>3. PICK r : r = Agg!Recorded(s, v)
  OBVIOUS
<1>4. v \in AggValue /\ s.last \in AggValue /\ s.min \in AggValue /\ s.max \in AggValue
  BY <1>2 DEF AggValue, AggSeries
<1>5. /\ r.total = Agg!Plus(s.total, Agg!Unit(v)) /\ r.flushed = s.flushed
      /\ r.delta_hist = (IF kind = "trend" THEN Agg!Plus(s.delta_hist, Agg!Unit(v)) ELSE s.delta_hist)
      /\ r.last = (IF kind = "gauge" THEN v ELSE s.last)
      /\ r.min = (IF Agg!HasEnvelope THEN Agg!Low(s.min, v) ELSE s.min)
      /\ r.max = (IF Agg!HasEnvelope THEN Agg!High(s.max, v) ELSE s.max)
      /\ r = [total |-> r.total, flushed |-> s.flushed, delta_hist |-> r.delta_hist,
              last |-> r.last, min |-> r.min, max |-> r.max]
  BY <1>2, <1>3 DEF Agg!Recorded, AggSeries
<1>6. Puts(s, r, Agg!Unit(v))
  BY <1>4, <1>5, LowHigh DEF Puts
<1>7. kind = "trend" => Widens(s, r, v, v)
  BY <1>5 DEF Agg!HasEnvelope, Widens
<1> QED BY <1>3, <1>6, <1>7, UnitType, PutsAdds

\* merge_delta.
LEMMA MergedAdds ==
  ASSUME kind \in Kinds, NEW s, Sane(s, Agg!Cells), NEW d \in AggDelta(Agg!Cells)
  PROVE  /\ Adds(s, Agg!Merged(s, d), d.cells, Agg!Cells, kind = "trend")
         /\ kind = "trend" => Widens(s, Agg!Merged(s, d), d.min, d.max)
<1>1. PICK C : C = Agg!Cells
  OBVIOUS
<1>2. s \in AggSeries(C) /\ d \in AggDelta(C)
  BY <1>1 DEF Sane
<1>3. PICK r : r = Agg!Merged(s, d)
  OBVIOUS
<1>4. /\ s.last \in AggValue /\ s.min \in AggValue /\ s.max \in AggValue
      /\ d.last \in AggValue /\ d.min \in AggValue /\ d.max \in AggValue /\ d.cells \in [C -> Nat]
  BY <1>2 DEF AggSeries, AggDelta
<1>5. /\ r.total = Agg!Plus(s.total, d.cells) /\ r.flushed = s.flushed
      /\ r.delta_hist = (IF kind = "trend" THEN Agg!Plus(s.delta_hist, d.cells) ELSE s.delta_hist)
      /\ r.last = (IF kind = "gauge" THEN d.last ELSE s.last)
      /\ r.min = (IF Agg!HasEnvelope THEN Agg!Low(s.min, d.min) ELSE s.min)
      /\ r.max = (IF Agg!HasEnvelope THEN Agg!High(s.max, d.max) ELSE s.max)
      /\ r = [total |-> r.total, flushed |-> s.flushed, delta_hist |-> r.delta_hist,
              last |-> r.last, min |-> r.min, max |-> r.max]
  BY <1>2, <1>3 DEF Agg!Merged, AggSeries
<1>6. Puts(s, r, d.cells)
  BY <1>4, <1>5, LowHigh DEF Puts
<1>7. kind = "trend" => Widens(s, r, d.min, d.max)
  BY <1>5 DEF Agg!HasEnvelope, Widens
<1>8. d.cells \in [Agg!Cells -> Nat]
  BY <1>1, <1>4
<1> QED BY <1>3, <1>6, <1>7, <1>8, PutsAdds

\* take_delta: what is unsent is sent.
Sends(s, r, C, t) ==
  /\ Sane(r, C) /\ r.total = s.total /\ r.min = s.min /\ r.max = s.max
  /\ \A x \in C : Owed(r, t, x) = 0 /\ (t => r.delta_hist[x] = 0)
Carries(s, d, C, t) ==
  /\ d \in AggDelta(C) /\ d.min = s.min /\ d.max = s.max /\ \A x \in C : d.cells[x] = Owed(s, t, x)

\* The delta carries what was unsent, and nothing is unsent after it.
LEMMA TakenSends ==
  ASSUME kind \in Kinds, NEW s, Sane(s, Agg!Cells)
  PROVE  /\ Sends(s, Agg!Taken(s), Agg!Cells, kind = "trend")
         /\ Carries(s, Agg!Delta(s), Agg!Cells, kind = "trend")
<1>1. PICK C : C = Agg!Cells
  OBVIOUS
<1>2. s \in AggSeries(C) /\ (\A x \in C : s.delta_hist[x] <= s.total[x] /\ s.flushed[x] <= s.total[x])
  BY <1>1 DEF Sane
<1>3. /\ s.total \in [C -> Nat] /\ s.flushed \in [C -> Nat] /\ s.delta_hist \in [C -> Nat]
      /\ s.last \in AggValue /\ s.min \in AggValue /\ s.max \in AggValue
  BY <1>2 DEF AggSeries
<1>12. PICK z, r : z = Agg!Zero /\ r = Agg!Taken(s)
  OBVIOUS
<1>4. z \in [C -> Nat] /\ \A x \in C : z[x] = 0
  BY <1>1, <1>12 DEF Agg!Zero
<1>5. /\ r = Agg!Taken(s) /\ r.total = s.total /\ r.delta_hist = z
      /\ r.flushed = (IF kind = "trend" THEN s.flushed ELSE s.total)
      /\ r.min = s.min /\ r.max = s.max
      /\ r = [total |-> s.total, flushed |-> r.flushed, delta_hist |-> z,
              last |-> s.last, min |-> s.min, max |-> s.max]
  BY <1>2, <1>12 DEF Agg!Taken, AggSeries
<1>6. r \in AggSeries(C)
  BY <1>3, <1>4, <1>5 DEF AggSeries
<1>7. \A x \in C : /\ r.delta_hist[x] <= r.total[x] /\ r.flushed[x] <= r.total[x]
                   /\ Owed(r, kind = "trend", x) = 0 /\ r.delta_hist[x] = 0
  BY <1>2, <1>3, <1>4, <1>5 DEF Owed
<1>8. Sends(s, r, C, kind = "trend")
  BY <1>5, <1>6, <1>7 DEF Sends, Sane
<1>9. PICK d : d = Agg!Delta(s) /\ d = [cells |-> Agg!Unsent(s), last |-> s.last, min |-> s.min, max |-> s.max]
  BY DEF Agg!Delta
<1>10. Agg!Unsent(s) \in [C -> Nat] /\ \A x \in C : Agg!Unsent(s)[x] = Owed(s, kind = "trend", x)
  <2>1. CASE kind = "trend"
    BY <1>3, <2>1 DEF Agg!Unsent, Owed
  <2>2. CASE kind # "trend"
    <3>1. Agg!Unsent(s) = [x \in C |-> s.total[x] - s.flushed[x]]
      BY <1>1, <2>2 DEF Agg!Unsent, Agg!Minus
    <3>2. \A x \in C : s.total[x] - s.flushed[x] \in Nat
      BY <1>2, <1>3
    <3> QED BY <2>2, <3>1, <3>2 DEF Owed
  <2> QED BY <2>1, <2>2
<1>11. Carries(s, d, C, kind = "trend")
  BY <1>3, <1>9, <1>10 DEF Carries, AggDelta
<1> QED BY <1>1, <1>5, <1>8, <1>9, <1>11

\* restore_delta after take_delta: as before.
Keeps(s, r, C, t) ==
  /\ Sane(r, C) /\ r.total = s.total /\ r.min = s.min /\ r.max = s.max
  /\ \A x \in C : Owed(r, t, x) = Owed(s, t, x) /\ (t => r.delta_hist[x] = s.delta_hist[x])

\* The series owes what it owed before.
LEMMA RestoredKeeps ==
  ASSUME kind \in Kinds, NEW s, Sane(s, Agg!Cells)
  PROVE  Keeps(s, Agg!Restored(Agg!Taken(s), Agg!Delta(s)), Agg!Cells, kind = "trend")
<1>1. PICK C : C = Agg!Cells
  OBVIOUS
<1>2. PICK q, d : q = Agg!Taken(s) /\ d = Agg!Delta(s) /\ Sends(s, q, C, kind = "trend") /\ Carries(s, d, C, kind = "trend")
  BY <1>1, TakenSends
<1>3. /\ s \in AggSeries(C) /\ s.total \in [C -> Nat] /\ s.flushed \in [C -> Nat] /\ s.delta_hist \in [C -> Nat]
      /\ \A x \in C : s.delta_hist[x] <= s.total[x] /\ s.flushed[x] <= s.total[x]
  BY <1>1 DEF Sane, AggSeries
<1>4. /\ q \in AggSeries(C) /\ q.total \in [C -> Nat] /\ q.flushed \in [C -> Nat] /\ q.delta_hist \in [C -> Nat]
      /\ q.total = s.total /\ q.min = s.min /\ q.max = s.max
      /\ q.last \in AggValue /\ q.min \in AggValue /\ q.max \in AggValue
      /\ d.cells \in [C -> Nat] /\ \A x \in C : d.cells[x] = Owed(s, kind = "trend", x)
      /\ \A x \in C : q.flushed[x] <= q.total[x] /\ Owed(q, kind = "trend", x) = 0
  BY <1>2 DEF Sends, Carries, Sane, AggSeries, AggDelta
<1>5. PICK r : r = Agg!Restored(q, d)
  OBVIOUS
<1>6. CASE kind = "trend"
  <2>1. /\ r = [total |-> q.total, flushed |-> q.flushed, delta_hist |-> Agg!Plus(q.delta_hist, d.cells),
                last |-> q.last, min |-> q.min, max |-> q.max]
    BY <1>4, <1>5, <1>6 DEF Agg!Restored, AggSeries
  <2>2. r.total = q.total /\ r.flushed = q.flushed /\ r.min = q.min /\ r.max = q.max
        /\ r.delta_hist = [x \in C |-> q.delta_hist[x] + d.cells[x]] /\ r.last = q.last
    BY <1>1, <2>1 DEF Agg!Plus
  <2>3. \A x \in C : q.delta_hist[x] = 0 /\ d.cells[x] = s.delta_hist[x]
    BY <1>4, <1>6 DEF Owed
  <2>4. \A x \in C : r.delta_hist[x] = s.delta_hist[x] /\ s.delta_hist[x] \in Nat
    BY <1>3, <2>2, <2>3
  <2>5. r.delta_hist \in [C -> Nat]
    BY <2>2, <2>4
  <2>6. r \in AggSeries(C)
    BY <1>4, <2>1, <2>2, <2>5 DEF AggSeries
  <2> QED BY <1>1, <1>2, <1>3, <1>4, <1>5, <1>6, <2>2, <2>4, <2>6 DEF Keeps, Sane, Owed
<1>7. CASE kind # "trend"
  <2>1. /\ r = [total |-> q.total, flushed |-> Agg!Minus(q.flushed, d.cells), delta_hist |-> q.delta_hist,
                last |-> q.last, min |-> q.min, max |-> q.max]
    BY <1>4, <1>5, <1>7 DEF Agg!Restored, AggSeries
  <2>2. r.total = q.total /\ r.delta_hist = q.delta_hist /\ r.min = q.min /\ r.max = q.max
        /\ r.flushed = [x \in C |-> q.flushed[x] - d.cells[x]] /\ r.last = q.last
    BY <1>1, <2>1 DEF Agg!Minus
  <2>3. \A x \in C : q.total[x] - q.flushed[x] = 0 /\ d.cells[x] = s.total[x] - s.flushed[x]
    BY <1>4, <1>7 DEF Owed
  <2>4. \A x \in C : r.flushed[x] = s.flushed[x] /\ s.flushed[x] \in Nat
    <3>1. ASSUME NEW x \in C PROVE r.flushed[x] = s.flushed[x] /\ s.flushed[x] \in Nat
      <4>1. PICK a \in Nat, f \in Nat, g \in Nat, h \in Nat :
              a = s.total[x] /\ f = s.flushed[x] /\ g = q.flushed[x] /\ h = d.cells[x]
        BY <1>3, <1>4
      <4>2. a - g = 0 /\ h = a - f /\ r.flushed[x] = g - h
        BY <1>4, <2>2, <2>3, <4>1
      <4>3. g - h = f
        BY <4>2
      <4> QED BY <4>1, <4>2, <4>3
    <3> QED BY <3>1
  <2>5. r.flushed \in [C -> Nat]
    BY <2>2, <2>4
  <2>6. r \in AggSeries(C)
    BY <1>4, <2>1, <2>2, <2>5 DEF AggSeries
  <2>7. \A x \in C : r.delta_hist[x] <= r.total[x]
    BY <1>2, <2>2 DEF Sends, Sane
  <2>8. \A x \in C : r.flushed[x] <= r.total[x] /\ Owed(r, kind = "trend", x) = Owed(s, kind = "trend", x)
    BY <1>3, <1>4, <1>7, <2>2, <2>4 DEF Owed
  <2> QED BY <1>1, <1>2, <1>4, <1>5, <1>7, <2>2, <2>6, <2>7, <2>8 DEF Keeps, Sane
<1> QED BY <1>6, <1>7

\* What the shards owe in a cell, what is in flight, and what the samples weigh.
Owing(sh, t, x) == [i \in Agg!Shard |-> Owed(sh[i], t, x)]
Flying(u, x) == [n \in 1..Len(u) |-> u[n].delta.cells[x]]
Weighed(rec, w, x) == [v \in Values |-> rec[v] * w[v][x]]
AggEntry(C) == [delta : AggDelta(C), mark : Nat]

\* An agent's tiers.
Tiers(C, sh, ag, fl, u, rec) ==
  /\ sh \in [Agg!Shard -> AggSeries(C)] /\ \A i \in Agg!Shard : Sane(sh[i], C)
  /\ Sane(ag, C) /\ Sane(fl, C) /\ u \in Seq(AggEntry(C)) /\ rec \in [Values -> Nat]

\* Every sample is in one place.
Balance(C, t, w, sh, ag, fl, u, rec) ==
  \A x \in C :
    /\ ag.total[x] + SumFunctionOnSet(Owing(sh, t, x), Agg!Shard)
         = SumFunctionOnSet(Weighed(rec, w, x), Values)
    /\ fl.total[x] + SumFunctionOnSet(Flying(u, x), 1..Len(u)) + Owed(ag, t, x) = ag.total[x]

\* What a sane series owes.
LEMMA OwedNat ==
  ASSUME NEW C, NEW s, Sane(s, C), NEW t \in BOOLEAN, NEW x \in C
  PROVE  Owed(s, t, x) \in Nat /\ s.total[x] \in Nat
<1>1. s.total[x] \in Nat /\ s.delta_hist[x] \in Nat /\ s.flushed[x] \in Nat /\ s.flushed[x] <= s.total[x]
  BY DEF Sane, AggSeries
<1> QED BY <1>1 DEF Owed

\* One shard changes.
Swaps(C, t, sh, j, r) ==
  /\ t \in BOOLEAN /\ sh \in [Agg!Shard -> AggSeries(C)] /\ (\A i \in Agg!Shard : Sane(sh[i], C))
  /\ j \in Agg!Shard /\ Sane(r, C)

\* What the shards owe changes by what that shard does.
LEMMA OwingChange ==
  ASSUME NEW C, NEW t, NEW x \in C, NEW sh, NEW j, NEW r, Swaps(C, t, sh, j, r)
  PROVE  /\ SumFunctionOnSet(Owing([sh EXCEPT ![j] = r], t, x), Agg!Shard)
              = SumFunctionOnSet(Owing(sh, t, x), Agg!Shard) + (Owed(r, t, x) - Owed(sh[j], t, x))
         /\ SumFunctionOnSet(Owing(sh, t, x), Agg!Shard) \in Nat
<1> USE DEF Swaps
<1>1. PICK f, e, S : f = Owing(sh, t, x) /\ e = Owing([sh EXCEPT ![j] = r], t, x) /\ S = Agg!Shard
  OBVIOUS
<1>2. IsFiniteSet(S)
  BY <1>1, AggConstants, FS_Interval DEF Agg!Shard
<1>3. \A i \in S : f[i] = Owed(sh[i], t, x) /\ f[i] \in Nat
  BY <1>1, OwedNat DEF Owing
<1>4. e[j] = Owed(r, t, x) /\ e[j] \in Nat /\ \A i \in S : i # j => e[i] = f[i]
  BY <1>1, OwedNat DEF Owing
<1>5. SumFunctionOnSet(e, S) = SumFunctionOnSet(f, S) + (e[j] - f[j])
  <2>1. Changed(S, f, e, j)
    <3>1. j \in S
      BY <1>1
    <3>2. \A i \in S : f[i] \in Int
      BY <1>3
    <3>3. e[j] \in Int
      BY <1>4
    <3> QED BY <1>2, <1>4, <3>1, <3>2, <3>3 DEF Changed
  <2> QED BY <2>1, SumChanged
<1>6. SumFunctionOnSet(f, S) \in Nat
  BY <1>2, <1>3, SumNat
<1> QED BY <1>1, <1>3, <1>4, <1>5, <1>6

\* One more sample.
LEMMA WeighedMore ==
  ASSUME NEW C, NEW x \in C, NEW w, \A v \in Values : w[v] \in [C -> Nat], NEW rec \in [Values -> Nat],
         NEW v \in Values
  PROVE  /\ SumFunctionOnSet(Weighed([rec EXCEPT ![v] = rec[v] + 1], w, x), Values)
              = SumFunctionOnSet(Weighed(rec, w, x), Values) + w[v][x]
         /\ SumFunctionOnSet(Weighed(rec, w, x), Values) \in Nat
<1>1. PICK f, e : f = Weighed(rec, w, x) /\ e = Weighed([rec EXCEPT ![v] = rec[v] + 1], w, x)
  OBVIOUS
<1>2. IsFiniteSet(Values)
  BY AggConstants
<1>3. ASSUME NEW y \in Values PROVE f[y] = rec[y] * w[y][x] /\ f[y] \in Nat
  <2>1. PICK a \in Nat, b \in Nat : a = rec[y] /\ b = w[y][x]
    OBVIOUS
  <2>2. a * b \in Nat
    OBVIOUS
  <2>3. f[y] = rec[y] * w[y][x]
    BY <1>1 DEF Weighed
  <2> QED BY <2>1, <2>2, <2>3
<1>4. \A y \in Values : y # v => e[y] = f[y]
  BY <1>1 DEF Weighed
<1>5. e[v] = f[v] + w[v][x] /\ w[v][x] \in Nat
  <2>1. PICK a \in Nat, b \in Nat : a = rec[v] /\ b = w[v][x]
    OBVIOUS
  <2>2. (a + 1) * b = a * b + b
    OBVIOUS
  <2>3. e[v] = (rec[v] + 1) * w[v][x]
    BY <1>1 DEF Weighed
  <2> QED BY <1>3, <2>1, <2>2, <2>3
<1>6. SumFunctionOnSet(f, Values) \in Nat
  BY <1>2, <1>3, SumNat
<1>7. SumFunctionOnSet(e, Values) = SumFunctionOnSet(f, Values) + (e[v] - f[v])
  <2>1. Changed(Values, f, e, v)
    BY <1>2, <1>3, <1>4, <1>5 DEF Changed
  <2> QED BY <2>1, SumChanged
<1>8. e[v] - f[v] = w[v][x]
  BY <1>3, <1>5
<1> QED BY <1>1, <1>6, <1>7, <1>8

\* One more delta.
LEMMA FlyingMore ==
  ASSUME NEW C, NEW x \in C, NEW u \in Seq(AggEntry(C)), NEW z \in AggEntry(C)
  PROVE  /\ SumFunctionOnSet(Flying(Append(u, z), x), 1..Len(Append(u, z)))
              = SumFunctionOnSet(Flying(u, x), 1..Len(u)) + z.delta.cells[x]
         /\ SumFunctionOnSet(Flying(u, x), 1..Len(u)) \in Nat /\ z.delta.cells[x] \in Nat
<1>1. PICK L, q : L \in Nat /\ L = Len(u) /\ q = Append(u, z)
  BY LenProperties
<1> L \in Nat
  BY <1>1
<1>2. q \in Seq(AggEntry(C)) /\ Len(q) = L + 1 /\ (\A i \in 1..L : q[i] = u[i]) /\ q[L + 1] = z
  BY <1>1, AppendProperties
<1>3. PICK f, e, S : f = Flying(u, x) /\ e = Flying(q, x) /\ S = 1..L
  OBVIOUS
<1>4. ASSUME NEW y \in AggEntry(C) PROVE y.delta.cells[x] \in Nat
  BY DEF AggEntry, AggDelta
<1>5. \A i \in S : f[i] = u[i].delta.cells[x] /\ e[i] = f[i] /\ f[i] \in Nat
  <2>1. ASSUME NEW i \in S PROVE f[i] = u[i].delta.cells[x] /\ e[i] = f[i] /\ f[i] \in Nat
    <3>1. i \in 1..L /\ i \in 1..(L + 1) /\ q[i] = u[i] /\ u[i] \in AggEntry(C)
      BY <1>1, <1>2, <1>3
    <3>2. f[i] = u[i].delta.cells[x] /\ e[i] = q[i].delta.cells[x]
      BY <1>1, <1>2, <1>3, <3>1 DEF Flying
    <3> QED BY <1>4, <3>1, <3>2
  <2> QED BY <2>1
<1>6. e[L + 1] = z.delta.cells[x] /\ z.delta.cells[x] \in Nat
  BY <1>2, <1>3, <1>4 DEF Flying
<1>7. SumFunctionOnSet(e, 1..(L + 1)) = SumFunctionOnSet(f, 1..L) + e[L + 1]
  <2>1. Extended(f, e, L)
    <3>1. \A i \in 1..L : f[i] \in Int /\ e[i] = f[i]
      BY <1>3, <1>5
    <3>2. e[L + 1] \in Int
      BY <1>6
    <3> QED BY <3>1, <3>2 DEF Extended
  <2> QED BY <2>1, SumExtended
<1>8. SumFunctionOnSet(f, 1..L) \in Nat
  <2>1. 1 \in Int /\ L \in Int
    OBVIOUS
  <2>2. IsFiniteSet(1..L)
    BY <2>1, FS_Interval
  <2> QED BY <1>3, <1>5, <2>2, SumNat
<1> QED BY <1>1, <1>2, <1>3, <1>6, <1>7, <1>8

\* And one less.
LEMMA FlyingLess ==
  ASSUME NEW C, NEW x \in C, NEW u \in Seq(AggEntry(C)), u # <<>>
  PROVE  /\ SumFunctionOnSet(Flying(u, x), 1..Len(u))
              = Head(u).delta.cells[x] + SumFunctionOnSet(Flying(Tail(u), x), 1..Len(Tail(u)))
         /\ SumFunctionOnSet(Flying(Tail(u), x), 1..Len(Tail(u))) \in Nat
         /\ Head(u) \in AggEntry(C) /\ Head(u).delta.cells[x] \in Nat
<1>1. PICK n, q, h : n \in Nat /\ n + 1 = Len(u) /\ q = Tail(u) /\ h = Head(u)
  <2>1. Len(u) \in Nat /\ Len(u) # 0
    BY LenProperties, EmptySeq
  <2>2. Len(u) - 1 \in Nat /\ (Len(u) - 1) + 1 = Len(u)
    BY <2>1
  <2> QED BY <2>2
<1> n \in Nat
  BY <1>1
<1>2. q \in Seq(AggEntry(C)) /\ Len(q) = n /\ (\A i \in 1..n : q[i] = u[i + 1]) /\ h = u[1] /\ h \in AggEntry(C)
  BY <1>1, HeadTailProperties
<1>3. PICK f, e : f = Flying(u, x) /\ e = Flying(q, x)
  OBVIOUS
<1>4. ASSUME NEW y \in AggEntry(C) PROVE y.delta.cells[x] \in Nat
  BY DEF AggEntry, AggDelta
<1>5. \A i \in 1..(n + 1) : f[i] = u[i].delta.cells[x] /\ f[i] \in Nat
  <2>1. \A i \in 1..(n + 1) : u[i] \in AggEntry(C)
    BY <1>1
  <2> QED BY <1>1, <1>3, <1>4, <2>1 DEF Flying
<1>6. \A i \in 1..n : e[i] = f[i + 1] /\ e[i] \in Nat
  <2>1. ASSUME NEW i \in 1..n PROVE e[i] = f[i + 1] /\ e[i] \in Nat
    <3>1. i + 1 \in 1..(n + 1)
      OBVIOUS
    <3>2. e[i] = q[i].delta.cells[x]
      BY <1>2, <1>3 DEF Flying
    <3> QED BY <1>2, <1>5, <3>1, <3>2
  <2> QED BY <2>1
<1>7. SumFunctionOnSet(f, 1..(n + 1)) = f[1] + SumFunctionOnSet(e, 1..n)
  <2>1. Shortened(f, e, n)
    <3>1. \A i \in 1..(n + 1) : f[i] \in Int
      BY <1>5
    <3>2. \A i \in 1..n : e[i] = f[i + 1]
      BY <1>6
    <3> QED BY <3>1, <3>2 DEF Shortened
  <2> QED BY <2>1, SumShortened
<1>8. SumFunctionOnSet(e, 1..n) \in Nat
  <2>1. 1 \in Int /\ n \in Int
    OBVIOUS
  <2>2. IsFiniteSet(1..n)
    BY <2>1, FS_Interval
  <2> QED BY <1>6, <2>2, SumNat
<1>9. f[1] = h.delta.cells[x] /\ f[1] \in Nat
  BY <1>2, <1>5
<1> QED BY <1>1, <1>2, <1>3, <1>7, <1>8, <1>9

\* The books of an agent, and what its samples weigh.
Books(C, t, w, sh, ag, fl, u, rec) ==
  /\ t \in BOOLEAN /\ (\A v \in Values : w[v] \in [C -> Nat])
  /\ Tiers(C, sh, ag, fl, u, rec) /\ Balance(C, t, w, sh, ag, fl, u, rec)

\* The books, cell by cell.
Cell(t, w, sh, ag, fl, u, rec, x, owing, weight, flying, total, kept, owed) ==
  /\ owing = SumFunctionOnSet(Owing(sh, t, x), Agg!Shard)
  /\ weight = SumFunctionOnSet(Weighed(rec, w, x), Values)
  /\ flying = SumFunctionOnSet(Flying(u, x), 1..Len(u))
  /\ total = ag.total[x] /\ kept = fl.total[x] /\ owed = Owed(ag, t, x)
  /\ total + owing = weight /\ kept + flying + owed = total

\* They hold of every cell, in natural numbers.
LEMMA BooksSay ==
  ASSUME NEW C, NEW t, NEW w, NEW sh, NEW ag, NEW fl, NEW u, NEW rec, Books(C, t, w, sh, ag, fl, u, rec),
         NEW x \in C
  PROVE  \E owing \in Nat, weight \in Nat, flying \in Nat, total \in Nat, kept \in Nat, owed \in Nat :
           Cell(t, w, sh, ag, fl, u, rec, x, owing, weight, flying, total, kept, owed)
<1>1. /\ t \in BOOLEAN /\ \A v \in Values : w[v] \in [C -> Nat]
      /\ sh \in [Agg!Shard -> AggSeries(C)] /\ (\A i \in Agg!Shard : Sane(sh[i], C))
      /\ Sane(ag, C) /\ Sane(fl, C) /\ u \in Seq(AggEntry(C)) /\ rec \in [Values -> Nat]
  BY DEF Books, Tiers
<1>2. PICK total \in Nat, owed \in Nat : total = ag.total[x] /\ owed = Owed(ag, t, x)
  BY <1>1, OwedNat
<1>3. PICK kept \in Nat : kept = fl.total[x]
  BY <1>1, OwedNat
<1>4. PICK v \in Values : TRUE
  BY AggConstants
<1>5. PICK weight \in Nat : weight = SumFunctionOnSet(Weighed(rec, w, x), Values)
  BY <1>1, WeighedMore
<1>6. PICK j : j \in Agg!Shard
  BY AggConstants DEF Agg!Shard
<1>7. PICK owing \in Nat : owing = SumFunctionOnSet(Owing(sh, t, x), Agg!Shard)
  <2>1. Swaps(C, t, sh, j, sh[j])
    BY <1>1, <1>6 DEF Swaps
  <2> QED BY <2>1, OwingChange
<1>8. PICK flying \in Nat : flying = SumFunctionOnSet(Flying(u, x), 1..Len(u))
  <2>1. Len(u) \in Nat
    BY <1>1, LenProperties
  <2>2. PICK n \in Nat : n = Len(u)
    BY <2>1
  <2>3. IsFiniteSet(1..n)
    BY FS_Interval
  <2>4. \A i \in 1..n : Flying(u, x)[i] \in Nat
    <3>1. \A i \in 1..n : u[i] \in AggEntry(C)
      BY <1>1, <2>2
    <3>2. ASSUME NEW y \in AggEntry(C) PROVE y.delta.cells[x] \in Nat
      BY DEF AggEntry, AggDelta
    <3> QED BY <2>2, <3>1, <3>2 DEF Flying
  <2> QED BY <2>2, <2>3, <2>4, SumNat
<1>9. /\ ag.total[x] + SumFunctionOnSet(Owing(sh, t, x), Agg!Shard) = SumFunctionOnSet(Weighed(rec, w, x), Values)
      /\ fl.total[x] + SumFunctionOnSet(Flying(u, x), 1..Len(u)) + Owed(ag, t, x) = ag.total[x]
  BY DEF Books, Balance
<1>10. total + owing = weight /\ kept + flying + owed = total
  BY <1>2, <1>3, <1>5, <1>7, <1>8, <1>9
<1> QED BY <1>2, <1>3, <1>5, <1>7, <1>8, <1>10 DEF Cell

\* A sample is recorded: it is owed by its shard.
LEMMA RecordBooks ==
  ASSUME NEW C, NEW t, NEW w, NEW sh, NEW ag, NEW fl, NEW u, NEW rec, Books(C, t, w, sh, ag, fl, u, rec),
         NEW j \in Agg!Shard, NEW v \in Values, NEW r, Adds(sh[j], r, w[v], C, t)
  PROVE  Books(C, t, w, [sh EXCEPT ![j] = r], ag, fl, u, [rec EXCEPT ![v] = rec[v] + 1])
<1>1. /\ t \in BOOLEAN /\ (\A y \in Values : w[y] \in [C -> Nat])
      /\ sh \in [Agg!Shard -> AggSeries(C)] /\ (\A i \in Agg!Shard : Sane(sh[i], C))
      /\ Sane(ag, C) /\ Sane(fl, C) /\ u \in Seq(AggEntry(C)) /\ rec \in [Values -> Nat]
  BY DEF Books, Tiers
<1>2. PICK q, c : q = [sh EXCEPT ![j] = r] /\ c = [rec EXCEPT ![v] = rec[v] + 1]
  OBVIOUS
<1>3. Sane(r, C) /\ r \in AggSeries(C)
  BY DEF Adds, Sane
<1>4. Tiers(C, q, ag, fl, u, c)
  <2>1. q \in [Agg!Shard -> AggSeries(C)]
    BY <1>1, <1>2, <1>3
  <2>2. \A i \in Agg!Shard : Sane(q[i], C)
    BY <1>1, <1>2, <1>3
  <2>3. c \in [Values -> Nat]
    BY <1>1, <1>2
  <2> QED BY <1>1, <2>1, <2>2, <2>3 DEF Tiers
<1>5. ASSUME NEW x \in C
      PROVE  ag.total[x] + SumFunctionOnSet(Owing(q, t, x), Agg!Shard) = SumFunctionOnSet(Weighed(c, w, x), Values)
  <2>1. PICK owing \in Nat, weight \in Nat, flying \in Nat, total \in Nat, kept \in Nat, owed \in Nat :
           Cell(t, w, sh, ag, fl, u, rec, x, owing, weight, flying, total, kept, owed)
    BY BooksSay
  <2>2. PICK o \in Nat, g \in Nat : o = Owed(sh[j], t, x) /\ g = w[v][x] /\ Owed(r, t, x) = o + g
    <3>1. Owed(sh[j], t, x) \in Nat /\ w[v][x] \in Nat
      BY <1>1, OwedNat
    <3> QED BY <3>1 DEF Adds
  <2>3. SumFunctionOnSet(Owing(q, t, x), Agg!Shard) = owing + ((o + g) - o)
    <3>1. SumFunctionOnSet(Owing([sh EXCEPT ![j] = r], t, x), Agg!Shard)
            = SumFunctionOnSet(Owing(sh, t, x), Agg!Shard) + (Owed(r, t, x) - Owed(sh[j], t, x))
      <4>1. Swaps(C, t, sh, j, r)
        BY <1>1, <1>3 DEF Swaps
      <4> QED BY <4>1, OwingChange
    <3> QED BY <1>2, <2>1, <2>2, <3>1 DEF Cell
  <2>4. SumFunctionOnSet(Weighed(c, w, x), Values) = weight + g
    <3>1. SumFunctionOnSet(Weighed([rec EXCEPT ![v] = rec[v] + 1], w, x), Values)
            = SumFunctionOnSet(Weighed(rec, w, x), Values) + w[v][x]
      BY <1>1, WeighedMore
    <3> QED BY <1>2, <2>1, <2>2, <3>1 DEF Cell
  <2>5. total + owing = weight /\ total = ag.total[x]
    BY <2>1 DEF Cell
  <2>6. total + (owing + ((o + g) - o)) = weight + g
    BY <2>5
  <2> QED BY <2>3, <2>4, <2>5, <2>6
<1>6. Balance(C, t, w, q, ag, fl, u, c)
  BY <1>5 DEF Books, Balance
<1> QED BY <1>1, <1>2, <1>4, <1>6 DEF Books

\* A shard is drained: what it owed the engine owes.
LEMMA DrainBooks ==
  ASSUME NEW C, NEW t, NEW w, NEW sh, NEW ag, NEW fl, NEW u, NEW rec, Books(C, t, w, sh, ag, fl, u, rec),
         NEW j \in Agg!Shard, NEW r, NEW d, NEW m,
         Sends(sh[j], r, C, t), Carries(sh[j], d, C, t), Adds(ag, m, d.cells, C, t)
  PROVE  Books(C, t, w, [sh EXCEPT ![j] = r], m, fl, u, rec)
<1>1. /\ t \in BOOLEAN /\ (\A y \in Values : w[y] \in [C -> Nat])
      /\ sh \in [Agg!Shard -> AggSeries(C)] /\ (\A i \in Agg!Shard : Sane(sh[i], C))
      /\ Sane(ag, C) /\ Sane(fl, C) /\ u \in Seq(AggEntry(C)) /\ rec \in [Values -> Nat]
  BY DEF Books, Tiers
<1>2. PICK q : q = [sh EXCEPT ![j] = r]
  OBVIOUS
<1>3. Sane(r, C) /\ r \in AggSeries(C) /\ Sane(m, C)
  BY DEF Adds, Sends, Sane
<1>4. Tiers(C, q, m, fl, u, rec)
  <2>1. q \in [Agg!Shard -> AggSeries(C)]
    BY <1>1, <1>2, <1>3
  <2>2. \A i \in Agg!Shard : Sane(q[i], C)
    BY <1>1, <1>2, <1>3
  <2> QED BY <1>1, <1>3, <2>1, <2>2 DEF Tiers
<1>5. ASSUME NEW x \in C
      PROVE  /\ m.total[x] + SumFunctionOnSet(Owing(q, t, x), Agg!Shard) = SumFunctionOnSet(Weighed(rec, w, x), Values)
             /\ fl.total[x] + SumFunctionOnSet(Flying(u, x), 1..Len(u)) + Owed(m, t, x) = m.total[x]
  <2>1. PICK owing \in Nat, weight \in Nat, flying \in Nat, total \in Nat, kept \in Nat, owed \in Nat :
           Cell(t, w, sh, ag, fl, u, rec, x, owing, weight, flying, total, kept, owed)
    BY BooksSay
  <2>2. PICK g \in Nat : /\ g = Owed(sh[j], t, x) /\ Owed(r, t, x) = 0
                         /\ m.total[x] = total + g /\ Owed(m, t, x) = owed + g
    <3>1. Owed(sh[j], t, x) \in Nat
      BY <1>1, OwedNat
    <3> QED BY <2>1, <3>1 DEF Adds, Carries, Sends, Cell
  <2>3. SumFunctionOnSet(Owing(q, t, x), Agg!Shard) = owing + (0 - g)
    <3>1. Swaps(C, t, sh, j, r)
      BY <1>1, <1>3 DEF Swaps
    <3>2. SumFunctionOnSet(Owing([sh EXCEPT ![j] = r], t, x), Agg!Shard)
            = SumFunctionOnSet(Owing(sh, t, x), Agg!Shard) + (Owed(r, t, x) - Owed(sh[j], t, x))
      BY <3>1, OwingChange
    <3> QED BY <1>2, <2>1, <2>2, <3>2 DEF Cell
  <2>4. total + owing = weight /\ kept + flying + owed = total
        /\ weight = SumFunctionOnSet(Weighed(rec, w, x), Values)
        /\ flying = SumFunctionOnSet(Flying(u, x), 1..Len(u)) /\ kept = fl.total[x]
    BY <2>1 DEF Cell
  <2>5. (total + g) + (owing + (0 - g)) = weight /\ kept + flying + (owed + g) = total + g
    BY <2>4
  <2> QED BY <2>2, <2>3, <2>4, <2>5
<1>6. Balance(C, t, w, q, m, fl, u, rec)
  BY <1>5 DEF Balance
<1> QED BY <1>1, <1>2, <1>4, <1>6 DEF Books

\* A delta is queued: what the engine owed is in flight.
LEMMA QueueBooks ==
  ASSUME NEW C, NEW t, NEW w, NEW sh, NEW ag, NEW fl, NEW u, NEW rec, Books(C, t, w, sh, ag, fl, u, rec),
         NEW r, NEW z \in AggEntry(C), Sends(ag, r, C, t), Carries(ag, z.delta, C, t)
  PROVE  Books(C, t, w, sh, r, fl, Append(u, z), rec)
<1>1. /\ t \in BOOLEAN /\ (\A y \in Values : w[y] \in [C -> Nat])
      /\ sh \in [Agg!Shard -> AggSeries(C)] /\ (\A i \in Agg!Shard : Sane(sh[i], C))
      /\ Sane(ag, C) /\ Sane(fl, C) /\ u \in Seq(AggEntry(C)) /\ rec \in [Values -> Nat]
  BY DEF Books, Tiers
<1>2. PICK q : q = Append(u, z)
  OBVIOUS
<1>3. Sane(r, C) /\ r.total = ag.total
  BY DEF Sends
<1>4. Tiers(C, sh, r, fl, q, rec)
  <2>1. q \in Seq(AggEntry(C))
    BY <1>1, <1>2, AppendProperties
  <2> QED BY <1>1, <1>3, <2>1 DEF Tiers
<1>5. ASSUME NEW x \in C
      PROVE  /\ r.total[x] + SumFunctionOnSet(Owing(sh, t, x), Agg!Shard) = SumFunctionOnSet(Weighed(rec, w, x), Values)
             /\ fl.total[x] + SumFunctionOnSet(Flying(q, x), 1..Len(q)) + Owed(r, t, x) = r.total[x]
  <2>1. PICK owing \in Nat, weight \in Nat, flying \in Nat, total \in Nat, kept \in Nat, owed \in Nat :
           Cell(t, w, sh, ag, fl, u, rec, x, owing, weight, flying, total, kept, owed)
    BY BooksSay
  <2>2. /\ total + owing = weight /\ kept + flying + owed = total
        /\ weight = SumFunctionOnSet(Weighed(rec, w, x), Values) /\ owing = SumFunctionOnSet(Owing(sh, t, x), Agg!Shard)
        /\ flying = SumFunctionOnSet(Flying(u, x), 1..Len(u)) /\ kept = fl.total[x] /\ total = ag.total[x]
        /\ owed = Owed(ag, t, x)
    BY <2>1 DEF Cell
  <2>3. z.delta.cells[x] = owed /\ Owed(r, t, x) = 0
    BY <2>2 DEF Carries, Sends
  <2>4. SumFunctionOnSet(Flying(q, x), 1..Len(q)) = flying + owed
    <3>1. SumFunctionOnSet(Flying(Append(u, z), x), 1..Len(Append(u, z)))
            = SumFunctionOnSet(Flying(u, x), 1..Len(u)) + z.delta.cells[x]
      BY <1>1, FlyingMore
    <3> QED BY <1>2, <2>2, <2>3, <3>1
  <2>5. kept + (flying + owed) + 0 = total
    <3>1. kept + flying + owed = total
      BY <2>2
    <3> QED BY <3>1
  <2> HIDE <1>2
  <2> QED BY <1>3, <2>2, <2>3, <2>4, <2>5
<1>6. Balance(C, t, w, sh, r, fl, q, rec)
  BY <1>5 DEF Balance
<1> QED BY <1>1, <1>2, <1>4, <1>6 DEF Books

\* A refused delta is restored: nothing has moved.
LEMMA RestoreBooks ==
  ASSUME NEW C, NEW t, NEW w, NEW sh, NEW ag, NEW fl, NEW u, NEW rec, Books(C, t, w, sh, ag, fl, u, rec),
         NEW r, Keeps(ag, r, C, t)
  PROVE  Books(C, t, w, sh, r, fl, u, rec)
<1>1. Tiers(C, sh, r, fl, u, rec)
  BY DEF Books, Tiers, Keeps
<1>2. r.total = ag.total /\ \A x \in C : Owed(r, t, x) = Owed(ag, t, x)
  BY DEF Keeps
<1>3. Balance(C, t, w, sh, r, fl, u, rec)
  BY <1>2 DEF Books, Balance
<1> QED BY <1>1, <1>3 DEF Books

\* The controller merges a delta: what was in flight it holds.
LEMMA MergeBooks ==
  ASSUME NEW C, NEW t, NEW w, NEW sh, NEW ag, NEW fl, NEW u, NEW rec, Books(C, t, w, sh, ag, fl, u, rec),
         u # <<>>, NEW m, Adds(fl, m, Head(u).delta.cells, C, t)
  PROVE  Books(C, t, w, sh, ag, m, Tail(u), rec)
<1>1. /\ t \in BOOLEAN /\ (\A y \in Values : w[y] \in [C -> Nat])
      /\ sh \in [Agg!Shard -> AggSeries(C)] /\ (\A i \in Agg!Shard : Sane(sh[i], C))
      /\ Sane(ag, C) /\ Sane(fl, C) /\ u \in Seq(AggEntry(C)) /\ rec \in [Values -> Nat]
  BY DEF Books, Tiers
<1>2. PICK q, h : q = Tail(u) /\ h = Head(u)
  OBVIOUS
<1>3. Sane(m, C)
  BY DEF Adds
<1>4. Tiers(C, sh, ag, m, q, rec)
  <2>1. q \in Seq(AggEntry(C))
    BY <1>1, <1>2, HeadTailProperties
  <2> QED BY <1>1, <1>3, <2>1 DEF Tiers
<1>5. ASSUME NEW x \in C
      PROVE  m.total[x] + SumFunctionOnSet(Flying(q, x), 1..Len(q)) + Owed(ag, t, x) = ag.total[x]
  <2>1. PICK owing \in Nat, weight \in Nat, flying \in Nat, total \in Nat, kept \in Nat, owed \in Nat :
           Cell(t, w, sh, ag, fl, u, rec, x, owing, weight, flying, total, kept, owed)
    BY BooksSay
  <2>2. /\ kept + flying + owed = total /\ flying = SumFunctionOnSet(Flying(u, x), 1..Len(u))
        /\ kept = fl.total[x] /\ total = ag.total[x] /\ owed = Owed(ag, t, x)
    BY <2>1 DEF Cell
  <2>3. PICK g \in Nat, k \in Nat :
          g = Head(u).delta.cells[x] /\ k = SumFunctionOnSet(Flying(Tail(u), x), 1..Len(Tail(u)))
          /\ SumFunctionOnSet(Flying(u, x), 1..Len(u)) = g + k
    <3>1. /\ SumFunctionOnSet(Flying(u, x), 1..Len(u))
               = Head(u).delta.cells[x] + SumFunctionOnSet(Flying(Tail(u), x), 1..Len(Tail(u)))
          /\ SumFunctionOnSet(Flying(Tail(u), x), 1..Len(Tail(u))) \in Nat
          /\ Head(u).delta.cells[x] \in Nat
      <4>1. u \in Seq(AggEntry(C)) /\ x \in C /\ u # <<>>
        BY <1>1
      <4> QED BY <4>1, FlyingLess, ZenonT(40)
    <3> QED BY <3>1, ZenonT(40)
  <2>4. m.total[x] = kept + g
    BY <2>2, <2>3 DEF Adds
  <2>5. flying = g + k /\ k = SumFunctionOnSet(Flying(q, x), 1..Len(q))
    BY <1>2, <2>2, <2>3
  <2>6. (kept + g) + k + owed = total
    <3>1. kept + flying + owed = total /\ flying = g + k
      BY <2>2, <2>5
    <3> QED BY <3>1
  <2> QED BY <2>2, <2>4, <2>5, <2>6
<1>6. Balance(C, t, w, sh, ag, m, q, rec)
  BY <1>5 DEF Books, Balance
<1> QED BY <1>1, <1>2, <1>4, <1>6 DEF Books

\* The values a histogram holds, and the envelope of a set of values.
Seen(f) == {v \in Values : f[v] > 0}
Spans(A, lo, hi) ==
  IF A = {} THEN lo = Agg!None /\ hi = Agg!None
  ELSE lo \in A /\ hi \in A /\ \A v \in A : lo <= v /\ v <= hi

\* What the controller has seen once the first n deltas have arrived.
Upto(fl, u, n) == Seen(fl.total) \cup {v \in Values : \E k \in 1..n : u[k].delta.cells[v] > 0}

\* The envelopes of a trend.  A shard's covers more than its delta carries, but
\* what it sent before the engine has seen; a delta's covers what the controller
\* has seen when the delta arrives, and nothing else.
Envelopes(sh, ag, fl, u) ==
  /\ \A i \in Agg!Shard :
       /\ Spans(Seen(sh[i].total), sh[i].min, sh[i].max)
       /\ \A v \in Values : sh[i].total[v] > sh[i].delta_hist[v] => ag.total[v] > 0
  /\ Spans(Seen(ag.total), ag.min, ag.max) /\ Spans(Seen(fl.total), fl.min, fl.max)
  /\ \A n \in 1..Len(u) : Spans(Upto(fl, u, n), u[n].delta.min, u[n].delta.max)
  /\ Seen(ag.total) = Upto(fl, u, Len(u)) \cup Seen(ag.delta_hist)

\* The envelope of a union.
LEMMA SpansUnion ==
  ASSUME NEW A \in SUBSET Values, NEW B \in SUBSET Values, NEW lo, NEW hi, NEW l, NEW h,
         Spans(A, lo, hi), Spans(B, l, h)
  PROVE  Spans(A \cup B, Agg!Low(lo, l), Agg!High(hi, h))
<1>1. PICK no \in Nat : no = Agg!None /\ \A v \in Values : v \in Nat /\ v < no
  BY AggConstants
<1>2. CASE A = {} /\ B = {}
  BY <1>1, <1>2 DEF Spans, Agg!Low, Agg!High
<1>3. CASE A = {} /\ B # {}
  <2>1. lo = no /\ hi = no /\ l \in B /\ h \in B /\ (\A v \in B : l <= v /\ v <= h) /\ A \cup B = B
    BY <1>1, <1>3 DEF Spans
  <2>2. Agg!Low(lo, l) = l /\ Agg!High(hi, h) = h
    BY <1>1, <2>1 DEF Agg!Low, Agg!High
  <2> QED BY <1>3, <2>1, <2>2 DEF Spans
<1>4. CASE A # {} /\ B = {}
  <2>1. l = no /\ h = no /\ lo \in A /\ hi \in A /\ (\A v \in A : lo <= v /\ v <= hi) /\ A \cup B = A
    BY <1>1, <1>4 DEF Spans
  <2>2. Agg!Low(lo, l) = lo /\ Agg!High(hi, h) = hi
    BY <1>1, <2>1 DEF Agg!Low, Agg!High
  <2> QED BY <1>4, <2>1, <2>2 DEF Spans
<1>5. CASE A # {} /\ B # {}
  <2>1. /\ lo \in A /\ hi \in A /\ (\A v \in A : lo <= v /\ v <= hi)
        /\ l \in B /\ h \in B /\ (\A v \in B : l <= v /\ v <= h)
    BY <1>5 DEF Spans
  <2>2. PICK p, q : p = Agg!Low(lo, l) /\ q = Agg!High(hi, h)
    OBVIOUS
  <2>3. lo \in Nat /\ hi \in Nat /\ l \in Nat /\ h \in Nat /\ hi # no /\ h # no
    BY <1>1, <2>1
  <2>4. p \in {lo, l} /\ p <= lo /\ p <= l
    BY <2>2, <2>3 DEF Agg!Low
  <2>5. q \in {hi, h} /\ hi <= q /\ h <= q
    BY <1>1, <2>2, <2>3 DEF Agg!High
  <2>6. p \in A \cup B /\ q \in A \cup B /\ p \in Nat /\ q \in Nat
    BY <2>1, <2>3, <2>4, <2>5
  <2>7. ASSUME NEW v \in A \cup B PROVE p <= v /\ v <= q
    <3>1. v \in Nat
      BY <1>1
    <3>2. CASE v \in A
      BY <2>1, <2>3, <2>4, <2>5, <2>6, <3>1, <3>2
    <3>3. CASE v \in B
      BY <2>1, <2>3, <2>4, <2>5, <2>6, <3>1, <3>3
    <3> QED BY <3>2, <3>3
  <2>8. A \cup B # {}
    BY <1>5
  <2> QED BY <2>2, <2>6, <2>7, <2>8 DEF Spans
<1> QED BY <1>2, <1>3, <1>4, <1>5

\* Adding to a histogram.
LEMMA SeenAdds ==
  ASSUME NEW s, NEW r, NEW g \in [Values -> Nat], Sane(s, Values), Adds(s, r, g, Values, TRUE)
  PROVE  /\ Seen(r.total) = Seen(s.total) \cup Seen(g)
         /\ Seen(r.delta_hist) = Seen(s.delta_hist) \cup Seen(g)
         /\ \A v \in Values : s.total[v] > 0 => r.total[v] > 0
         /\ \A v \in Values : r.total[v] > r.delta_hist[v] <=> s.total[v] > s.delta_hist[v]
<1>1. ASSUME NEW v \in Values
      PROVE  /\ r.total[v] > 0 <=> s.total[v] > 0 \/ g[v] > 0
             /\ r.delta_hist[v] > 0 <=> s.delta_hist[v] > 0 \/ g[v] > 0
             /\ r.total[v] > r.delta_hist[v] <=> s.total[v] > s.delta_hist[v]
  <2>1. PICK a \in Nat, b \in Nat, c \in Nat : a = s.total[v] /\ b = s.delta_hist[v] /\ c = g[v]
    BY DEF Sane, AggSeries
  <2>2. r.total[v] = a + c /\ r.delta_hist[v] = b + c
    BY <2>1 DEF Adds, Owed
  <2> QED BY <2>1, <2>2
<1> QED BY <1>1 DEF Seen

\* A sample is recorded into the histogram of its shard.
LEMMA RecordEnvelopes ==
  ASSUME NEW sh, NEW ag, NEW fl, NEW u, NEW rec, Tiers(Values, sh, ag, fl, u, rec), Envelopes(sh, ag, fl, u),
         NEW j \in Agg!Shard, NEW v \in Values, NEW r, NEW g \in [Values -> Nat],
         Seen(g) = {v}, Adds(sh[j], r, g, Values, TRUE), Widens(sh[j], r, v, v)
  PROVE  Envelopes([sh EXCEPT ![j] = r], ag, fl, u)
<1>1. PICK q : q = [sh EXCEPT ![j] = r] /\ q[j] = r /\ \A i \in Agg!Shard : i # j => q[i] = sh[i]
  <2>1. sh \in [Agg!Shard -> AggSeries(Values)]
    BY DEF Tiers
  <2>2. [sh EXCEPT ![j] = r][j] = r /\ \A i \in Agg!Shard : i # j => [sh EXCEPT ![j] = r][i] = sh[i]
    BY <2>1
  <2> QED BY <2>2
<1>2. Sane(sh[j], Values)
  BY DEF Tiers
<1>4. Spans(Seen(g), v, v)
  <2>1. v \in Nat
    BY AggConstants
  <2> QED BY <2>1 DEF Spans
<1>5. Spans(Seen(r.total), r.min, r.max)
  <2>1. Spans(Seen(sh[j].total), sh[j].min, sh[j].max)
    BY DEF Envelopes
  <2>2. Seen(sh[j].total) \in SUBSET Values /\ Seen(g) \in SUBSET Values
    BY DEF Seen
  <2>3. Spans(Seen(sh[j].total) \cup Seen(g), Agg!Low(sh[j].min, v), Agg!High(sh[j].max, v))
    BY <1>4, <2>1, <2>2, SpansUnion
  <2>4. Seen(r.total) = Seen(sh[j].total) \cup Seen(g)
    BY <1>2, SeenAdds
  <2> QED BY <2>3, <2>4 DEF Widens
<1>6. \A x \in Values : r.total[x] > r.delta_hist[x] => ag.total[x] > 0
  <2>1. \A x \in Values : r.total[x] > r.delta_hist[x] <=> sh[j].total[x] > sh[j].delta_hist[x]
    BY <1>2, SeenAdds
  <2> QED BY <2>1 DEF Envelopes
<1>7. \A i \in Agg!Shard :
        /\ Spans(Seen(q[i].total), q[i].min, q[i].max)
        /\ \A x \in Values : q[i].total[x] > q[i].delta_hist[x] => ag.total[x] > 0
  BY <1>1, <1>5, <1>6 DEF Envelopes
<1>8. Envelopes(q, ag, fl, u)
  BY <1>7 DEF Envelopes
<1> QED BY <1>1, <1>8

\* A shard is drained: its envelope is of more than its delta, but of nothing the engine has not seen.
LEMMA DrainEnvelopes ==
  ASSUME NEW sh, NEW ag, NEW fl, NEW u, NEW rec, Tiers(Values, sh, ag, fl, u, rec), Envelopes(sh, ag, fl, u),
         NEW j \in Agg!Shard, NEW r, NEW d, NEW m,
         Sends(sh[j], r, Values, TRUE), Carries(sh[j], d, Values, TRUE),
         Adds(ag, m, d.cells, Values, TRUE), Widens(ag, m, d.min, d.max)
  PROVE  Envelopes([sh EXCEPT ![j] = r], m, fl, u)
<1>1. PICK q : q = [sh EXCEPT ![j] = r] /\ q[j] = r /\ \A i \in Agg!Shard : i # j => q[i] = sh[i]
  <2>1. sh \in [Agg!Shard -> AggSeries(Values)]
    BY DEF Tiers
  <2>2. [sh EXCEPT ![j] = r][j] = r /\ \A i \in Agg!Shard : i # j => [sh EXCEPT ![j] = r][i] = sh[i]
    BY <2>1
  <2> QED BY <2>2
<1>2. Sane(sh[j], Values) /\ Sane(ag, Values) /\ d.cells \in [Values -> Nat]
  BY DEF Tiers, Carries, AggDelta
<1>3. \A x \in Values : d.cells[x] = sh[j].delta_hist[x]
  BY DEF Carries, Owed
<1>4. Seen(d.cells) = Seen(sh[j].delta_hist)
  BY <1>3 DEF Seen
<1>5. /\ Seen(m.total) = Seen(ag.total) \cup Seen(d.cells) /\ Seen(m.delta_hist) = Seen(ag.delta_hist) \cup Seen(d.cells)
      /\ \A x \in Values : ag.total[x] > 0 => m.total[x] > 0
  BY <1>2, SeenAdds
<1>6. Seen(ag.total) \cup Seen(sh[j].total) = Seen(m.total)
  <2>1. ASSUME NEW x \in Values
        PROVE  sh[j].total[x] > 0 => ag.total[x] > 0 \/ sh[j].delta_hist[x] > 0
    <3>1. PICK a \in Nat, b \in Nat : a = sh[j].total[x] /\ b = sh[j].delta_hist[x]
      BY <1>2 DEF Sane, AggSeries
    <3>2. a > b => ag.total[x] > 0
      BY <3>1 DEF Envelopes
    <3> QED BY <3>1, <3>2
  <2>2. ASSUME NEW x \in Values
        PROVE  sh[j].delta_hist[x] > 0 => sh[j].total[x] > 0
    <3>1. PICK a \in Nat, b \in Nat : a = sh[j].total[x] /\ b = sh[j].delta_hist[x] /\ b <= a
      BY <1>2 DEF Sane, AggSeries
    <3> QED BY <3>1
  <2> QED BY <1>4, <1>5, <2>1, <2>2 DEF Seen
<1>7. Spans(Seen(m.total), m.min, m.max)
  <2>1. Spans(Seen(sh[j].total), d.min, d.max) /\ Spans(Seen(ag.total), ag.min, ag.max)
    BY DEF Envelopes, Carries
  <2>2. Seen(sh[j].total) \in SUBSET Values /\ Seen(ag.total) \in SUBSET Values
    BY DEF Seen
  <2>3. Spans(Seen(ag.total) \cup Seen(sh[j].total), Agg!Low(ag.min, d.min), Agg!High(ag.max, d.max))
    BY <2>1, <2>2, SpansUnion
  <2> QED BY <1>6, <2>3 DEF Widens
<1>8. ASSUME NEW i \in Agg!Shard
      PROVE  /\ Spans(Seen(q[i].total), q[i].min, q[i].max)
             /\ \A x \in Values : q[i].total[x] > q[i].delta_hist[x] => m.total[x] > 0
  <2>1. CASE i = j
    <3>1. Spans(Seen(r.total), r.min, r.max) /\ r.total = sh[j].total
      BY DEF Envelopes, Sends
    <3>2. ASSUME NEW x \in Values, r.total[x] > r.delta_hist[x] PROVE m.total[x] > 0
      <4>1. r.delta_hist[x] = 0
        BY DEF Sends
      <4>2. x \in Seen(sh[j].total)
        BY <3>1, <3>2, <4>1 DEF Seen
      <4>3. x \in Seen(m.total)
        BY <1>6, <4>2
      <4> QED BY <4>3 DEF Seen
    <3> QED BY <1>1, <2>1, <3>1, <3>2
  <2>2. CASE i # j
    BY <1>1, <1>5, <2>2 DEF Envelopes
  <2> QED BY <2>1, <2>2
<1>9. Seen(m.total) = Upto(fl, u, Len(u)) \cup Seen(m.delta_hist)
  <2>1. Seen(ag.total) = Upto(fl, u, Len(u)) \cup Seen(ag.delta_hist)
    BY DEF Envelopes
  <2> QED BY <1>5, <2>1, Zenon
<1>10. Spans(Seen(fl.total), fl.min, fl.max) /\ \A n \in 1..Len(u) : Spans(Upto(fl, u, n), u[n].delta.min, u[n].delta.max)
  BY DEF Envelopes
<1>11. Envelopes(q, m, fl, u)
  BY <1>7, <1>8, <1>9, <1>10 DEF Envelopes
<1> QED BY <1>1, <1>11

\* A delta is queued with the envelope of all the engine has seen.
LEMMA QueueEnvelopes ==
  ASSUME NEW sh, NEW ag, NEW fl, NEW u, NEW rec, Tiers(Values, sh, ag, fl, u, rec), Envelopes(sh, ag, fl, u),
         NEW r, NEW z \in AggEntry(Values), Sends(ag, r, Values, TRUE), Carries(ag, z.delta, Values, TRUE)
  PROVE  Envelopes(sh, r, fl, Append(u, z))
<1>1. PICK L, q : L \in Nat /\ L = Len(u) /\ q = Append(u, z)
  BY LenProperties DEF Tiers
<1> L \in Nat
  BY <1>1
<1>2. Len(q) = L + 1 /\ (\A i \in 1..L : q[i] = u[i]) /\ q[L + 1] = z
  BY <1>1, AppendProperties DEF Tiers
<1>3. r.total = ag.total /\ r.min = ag.min /\ r.max = ag.max /\ z.delta.min = ag.min /\ z.delta.max = ag.max
      /\ \A x \in Values : r.delta_hist[x] = 0 /\ z.delta.cells[x] = ag.delta_hist[x]
  BY DEF Sends, Carries, Owed
<1>4. \A n \in 1..L : Upto(fl, q, n) = Upto(fl, u, n)
  <2>1. ASSUME NEW n \in 1..L PROVE \A k \in 1..n : q[k] = u[k]
    BY <1>2
  <2> QED BY <2>1 DEF Upto
<1>5. Upto(fl, u, L) \cup Seen(ag.delta_hist) = Seen(ag.total)
  BY <1>1 DEF Envelopes
<1>6. Upto(fl, q, L + 1) = Upto(fl, u, L) \cup Seen(ag.delta_hist)
  <2>1. ASSUME NEW x \in Values
        PROVE  (\E k \in 1..(L + 1) : q[k].delta.cells[x] > 0)
                 <=> (\E k \in 1..L : u[k].delta.cells[x] > 0) \/ ag.delta_hist[x] > 0
    <3>1. \A k : k \in 1..(L + 1) <=> k \in 1..L \/ k = L + 1
      OBVIOUS
    <3>2. q[L + 1].delta.cells[x] = ag.delta_hist[x]
      BY <1>2, <1>3
    <3> QED BY <1>2, <3>1, <3>2
  <2> QED BY <2>1 DEF Upto, Seen
<1>7. Seen(r.delta_hist) = {}
  BY <1>3 DEF Seen
<1>8. \A n \in 1..(L + 1) : Spans(Upto(fl, q, n), q[n].delta.min, q[n].delta.max)
  <2>1. ASSUME NEW n \in 1..L PROVE Spans(Upto(fl, q, n), q[n].delta.min, q[n].delta.max)
    <3>1. Spans(Upto(fl, u, n), u[n].delta.min, u[n].delta.max)
      BY <1>1 DEF Envelopes
    <3> QED BY <1>2, <1>4, <3>1
  <2>2. Spans(Upto(fl, q, L + 1), q[L + 1].delta.min, q[L + 1].delta.max)
    <3>1. Spans(Seen(ag.total), ag.min, ag.max)
      BY DEF Envelopes
    <3> QED BY <1>2, <1>3, <1>5, <1>6, <3>1
  <2>3. \A n \in 1..(L + 1) : n \in 1..L \/ n = L + 1
    OBVIOUS
  <2> QED BY <2>1, <2>2, <2>3
<1>9. Seen(r.total) = Upto(fl, q, L + 1) \cup Seen(r.delta_hist)
  BY <1>3, <1>5, <1>6, <1>7
<1>10. Envelopes(sh, r, fl, q)
  BY <1>2, <1>3, <1>8, <1>9 DEF Envelopes
<1> QED BY <1>1, <1>10

\* A refused delta is restored.
LEMMA RestoreEnvelopes ==
  ASSUME NEW sh, NEW ag, NEW fl, NEW u, Envelopes(sh, ag, fl, u), NEW r, Keeps(ag, r, Values, TRUE)
  PROVE  Envelopes(sh, r, fl, u)
<1>1. r.total = ag.total /\ r.min = ag.min /\ r.max = ag.max /\ Seen(r.delta_hist) = Seen(ag.delta_hist)
  BY DEF Keeps, Seen
<1> QED BY <1>1 DEF Envelopes

\* The controller merges the oldest delta.
LEMMA MergeEnvelopes ==
  ASSUME NEW sh, NEW ag, NEW fl, NEW u, NEW rec, Tiers(Values, sh, ag, fl, u, rec), Envelopes(sh, ag, fl, u),
         u # <<>>, NEW m, Adds(fl, m, Head(u).delta.cells, Values, TRUE),
         Widens(fl, m, Head(u).delta.min, Head(u).delta.max)
  PROVE  Envelopes(sh, ag, m, Tail(u))
<1>1. PICK n, q, h : n \in Nat /\ n + 1 = Len(u) /\ q = Tail(u) /\ h = Head(u)
  <2>1. Len(u) \in Nat /\ Len(u) # 0
    BY LenProperties, EmptySeq DEF Tiers
  <2>2. Len(u) - 1 \in Nat /\ (Len(u) - 1) + 1 = Len(u)
    BY <2>1
  <2> QED BY <2>2
<1> n \in Nat
  BY <1>1
<1>2. Len(q) = n /\ (\A i \in 1..n : q[i] = u[i + 1]) /\ h = u[1] /\ h \in AggEntry(Values)
  BY <1>1, HeadTailProperties DEF Tiers
<1>3. Sane(fl, Values) /\ h.delta.cells \in [Values -> Nat]
  BY <1>2 DEF Tiers, AggEntry, AggDelta
<1>4. Adds(fl, m, h.delta.cells, Values, TRUE) /\ Widens(fl, m, h.delta.min, h.delta.max)
  BY <1>1
<1> HIDE DEF Tiers
<1>5. Seen(m.total) = Seen(fl.total) \cup Seen(h.delta.cells)
  BY <1>3, <1>4, SeenAdds
<1>6. \A k \in 0..n : Upto(m, q, k) = Upto(fl, u, k + 1)
  <2>1. ASSUME NEW k \in 0..n, NEW x \in Values
        PROVE  (\E i \in 1..(k + 1) : u[i].delta.cells[x] > 0)
                 <=> h.delta.cells[x] > 0 \/ (\E i \in 1..k : q[i].delta.cells[x] > 0)
    <3>1. ASSUME NEW i \in 1..(k + 1), u[i].delta.cells[x] > 0
          PROVE  h.delta.cells[x] > 0 \/ (\E l \in 1..k : q[l].delta.cells[x] > 0)
      <4>1. CASE i = 1
        BY <1>2, <3>1, <4>1
      <4>2. CASE i # 1
        <5>1. i - 1 \in 1..k /\ i - 1 \in 1..n /\ (i - 1) + 1 = i
          BY <4>2
        <5>2. q[i - 1] = u[i]
          BY <1>2, <5>1
        <5> QED BY <3>1, <5>1, <5>2
      <4> QED BY <4>1, <4>2
    <3>2. ASSUME NEW i \in 1..k, q[i].delta.cells[x] > 0
          PROVE  \E l \in 1..(k + 1) : u[l].delta.cells[x] > 0
      <4>1. i + 1 \in 1..(k + 1) /\ i \in 1..n
        OBVIOUS
      <4> QED BY <1>2, <3>2, <4>1
    <3>3. 1 \in 1..(k + 1)
      OBVIOUS
    <3> QED BY <1>2, <3>1, <3>2, <3>3
  <2> QED BY <1>5, <2>1 DEF Upto, Seen
<1>7. Upto(fl, u, 1) = Seen(m.total)
  BY <1>2, <1>5 DEF Upto, Seen
<1>8. Spans(Seen(m.total), m.min, m.max)
  <2>1. Spans(Seen(fl.total), fl.min, fl.max) /\ Spans(Upto(fl, u, 1), h.delta.min, h.delta.max)
    BY <1>1, <1>2 DEF Envelopes
  <2>2. Seen(fl.total) \in SUBSET Values /\ Upto(fl, u, 1) \in SUBSET Values
    BY DEF Seen, Upto
  <2>3. Spans(Seen(fl.total) \cup Upto(fl, u, 1), Agg!Low(fl.min, h.delta.min), Agg!High(fl.max, h.delta.max))
    BY <2>1, <2>2, SpansUnion
  <2>4. Seen(fl.total) \cup Upto(fl, u, 1) = Seen(m.total)
    BY <1>5, <1>7
  <2> QED BY <1>4, <2>3, <2>4 DEF Widens
<1>9. ASSUME NEW k \in 1..n PROVE Spans(Upto(m, q, k), q[k].delta.min, q[k].delta.max)
  <2>1. k + 1 \in 1..(n + 1) /\ k \in 0..n
    OBVIOUS
  <2>2. Spans(Upto(fl, u, k + 1), u[k + 1].delta.min, u[k + 1].delta.max)
    BY <1>1, <2>1 DEF Envelopes
  <2> QED BY <1>2, <1>6, <2>1, <2>2
<1>10. Seen(ag.total) = Upto(m, q, n) \cup Seen(ag.delta_hist)
  <2>1. Seen(ag.total) = Upto(fl, u, n + 1) \cup Seen(ag.delta_hist)
    BY <1>1 DEF Envelopes
  <2> QED BY <1>6, <2>1
<1>11. Envelopes(sh, ag, m, q)
  BY <1>2, <1>8, <1>9, <1>10 DEF Envelopes
<1> QED BY <1>1, <1>11

\* All agents.
AggState(C, t, w, sh, ag, fl, u, rec) ==
  /\ sh \in [Agent -> [Agg!Shard -> AggSeries(C)]] /\ ag \in [Agent -> AggSeries(C)]
  /\ fl \in [Agent -> AggSeries(C)] /\ u \in [Agent -> Seq(AggEntry(C))] /\ rec \in [Agent -> [Values -> Nat]]
  /\ \A a \in Agent : Books(C, t, w, sh[a], ag[a], fl[a], u[a], rec[a])
  /\ t => \A a \in Agent : Envelopes(sh[a], ag[a], fl[a], u[a])

\* One agent moves.
LEMMA AgentMoves ==
  ASSUME NEW C, NEW t, NEW w, NEW sh, NEW ag, NEW fl, NEW u, NEW rec, AggState(C, t, w, sh, ag, fl, u, rec),
         NEW a \in Agent, NEW s1, NEW g1, NEW f1, NEW u1, NEW r1,
         Books(C, t, w, s1, g1, f1, u1, r1), t => Envelopes(s1, g1, f1, u1)
  PROVE  AggState(C, t, w, [sh EXCEPT ![a] = s1], [ag EXCEPT ![a] = g1], [fl EXCEPT ![a] = f1],
                  [u EXCEPT ![a] = u1], [rec EXCEPT ![a] = r1])
<1>1. /\ s1 \in [Agg!Shard -> AggSeries(C)] /\ g1 \in AggSeries(C) /\ f1 \in AggSeries(C)
      /\ u1 \in Seq(AggEntry(C)) /\ r1 \in [Values -> Nat]
  BY DEF Books, Tiers, Sane
<1>2. /\ sh \in [Agent -> [Agg!Shard -> AggSeries(C)]] /\ ag \in [Agent -> AggSeries(C)]
      /\ fl \in [Agent -> AggSeries(C)] /\ u \in [Agent -> Seq(AggEntry(C))] /\ rec \in [Agent -> [Values -> Nat]]
  BY DEF AggState
<1>3. PICK p, g, f, q, c : /\ p = [sh EXCEPT ![a] = s1] /\ g = [ag EXCEPT ![a] = g1] /\ f = [fl EXCEPT ![a] = f1]
                           /\ q = [u EXCEPT ![a] = u1] /\ c = [rec EXCEPT ![a] = r1]
  OBVIOUS
<1>4. /\ p \in [Agent -> [Agg!Shard -> AggSeries(C)]] /\ g \in [Agent -> AggSeries(C)]
      /\ f \in [Agent -> AggSeries(C)] /\ q \in [Agent -> Seq(AggEntry(C))] /\ c \in [Agent -> [Values -> Nat]]
  BY <1>1, <1>2, <1>3
<1>5. p[a] = s1 /\ g[a] = g1 /\ f[a] = f1 /\ q[a] = u1 /\ c[a] = r1
  BY <1>2, <1>3
<1>6. \A b \in Agent : b # a => p[b] = sh[b] /\ g[b] = ag[b] /\ f[b] = fl[b] /\ q[b] = u[b] /\ c[b] = rec[b]
  BY <1>2, <1>3
<1>7. ASSUME NEW b \in Agent
      PROVE  Books(C, t, w, p[b], g[b], f[b], q[b], c[b]) /\ (t => Envelopes(p[b], g[b], f[b], q[b]))
  <2>1. CASE b = a
    BY <1>5, <2>1
  <2>2. CASE b # a
    BY <1>6, <2>2 DEF AggState
  <2> QED BY <2>1, <2>2
<1> QED BY <1>3, <1>4, <1>7 DEF AggState

\* The invariant of the aggregation.
AggWeights == [v \in Values |-> Agg!Unit(v)]
AggInv ==
  /\ kind \in Kinds /\ drained \in [Agent -> 0..Shards] /\ flushes \in 0..MaxFlushes /\ mark \in [Agent -> Nat]
  /\ AggState(Agg!Cells, kind = "trend", AggWeights, shard, agg, fleet, up, recorded)

\* What the invariant says of an agent.
LEMMA AgentSays ==
  ASSUME AggInv, NEW a \in Agent
  PROVE  /\ Books(Agg!Cells, kind = "trend", AggWeights, shard[a], agg[a], fleet[a], up[a], recorded[a])
         /\ kind = "trend" => Envelopes(shard[a], agg[a], fleet[a], up[a])
         /\ \A i \in Agg!Shard : Sane(shard[a][i], Agg!Cells)
         /\ Sane(agg[a], Agg!Cells) /\ Sane(fleet[a], Agg!Cells)
         /\ up[a] \in Seq(AggEntry(Agg!Cells)) /\ recorded[a] \in [Values -> Nat]
         /\ kind \in Kinds /\ Tiers(Agg!Cells, shard[a], agg[a], fleet[a], up[a], recorded[a])
<1>1. Books(Agg!Cells, kind = "trend", AggWeights, shard[a], agg[a], fleet[a], up[a], recorded[a])
  BY DEF AggInv, AggState
<1>2. kind \in Kinds /\ (kind = "trend" => Envelopes(shard[a], agg[a], fleet[a], up[a]))
  BY DEF AggInv, AggState
<1> QED BY <1>1, <1>2 DEF Books, Tiers

\* A trend's cells are its values.
LEMMA TrendCells == kind = "trend" => Agg!Cells = Values
BY DEF Agg!Cells

\* A step of one agent.
AggMoves(a, s1, g1, f1, u1, r1) ==
  /\ kind' = kind /\ shard' = [shard EXCEPT ![a] = s1] /\ agg' = [agg EXCEPT ![a] = g1]
  /\ fleet' = [fleet EXCEPT ![a] = f1] /\ up' = [up EXCEPT ![a] = u1] /\ recorded' = [recorded EXCEPT ![a] = r1]

\* Such a step keeps the invariant, if the agent's books and envelopes are right.
LEMMA AggStep ==
  ASSUME AggInv, NEW a \in Agent, NEW s1, NEW g1, NEW f1, NEW u1, NEW r1, AggMoves(a, s1, g1, f1, u1, r1),
         Books(Agg!Cells, kind = "trend", AggWeights, s1, g1, f1, u1, r1), kind = "trend" => Envelopes(s1, g1, f1, u1),
         drained' \in [Agent -> 0..Shards], flushes' \in 0..MaxFlushes, mark' \in [Agent -> Nat]
  PROVE  AggInv'
<1>1. kind' = kind /\ Agg!Cells' = Agg!Cells /\ AggWeights' = AggWeights
  BY DEF AggMoves, Agg!Cells, AggWeights, Agg!Unit
<1>2. PICK C, t, w : C = Agg!Cells /\ t = (kind = "trend") /\ w = AggWeights
  OBVIOUS
<1>3. AggState(C, t, w, shard, agg, fleet, up, recorded)
  BY <1>2 DEF AggInv
<1>4. AggState(C, t, w, [shard EXCEPT ![a] = s1], [agg EXCEPT ![a] = g1], [fleet EXCEPT ![a] = f1],
               [up EXCEPT ![a] = u1], [recorded EXCEPT ![a] = r1])
  BY <1>2, <1>3, AgentMoves, ZenonT(40)
<1>5. AggState(C, t, w, shard', agg', fleet', up', recorded')
  BY <1>4 DEF AggMoves
<1>6. AggState(Agg!Cells, kind = "trend", AggWeights, shard, agg, fleet, up, recorded)'
  BY <1>1, <1>2, <1>5
<1>7. kind' \in Kinds
  BY <1>1 DEF AggInv
<1> QED BY <1>6, <1>7 DEF AggInv

\* An agent that stays as it is.
LEMMA AggSame ==
  ASSUME AggInv, NEW a \in Agent
  PROVE  /\ shard = [shard EXCEPT ![a] = shard[a]] /\ agg = [agg EXCEPT ![a] = agg[a]]
         /\ fleet = [fleet EXCEPT ![a] = fleet[a]] /\ up = [up EXCEPT ![a] = up[a]]
         /\ recorded = [recorded EXCEPT ![a] = recorded[a]]
<1>1. /\ shard = [b \in Agent |-> shard[b]] /\ agg = [b \in Agent |-> agg[b]] /\ fleet = [b \in Agent |-> fleet[b]]
      /\ up = [b \in Agent |-> up[b]] /\ recorded = [b \in Agent |-> recorded[b]]
  BY DEF AggInv, AggState
<1> QED BY <1>1

\* Record.
LEMMA SampleInv ==
  ASSUME AggInv, NEW a \in Agent, NEW i \in Agg!Shard, NEW v \in Values, Agg!Record(a, i, v)
  PROVE  AggInv'
<1>1. PICK r, s, c : /\ r = Agg!Recorded(shard[a][i], v) /\ s = [shard[a] EXCEPT ![i] = r]
                     /\ c = [recorded[a] EXCEPT ![v] = recorded[a][v] + 1]
  OBVIOUS
<1>2. /\ shard' = [shard EXCEPT ![a] = s] /\ recorded' = [recorded EXCEPT ![a] = c] /\ kind' = kind
      /\ agg' = agg /\ fleet' = fleet /\ up' = up /\ drained' = drained /\ flushes' = flushes /\ mark' = mark
  BY <1>1 DEF Agg!Record
<1>3. Sane(shard[a][i], Agg!Cells) /\ kind \in Kinds
  BY AgentSays
<1>4. PICK g : g = Agg!Unit(v) /\ Adds(shard[a][i], r, g, Agg!Cells, kind = "trend") /\ g = AggWeights[v]
               /\ (kind = "trend" => Widens(shard[a][i], r, v, v)) /\ g \in [Agg!Cells -> Nat]
  BY <1>1, <1>3, RecordAdds, UnitType DEF AggWeights
<1>5. Books(Agg!Cells, kind = "trend", AggWeights, s, agg[a], fleet[a], up[a], c)
  <2>1. Books(Agg!Cells, kind = "trend", AggWeights, shard[a], agg[a], fleet[a], up[a], recorded[a])
    BY AgentSays
  <2>2. Adds(shard[a][i], r, AggWeights[v], Agg!Cells, kind = "trend")
    BY <1>4
  <2>3. PICK sh, rec : sh = shard[a] /\ rec = recorded[a]
    OBVIOUS
  <2>4. Books(Agg!Cells, kind = "trend", AggWeights, [sh EXCEPT ![i] = r], agg[a], fleet[a], up[a],
              [rec EXCEPT ![v] = rec[v] + 1])
    BY <2>1, <2>2, <2>3, RecordBooks
  <2> QED BY <1>1, <2>3, <2>4
<1>6. kind = "trend" => Envelopes(s, agg[a], fleet[a], up[a])
  <2> SUFFICES ASSUME kind = "trend" PROVE Envelopes(s, agg[a], fleet[a], up[a])
    OBVIOUS
  <2>1. Tiers(Values, shard[a], agg[a], fleet[a], up[a], recorded[a]) /\ Envelopes(shard[a], agg[a], fleet[a], up[a])
    BY AgentSays, TrendCells
  <2>2. g \in [Values -> Nat] /\ Seen(g) = {v}
    <3>1. g = [x \in Values |-> IF x = v THEN 1 ELSE 0]
      BY <1>4, TrendCells DEF Agg!Unit
    <3> QED BY <3>1 DEF Seen
  <2>3. Adds(shard[a][i], r, g, Values, TRUE) /\ Widens(shard[a][i], r, v, v)
    BY <1>4, TrendCells
  <2>4. PICK sh : sh = shard[a]
    OBVIOUS
  <2>5. Envelopes([sh EXCEPT ![i] = r], agg[a], fleet[a], up[a])
    BY <2>1, <2>2, <2>3, <2>4, RecordEnvelopes
  <2> QED BY <1>1, <2>4, <2>5
<1>7. AggMoves(a, s, agg[a], fleet[a], up[a], c)
  BY <1>2, AggSame DEF AggMoves
<1>8. drained' \in [Agent -> 0..Shards] /\ flushes' \in 0..MaxFlushes /\ mark' \in [Agent -> Nat]
  BY <1>2 DEF AggInv
<1> QED BY <1>5, <1>6, <1>7, <1>8, AggStep

\* The samples of an agent.
LEMMA SamplesNat ==
  ASSUME AggInv, NEW a \in Agent
  PROVE  Agg!Samples(a) \in Nat
<1>1. \A f : Agg!SumFunction(f) = SumFunctionOnSet(f, DOMAIN f)
  BY Zenon DEF Agg!SumFunction, Agg!SumFunctionOnSet, SumFunctionOnSet, Agg!FoldFunctionOnSet, FoldFunctionOnSet,
     Agg!MapThenFoldSet, MapThenFoldSet
<1>2. PICK f : f = recorded[a] /\ DOMAIN f = Values /\ \A v \in Values : f[v] \in Nat
  BY AgentSays
<1>3. SumFunctionOnSet(f, Values) \in Nat
  BY <1>2, AggConstants, SumNat
<1>4. Agg!Samples(a) = SumFunctionOnSet(f, Values)
  BY <1>1, <1>2, Zenon DEF Agg!Samples
<1> QED BY <1>3, <1>4

\* DrainShard.
LEMMA DrainShardInv ==
  ASSUME AggInv, NEW a \in Agent, Agg!DrainShard(a)
  PROVE  AggInv'
<1>1. PICK j : j = drained[a] + 1
  OBVIOUS
<1>2. j \in Agg!Shard /\ drained' \in [Agent -> 0..Shards]
  <2>1. drained[a] \in 0..Shards /\ drained[a] < Shards /\ drained' = [drained EXCEPT ![a] = drained[a] + 1]
        /\ Shards \in Nat
    BY AggConstants DEF AggInv, Agg!DrainShard
  <2>2. drained[a] + 1 \in 1..Shards /\ drained[a] + 1 \in 0..Shards
    BY <2>1
  <2> QED BY <1>1, <2>1, <2>2 DEF AggInv, Agg!Shard
<1>3. mark' \in [Agent -> Nat]
  BY SamplesNat DEF Agg!DrainShard, AggInv
<1>4. kind' = kind /\ fleet' = fleet /\ up' = up /\ flushes' = flushes /\ recorded' = recorded
  BY DEF Agg!DrainShard
<1>5. flushes' \in 0..MaxFlushes
  BY <1>4 DEF AggInv
<1>6. CASE ~Agg!HasDelta(shard[a][j])
  <2>1. shard' = shard /\ agg' = agg
    BY <1>1, <1>6 DEF Agg!DrainShard
  <2>2. AggMoves(a, shard[a], agg[a], fleet[a], up[a], recorded[a])
    BY <1>4, <2>1, AggSame DEF AggMoves
  <2> QED BY <1>2, <1>3, <1>5, <2>2, AgentSays, AggStep
<1>7. CASE Agg!HasDelta(shard[a][j])
  <2>1. PICK s, r, d, m, q : /\ s = shard[a][j] /\ r = Agg!Taken(s) /\ d = Agg!Delta(s)
                             /\ m = Agg!Merged(agg[a], d) /\ q = [shard[a] EXCEPT ![j] = r]
    OBVIOUS
  <2>2. shard' = [shard EXCEPT ![a] = q] /\ agg' = [agg EXCEPT ![a] = m]
    BY <1>1, <1>7, <2>1 DEF Agg!DrainShard
  <2>3. Sane(s, Agg!Cells) /\ Sane(agg[a], Agg!Cells) /\ kind \in Kinds
    BY <1>2, <2>1, AgentSays
  <2>4. Sends(s, r, Agg!Cells, kind = "trend") /\ Carries(s, d, Agg!Cells, kind = "trend")
    BY <2>1, <2>3, TakenSends
  <2>5. d \in AggDelta(Agg!Cells)
    BY <2>4 DEF Carries
  <2>6. Adds(agg[a], m, d.cells, Agg!Cells, kind = "trend") /\ (kind = "trend" => Widens(agg[a], m, d.min, d.max))
    BY <2>1, <2>3, <2>5, MergedAdds
  <2>7. Books(Agg!Cells, kind = "trend", AggWeights, q, m, fleet[a], up[a], recorded[a])
    BY <1>2, <2>1, <2>4, <2>6, AgentSays, DrainBooks
  <2>8. kind = "trend" => Envelopes(q, m, fleet[a], up[a])
    <3> SUFFICES ASSUME kind = "trend" PROVE Envelopes(q, m, fleet[a], up[a])
      OBVIOUS
    <3>1. Tiers(Values, shard[a], agg[a], fleet[a], up[a], recorded[a]) /\ Envelopes(shard[a], agg[a], fleet[a], up[a])
      BY AgentSays, TrendCells
    <3>2. /\ Sends(shard[a][j], r, Values, TRUE) /\ Carries(shard[a][j], d, Values, TRUE)
          /\ Adds(agg[a], m, d.cells, Values, TRUE) /\ Widens(agg[a], m, d.min, d.max)
      BY <2>1, <2>4, <2>6, TrendCells
    <3> QED BY <1>2, <2>1, <3>1, <3>2, DrainEnvelopes
  <2>9. AggMoves(a, q, m, fleet[a], up[a], recorded[a])
    BY <1>4, <2>2, AggSame DEF AggMoves
  <2> QED BY <1>2, <1>3, <1>5, <2>7, <2>8, <2>9, AggStep
<1> QED BY <1>6, <1>7

\* Flush.
LEMMA FlushDeltaInv ==
  ASSUME AggInv, NEW a \in Agent, NEW ok \in BOOLEAN, Agg!Flush(a, ok)
  PROVE  AggInv'
<1>1. kind' = kind /\ fleet' = fleet /\ shard' = shard /\ recorded' = recorded /\ mark' = mark
  BY DEF Agg!Flush, Agg!history
<1>2. mark' \in [Agent -> Nat]
  BY <1>1 DEF AggInv
<1>3. drained' \in [Agent -> 0..Shards]
  <2>1. drained' = [drained EXCEPT ![a] = 0] /\ 0 \in 0..Shards
    BY AggConstants DEF Agg!Flush
  <2> QED BY <2>1 DEF AggInv
<1>4. CASE UNCHANGED <<agg, up, flushes>>
  <2>1. AggMoves(a, shard[a], agg[a], fleet[a], up[a], recorded[a])
    BY <1>1, <1>4, AggSame DEF AggMoves
  <2>2. flushes' \in 0..MaxFlushes
    BY <1>4 DEF AggInv
  <2> QED BY <1>2, <1>3, <2>1, <2>2, AgentSays, AggStep
<1>5. CASE ~(UNCHANGED <<agg, up, flushes>>)
  <2>1. PICK s, r, d, k : /\ s = agg[a] /\ r = Agg!Taken(s) /\ d = Agg!Delta(s) /\ k = Agg!Restored(r, d)
    OBVIOUS
  <2>2. /\ flushes < MaxFlushes /\ flushes' = flushes + 1
        /\ agg' = [agg EXCEPT ![a] = IF ok THEN r ELSE k]
        /\ up' = IF ok THEN [up EXCEPT ![a] = Append(up[a], [delta |-> d, mark |-> mark[a]])] ELSE up
    BY <1>5, <2>1 DEF Agg!Flush
  <2>3. flushes' \in 0..MaxFlushes
    <3>1. flushes \in 0..MaxFlushes /\ MaxFlushes \in Nat
      BY AggConstants DEF AggInv
    <3> QED BY <2>2, <3>1
  <2>4. Sane(s, Agg!Cells) /\ kind \in Kinds
    BY <2>1, AgentSays
  <2>5. CASE ok
    <3>1. PICK z : z = [delta |-> d, mark |-> mark[a]]
      OBVIOUS
    <3>2. Sends(s, r, Agg!Cells, kind = "trend") /\ Carries(s, d, Agg!Cells, kind = "trend")
      BY <2>1, <2>4, TakenSends
    <3>3. z \in AggEntry(Agg!Cells) /\ z.delta = d
      BY <3>1, <3>2 DEF Carries, AggEntry, AggInv
    <3>4. PICK q : q = Append(up[a], z)
      OBVIOUS
    <3>5. Books(Agg!Cells, kind = "trend", AggWeights, shard[a], r, fleet[a], q, recorded[a])
      BY <2>1, <3>2, <3>3, <3>4, AgentSays, QueueBooks
    <3>6. kind = "trend" => Envelopes(shard[a], r, fleet[a], q)
      <4> SUFFICES ASSUME kind = "trend" PROVE Envelopes(shard[a], r, fleet[a], q)
        OBVIOUS
      <4>1. Tiers(Values, shard[a], agg[a], fleet[a], up[a], recorded[a]) /\ Envelopes(shard[a], agg[a], fleet[a], up[a])
        BY AgentSays, TrendCells
      <4>2. /\ Sends(agg[a], r, Values, TRUE) /\ Carries(agg[a], z.delta, Values, TRUE) /\ z \in AggEntry(Values)
        BY <2>1, <3>2, <3>3, TrendCells
      <4> QED BY <3>4, <4>1, <4>2, QueueEnvelopes
    <3>7. AggMoves(a, shard[a], r, fleet[a], q, recorded[a])
      BY <1>1, <2>2, <2>5, <3>1, <3>4, AggSame DEF AggMoves
    <3> QED BY <1>2, <1>3, <2>3, <3>5, <3>6, <3>7, AggStep
  <2>6. CASE ~ok
    <3>1. Keeps(s, k, Agg!Cells, kind = "trend")
      BY <2>1, <2>4, RestoredKeeps
    <3>2. Books(Agg!Cells, kind = "trend", AggWeights, shard[a], k, fleet[a], up[a], recorded[a])
      BY <2>1, <3>1, AgentSays, RestoreBooks
    <3>3. kind = "trend" => Envelopes(shard[a], k, fleet[a], up[a])
      BY <2>1, <3>1, AgentSays, TrendCells, RestoreEnvelopes
    <3>4. AggMoves(a, shard[a], k, fleet[a], up[a], recorded[a])
      BY <1>1, <2>2, <2>6, AggSame DEF AggMoves
    <3> QED BY <1>2, <1>3, <2>3, <3>2, <3>3, <3>4, AggStep
  <2> QED BY <2>5, <2>6
<1> QED BY <1>4, <1>5

\* MergeDelta.
LEMMA MergeDeltaInv ==
  ASSUME AggInv, NEW a \in Agent, Agg!MergeDelta(a)
  PROVE  AggInv'
<1>1. PICK u, h, q, m : u = up[a] /\ h = Head(u) /\ q = Tail(u) /\ m = Agg!Merged(fleet[a], h.delta)
  OBVIOUS
<1>2. /\ u # <<>> /\ up' = [up EXCEPT ![a] = q] /\ fleet' = [fleet EXCEPT ![a] = m]
      /\ kind' = kind /\ shard' = shard /\ agg' = agg /\ drained' = drained /\ flushes' = flushes
      /\ recorded' = recorded /\ mark' = mark
  BY <1>1 DEF Agg!MergeDelta
<1>3. h \in AggEntry(Agg!Cells) /\ Sane(fleet[a], Agg!Cells) /\ kind \in Kinds
  <2>1. u \in Seq(AggEntry(Agg!Cells)) /\ Sane(fleet[a], Agg!Cells) /\ kind \in Kinds
    BY <1>1, AgentSays
  <2> QED BY <1>1, <1>2, <2>1, HeadTailProperties
<1>4. h.delta \in AggDelta(Agg!Cells)
  BY <1>3 DEF AggEntry
<1>5. /\ Adds(fleet[a], m, h.delta.cells, Agg!Cells, kind = "trend")
      /\ kind = "trend" => Widens(fleet[a], m, h.delta.min, h.delta.max)
  BY <1>1, <1>3, <1>4, MergedAdds
<1>6. Books(Agg!Cells, kind = "trend", AggWeights, shard[a], agg[a], m, q, recorded[a])
  BY <1>1, <1>2, <1>5, AgentSays, MergeBooks
<1>7. kind = "trend" => Envelopes(shard[a], agg[a], m, q)
  <2> SUFFICES ASSUME kind = "trend" PROVE Envelopes(shard[a], agg[a], m, q)
    OBVIOUS
  <2>1. Tiers(Values, shard[a], agg[a], fleet[a], up[a], recorded[a]) /\ Envelopes(shard[a], agg[a], fleet[a], up[a])
    BY AgentSays, TrendCells
  <2>2. Adds(fleet[a], m, h.delta.cells, Values, TRUE) /\ Widens(fleet[a], m, h.delta.min, h.delta.max)
    BY <1>5, TrendCells
  <2> QED BY <1>1, <1>2, <2>1, <2>2, MergeEnvelopes
<1>8. AggMoves(a, shard[a], agg[a], m, q, recorded[a])
  BY <1>2, AggSame DEF AggMoves
<1>9. drained' \in [Agent -> 0..Shards] /\ flushes' \in 0..MaxFlushes /\ mark' \in [Agent -> Nat]
  BY <1>2 DEF AggInv
<1> QED BY <1>6, <1>7, <1>8, <1>9, AggStep

\* The first state of an agent.
LEMMA AggInit == Init => AggInv
<1> SUFFICES ASSUME Init PROVE AggInv
  OBVIOUS
<1>1. /\ kind \in Kinds /\ shard = [a \in Agent |-> [i \in Agg!Shard |-> Agg!Empty(Agg!Zero)]]
      /\ agg = [a \in Agent |-> Agg!Empty(Agg!Zero)] /\ fleet = [a \in Agent |-> Agg!Empty(Agg!Zero)]
      /\ drained = [a \in Agent |-> 0] /\ up = [a \in Agent |-> <<>>] /\ flushes = 0
      /\ recorded = [a \in Agent |-> [v \in Values |-> 0]] /\ mark = [a \in Agent |-> 0]
  BY DEF Init, Agg!Init
<1>2. PICK C, s, t, w : C = Agg!Cells /\ s = Agg!Empty(Agg!Zero) /\ t = (kind = "trend") /\ w = AggWeights
  OBVIOUS
<1>3. /\ s \in AggSeries(C) /\ s.min = Agg!None /\ s.max = Agg!None
      /\ \A x \in C : s.total[x] = 0 /\ s.delta_hist[x] = 0 /\ s.flushed[x] = 0
  BY <1>2 DEF Agg!Empty, Agg!Zero, AggSeries, AggValue
<1>4. Sane(s, C) /\ \A x \in C : Owed(s, t, x) = 0
  BY <1>3 DEF Sane, Owed
<1>5. PICK sh, r, e : sh = [i \in Agg!Shard |-> s] /\ r = [v \in Values |-> 0] /\ e = <<>>
  OBVIOUS
<1>6. e \in Seq(AggEntry(C)) /\ Len(e) = 0 /\ 1..Len(e) = {}
  BY <1>5
<1>7. Tiers(C, sh, s, s, e, r)
  BY <1>3, <1>4, <1>5, <1>6 DEF Tiers
<1>8. ASSUME NEW x \in C
      PROVE  /\ SumFunctionOnSet(Owing(sh, t, x), Agg!Shard) = 0 /\ SumFunctionOnSet(Weighed(r, w, x), Values) = 0
             /\ SumFunctionOnSet(Flying(e, x), 1..Len(e)) = 0
  <2>1. IsFiniteSet(Agg!Shard) /\ IsFiniteSet(Values)
    <3>1. 1 \in Int /\ Shards \in Int
      BY AggConstants
    <3> QED BY <3>1, AggConstants, FS_Interval DEF Agg!Shard
  <2>2. \A i \in Agg!Shard : Owing(sh, t, x)[i] = 0
    BY <1>4, <1>5 DEF Owing
  <2>3. \A v \in Values : Weighed(r, w, x)[v] = 0
    <3>1. ASSUME NEW v \in Values PROVE Weighed(r, w, x)[v] = 0
      <4>1. w[v][x] \in Nat
        BY <1>1, <1>2, UnitType DEF AggWeights
      <4>2. PICK b \in Nat : b = w[v][x]
        BY <4>1
      <4>3. 0 * b = 0
        OBVIOUS
      <4> QED BY <1>5, <4>2, <4>3 DEF Weighed
    <3> QED BY <3>1
  <2> QED BY <1>6, <2>1, <2>2, <2>3, SumZero, SumEmpty
<1>9. Balance(C, t, w, sh, s, s, e, r)
  BY <1>3, <1>4, <1>8 DEF Balance
<1>10. Books(C, t, w, sh, s, s, e, r)
  <2>1. t \in BOOLEAN /\ \A v \in Values : w[v] \in [C -> Nat]
    BY <1>1, <1>2, UnitType DEF AggWeights
  <2> QED BY <1>7, <1>9, <2>1 DEF Books
<1>11. t => Envelopes(sh, s, s, e)
  <2> SUFFICES ASSUME t PROVE Envelopes(sh, s, s, e)
    OBVIOUS
  <2>1. C = Values
    BY <1>2, TrendCells
  <2>2. Seen(s.total) = {} /\ Seen(s.delta_hist) = {} /\ \A i \in Agg!Shard : sh[i] = s
    BY <1>3, <1>5, <2>1 DEF Seen
  <2>3. Spans(Seen(s.total), s.min, s.max)
    BY <1>3, <2>2 DEF Spans
  <2>4. Upto(s, e, Len(e)) = {}
    BY <1>6, <2>2 DEF Upto
  <2>5. \A v \in Values : ~(s.total[v] > s.delta_hist[v])
    BY <1>3, <2>1
  <2> QED BY <1>6, <2>2, <2>3, <2>4, <2>5 DEF Envelopes
<1>12. AggState(C, t, w, shard, agg, fleet, up, recorded)
  <2>1. /\ shard = [a \in Agent |-> sh] /\ agg = [a \in Agent |-> s] /\ fleet = [a \in Agent |-> s]
        /\ up = [a \in Agent |-> e] /\ recorded = [a \in Agent |-> r]
    BY <1>1, <1>2, <1>5
  <2>2. sh \in [Agg!Shard -> AggSeries(C)] /\ s \in AggSeries(C) /\ e \in Seq(AggEntry(C)) /\ r \in [Values -> Nat]
    BY <1>3, <1>5, <1>6
  <2> QED BY <1>10, <1>11, <2>1, <2>2 DEF AggState
<1>13. drained \in [Agent -> 0..Shards] /\ flushes \in 0..MaxFlushes /\ mark \in [Agent -> Nat]
  BY <1>1, AggConstants
<1> QED BY <1>1, <1>2, <1>12, <1>13 DEF AggInv

\* Every step keeps the invariant.
LEMMA AggNext ==
  ASSUME AggInv, [Next]_vars
  PROVE  AggInv'
<1>1. CASE Agg!Next
  BY <1>1, SampleInv, DrainShardInv, FlushDeltaInv, MergeDeltaInv DEF Agg!Next
<1>2. CASE UNCHANGED aggregation
  <2>1. UNCHANGED <<kind, shard, agg, fleet, up, recorded, drained, flushes, mark>>
    BY <1>2 DEF aggregation
  <2>2. Agg!Cells' = Agg!Cells /\ AggWeights' = AggWeights
    BY <2>1 DEF Agg!Cells, AggWeights, Agg!Unit
  <2> QED BY <2>1, <2>2 DEF AggInv
<1> QED BY <1>1, <1>2 DEF Next, vars

\* The sums of the property are those of the invariant.
LEMMA AggSums ==
  ASSUME AggInv, NEW a \in Agent, NEW x \in Agg!Cells
  PROVE  /\ Agg!InShards(a, x) = SumFunctionOnSet(Owing(shard[a], kind = "trend", x), Agg!Shard)
         /\ Agg!InFlight(a, x) = SumFunctionOnSet(Flying(up[a], x), 1..Len(up[a]))
         /\ Agg!InSamples(a, x) = SumFunctionOnSet(Weighed(recorded[a], AggWeights, x), Values)
         /\ Agg!Unsent(agg[a])[x] = Owed(agg[a], kind = "trend", x)
<1>1. \A f : Agg!SumFunction(f) = SumFunctionOnSet(f, DOMAIN f)
  BY Zenon DEF Agg!SumFunction, Agg!SumFunctionOnSet, SumFunctionOnSet, Agg!FoldFunctionOnSet, FoldFunctionOnSet,
     Agg!MapThenFoldSet, MapThenFoldSet
<1>2. ASSUME NEW s, Sane(s, Agg!Cells) PROVE Agg!Unsent(s)[x] = Owed(s, kind = "trend", x)
  <2>1. kind \in Kinds
    BY DEF AggInv
  <2>2. Carries(s, Agg!Delta(s), Agg!Cells, kind = "trend")
    BY <1>2, <2>1, TakenSends
  <2>3. Agg!Delta(s).cells[x] = Owed(s, kind = "trend", x)
    BY <2>2 DEF Carries
  <2> QED BY <2>3 DEF Agg!Delta
<1>3. /\ \A i \in Agg!Shard : Sane(shard[a][i], Agg!Cells)
      /\ Sane(agg[a], Agg!Cells) /\ up[a] \in Seq(AggEntry(Agg!Cells))
  BY AgentSays
<1>4. [i \in Agg!Shard |-> Agg!Unsent(shard[a][i])[x]] = Owing(shard[a], kind = "trend", x)
  <2>1. \A i \in Agg!Shard : Agg!Unsent(shard[a][i])[x] = Owed(shard[a][i], kind = "trend", x)
    BY <1>2, <1>3
  <2> QED BY <2>1 DEF Owing
<1>5. DOMAIN up[a] = 1..Len(up[a])
  BY <1>3, LenProperties
<1>6. [n \in DOMAIN up[a] |-> up[a][n].delta.cells[x]] = Flying(up[a], x)
  BY <1>5 DEF Flying
<1>7. [v \in Values |-> recorded[a][v] * Agg!Unit(v)[x]] = Weighed(recorded[a], AggWeights, x)
  BY DEF Weighed, AggWeights
<1>8. /\ DOMAIN Owing(shard[a], kind = "trend", x) = Agg!Shard /\ DOMAIN Flying(up[a], x) = 1..Len(up[a])
      /\ DOMAIN Weighed(recorded[a], AggWeights, x) = Values
  BY DEF Owing, Flying, Weighed
<1>9. Agg!InShards(a, x) = SumFunctionOnSet(Owing(shard[a], kind = "trend", x), Agg!Shard)
  BY <1>1, <1>4, <1>8, Zenon DEF Agg!InShards
<1>10. Agg!InFlight(a, x) = SumFunctionOnSet(Flying(up[a], x), 1..Len(up[a]))
  BY <1>1, <1>6, <1>8, Zenon DEF Agg!InFlight
<1>11. Agg!InSamples(a, x) = SumFunctionOnSet(Weighed(recorded[a], AggWeights, x), Values)
  BY <1>1, <1>7, <1>8, Zenon DEF Agg!InSamples
<1> QED BY <1>2, <1>3, <1>9, <1>10, <1>11

\* The least and the greatest.
LEMMA SpansMinMax ==
  ASSUME NEW A \in SUBSET Values, NEW lo, NEW hi, Spans(A, lo, hi)
  PROVE  /\ lo = (IF A = {} THEN Agg!None ELSE Agg!Min(A))
         /\ hi = (IF A = {} THEN Agg!None ELSE Agg!Max(A))
<1>1. CASE A = {}
  BY <1>1 DEF Spans
<1>2. CASE A # {}
  <2>1. lo \in A /\ hi \in A /\ \A v \in A : lo <= v /\ v <= hi
    BY <1>2 DEF Spans
  <2>2. \A v \in A : v \in Nat
    BY AggConstants
  <2>3. Agg!Min(A) \in A /\ \A v \in A : Agg!Min(A) <= v
    BY <2>1 DEF Agg!Min
  <2>4. Agg!Max(A) \in A /\ \A v \in A : v <= Agg!Max(A)
    BY <2>1 DEF Agg!Max
  <2>5. lo = Agg!Min(A) /\ hi = Agg!Max(A)
    BY <2>1, <2>2, <2>3, <2>4
  <2> QED BY <1>2, <2>5
<1> QED BY <1>1, <1>2

\* No sample is lost or counted twice between the shard it is recorded into and
\* the fleet's totals, and every tier's minimum and maximum are those of its
\* histogram, for every number of agents and shards.
THEOREM SamplesTheorem == Spec => []SamplesConserved
<1>1. ASSUME AggInv, NEW a \in Agent
      PROVE  \A s \in Agg!Series(a) : Sane(s, Agg!Cells)
  BY <1>1, AgentSays DEF Agg!Series
<1>2. AggInv => Agg!TypeOK
  <2> SUFFICES ASSUME AggInv PROVE Agg!TypeOK
    OBVIOUS
  <2>1. ASSUME NEW a \in Agent, NEW s \in Agg!Series(a)
        PROVE  /\ s.total \in [Agg!Cells -> Nat] /\ s.flushed \in [Agg!Cells -> Nat]
               /\ {s.last, s.min, s.max} \subseteq Values \cup {Agg!None}
    <3>1. s \in AggSeries(Agg!Cells)
      BY <1>1 DEF Sane
    <3> QED BY <3>1 DEF AggSeries, AggValue
  <2>2. kind \in Kinds /\ drained \in [Agent -> 0..Shards] /\ flushes \in 0..MaxFlushes
    BY DEF AggInv
  <2> QED BY <2>1, <2>2 DEF Agg!TypeOK
<1>3. ASSUME AggInv, NEW a \in Agent, NEW x \in Agg!Cells
      PROVE  /\ agg[a].total[x] + Agg!InShards(a, x) = Agg!InSamples(a, x)
             /\ fleet[a].total[x] + Agg!InFlight(a, x) + Agg!Unsent(agg[a])[x] + Agg!InShards(a, x)
                  = Agg!InSamples(a, x)
  <2>1. Books(Agg!Cells, kind = "trend", AggWeights, shard[a], agg[a], fleet[a], up[a], recorded[a])
    BY <1>3, AgentSays
  <2>2. PICK owing \in Nat, weight \in Nat, flying \in Nat, total \in Nat, kept \in Nat, owed \in Nat :
          Cell(kind = "trend", AggWeights, shard[a], agg[a], fleet[a], up[a], recorded[a], x,
               owing, weight, flying, total, kept, owed)
    BY <2>1, BooksSay
  <2>3. /\ owing = Agg!InShards(a, x) /\ weight = Agg!InSamples(a, x) /\ flying = Agg!InFlight(a, x)
        /\ total = agg[a].total[x] /\ kept = fleet[a].total[x] /\ owed = Agg!Unsent(agg[a])[x]
    BY <1>3, <2>2, AggSums DEF Cell
  <2>4. total + owing = weight /\ kept + flying + owed = total
    BY <2>2 DEF Cell
  <2>5. kept + flying + owed + owing = weight
    BY <2>4
  <2> QED BY <2>3, <2>4, <2>5
<1>4. AggInv => Agg!TiersConserve
  BY <1>2, <1>3 DEF Agg!TiersConserve
<1>5. AggInv => Agg!EnvelopeTrue
  <2> SUFFICES ASSUME AggInv, kind = "trend", NEW a \in Agent, NEW s \in Agg!Series(a)
               PROVE  LET seen == {v \in Values : s.total[v] > 0}
                      IN  /\ s.min = (IF seen = {} THEN Agg!None ELSE Agg!Min(seen))
                          /\ s.max = (IF seen = {} THEN Agg!None ELSE Agg!Max(seen))
    BY DEF Agg!EnvelopeTrue
  <2>1. Spans(Seen(s.total), s.min, s.max)
    BY AgentSays DEF Envelopes, Agg!Series
  <2>2. Seen(s.total) \in SUBSET Values
    BY DEF Seen
  <2>3. /\ s.min = (IF Seen(s.total) = {} THEN Agg!None ELSE Agg!Min(Seen(s.total)))
        /\ s.max = (IF Seen(s.total) = {} THEN Agg!None ELSE Agg!Max(Seen(s.total)))
    BY <2>1, <2>2, SpansMinMax
  <2> QED BY <2>3 DEF Seen
<1>6. AggInv => SamplesConserved
  BY <1>4, <1>5 DEF SamplesConserved
<1> QED BY <1>6, AggInit, AggNext, PTL DEF Spec
-----------------------------------------------------------------------------
(* The MQTT pool. *)

\* Packets.
MqttType == {"PUBLISH", "SUBSCRIBE", "PUBACK", "PUBREC", "PUBREL", "PUBCOMP", "SUBACK", "REFUSED"}
MqttPacket == [type : MqttType, id : Mqtt!Op, topic : Topic, qos : 0..2]
MqttSubs == [topic : Topic, qos : 0..2]

\* A confirmation on its way back is of a message that the broker has forwarded.
Honest(fw) == {p \in MqttPacket : p.type \in {"PUBACK", "PUBCOMP"} => fw[p.id] > 0}

\* The broker forwards message o when it reads such a packet.
Forwards(p, o) == p.id = o /\ (p.type = "PUBREL" \/ (p.type = "PUBLISH" /\ p.qos < 2))
Mark(p, o) == IF Forwards(p, o) THEN 1 ELSE 0
Marks(u, o) == [n \in 1..Len(u) |-> Mark(u[n], o)]
Queued(u, o) == SumFunctionOnSet(Marks(u, o), 1..Len(u))
Marked(t, o) == [c \in Mqtt!Conn |-> Queued(t[c], o)]
Pending(t, o) == SumFunctionOnSet(Marked(t, o), Mqtt!Conn)

\* How often an operation may still have its message forwarded: once on the
\* connection it uses, unless it has sent for it, and once more if that was pooled.
Left(a, re, q) ==
  IF a \in {"ok", "failed"} THEN 0 ELSE IF q = 0 THEN 1
  ELSE (IF re THEN 1 ELSE 0) + (IF a \in {"puback", "pubcomp"} THEN 0 ELSE 1)

\* An operation: what its stage says of what it wants, and what may still come.
OpFine(a, re, w, fw, pd) ==
  /\ a \in {"suback", "message", "pubrel"} => w.kind = "subscribe"
  /\ a = "puback" => w.qos = 1
  /\ a \in {"pubrec", "pubcomp"} => w.qos = 2
  /\ a \in {"idle", "connect"} => ~re
  /\ a = "ok" /\ w.kind = "publish" /\ w.qos > 0 => fw > 0
  /\ IF a = "idle" THEN fw = 0 /\ pd = 0
     ELSE fw + pd + Left(a, re, w.qos) <= (IF w.qos = 0 THEN 1 ELSE 2)

\* The connections of the pool, and of operations in flight.
Idling(p) == {p[n] : n \in 1..Len(p)}
Distinct(p) == \A m, n \in 1..Len(p) : p[m] = p[n] => m = n
InFlightStage == {"send"} \cup Mqtt!Waiting
Apart(p, a, cn, dr, N) ==
  /\ p \in Seq(1..N) /\ Distinct(p) /\ Idling(p) \cap dr = {}
  /\ \A o \in Mqtt!Op : a[o] \in InFlightStage => cn[o] \in (1..N) \ (Idling(p) \cup dr)
  /\ \A o, q \in Mqtt!Op : a[o] \in InFlightStage /\ a[q] \in InFlightStage /\ cn[o] = cn[q] => o = q

MqttTypes ==
  /\ made \in 0..MaxConns /\ op_at \in [Mqtt!Op -> Mqtt!Stage] /\ want \in [Mqtt!Op -> Mqtt!Wanted]
  /\ op_conn \in [Mqtt!Op -> 0..made] /\ reused \in [Mqtt!Op -> BOOLEAN] /\ got \in [Mqtt!Op -> 0..MaxOps]
  /\ cut \subseteq 1..made /\ dropped \subseteq 1..made
  /\ tx \in [Mqtt!Conn -> Seq(MqttPacket)] /\ subs \in [Mqtt!Conn -> SUBSET MqttSubs]
  /\ forwarded \in [Mqtt!Op -> Nat] /\ rx \in [Mqtt!Conn -> Seq(Honest(forwarded))]
MqttInv ==
  /\ MqttTypes /\ Apart(pool, op_at, op_conn, dropped, made)
  /\ \A o \in Mqtt!Op : OpFine(op_at[o], reused[o], want[o], forwarded[o], Pending(tx, o))

\* The pool's constants.
LEMMA MqttConstants ==
  /\ Topic # {} /\ Qos \subseteq 0..2 /\ Qos # {} /\ MaxOps \in Nat /\ MaxConns \in Nat
  /\ IsFiniteSet(Mqtt!Conn) /\ \A o \in Mqtt!Op : o \in Nat /\ o <= MaxOps
<1>1. Topic # {} /\ Qos \subseteq 0..2 /\ Qos # {} /\ MaxOps \in Nat /\ MaxConns \in Nat
  BY PartsAssumption DEF Mqtt!PoolAssumption
<1>2. 1 \in Int /\ MaxConns \in Int
  BY <1>1
<1>3. IsFiniteSet(1..MaxConns)
  BY <1>2, FS_Interval
<1> QED BY <1>1, <1>3 DEF Mqtt!Conn, Mqtt!Op


\* How many packets of o a connection holds is a number, and the empty one holds none.
LEMMA CountNat ==
  ASSUME NEW S, NEW u \in Seq(S), NEW o
  PROVE  Queued(u, o) \in Nat /\ Queued(<<>>, o) = 0
<1>1. PICK n \in Nat : n = Len(u)
  BY LenProperties
<1>2. 1 \in Int /\ n \in Int
  OBVIOUS
<1>3. IsFiniteSet(1..n)
  BY <1>2, FS_Interval
<1>4. \A i \in 1..n : Marks(u, o)[i] \in Nat
  BY <1>1 DEF Marks, Mark
<1>5. SumFunctionOnSet(Marks(u, o), 1..n) \in Nat
  BY <1>3, <1>4, SumNat
<1>6. 1..Len(<<>>) = {}
  OBVIOUS
<1>7. Queued(<<>>, o) = SumFunctionOnSet(Marks(<<>>, o), {})
  BY <1>6, Zenon DEF Queued
<1> QED BY <1>1, <1>5, <1>7, SumEmpty DEF Queued

\* A packet is written.
LEMMA CountMore ==
  ASSUME NEW S, NEW u \in Seq(S), NEW p \in S, NEW o
  PROVE  Queued(Append(u, p), o) = Queued(u, o) + Mark(p, o)
<1>1. PICK n, q : n \in Nat /\ n = Len(u) /\ q = Append(u, p)
  BY LenProperties
<1> n \in Nat
  BY <1>1
<1>2. Len(q) = n + 1 /\ (\A i \in 1..n : q[i] = u[i]) /\ q[n + 1] = p
  BY <1>1, AppendProperties
<1>3. PICK f, e : f = Marks(u, o) /\ e = Marks(q, o)
  OBVIOUS
<1>4. \A i \in 1..n : f[i] \in Int /\ e[i] = f[i]
  <2>1. \A i \in 1..n : i \in 1..(n + 1)
    OBVIOUS
  <2> QED BY <1>1, <1>2, <1>3, <2>1 DEF Marks, Mark
<1>5. e[n + 1] = Mark(p, o) /\ e[n + 1] \in Int
  BY <1>2, <1>3 DEF Marks, Mark
<1>6. Extended(f, e, n)
  BY <1>4, <1>5 DEF Extended
<1>7. SumFunctionOnSet(e, 1..(n + 1)) = SumFunctionOnSet(f, 1..n) + e[n + 1]
  BY <1>6, SumExtended
<1> QED BY <1>1, <1>2, <1>3, <1>5, <1>7 DEF Queued

\* A packet is read.
LEMMA CountLess ==
  ASSUME NEW S, NEW u \in Seq(S), u # <<>>, NEW o
  PROVE  Queued(u, o) = Mark(Head(u), o) + Queued(Tail(u), o)
<1>1. PICK n, q, h : n \in Nat /\ n + 1 = Len(u) /\ q = Tail(u) /\ h = Head(u)
  <2>1. Len(u) \in Nat /\ Len(u) # 0
    BY LenProperties, EmptySeq
  <2>2. Len(u) - 1 \in Nat /\ (Len(u) - 1) + 1 = Len(u)
    BY <2>1
  <2> QED BY <2>2
<1> n \in Nat
  BY <1>1
<1>2. Len(q) = n /\ (\A i \in 1..n : q[i] = u[i + 1]) /\ h = u[1]
  BY <1>1, HeadTailProperties
<1>3. PICK f, e : f = Marks(u, o) /\ e = Marks(q, o)
  OBVIOUS
<1>4. \A i \in 1..(n + 1) : f[i] \in Int
  BY <1>1, <1>3 DEF Marks, Mark
<1>5. \A i \in 1..n : e[i] = f[i + 1]
  <2>1. \A i \in 1..n : i + 1 \in 1..(n + 1)
    OBVIOUS
  <2> QED BY <1>1, <1>2, <1>3, <2>1 DEF Marks, Mark
<1>6. Shortened(f, e, n)
  BY <1>4, <1>5 DEF Shortened
<1>7. SumFunctionOnSet(f, 1..(n + 1)) = f[1] + SumFunctionOnSet(e, 1..n)
  BY <1>6, SumShortened
<1>8. f[1] = Mark(h, o)
  BY <1>1, <1>2, <1>3 DEF Marks, Mark
<1> QED BY <1>1, <1>2, <1>3, <1>7, <1>8 DEF Queued

\* One connection's packets change.
LEMMA PendingChange ==
  ASSUME NEW S, NEW t \in [Mqtt!Conn -> Seq(S)], NEW c \in Mqtt!Conn, NEW u \in Seq(S), NEW o
  PROVE  /\ Pending([t EXCEPT ![c] = u], o) = Pending(t, o) + (Queued(u, o) - Queued(t[c], o))
         /\ Pending(t, o) \in Nat /\ Queued(t[c], o) \in Nat /\ Queued(u, o) \in Nat
<1>1. PICK f, e, C : f = Marked(t, o) /\ e = Marked([t EXCEPT ![c] = u], o) /\ C = Mqtt!Conn
  OBVIOUS
<1>2. IsFiniteSet(C)
  BY <1>1, MqttConstants
<1>3. \A d \in C : f[d] = Queued(t[d], o)
  BY <1>1 DEF Marked, Queued
<1>4. e[c] = Queued(u, o)
  BY <1>1 DEF Marked, Queued
<1>5. \A d \in C : d # c => e[d] = f[d]
  BY <1>1 DEF Marked, Queued
<1>6. \A d \in C : f[d] \in Nat
  <2>1. \A d \in C : t[d] \in Seq(S)
    BY <1>1
  <2> QED BY <1>3, <2>1, CountNat
<1>7. e[c] \in Nat
  BY <1>4, CountNat
<1>8. Changed(C, f, e, c)
  <2>1. c \in C
    BY <1>1
  <2>2. \A d \in C : f[d] \in Int
    BY <1>6
  <2>3. e[c] \in Int
    BY <1>7
  <2> QED BY <1>2, <1>5, <2>1, <2>2, <2>3 DEF Changed
<1>9. SumFunctionOnSet(e, C) = SumFunctionOnSet(f, C) + (e[c] - f[c])
  BY <1>8, SumChanged
<1>10. SumFunctionOnSet(f, C) \in Nat
  BY <1>2, <1>6, SumNat
<1>11. f[c] = Queued(t[c], o) /\ f[c] \in Nat
  BY <1>1, <1>3, <1>6
<1> QED BY <1>1, <1>4, <1>7, <1>9, <1>10, <1>11 DEF Pending

\* A connection is taken from the pool.
LEMMA PoolPops ==
  ASSUME NEW S, NEW p \in Seq(S), p # <<>>, Distinct(p)
  PROVE  /\ Mqtt!Front(p) \in Seq(S) /\ Distinct(Mqtt!Front(p))
         /\ Mqtt!Last(p) \in Idling(p) /\ Idling(Mqtt!Front(p)) = Idling(p) \ {Mqtt!Last(p)}
<1>1. PICK n, q, c : n \in Nat /\ n + 1 = Len(p) /\ q = Mqtt!Front(p) /\ c = Mqtt!Last(p)
  <2>1. Len(p) \in Nat /\ Len(p) # 0
    BY LenProperties, EmptySeq
  <2>2. Len(p) - 1 \in Nat /\ (Len(p) - 1) + 1 = Len(p)
    BY <2>1
  <2> QED BY <2>2
<1> n \in Nat
  BY <1>1
<1>2. c = p[n + 1]
  BY <1>1 DEF Mqtt!Last
<1>3. q \in Seq(S) /\ Len(q) = n /\ \A i \in 1..n : q[i] = p[i]
  <2>1. q = SubSeq(p, 1, n)
    BY <1>1 DEF Mqtt!Front
  <2>2. 1 \in 1..(Len(p) + 1) /\ n \in 0..Len(p)
    BY <1>1
  <2>3. SubSeq(p, 1, n) \in Seq(S) /\ Len(SubSeq(p, 1, n)) = n /\ \A i \in 1..n : SubSeq(p, 1, n)[i] = p[i]
    BY <1>1, SubSeqProperties
  <2> QED BY <2>1, <2>3
<1>4. \A i, j \in 1..(n + 1) : p[i] = p[j] => i = j
  BY <1>1 DEF Distinct
<1>5. Distinct(q)
  BY <1>3, <1>4 DEF Distinct
<1>6. c \in Idling(p)
  BY <1>1, <1>2 DEF Idling
<1>7. ASSUME NEW d PROVE d \in Idling(q) <=> d \in Idling(p) \ {c}
  <2>1. d \in Idling(q) <=> \E i \in 1..n : q[i] = d
    BY <1>3 DEF Idling
  <2>2. d \in Idling(p) <=> \E i \in 1..(n + 1) : p[i] = d
    BY <1>1 DEF Idling
  <2>3. \A i : i \in 1..(n + 1) <=> i \in 1..n \/ i = n + 1
    OBVIOUS
  <2>4. \A i \in 1..n : i # n + 1 /\ p[i] # c
    BY <1>2, <1>4
  <2> QED BY <1>2, <1>3, <2>1, <2>2, <2>3, <2>4
<1>8. Idling(q) = Idling(p) \ {c}
  BY <1>7
<1> QED BY <1>1, <1>3, <1>5, <1>6, <1>8

\* A connection is checked in.
LEMMA PoolPushes ==
  ASSUME NEW S, NEW p \in Seq(S), Distinct(p), NEW c \in S, c \notin Idling(p)
  PROVE  Append(p, c) \in Seq(S) /\ Distinct(Append(p, c)) /\ Idling(Append(p, c)) = Idling(p) \cup {c}
<1>1. PICK n, q : n \in Nat /\ n = Len(p) /\ q = Append(p, c)
  BY LenProperties
<1> n \in Nat
  BY <1>1
<1>2. q \in Seq(S) /\ Len(q) = n + 1 /\ (\A i \in 1..n : q[i] = p[i]) /\ q[n + 1] = c
  BY <1>1, AppendProperties
<1>3. \A i : i \in 1..(n + 1) <=> i \in 1..n \/ i = n + 1
  OBVIOUS
<1>4. \A i \in 1..n : p[i] # c
  BY <1>1 DEF Idling
<1>5. \A i, j \in 1..n : p[i] = p[j] => i = j
  BY <1>1 DEF Distinct
<1>6. Distinct(q)
  <2> SUFFICES ASSUME NEW i \in 1..(n + 1), NEW j \in 1..(n + 1), q[i] = q[j] PROVE i = j
    BY <1>2 DEF Distinct
  <2> QED BY <1>2, <1>3, <1>4, <1>5
<1>7. ASSUME NEW d PROVE d \in Idling(q) <=> d \in Idling(p) \cup {c}
  <2>1. d \in Idling(q) <=> \E i \in 1..(n + 1) : q[i] = d
    BY <1>2 DEF Idling
  <2>2. d \in Idling(p) <=> \E i \in 1..n : p[i] = d
    BY <1>1 DEF Idling
  <2> QED BY <1>2, <1>3, <2>1, <2>2
<1>8. Idling(q) = Idling(p) \cup {c}
  BY <1>7
<1> QED BY <1>1, <1>2, <1>6, <1>8

\* A sequence over a set is one over a larger set.
LEMMA SeqWider ==
  ASSUME NEW S, NEW T, S \subseteq T, NEW q \in Seq(S)
  PROVE  q \in Seq(T)
<1>1. PICK n \in Nat : n = Len(q)
  BY LenProperties
<1>2. q \in [1..n -> S]
  BY <1>1, LenProperties
<1>3. q \in [1..n -> T]
  BY <1>2
<1> QED BY <1>3

\* SetToSeq lists a finite set.
LEMMA ListsSet ==
  ASSUME NEW S, IsFiniteSet(S)
  PROVE  Mqtt!SetToSeq(S) \in Seq(S)
<1>1. Cardinality(S) \in Nat /\ ExistsBijection(1..Cardinality(S), S)
  BY FS_CardinalityType
<1>2. PICK f \in [1..Cardinality(S) -> S] : Mqtt!IsInjective(f)
  BY <1>1 DEF ExistsBijection, Bijection, Injection, Surjection, IsInjective, Mqtt!IsInjective
<1>3. Mqtt!Cardinality(S) = Cardinality(S)
  BY Zenon DEF Mqtt!Cardinality, Cardinality
<1>4. Mqtt!SetToSeq(S) \in [1..Cardinality(S) -> S]
  BY <1>2, <1>3 DEF Mqtt!SetToSeq
<1> QED BY <1>1, <1>4

\* Two facts about confirmations: forwarding keeps them true, and other packets are none.
LEMMA HonestGrows ==
  ASSUME NEW fw \in [Mqtt!Op -> Nat], NEW o \in Mqtt!Op
  PROVE  Honest(fw) \subseteq Honest([fw EXCEPT ![o] = fw[o] + 1])
<1>1. PICK g : g = [fw EXCEPT ![o] = fw[o] + 1] /\ \A x \in Mqtt!Op : fw[x] > 0 => g[x] > 0
  <2>1. \A x \in Mqtt!Op : fw[x] > 0 => [fw EXCEPT ![o] = fw[o] + 1][x] > 0
    OBVIOUS
  <2> QED BY <2>1
<1>2. \A p \in MqttPacket : p.id \in Mqtt!Op
  BY DEF MqttPacket
<1> QED BY <1>1, <1>2 DEF Honest

\* What a subscriber is sent of a message confirms nothing.
LEMMA CopiesHonest ==
  ASSUME NEW p \in MqttPacket, NEW c \in Mqtt!Conn, subs \in [Mqtt!Conn -> SUBSET MqttSubs], NEW fw
  PROVE  Mqtt!Copies(c, p) \in Seq(Honest(fw))
<1>1. PICK S : S = {[p EXCEPT !.type = "PUBLISH", !.qos = IF s.qos < p.qos THEN s.qos ELSE p.qos] :
                      s \in {t \in subs[c] : t.topic = p.topic}}
  OBVIOUS
<1>2. ASSUME NEW e \in S PROVE \E q \in 0..2 : e = [type |-> "PUBLISH", id |-> p.id, topic |-> p.topic, qos |-> q]
  <2>1. PICK s \in subs[c] : e = [p EXCEPT !.type = "PUBLISH", !.qos = IF s.qos < p.qos THEN s.qos ELSE p.qos]
    BY <1>1
  <2>2. s.qos \in 0..2 /\ p.qos \in 0..2
    <3>1. s \in MqttSubs
      BY <2>1
    <3> QED BY <3>1 DEF MqttSubs, MqttPacket
  <2>3. e = [type |-> "PUBLISH", id |-> p.id, topic |-> p.topic, qos |-> IF s.qos < p.qos THEN s.qos ELSE p.qos]
    BY <2>1 DEF MqttPacket
  <2> QED BY <2>2, <2>3
<1>3. S \subseteq Honest(fw)
  <2>1. ASSUME NEW e \in S PROVE e \in Honest(fw)
    <3>1. PICK q \in 0..2 : e = [type |-> "PUBLISH", id |-> p.id, topic |-> p.topic, qos |-> q]
      BY <1>2
    <3>2. e \in MqttPacket /\ e.type = "PUBLISH"
      BY <3>1 DEF MqttPacket, MqttType
    <3> QED BY <3>2 DEF Honest
  <2> QED BY <2>1
<1>4. IsFiniteSet(S)
  <2>1. PICK a, b, d : /\ a = [type |-> "PUBLISH", id |-> p.id, topic |-> p.topic, qos |-> 0]
                       /\ b = [type |-> "PUBLISH", id |-> p.id, topic |-> p.topic, qos |-> 1]
                       /\ d = [type |-> "PUBLISH", id |-> p.id, topic |-> p.topic, qos |-> 2]
    OBVIOUS
  <2>2. IsFiniteSet({a})
    BY FS_Singleton
  <2>3. IsFiniteSet({a} \cup {b})
    BY <2>2, FS_AddElement
  <2>4. IsFiniteSet(({a} \cup {b}) \cup {d})
    BY <2>3, FS_AddElement
  <2>5. \A q \in 0..2 : q = 0 \/ q = 1 \/ q = 2
    OBVIOUS
  <2>6. S \subseteq ({a} \cup {b}) \cup {d}
    BY <1>2, <2>1, <2>5
  <2> QED BY <2>4, <2>6, FS_Subset
<1>5. Mqtt!SetToSeq(S) \in Seq(S)
  BY <1>4, ListsSet
<1>6. Mqtt!Copies(c, p) = Mqtt!SetToSeq(S)
  BY <1>1 DEF Mqtt!Copies
<1> QED BY <1>3, <1>5, <1>6, SeqWider

\* What Apart speaks of.
ApartTypes(p, a, cn, dr, N) ==
  /\ Apart(p, a, cn, dr, N) /\ a \in [Mqtt!Op -> Mqtt!Stage] /\ cn \in [Mqtt!Op -> 0..N]
  /\ dr \subseteq 1..N /\ N \in Nat

\* An operation takes a connection from the pool.
LEMMA ApartPops ==
  ASSUME NEW p, NEW a, NEW cn, NEW dr, NEW N, ApartTypes(p, a, cn, dr, N), p # <<>>,
         NEW o \in Mqtt!Op, a[o] \notin InFlightStage
  PROVE  /\ Apart(Mqtt!Front(p), [a EXCEPT ![o] = "send"], [cn EXCEPT ![o] = Mqtt!Last(p)], dr, N)
         /\ Mqtt!Last(p) \in 1..N
<1> USE DEF ApartTypes
<1>1. PICK q, c, b, k : /\ q = Mqtt!Front(p) /\ c = Mqtt!Last(p) /\ b = [a EXCEPT ![o] = "send"]
                        /\ k = [cn EXCEPT ![o] = Mqtt!Last(p)]
  OBVIOUS
<1>2. p \in Seq(1..N) /\ Distinct(p) /\ Idling(p) \cap dr = {}
  BY DEF Apart
<1>3. q \in Seq(1..N) /\ Distinct(q) /\ c \in Idling(p) /\ Idling(q) = Idling(p) \ {c}
  BY <1>1, <1>2, PoolPops
<1>4. c \in 1..N
  BY <1>2, <1>3 DEF Idling
<1>5. k[o] = c /\ \A x \in Mqtt!Op : x # o => k[x] = cn[x] /\ b[x] = a[x]
  BY <1>1
<1>6. ASSUME NEW x \in Mqtt!Op, b[x] \in InFlightStage PROVE k[x] \in (1..N) \ (Idling(q) \cup dr)
  <2>1. CASE x = o
    BY <1>2, <1>3, <1>4, <1>5, <2>1
  <2>2. CASE x # o
    BY <1>3, <1>5, <1>6, <2>2 DEF Apart
  <2> QED BY <2>1, <2>2
<1>7. ASSUME NEW x \in Mqtt!Op, NEW y \in Mqtt!Op, b[x] \in InFlightStage, b[y] \in InFlightStage, k[x] = k[y]
      PROVE  x = y
  <2>1. ASSUME NEW z \in Mqtt!Op, z # o, b[z] \in InFlightStage PROVE k[z] \notin Idling(p)
    BY <1>5, <2>1 DEF Apart
  <2>2. CASE x # o /\ y # o
    BY <1>5, <1>7, <2>2 DEF Apart
  <2> QED BY <1>3, <1>5, <1>7, <2>1, <2>2
<1> QED BY <1>1, <1>2, <1>3, <1>4, <1>6, <1>7 DEF Apart

\* An operation opens a connection.
LEMMA ApartConnects ==
  ASSUME NEW p, NEW a, NEW cn, NEW dr, NEW N, ApartTypes(p, a, cn, dr, N),
         NEW o \in Mqtt!Op, a[o] \notin InFlightStage
  PROVE  Apart(p, [a EXCEPT ![o] = "send"], [cn EXCEPT ![o] = N + 1], dr, N + 1)
<1> USE DEF ApartTypes
<1>1. PICK b, k, M : b = [a EXCEPT ![o] = "send"] /\ k = [cn EXCEPT ![o] = N + 1] /\ M = N + 1
  OBVIOUS
<1>2. p \in Seq(1..N) /\ Distinct(p) /\ Idling(p) \cap dr = {}
  BY DEF Apart
<1>3. 1..N \subseteq 1..M /\ M \in 1..M /\ M \notin 1..N
  BY <1>1
<1>4. p \in Seq(1..M)
  BY <1>2, <1>3, SeqWider
<1>5. Idling(p) \subseteq 1..N
  BY <1>2 DEF Idling
<1>6. k[o] = M /\ \A x \in Mqtt!Op : x # o => k[x] = cn[x] /\ b[x] = a[x]
  BY <1>1
<1>7. ASSUME NEW x \in Mqtt!Op, b[x] \in InFlightStage PROVE k[x] \in (1..M) \ (Idling(p) \cup dr)
  <2>1. CASE x = o
    BY <1>3, <1>5, <1>6, <2>1
  <2>2. CASE x # o
    BY <1>3, <1>6, <1>7, <2>2 DEF Apart
  <2> QED BY <2>1, <2>2
<1>8. ASSUME NEW x \in Mqtt!Op, NEW y \in Mqtt!Op, b[x] \in InFlightStage, b[y] \in InFlightStage, k[x] = k[y]
      PROVE  x = y
  <2>1. ASSUME NEW z \in Mqtt!Op, z # o, b[z] \in InFlightStage PROVE k[z] \in 1..N
    BY <1>6, <2>1 DEF Apart
  <2>2. CASE x # o /\ y # o
    BY <1>6, <1>8, <2>2 DEF Apart
  <2> QED BY <1>3, <1>6, <1>8, <2>1, <2>2
<1>9. Apart(p, b, k, dr, M)
  BY <1>2, <1>4, <1>7, <1>8 DEF Apart
<1> QED BY <1>1, <1>9

\* An operation goes on, or ends without its connection.
LEMMA ApartMoves ==
  ASSUME NEW p, NEW a, NEW cn, NEW dr, NEW N, ApartTypes(p, a, cn, dr, N),
         NEW o \in Mqtt!Op, NEW s, s \in InFlightStage => a[o] \in InFlightStage
  PROVE  Apart(p, [a EXCEPT ![o] = s], cn, dr, N)
<1> USE DEF ApartTypes
<1>1. PICK b : b = [a EXCEPT ![o] = s] /\ \A x \in Mqtt!Op : b[x] \in InFlightStage => a[x] \in InFlightStage
  <2>1. \A x \in Mqtt!Op : [a EXCEPT ![o] = s][x] = IF x = o THEN s ELSE a[x]
    OBVIOUS
  <2> QED BY <2>1
<1>2. Apart(p, b, cn, dr, N)
  BY <1>1 DEF Apart
<1> QED BY <1>1, <1>2

\* An operation succeeds and checks its connection in.
LEMMA ApartEnds ==
  ASSUME NEW p, NEW a, NEW cn, NEW dr, NEW N, ApartTypes(p, a, cn, dr, N),
         NEW o \in Mqtt!Op, a[o] \in InFlightStage
  PROVE  Apart(Append(p, cn[o]), [a EXCEPT ![o] = "ok"], cn, dr, N)
<1> USE DEF ApartTypes
<1>1. PICK q, b : q = Append(p, cn[o]) /\ b = [a EXCEPT ![o] = "ok"]
  OBVIOUS
<1>2. p \in Seq(1..N) /\ Distinct(p) /\ Idling(p) \cap dr = {} /\ cn[o] \in (1..N) \ (Idling(p) \cup dr)
  BY DEF Apart
<1>3. q \in Seq(1..N) /\ Distinct(q) /\ Idling(q) = Idling(p) \cup {cn[o]}
  BY <1>1, <1>2, PoolPushes
<1>4. \A x \in Mqtt!Op : b[x] \in InFlightStage => x # o /\ a[x] \in InFlightStage
  <2>1. "ok" \notin InFlightStage
    BY DEF InFlightStage, Mqtt!Waiting, Mqtt!Awaits
  <2>2. \A x \in Mqtt!Op : b[x] = IF x = o THEN "ok" ELSE a[x]
    BY <1>1
  <2> QED BY <2>1, <2>2
<1>5. \A x \in Mqtt!Op : b[x] \in InFlightStage => cn[x] # cn[o]
  BY <1>4 DEF Apart
<1>6. Apart(q, b, cn, dr, N)
  BY <1>2, <1>3, <1>4, <1>5 DEF Apart
<1> QED BY <1>1, <1>6

\* An operation fails and closes its connection.
LEMMA ApartDrops ==
  ASSUME NEW p, NEW a, NEW cn, NEW dr, NEW N, ApartTypes(p, a, cn, dr, N),
         NEW o \in Mqtt!Op, a[o] \in InFlightStage, NEW s \in {"connect", "failed"}
  PROVE  Apart(p, [a EXCEPT ![o] = s], cn, dr \cup {cn[o]}, N)
<1> USE DEF ApartTypes
<1>1. PICK b : b = [a EXCEPT ![o] = s]
  OBVIOUS
<1>2. p \in Seq(1..N) /\ Distinct(p) /\ Idling(p) \cap dr = {} /\ cn[o] \in (1..N) \ (Idling(p) \cup dr)
  BY DEF Apart
<1>3. \A x \in Mqtt!Op : b[x] \in InFlightStage => x # o /\ a[x] \in InFlightStage
  <2>1. s \notin InFlightStage
    BY DEF InFlightStage, Mqtt!Waiting, Mqtt!Awaits
  <2>2. \A x \in Mqtt!Op : b[x] = IF x = o THEN s ELSE a[x]
    BY <1>1
  <2> QED BY <2>1, <2>2
<1>4. \A x \in Mqtt!Op : b[x] \in InFlightStage => cn[x] # cn[o]
  BY <1>3 DEF Apart
<1>5. Apart(p, b, cn, dr \cup {cn[o]}, N)
  BY <1>2, <1>3, <1>4 DEF Apart
<1> QED BY <1>1, <1>5

\* A sequence with one packet more.
LEMMA OneMore ==
  ASSUME NEW S, NEW u \in Seq(S), NEW p \in S
  PROVE  u \o <<p>> = Append(u, p) /\ Append(u, p) \in Seq(S)
<1>1. Append(u, p) \in Seq(S)
  BY AppendProperties
<1>2. u \o <<p>> = Append(u, p)
  BY AppendIsConcat
<1> QED BY <1>1, <1>2

\* t is tx with at most m more packets that have message o forwarded.
TxFine(t, o, m) ==
  /\ t \in [Mqtt!Conn -> Seq(MqttPacket)]
  /\ \A x \in Mqtt!Op : /\ Pending(t, x) \in Nat /\ Pending(tx, x) \in Nat
                        /\ Pending(t, x) <= Pending(tx, x) + (IF x = o THEN m ELSE 0)

\* The packets of o on the way are counted.
LEMMA PendingNat ==
  ASSUME NEW S, NEW t \in [Mqtt!Conn -> Seq(S)], NEW o
  PROVE  Pending(t, o) \in Nat
<1>1. PICK f, C : f = Marked(t, o) /\ C = Mqtt!Conn
  OBVIOUS
<1>2. IsFiniteSet(C)
  BY <1>1, MqttConstants
<1>3. \A d \in C : t[d] \in Seq(S) /\ f[d] = Queued(t[d], o)
  BY <1>1 DEF Marked
<1>4. \A d \in C : f[d] \in Nat
  BY <1>3, CountNat
<1>5. SumFunctionOnSet(f, C) \in Nat
  BY <1>2, <1>4, SumNat
<1> QED BY <1>1, <1>5 DEF Pending

\* Nothing is written.
LEMMA TxSame ==
  ASSUME tx \in [Mqtt!Conn -> Seq(MqttPacket)], NEW o
  PROVE  TxFine(tx, o, 0)
<1>1. \A x \in Mqtt!Op : Pending(tx, x) \in Nat
  BY PendingNat
<1> QED BY <1>1 DEF TxFine

\* What is on its way on connection c becomes u.
Rewrites(t, c, u, r) ==
  /\ t \in [Mqtt!Conn -> Seq(MqttPacket)] /\ c \in Mqtt!Conn /\ u \in Seq(MqttPacket)
  /\ r = [t EXCEPT ![c] = u]

\* The packets of o on the way change by those of that connection.
LEMMA PendingRewrites ==
  ASSUME NEW t, NEW c, NEW u, NEW r, Rewrites(t, c, u, r), NEW o
  PROVE  Pending(r, o) = Pending(t, o) + (Queued(u, o) - Queued(t[c], o))
BY PendingChange DEF Rewrites

\* A packet is written, or lost.
LEMMA TxWritten ==
  ASSUME tx \in [Mqtt!Conn -> Seq(MqttPacket)], NEW c \in Mqtt!Conn, NEW p \in MqttPacket, NEW o, NEW m \in {0, 1},
         \A x \in Mqtt!Op : Mark(p, x) <= (IF x = o THEN m ELSE 0)
  PROVE  TxFine(Mqtt!Written(c, <<p>>), o, m)
<1>1. PICK t : t = Mqtt!Written(c, <<p>>)
  OBVIOUS
<1>2. tx[c] \in Seq(MqttPacket) /\ Append(tx[c], p) \in Seq(MqttPacket) /\ tx[c] \o <<p>> = Append(tx[c], p)
  <2>1. tx[c] \in Seq(MqttPacket)
    OBVIOUS
  <2> QED BY <2>1, OneMore
<1>3. \A x \in Mqtt!Op : Pending(tx, x) \in Nat
  BY PendingNat
<1>4. CASE c \in cut
  <2>1. t = tx
    BY <1>1, <1>4 DEF Mqtt!Written
  <2>2. \A x \in Mqtt!Op : Pending(tx, x) <= Pending(tx, x) + (IF x = o THEN m ELSE 0)
    BY <1>3
  <2> QED BY <1>1, <1>3, <2>1, <2>2 DEF TxFine
<1>5. CASE c \notin cut
  <2>1. PICK u : u = Append(tx[c], p) /\ u \in Seq(MqttPacket)
    BY <1>2
  <2>2. t = [tx EXCEPT ![c] = u]
    BY <1>1, <1>2, <1>5, <2>1 DEF Mqtt!Written
  <2>3. t \in [Mqtt!Conn -> Seq(MqttPacket)]
    BY <2>1, <2>2
  <2>4. ASSUME NEW x \in Mqtt!Op
        PROVE  Pending(t, x) \in Nat /\ Pending(t, x) <= Pending(tx, x) + (IF x = o THEN m ELSE 0)
    <3>1. PICK a \in Nat, b \in Nat : a = Pending(tx, x) /\ b = Queued(tx[c], x)
      BY <1>2, PendingChange
    <3>2. Pending(t, x) = Pending(tx, x) + (Queued(u, x) - Queued(tx[c], x))
      <4>1. Rewrites(tx, c, u, t)
        BY <2>1, <2>2 DEF Rewrites
      <4> QED BY <4>1, PendingRewrites
    <3>3. Queued(Append(tx[c], p), x) = Queued(tx[c], x) + Mark(p, x)
      BY <1>2, CountMore
    <3>4. PICK k \in Nat : k = Mark(p, x) /\ k <= (IF x = o THEN m ELSE 0)
      BY DEF Mark
    <3>5. Pending(t, x) = a + ((b + k) - b)
      BY <2>1, <3>1, <3>2, <3>3, <3>4
    <3>6. a + ((b + k) - b) = a + k
      OBVIOUS
    <3>7. Pending(t, x) = a + k
      BY <3>5, <3>6
    <3>8. a + k <= a + (IF x = o THEN m ELSE 0)
      BY <3>4
    <3> QED BY <3>1, <3>7, <3>8
  <2> QED BY <1>1, <1>3, <2>3, <2>4 DEF TxFine
<1> QED BY <1>4, <1>5

\* No reply: nothing is written.
LEMMA TxQuiet ==
  ASSUME tx \in [Mqtt!Conn -> Seq(MqttPacket)], NEW c \in Mqtt!Conn
  PROVE  Mqtt!Written(c, <<>>) = tx
<1>1. tx[c] \in Seq(MqttPacket)
  OBVIOUS
<1>2. tx[c] \o <<>> = tx[c]
  BY <1>1, ConcatEmptySeq
<1>3. tx = [d \in Mqtt!Conn |-> tx[d]]
  OBVIOUS
<1> QED BY <1>2, <1>3 DEF Mqtt!Written

\* Fewer packets on the way do no harm.
LEMMA FineLess ==
  ASSUME NEW a, NEW re, NEW w \in Mqtt!Wanted, NEW fw \in Nat, NEW pd \in Nat, NEW n \in Nat, n <= pd,
         OpFine(a, re, w, fw, pd)
  PROVE  OpFine(a, re, w, fw, n)
<1>1. PICK l \in Nat : l = Left(a, re, w.qos)
  <2>1. Left(a, re, w.qos) \in Nat
    BY DEF Left
  <2> QED BY <2>1
<1>2. CASE a = "idle"
  BY <1>2 DEF OpFine
<1>3. CASE a # "idle"
  <2>1. fw + pd + l <= (IF w.qos = 0 THEN 1 ELSE 2)
    BY <1>1, <1>3 DEF OpFine
  <2>2. fw + n + l <= (IF w.qos = 0 THEN 1 ELSE 2)
    BY <2>1
  <2>3. /\ a \in {"suback", "message", "pubrel"} => w.kind = "subscribe"
        /\ a = "puback" => w.qos = 1
        /\ a \in {"pubrec", "pubcomp"} => w.qos = 2
        /\ a \in {"idle", "connect"} => ~re
        /\ a = "ok" /\ w.kind = "publish" /\ w.qos > 0 => fw > 0
    BY DEF OpFine
  <2> QED BY <1>1, <1>3, <2>2, <2>3 DEF OpFine
<1> QED BY <1>2, <1>3

\* The types that an operation's step leaves to check.
WireFine(N, cn, g, ct, dr, r, fw) ==
  /\ N \in 0..MaxConns /\ cn \in [Mqtt!Op -> 0..N] /\ g \in [Mqtt!Op -> 0..MaxOps]
  /\ ct \subseteq 1..N /\ dr \subseteq 1..N /\ r \in [Mqtt!Conn -> Seq(Honest(fw))]

\* A step of one operation keeps the invariant if what it becomes is fine.
LEMMA ClientMoves ==
  ASSUME MqttInv, NEW o \in Mqtt!Op, NEW m \in {0, 1}, NEW a \in Mqtt!Stage, NEW re \in BOOLEAN, NEW w \in Mqtt!Wanted,
         subs' = subs, forwarded' = forwarded, TxFine(tx', o, m),
         op_at' = [op_at EXCEPT ![o] = a], want' = [want EXCEPT ![o] = w], reused' = [reused EXCEPT ![o] = re],
         OpFine(a, re, w, forwarded[o], Pending(tx, o) + m),
         WireFine(made', op_conn', got', cut', dropped', rx', forwarded),
         Apart(pool', op_at', op_conn', dropped', made')
  PROVE  MqttInv'
<1>1. MqttTypes'
  <2>1. op_at' \in [Mqtt!Op -> Mqtt!Stage] /\ want' \in [Mqtt!Op -> Mqtt!Wanted] /\ reused' \in [Mqtt!Op -> BOOLEAN]
    BY DEF MqttInv, MqttTypes
  <2>2. tx' \in [Mqtt!Conn -> Seq(MqttPacket)]
    BY DEF TxFine
  <2>3. subs' \in [Mqtt!Conn -> SUBSET MqttSubs] /\ forwarded' \in [Mqtt!Op -> Nat]
    BY DEF MqttInv, MqttTypes
  <2>4. /\ made' \in 0..MaxConns /\ op_conn' \in [Mqtt!Op -> 0..made'] /\ got' \in [Mqtt!Op -> 0..MaxOps]
        /\ cut' \subseteq 1..made' /\ dropped' \subseteq 1..made' /\ rx' \in [Mqtt!Conn -> Seq(Honest(forwarded'))]
    BY DEF WireFine
  <2> QED BY <2>1, <2>2, <2>3, <2>4 DEF MqttTypes
<1>2. ASSUME NEW x \in Mqtt!Op
      PROVE  OpFine(op_at'[x], reused'[x], want'[x], forwarded'[x], Pending(tx', x))
  <2>1. PICK n \in Nat, d \in Nat : n = Pending(tx', x) /\ d = Pending(tx, x) /\ n <= d + (IF x = o THEN m ELSE 0)
    BY DEF TxFine
  <2>2. /\ op_at \in [Mqtt!Op -> Mqtt!Stage] /\ want \in [Mqtt!Op -> Mqtt!Wanted]
        /\ reused \in [Mqtt!Op -> BOOLEAN] /\ forwarded[x] \in Nat
    BY DEF MqttInv, MqttTypes
  <2>3. CASE x = o
    <3>1. PICK e \in Nat : e = d + m
      OBVIOUS
    <3>2. OpFine(a, re, w, forwarded[o], e) /\ n <= e
      BY <2>1, <2>3, <3>1
    <3>3. OpFine(a, re, w, forwarded[o], n)
      BY <2>2, <2>3, <3>2, FineLess
    <3>4. op_at'[x] = a /\ reused'[x] = re /\ want'[x] = w /\ forwarded'[x] = forwarded[o]
      BY <2>2, <2>3
    <3> QED BY <2>1, <3>3, <3>4
  <2>4. CASE x # o
    <3>1. n <= d
      BY <2>1, <2>4
    <3>2. OpFine(op_at[x], reused[x], want[x], forwarded[x], d) /\ want[x] \in Mqtt!Wanted
      BY <2>1, <2>2 DEF MqttInv
    <3>3. OpFine(op_at[x], reused[x], want[x], forwarded[x], n)
      BY <2>2, <3>1, <3>2, FineLess
    <3>4. op_at'[x] = op_at[x] /\ reused'[x] = reused[x] /\ want'[x] = want[x] /\ forwarded'[x] = forwarded[x]
      BY <2>2, <2>4
    <3> QED BY <2>1, <3>3, <3>4
  <2> QED BY <2>3, <2>4
<1> QED BY <1>1, <1>2 DEF MqttInv

\* What a stage allows next: an operation begins, and connects.
LEMMA FineBegins ==
  ASSUME NEW re \in BOOLEAN, NEW w \in Mqtt!Wanted, NEW fw \in Nat, NEW pd \in Nat, NEW v \in Mqtt!Wanted
  PROVE  /\ OpFine("idle", re, w, fw, pd) => OpFine("send", TRUE, v, fw, pd) /\ OpFine("connect", re, v, fw, pd)
         /\ OpFine("connect", re, w, fw, pd) => OpFine("send", re, w, fw, pd) /\ OpFine("failed", re, w, fw, pd)
<1>1. w.qos \in 0..2 /\ v.qos \in 0..2
  <2>1. w.qos \in Qos /\ v.qos \in Qos
    BY DEF Mqtt!Wanted
  <2> QED BY <2>1, MqttConstants
<1> QED BY <1>1 DEF OpFine, Left

\* It sends its first packet.
LEMMA FineSends ==
  ASSUME NEW re \in BOOLEAN, NEW w \in Mqtt!Wanted, NEW fw \in Nat, NEW pd \in Nat, OpFine("send", re, w, fw, pd)
  PROVE  /\ w.kind = "subscribe" => OpFine("suback", re, w, fw, pd)
         /\ w.kind = "publish" /\ w.qos = 0 => OpFine("ok", re, w, fw, pd + 1)
         /\ w.kind = "publish" /\ w.qos = 1 => OpFine("puback", re, w, fw, pd + 1)
         /\ w.kind = "publish" /\ w.qos = 2 => OpFine("pubrec", re, w, fw, pd)
<1>1. w.qos \in 0..2
  <2>1. w.qos \in Qos
    BY DEF Mqtt!Wanted
  <2> QED BY <2>1, MqttConstants
<1> QED BY <1>1 DEF OpFine, Left

\* It is answered.
LEMMA FineAnswered ==
  ASSUME NEW re \in BOOLEAN, NEW w \in Mqtt!Wanted, NEW fw \in Nat, NEW pd \in Nat
  PROVE  /\ \A a \in {"puback", "pubcomp"} : OpFine(a, re, w, fw, pd) /\ fw > 0 => OpFine("ok", re, w, fw, pd)
         /\ OpFine("pubrec", re, w, fw, pd) => OpFine("pubcomp", re, w, fw, pd + 1)
         /\ OpFine("suback", re, w, fw, pd) => OpFine("message", re, w, fw, pd)
         /\ OpFine("message", re, w, fw, pd) => OpFine("pubrel", re, w, fw, pd) /\ OpFine("ok", re, w, fw, pd)
         /\ OpFine("pubrel", re, w, fw, pd) => OpFine("ok", re, w, fw, pd)
<1>1. w.qos \in 0..2
  <2>1. w.qos \in Qos
    BY DEF Mqtt!Wanted
  <2> QED BY <2>1, MqttConstants
<1> QED BY <1>1 DEF OpFine, Left

\* It gives up on its connection.
LEMMA FineAbandons ==
  ASSUME NEW re \in BOOLEAN, NEW w \in Mqtt!Wanted, NEW fw \in Nat, NEW pd \in Nat, NEW a \in InFlightStage,
         OpFine(a, re, w, fw, pd)
  PROVE  OpFine(IF re THEN "connect" ELSE "failed", FALSE, w, fw, pd)
<1>1. w.qos \in 0..2
  <2>1. w.qos \in Qos
    BY DEF Mqtt!Wanted
  <2> QED BY <2>1, MqttConstants
<1>2. a \notin {"idle", "ok", "failed"}
  BY DEF InFlightStage, Mqtt!Waiting, Mqtt!Awaits
<1>3. CASE re
  BY <1>1, <1>2, <1>3 DEF OpFine, Left
<1>4. CASE ~re
  BY <1>1, <1>2, <1>4 DEF OpFine, Left
<1> QED BY <1>3, <1>4

\* What the invariant says of an operation and its connections.
LEMMA MqttSays ==
  ASSUME MqttInv, NEW o \in Mqtt!Op
  PROVE  /\ ApartTypes(pool, op_at, op_conn, dropped, made)
         /\ WireFine(made, op_conn, got, cut, dropped, rx, forwarded)
         /\ tx \in [Mqtt!Conn -> Seq(MqttPacket)] /\ Pending(tx, o) \in Nat
         /\ forwarded[o] \in Nat /\ reused[o] \in BOOLEAN /\ want[o] \in Mqtt!Wanted /\ op_at[o] \in Mqtt!Stage
         /\ OpFine(op_at[o], reused[o], want[o], forwarded[o], Pending(tx, o))
         /\ want = [want EXCEPT ![o] = want[o]] /\ reused = [reused EXCEPT ![o] = reused[o]]
         /\ op_at[o] \in InFlightStage => op_conn[o] \in Mqtt!Conn /\ op_conn[o] \in 1..made
<1>1. MqttTypes /\ Apart(pool, op_at, op_conn, dropped, made)
  BY DEF MqttInv
<1>2. made \in Nat /\ made <= MaxConns /\ MaxConns \in Nat
  BY <1>1, MqttConstants DEF MqttTypes
<1>3. ApartTypes(pool, op_at, op_conn, dropped, made)
  BY <1>1, <1>2 DEF ApartTypes, MqttTypes
<1>4. WireFine(made, op_conn, got, cut, dropped, rx, forwarded)
  BY <1>1 DEF WireFine, MqttTypes
<1>5. /\ tx \in [Mqtt!Conn -> Seq(MqttPacket)] /\ forwarded[o] \in Nat /\ reused[o] \in BOOLEAN
      /\ want[o] \in Mqtt!Wanted /\ op_at[o] \in Mqtt!Stage
      /\ want = [want EXCEPT ![o] = want[o]] /\ reused = [reused EXCEPT ![o] = reused[o]]
  BY <1>1 DEF MqttTypes
<1>6. Pending(tx, o) \in Nat
  BY <1>5, PendingNat
<1>7. OpFine(op_at[o], reused[o], want[o], forwarded[o], Pending(tx, o))
  BY DEF MqttInv
<1>8. op_at[o] \in InFlightStage => op_conn[o] \in 1..made
  BY <1>1 DEF Apart
<1>9. \A c \in 1..made : c \in Mqtt!Conn
  BY <1>2 DEF Mqtt!Conn
<1> QED BY <1>3, <1>4, <1>5, <1>6, <1>7, <1>8, <1>9

\* perform fails.
LEMMA AbandonPreserves ==
  ASSUME MqttInv, NEW o \in Mqtt!Op, op_at[o] \in InFlightStage, Mqtt!Abandon(o),
         tx' = tx, cut' = cut, subs' = subs, forwarded' = forwarded, rx' \in [Mqtt!Conn -> Seq(Honest(forwarded))]
  PROVE  MqttInv'
<1>1. PICK a \in {"connect", "failed"} : a = IF reused[o] THEN "connect" ELSE "failed"
  OBVIOUS
<1>2. /\ dropped' = dropped \cup {op_conn[o]} /\ op_at' = [op_at EXCEPT ![o] = a]
      /\ pool' = pool /\ made' = made /\ want' = want /\ op_conn' = op_conn /\ got' = got
  BY <1>1 DEF Mqtt!Abandon
<1>3. reused' = [reused EXCEPT ![o] = FALSE]
  BY Zenon DEF Mqtt!Abandon
<1>4. /\ ApartTypes(pool, op_at, op_conn, dropped, made) /\ WireFine(made, op_conn, got, cut, dropped, rx, forwarded)
      /\ tx \in [Mqtt!Conn -> Seq(MqttPacket)] /\ Pending(tx, o) \in Nat
      /\ forwarded[o] \in Nat /\ reused[o] \in BOOLEAN /\ want[o] \in Mqtt!Wanted
      /\ OpFine(op_at[o], reused[o], want[o], forwarded[o], Pending(tx, o))
      /\ want = [want EXCEPT ![o] = want[o]] /\ op_conn[o] \in 1..made
  BY MqttSays
<1>5. Apart(pool, [op_at EXCEPT ![o] = a], op_conn, dropped \cup {op_conn[o]}, made)
  BY <1>4, ApartDrops
<1>6. Apart(pool', op_at', op_conn', dropped', made')
  BY <1>2, <1>5
<1>7. PICK m \in {0, 1} : m = 0
  OBVIOUS
<1>8. TxFine(tx', o, m)
  BY <1>4, <1>7, TxSame
<1>9. OpFine(a, FALSE, want[o], forwarded[o], Pending(tx, o) + m)
  <2>1. Pending(tx, o) + m = Pending(tx, o)
    BY <1>4, <1>7
  <2>2. OpFine(a, FALSE, want[o], forwarded[o], Pending(tx, o))
    BY <1>1, <1>4, FineAbandons
  <2> QED BY <2>1, <2>2
<1>10. WireFine(made', op_conn', got', cut', dropped', rx', forwarded)
  BY <1>2, <1>4 DEF WireFine
<1>11. a \in Mqtt!Stage
  BY DEF Mqtt!Stage
<1>12. PICK re \in BOOLEAN : re = FALSE
  OBVIOUS
<1> QED BY <1>2, <1>3, <1>4, <1>6, <1>8, <1>9, <1>10, <1>11, <1>12, ClientMoves

\* perform goes on, or succeeds.
LEMMA ProceedPreserves ==
  ASSUME MqttInv, NEW o \in Mqtt!Op, op_at[o] \in InFlightStage, NEW s \in {"ok"} \cup Mqtt!Waiting, Mqtt!Proceed(o, s),
         NEW m \in {0, 1}, TxFine(tx', o, m), OpFine(s, reused[o], want[o], forwarded[o], Pending(tx, o) + m),
         cut' = cut, subs' = subs, forwarded' = forwarded, got' \in [Mqtt!Op -> 0..MaxOps],
         rx' \in [Mqtt!Conn -> Seq(Honest(forwarded))]
  PROVE  MqttInv'
<1>1. /\ op_at' = [op_at EXCEPT ![o] = s] /\ pool' = (IF s = "ok" THEN Append(pool, op_conn[o]) ELSE pool)
      /\ made' = made /\ want' = want /\ op_conn' = op_conn /\ reused' = reused /\ dropped' = dropped
  BY DEF Mqtt!Proceed
<1>2. /\ ApartTypes(pool, op_at, op_conn, dropped, made) /\ WireFine(made, op_conn, got, cut, dropped, rx, forwarded)
      /\ reused[o] \in BOOLEAN /\ want[o] \in Mqtt!Wanted
      /\ want = [want EXCEPT ![o] = want[o]] /\ reused = [reused EXCEPT ![o] = reused[o]]
  BY MqttSays
<1>3. Apart(pool', op_at', op_conn', dropped', made')
  <2>1. CASE s = "ok"
    <3>1. Apart(Append(pool, op_conn[o]), [op_at EXCEPT ![o] = "ok"], op_conn, dropped, made)
      BY <1>2, ApartEnds
    <3> QED BY <1>1, <2>1, <3>1
  <2>2. CASE s # "ok"
    <3>1. Apart(pool, [op_at EXCEPT ![o] = s], op_conn, dropped, made)
      BY <1>2, ApartMoves
    <3> QED BY <1>1, <2>2, <3>1
  <2> QED BY <2>1, <2>2
<1>4. WireFine(made', op_conn', got', cut', dropped', rx', forwarded)
  BY <1>1, <1>2 DEF WireFine
<1>5. s \in Mqtt!Stage
  BY DEF Mqtt!Stage
<1>6. PICK re \in BOOLEAN, w \in Mqtt!Wanted : re = reused[o] /\ w = want[o]
  BY <1>2
<1>7. want' = [want EXCEPT ![o] = w] /\ reused' = [reused EXCEPT ![o] = re]
  BY <1>1, <1>2, <1>6
<1>8. OpFine(s, re, w, forwarded[o], Pending(tx, o) + m)
  BY <1>6
<1>9. op_at' = [op_at EXCEPT ![o] = s]
  BY <1>1
<1> QED BY <1>3, <1>4, <1>5, <1>7, <1>8, <1>9, ClientMoves

\* handle and checkout.
LEMMA MqttBegins ==
  ASSUME MqttInv, NEW o \in Mqtt!Op, NEW w \in Mqtt!Wanted, Mqtt!Begin(o, w)
  PROVE  MqttInv'
<1>1. op_at[o] = "idle"
  BY DEF Mqtt!Begin
<1>2. /\ want' = [want EXCEPT ![o] = w] /\ made' = made /\ got' = got /\ dropped' = dropped
      /\ cut' = cut /\ tx' = tx /\ rx' = rx /\ subs' = subs /\ forwarded' = forwarded
  BY DEF Mqtt!Begin, Mqtt!broker
<1>3. /\ ApartTypes(pool, op_at, op_conn, dropped, made) /\ WireFine(made, op_conn, got, cut, dropped, rx, forwarded)
      /\ tx \in [Mqtt!Conn -> Seq(MqttPacket)] /\ Pending(tx, o) \in Nat
      /\ forwarded[o] \in Nat /\ reused[o] \in BOOLEAN /\ want[o] \in Mqtt!Wanted
      /\ OpFine("idle", reused[o], want[o], forwarded[o], Pending(tx, o))
      /\ reused = [reused EXCEPT ![o] = reused[o]]
  BY <1>1, MqttSays
<1>4. PICK m \in {0, 1} : m = 0 /\ Pending(tx, o) + m = Pending(tx, o)
  BY <1>3
<1>5. TxFine(tx', o, m)
  BY <1>2, <1>3, <1>4, TxSame
<1>6. op_at[o] \notin InFlightStage
  BY <1>1 DEF InFlightStage, Mqtt!Waiting, Mqtt!Awaits
<1>7. "send" \in Mqtt!Stage /\ "connect" \in Mqtt!Stage /\ "connect" \notin InFlightStage
  BY DEF Mqtt!Stage, InFlightStage, Mqtt!Waiting, Mqtt!Awaits
<1>8. CASE pool # <<>>
  <2>1. /\ op_conn' = [op_conn EXCEPT ![o] = Mqtt!Last(pool)] /\ op_at' = [op_at EXCEPT ![o] = "send"]
        /\ pool' = Mqtt!Front(pool)
    BY <1>8 DEF Mqtt!Begin, Mqtt!Checkout
  <2>2. reused' = [reused EXCEPT ![o] = TRUE]
    BY <1>8, Zenon DEF Mqtt!Begin, Mqtt!Checkout
  <2>3. /\ Apart(Mqtt!Front(pool), [op_at EXCEPT ![o] = "send"], [op_conn EXCEPT ![o] = Mqtt!Last(pool)], dropped, made)
        /\ Mqtt!Last(pool) \in 1..made
    BY <1>3, <1>6, <1>8, ApartPops
  <2>4. Apart(pool', op_at', op_conn', dropped', made')
    BY <1>2, <2>1, <2>3
  <2>5. WireFine(made', op_conn', got', cut', dropped', rx', forwarded)
    <3>1. made \in Nat /\ op_conn \in [Mqtt!Op -> 0..made]
      BY <1>3 DEF ApartTypes
    <3>2. op_conn' \in [Mqtt!Op -> 0..made]
      BY <2>1, <2>3, <3>1
    <3> QED BY <1>2, <1>3, <3>2 DEF WireFine
  <2>6. PICK re \in BOOLEAN : re = TRUE
    OBVIOUS
  <2>7. OpFine("send", re, w, forwarded[o], Pending(tx, o) + m)
    <3>1. PICK fw \in Nat, pd \in Nat : fw = forwarded[o] /\ pd = Pending(tx, o)
      BY <1>3
    <3>2. OpFine("idle", reused[o], want[o], fw, pd)
      BY <1>3, <3>1
    <3>3. OpFine("send", TRUE, w, fw, pd)
      BY <1>3, <3>2, FineBegins
    <3>4. OpFine("send", re, w, fw, pd)
      BY <2>6, <3>3
    <3> QED BY <1>4, <3>1, <3>4
  <2> QED BY <1>2, <1>5, <1>7, <2>1, <2>2, <2>4, <2>5, <2>6, <2>7, ClientMoves
<1>9. CASE pool = <<>>
  <2>1. op_at' = [op_at EXCEPT ![o] = "connect"] /\ pool' = pool /\ op_conn' = op_conn /\ reused' = reused
    BY <1>9 DEF Mqtt!Begin
  <2>2. Apart(pool, [op_at EXCEPT ![o] = "connect"], op_conn, dropped, made)
    BY <1>3, <1>7, ApartMoves
  <2>3. Apart(pool', op_at', op_conn', dropped', made')
    BY <1>2, <2>1, <2>2
  <2>4. WireFine(made', op_conn', got', cut', dropped', rx', forwarded)
    BY <1>2, <1>3, <2>1
  <2>5. OpFine("connect", reused[o], w, forwarded[o], Pending(tx, o) + m)
    BY <1>3, <1>4, FineBegins
  <2>6. reused' = [reused EXCEPT ![o] = reused[o]]
    BY <1>3, <2>1
  <2> QED BY <1>2, <1>3, <1>5, <1>7, <2>1, <2>3, <2>4, <2>5, <2>6, ClientMoves
<1> QED BY <1>8, <1>9

\* connect.
LEMMA MqttConnects ==
  ASSUME MqttInv, NEW o \in Mqtt!Op, Mqtt!Connect(o)
  PROVE  MqttInv'
<1>1. op_at[o] = "connect"
  BY DEF Mqtt!Connect
<1>2. /\ pool' = pool /\ want' = want /\ reused' = reused /\ got' = got /\ dropped' = dropped
      /\ cut' = cut /\ tx' = tx /\ rx' = rx /\ subs' = subs /\ forwarded' = forwarded
  BY DEF Mqtt!Connect, Mqtt!broker
<1>3. /\ ApartTypes(pool, op_at, op_conn, dropped, made) /\ WireFine(made, op_conn, got, cut, dropped, rx, forwarded)
      /\ tx \in [Mqtt!Conn -> Seq(MqttPacket)] /\ Pending(tx, o) \in Nat
      /\ forwarded[o] \in Nat /\ reused[o] \in BOOLEAN /\ want[o] \in Mqtt!Wanted
      /\ OpFine("connect", reused[o], want[o], forwarded[o], Pending(tx, o))
      /\ want = [want EXCEPT ![o] = want[o]] /\ reused = [reused EXCEPT ![o] = reused[o]]
  BY <1>1, MqttSays
<1>4. PICK m \in {0, 1} : m = 0 /\ Pending(tx, o) + m = Pending(tx, o)
  BY <1>3
<1>5. TxFine(tx', o, m)
  BY <1>2, <1>3, <1>4, TxSame
<1>6. op_at[o] \notin InFlightStage
  BY <1>1 DEF InFlightStage, Mqtt!Waiting, Mqtt!Awaits
<1>7. "send" \in Mqtt!Stage /\ "failed" \in Mqtt!Stage /\ "failed" \notin InFlightStage
  BY DEF Mqtt!Stage, InFlightStage, Mqtt!Waiting, Mqtt!Awaits
<1>8. want' = [want EXCEPT ![o] = want[o]] /\ reused' = [reused EXCEPT ![o] = reused[o]]
  BY <1>2, <1>3
<1>9. PICK N \in Nat, M \in Nat : N = made /\ M = N + 1
  BY <1>3 DEF ApartTypes
<1>10. subs' = subs /\ forwarded' = forwarded /\ reused[o] \in BOOLEAN /\ want[o] \in Mqtt!Wanted
  BY <1>2, <1>3
<1>11. CASE /\ made < MaxConns /\ made' = made + 1 /\ op_conn' = [op_conn EXCEPT ![o] = made + 1]
            /\ op_at' = [op_at EXCEPT ![o] = "send"]
  <2>1. Apart(pool, [op_at EXCEPT ![o] = "send"], [op_conn EXCEPT ![o] = made + 1], dropped, made + 1)
    BY <1>3, <1>6, ApartConnects
  <2>2. Apart(pool', op_at', op_conn', dropped', made')
    BY <1>2, <1>11, <2>1
  <2>3. WireFine(made', op_conn', got', cut', dropped', rx', forwarded)
    <3>1. MaxConns \in Nat /\ made' = M
      BY <1>9, <1>11, MqttConstants
    <3>2. M \in 0..MaxConns /\ 1..N \subseteq 1..M /\ 0..N \subseteq 0..M /\ M \in 0..M
      BY <1>9, <1>11, <3>1
    <3>3. op_conn \in [Mqtt!Op -> 0..N] /\ cut \subseteq 1..N /\ dropped \subseteq 1..N
      BY <1>3, <1>9 DEF WireFine
    <3>4. op_conn' \in [Mqtt!Op -> 0..M]
      BY <1>9, <1>11, <3>2, <3>3
    <3>5. cut' \subseteq 1..M /\ dropped' \subseteq 1..M
      BY <1>2, <3>2, <3>3
    <3>6. got' \in [Mqtt!Op -> 0..MaxOps] /\ rx' \in [Mqtt!Conn -> Seq(Honest(forwarded))]
      BY <1>2, <1>3 DEF WireFine
    <3> QED BY <3>1, <3>2, <3>4, <3>5, <3>6 DEF WireFine
  <2>4. OpFine("send", reused[o], want[o], forwarded[o], Pending(tx, o) + m)
    BY <1>3, <1>4, FineBegins
  <2> QED BY <1>5, <1>7, <1>8, <1>10, <1>11, <2>2, <2>3, <2>4, ClientMoves
<1>12. CASE op_at' = [op_at EXCEPT ![o] = "failed"] /\ made' = made /\ op_conn' = op_conn
  <2>1. Apart(pool, [op_at EXCEPT ![o] = "failed"], op_conn, dropped, made)
    BY <1>3, <1>7, ApartMoves
  <2>2. Apart(pool', op_at', op_conn', dropped', made')
    BY <1>2, <1>12, <2>1
  <2>3. WireFine(made', op_conn', got', cut', dropped', rx', forwarded)
    BY <1>2, <1>3, <1>12
  <2>4. OpFine("failed", reused[o], want[o], forwarded[o], Pending(tx, o) + m)
    BY <1>3, <1>4, FineBegins
  <2> QED BY <1>5, <1>7, <1>8, <1>10, <1>12, <2>2, <2>3, <2>4, ClientMoves
<1>13. \/ /\ made < MaxConns /\ made' = made + 1 /\ op_conn' = [op_conn EXCEPT ![o] = made + 1]
          /\ op_at' = [op_at EXCEPT ![o] = "send"]
       \/ op_at' = [op_at EXCEPT ![o] = "failed"] /\ made' = made /\ op_conn' = op_conn
  BY DEF Mqtt!Connect
<1> QED BY <1>11, <1>12, <1>13

\* A packet of an operation.
LEMMA PacketFine ==
  ASSUME MqttInv, NEW type \in MqttType, NEW x \in Mqtt!Op
  PROVE  /\ Mqtt!Packet(type, x) \in MqttPacket
         /\ Mqtt!Packet(type, x).type = type /\ Mqtt!Packet(type, x).id = x /\ Mqtt!Packet(type, x).qos = want[x].qos
<1>1. want[x] \in Mqtt!Wanted
  BY DEF MqttInv, MqttTypes
<1>2. want[x].topic \in Topic /\ want[x].qos \in 0..2
  <2>1. want[x].topic \in Topic /\ want[x].qos \in Qos
    BY <1>1 DEF Mqtt!Wanted
  <2> QED BY <2>1, MqttConstants
<1> QED BY <1>2 DEF Mqtt!Packet, MqttPacket

\* The PUBLISH of do_publish, the SUBSCRIBE of do_subscribe.
LEMMA MqttSends ==
  ASSUME MqttInv, NEW o \in Mqtt!Op, Mqtt!Send(o)
  PROVE  MqttInv'
<1>1. op_at[o] = "send" /\ op_at[o] \in InFlightStage
  BY DEF Mqtt!Send, InFlightStage
<1>2. cut' = cut /\ rx' = rx /\ subs' = subs /\ forwarded' = forwarded
  BY DEF Mqtt!Send
<1>3. /\ WireFine(made, op_conn, got, cut, dropped, rx, forwarded)
      /\ tx \in [Mqtt!Conn -> Seq(MqttPacket)] /\ Pending(tx, o) \in Nat
      /\ forwarded[o] \in Nat /\ reused[o] \in BOOLEAN /\ want[o] \in Mqtt!Wanted
      /\ OpFine("send", reused[o], want[o], forwarded[o], Pending(tx, o))
      /\ op_conn[o] \in Mqtt!Conn
  BY <1>1, MqttSays
<1>4. rx' \in [Mqtt!Conn -> Seq(Honest(forwarded))] /\ got \in [Mqtt!Op -> 0..MaxOps]
  BY <1>2, <1>3 DEF WireFine
<1>5. PICK type \in {"PUBLISH", "SUBSCRIBE"} : type = IF want[o].kind = "publish" THEN "PUBLISH" ELSE "SUBSCRIBE"
  OBVIOUS
<1>6. CASE tx' = Mqtt!Written(op_conn[o], <<Mqtt!Packet(type, o)>>) /\ Mqtt!Proceed(o, Mqtt!AfterSend(o)) /\ got' = got
  <2>1. PICK p \in MqttPacket : p = Mqtt!Packet(type, o) /\ p.type = type /\ p.id = o /\ p.qos = want[o].qos
    <3>1. type \in MqttType
      BY DEF MqttType
    <3> QED BY <3>1, PacketFine
  <2>2. want[o].kind \in {"publish", "subscribe"} /\ want[o].qos \in {0, 1, 2}
    <3>1. want[o].kind \in {"publish", "subscribe"} /\ want[o].qos \in Qos
      BY <1>3 DEF Mqtt!Wanted
    <3>2. want[o].qos \in 0..2
      BY <3>1, MqttConstants
    <3> QED BY <3>1, <3>2
  <2>3. PICK fw \in Nat, pd \in Nat : fw = forwarded[o] /\ pd = Pending(tx, o)
    BY <1>3
  <2>4. /\ want[o].kind = "subscribe" => OpFine("suback", reused[o], want[o], fw, pd)
        /\ want[o].kind = "publish" /\ want[o].qos = 0 => OpFine("ok", reused[o], want[o], fw, pd + 1)
        /\ want[o].kind = "publish" /\ want[o].qos = 1 => OpFine("puback", reused[o], want[o], fw, pd + 1)
        /\ want[o].kind = "publish" /\ want[o].qos = 2 => OpFine("pubrec", reused[o], want[o], fw, pd)
    <3>1. OpFine("send", reused[o], want[o], fw, pd)
      BY <1>3, <2>3
    <3> QED BY <1>3, <3>1, FineSends
  <2>5. pd + 0 = pd
    OBVIOUS
  <2>6. \E s \in {"ok"} \cup Mqtt!Waiting, m \in {0, 1} :
          /\ s = Mqtt!AfterSend(o) /\ OpFine(s, reused[o], want[o], fw, pd + m)
          /\ \A x \in Mqtt!Op : Mark(p, x) <= (IF x = o THEN m ELSE 0)
    <3>1. {"ok", "suback", "puback", "pubrec"} \subseteq {"ok"} \cup Mqtt!Waiting
      BY DEF Mqtt!Waiting, Mqtt!Awaits
    <3>2. \A x \in Mqtt!Op : Mark(p, x) \in {0, 1} /\ (x # o => Mark(p, x) = 0)
      BY <2>1 DEF Mark, Forwards
    <3>3. want[o].kind = "subscribe" \/ want[o].qos = 2 => \A x \in Mqtt!Op : Mark(p, x) = 0
      BY <1>5, <2>1, <2>2 DEF Mark, Forwards
    <3>4. CASE want[o].kind = "subscribe"
      <4>1. Mqtt!AfterSend(o) = "suback"
        BY <3>4 DEF Mqtt!AfterSend
      <4> QED BY <2>4, <2>5, <3>1, <3>3, <3>4, <4>1
    <3>5. CASE want[o].kind = "publish" /\ want[o].qos = 0
      <4>1. Mqtt!AfterSend(o) = "ok"
        BY <3>5 DEF Mqtt!AfterSend
      <4> QED BY <2>4, <3>1, <3>2, <3>5, <4>1
    <3>6. CASE want[o].kind = "publish" /\ want[o].qos = 1
      <4>1. Mqtt!AfterSend(o) = "puback"
        BY <3>6 DEF Mqtt!AfterSend
      <4> QED BY <2>4, <3>1, <3>2, <3>6, <4>1
    <3>7. CASE want[o].kind = "publish" /\ want[o].qos = 2
      <4>1. Mqtt!AfterSend(o) = "pubrec"
        BY <3>7 DEF Mqtt!AfterSend
      <4> QED BY <2>4, <2>5, <3>1, <3>3, <3>7, <4>1
    <3> QED BY <2>2, <3>4, <3>5, <3>6, <3>7
  <2>7. PICK s \in {"ok"} \cup Mqtt!Waiting, m \in {0, 1} :
          /\ s = Mqtt!AfterSend(o) /\ OpFine(s, reused[o], want[o], fw, pd + m)
          /\ \A x \in Mqtt!Op : Mark(p, x) <= (IF x = o THEN m ELSE 0)
    BY <2>6
  <2>8. TxFine(Mqtt!Written(op_conn[o], <<p>>), o, m)
    BY <1>3, <2>7, TxWritten
  <2>9. TxFine(tx', o, m) /\ Mqtt!Proceed(o, s) /\ OpFine(s, reused[o], want[o], forwarded[o], Pending(tx, o) + m)
    BY <1>6, <2>1, <2>3, <2>7, <2>8
  <2>10. got' \in [Mqtt!Op -> 0..MaxOps]
    BY <1>4, <1>6
  <2> QED BY <1>1, <1>2, <1>4, <2>9, <2>10, ProceedPreserves
<1>7. CASE Mqtt!Abandon(o) /\ tx' = tx
  BY <1>1, <1>2, <1>4, <1>7, AbandonPreserves
<1>8. \/ tx' = Mqtt!Written(op_conn[o], <<Mqtt!Packet(type, o)>>) /\ Mqtt!Proceed(o, Mqtt!AfterSend(o)) /\ got' = got
      \/ Mqtt!Abandon(o) /\ tx' = tx
  BY <1>5, Zenon DEF Mqtt!Send
<1> QED BY <1>6, <1>7, <1>8

\* The read fails.
LEMMA MqttReadFails ==
  ASSUME MqttInv, NEW o \in Mqtt!Op, Mqtt!ReadFails(o)
  PROVE  MqttInv'
<1>1. op_at[o] \in InFlightStage /\ Mqtt!Abandon(o)
  BY DEF Mqtt!ReadFails, InFlightStage
<1>2. cut' = cut /\ tx' = tx /\ rx' = rx /\ subs' = subs /\ forwarded' = forwarded
  BY DEF Mqtt!ReadFails, Mqtt!broker
<1>3. rx' \in [Mqtt!Conn -> Seq(Honest(forwarded))]
  BY <1>2 DEF MqttInv, MqttTypes
<1> QED BY <1>1, <1>2, <1>3, AbandonPreserves

\* What an operation does with the packet it waits for.
LEMMA MqttAnswered ==
  ASSUME MqttInv, NEW o \in Mqtt!Op, op_at[o] \in Mqtt!Waiting, NEW p \in Honest(forwarded), Mqtt!Matches(o, p)
  PROVE  \E s \in {"ok"} \cup Mqtt!Waiting, m \in {0, 1} :
           /\ s = Mqtt!AfterReceive(o, p).stage
           /\ OpFine(s, reused[o], want[o], forwarded[o], Pending(tx, o) + m)
           /\ TxFine(Mqtt!Written(op_conn[o], Mqtt!AfterReceive(o, p).reply), o, m)
<1>1. /\ tx \in [Mqtt!Conn -> Seq(MqttPacket)] /\ Pending(tx, o) \in Nat
      /\ forwarded[o] \in Nat /\ reused[o] \in BOOLEAN /\ want[o] \in Mqtt!Wanted
      /\ OpFine(op_at[o], reused[o], want[o], forwarded[o], Pending(tx, o))
      /\ op_conn[o] \in Mqtt!Conn
  <2>1. op_at[o] \in InFlightStage
    BY DEF InFlightStage
  <2> QED BY <2>1, MqttSays
<1>2. PICK fw \in Nat, pd \in Nat, c \in Mqtt!Conn : fw = forwarded[o] /\ pd = Pending(tx, o) /\ c = op_conn[o]
  BY <1>1
<1>3. OpFine(op_at[o], reused[o], want[o], fw, pd)
  BY <1>1, <1>2
<1>4. p \in MqttPacket /\ p.id \in Mqtt!Op /\ p.qos \in {0, 1, 2} /\ (p.type \in {"PUBACK", "PUBCOMP"} => forwarded[p.id] > 0)
  BY DEF Honest, MqttPacket
<1>5. op_at[o] \in {"puback", "pubrec", "pubcomp", "suback", "message", "pubrel"}
  BY DEF Mqtt!Waiting, Mqtt!Awaits
<1>6. {"ok", "pubcomp", "message", "pubrel"} \subseteq {"ok"} \cup Mqtt!Waiting
  BY DEF Mqtt!Waiting, Mqtt!Awaits
<1>7. pd + 0 = pd
  OBVIOUS
<1>8. TxFine(Mqtt!Written(c, <<>>), o, 0)
  BY <1>1, TxQuiet, TxSame
<1>9. ASSUME NEW type \in {"PUBACK", "PUBREC", "PUBCOMP"}
      PROVE  TxFine(Mqtt!Written(c, <<Mqtt!Packet(type, p.id)>>), o, 0)
  <2>1. PICK q \in MqttPacket : q = Mqtt!Packet(type, p.id) /\ q.type = type
    <3>1. type \in MqttType
      BY DEF MqttType
    <3> QED BY <1>4, <3>1, PacketFine
  <2>2. PICK m \in {0, 1} : m = 0
    OBVIOUS
  <2>3. \A x \in Mqtt!Op : Mark(q, x) <= (IF x = o THEN m ELSE 0)
    BY <2>1, <2>2 DEF Mark, Forwards
  <2>4. TxFine(Mqtt!Written(c, <<q>>), o, m)
    BY <1>1, <2>3, TxWritten
  <2> QED BY <2>1, <2>2, <2>4
<1>10. TxFine(Mqtt!Written(c, <<Mqtt!Packet("PUBREL", o)>>), o, 1)
  <2>1. PICK q \in MqttPacket : q = Mqtt!Packet("PUBREL", o) /\ q.id = o
    <3>1. "PUBREL" \in MqttType
      BY DEF MqttType
    <3> QED BY <3>1, PacketFine
  <2>2. PICK m \in {0, 1} : m = 1
    OBVIOUS
  <2>3. \A x \in Mqtt!Op : Mark(q, x) <= (IF x = o THEN m ELSE 0)
    BY <2>1, <2>2 DEF Mark, Forwards
  <2>4. TxFine(Mqtt!Written(c, <<q>>), o, m)
    BY <1>1, <2>3, TxWritten
  <2> QED BY <2>1, <2>2, <2>4
<1>11. CASE op_at[o] \in {"puback", "pubcomp"}
  <2>1. Mqtt!AfterReceive(o, p) = [stage |-> "ok", reply |-> <<>>]
    BY <1>11 DEF Mqtt!AfterReceive
  <2>2. p.id = o /\ p.type \in {"PUBACK", "PUBCOMP"}
    BY <1>11 DEF Mqtt!Matches, Mqtt!Awaits
  <2>3. fw > 0
    BY <1>2, <1>4, <2>2
  <2>4. OpFine("ok", reused[o], want[o], fw, pd)
    BY <1>1, <1>3, <1>11, <2>3, FineAnswered
  <2> QED BY <1>2, <1>6, <1>7, <1>8, <2>1, <2>4
<1>12. CASE op_at[o] = "pubrec"
  <2>1. Mqtt!AfterReceive(o, p) = [stage |-> "pubcomp", reply |-> <<Mqtt!Packet("PUBREL", o)>>]
    BY <1>12 DEF Mqtt!AfterReceive
  <2>2. OpFine("pubcomp", reused[o], want[o], fw, pd + 1)
    BY <1>1, <1>3, <1>12, FineAnswered
  <2> QED BY <1>2, <1>6, <1>10, <2>1, <2>2
<1>13. CASE op_at[o] = "suback"
  <2>1. Mqtt!AfterReceive(o, p) = [stage |-> "message", reply |-> <<>>]
    BY <1>13 DEF Mqtt!AfterReceive
  <2>2. OpFine("message", reused[o], want[o], fw, pd)
    BY <1>1, <1>3, <1>13, FineAnswered
  <2> QED BY <1>2, <1>6, <1>7, <1>8, <2>1, <2>2
<1>14. CASE op_at[o] = "message"
  <2>1. OpFine("pubrel", reused[o], want[o], fw, pd) /\ OpFine("ok", reused[o], want[o], fw, pd)
    BY <1>1, <1>3, <1>14, FineAnswered
  <2>2. CASE p.qos = 0
    <3>1. Mqtt!AfterReceive(o, p) = [stage |-> "ok", reply |-> <<>>]
      BY <1>14, <2>2 DEF Mqtt!AfterReceive
    <3> QED BY <1>2, <1>6, <1>7, <1>8, <2>1, <3>1
  <2>3. CASE p.qos = 1
    <3>1. Mqtt!AfterReceive(o, p) = [stage |-> "ok", reply |-> <<Mqtt!Packet("PUBACK", p.id)>>]
      BY <1>14, <2>3 DEF Mqtt!AfterReceive
    <3>2. TxFine(Mqtt!Written(c, <<Mqtt!Packet("PUBACK", p.id)>>), o, 0)
      BY <1>9
    <3> QED BY <1>2, <1>6, <1>7, <2>1, <3>1, <3>2
  <2>4. CASE p.qos = 2
    <3>1. Mqtt!AfterReceive(o, p) = [stage |-> "pubrel", reply |-> <<Mqtt!Packet("PUBREC", p.id)>>]
      BY <1>14, <2>4 DEF Mqtt!AfterReceive
    <3>2. TxFine(Mqtt!Written(c, <<Mqtt!Packet("PUBREC", p.id)>>), o, 0)
      BY <1>9
    <3> QED BY <1>2, <1>6, <1>7, <2>1, <3>1, <3>2
  <2> QED BY <1>4, <2>2, <2>3, <2>4
<1>15. CASE op_at[o] = "pubrel"
  <2>1. Mqtt!AfterReceive(o, p) = [stage |-> "ok", reply |-> <<Mqtt!Packet("PUBCOMP", p.id)>>]
    BY <1>15 DEF Mqtt!AfterReceive
  <2>2. OpFine("ok", reused[o], want[o], fw, pd)
    BY <1>1, <1>3, <1>15, FineAnswered
  <2>3. TxFine(Mqtt!Written(c, <<Mqtt!Packet("PUBCOMP", p.id)>>), o, 0)
    BY <1>9
  <2> QED BY <1>2, <1>6, <1>7, <2>1, <2>2, <2>3
<1> QED BY <1>5, <1>11, <1>12, <1>13, <1>14, <1>15

\* wait_for.
LEMMA MqttReceives ==
  ASSUME MqttInv, NEW o \in Mqtt!Op, Mqtt!Receive(o)
  PROVE  MqttInv'
<1>1. PICK c, p : c = op_conn[o] /\ p = Head(rx[c])
  OBVIOUS
<1>2. op_at[o] \in Mqtt!Waiting /\ op_at[o] \in InFlightStage
  BY DEF Mqtt!Receive, InFlightStage
<1>3. rx[c] # <<>> /\ rx' = [rx EXCEPT ![c] = Tail(rx[c])]
  BY <1>1 DEF Mqtt!Receive
<1>4. cut' = cut /\ subs' = subs /\ forwarded' = forwarded
  BY DEF Mqtt!Receive
<1>5. c \in Mqtt!Conn /\ got \in [Mqtt!Op -> 0..MaxOps] /\ rx \in [Mqtt!Conn -> Seq(Honest(forwarded))]
  <2>1. op_conn[o] \in Mqtt!Conn /\ WireFine(made, op_conn, got, cut, dropped, rx, forwarded)
    BY <1>2, MqttSays
  <2> QED BY <1>1, <2>1 DEF WireFine
<1>6. p \in Honest(forwarded) /\ Tail(rx[c]) \in Seq(Honest(forwarded))
  <2>1. rx[c] \in Seq(Honest(forwarded))
    BY <1>5
  <2> QED BY <1>1, <1>3, <2>1, HeadTailProperties
<1>7. rx' \in [Mqtt!Conn -> Seq(Honest(forwarded))]
  BY <1>3, <1>5, <1>6
<1>8. CASE /\ Mqtt!Matches(o, p) /\ Mqtt!Proceed(o, Mqtt!AfterReceive(o, p).stage)
           /\ tx' = Mqtt!Written(c, Mqtt!AfterReceive(o, p).reply)
           /\ got' = IF op_at[o] = "message" THEN [got EXCEPT ![o] = p.id] ELSE got
  <2>1. PICK s \in {"ok"} \cup Mqtt!Waiting, m \in {0, 1} :
           /\ s = Mqtt!AfterReceive(o, p).stage
           /\ OpFine(s, reused[o], want[o], forwarded[o], Pending(tx, o) + m)
           /\ TxFine(Mqtt!Written(op_conn[o], Mqtt!AfterReceive(o, p).reply), o, m)
    BY <1>2, <1>6, <1>8, MqttAnswered
  <2>2. TxFine(tx', o, m) /\ Mqtt!Proceed(o, s)
    BY <1>1, <1>8, <2>1
  <2>3. got' \in [Mqtt!Op -> 0..MaxOps]
    <3>1. p.id \in 0..MaxOps
      <4>1. p.id \in Mqtt!Op
        BY <1>6 DEF Honest, MqttPacket
      <4>2. MaxOps \in Nat
        BY MqttConstants
      <4> QED BY <4>1, <4>2 DEF Mqtt!Op
    <3> QED BY <1>5, <1>8, <3>1
  <2> QED BY <1>2, <1>4, <1>7, <2>1, <2>2, <2>3, ProceedPreserves
<1>9. CASE Mqtt!Abandon(o) /\ tx' = tx
  BY <1>2, <1>4, <1>7, <1>9, AbandonPreserves
<1>10. \/ /\ Mqtt!Matches(o, p) /\ Mqtt!Proceed(o, Mqtt!AfterReceive(o, p).stage)
          /\ tx' = Mqtt!Written(c, Mqtt!AfterReceive(o, p).reply)
          /\ got' = IF op_at[o] = "message" THEN [got EXCEPT ![o] = p.id] ELSE got
       \/ Mqtt!Abandon(o) /\ tx' = tx
  BY <1>1, Zenon DEF Mqtt!Receive
<1> QED BY <1>8, <1>9, <1>10

\* A step of the broker keeps the invariant if every operation stays fine.
LEMMA BrokerMoves ==
  ASSUME MqttInv, UNCHANGED <<pool, made, op_at, want, op_conn, reused, got, dropped>>, cut' \subseteq 1..made,
         tx' \in [Mqtt!Conn -> Seq(MqttPacket)], subs' \in [Mqtt!Conn -> SUBSET MqttSubs],
         forwarded' \in [Mqtt!Op -> Nat], rx' \in [Mqtt!Conn -> Seq(Honest(forwarded'))],
         \A x \in Mqtt!Op : OpFine(op_at[x], reused[x], want[x], forwarded'[x], Pending(tx', x))
  PROVE  MqttInv'
<1>1. MqttTypes'
  BY DEF MqttInv, MqttTypes
<1>2. Apart(pool', op_at', op_conn', dropped', made')
  BY DEF MqttInv
<1>3. \A x \in Mqtt!Op : OpFine(op_at'[x], reused'[x], want'[x], forwarded'[x], Pending(tx', x))
  OBVIOUS
<1> QED BY <1>1, <1>2, <1>3 DEF MqttInv

\* A packet on the way becomes a message forwarded.
LEMMA FineForwards ==
  ASSUME NEW a, NEW re, NEW w \in Mqtt!Wanted, NEW fw \in Nat, NEW n \in Nat, OpFine(a, re, w, fw, n + 1)
  PROVE  OpFine(a, re, w, fw + 1, n)
<1>1. PICK l \in Nat : l = Left(a, re, w.qos)
  <2>1. Left(a, re, w.qos) \in Nat
    BY DEF Left
  <2> QED BY <2>1
<1>2. a # "idle" /\ fw + (n + 1) + l <= (IF w.qos = 0 THEN 1 ELSE 2)
  BY <1>1 DEF OpFine
<1>3. (fw + 1) + n + l <= (IF w.qos = 0 THEN 1 ELSE 2) /\ fw + 1 > 0
  BY <1>2
<1>4. /\ a \in {"suback", "message", "pubrel"} => w.kind = "subscribe"
      /\ a = "puback" => w.qos = 1
      /\ a \in {"pubrec", "pubcomp"} => w.qos = 2
      /\ a \in {"idle", "connect"} => ~re
  BY DEF OpFine
<1> QED BY <1>1, <1>2, <1>3, <1>4 DEF OpFine

\* How often each message is forwarded once packet p is read.
Forwarded(p) == IF Forwards(p, p.id) THEN [forwarded EXCEPT ![p.id] = forwarded[p.id] + 1] ELSE forwarded

\* The broker reads a packet: every operation stays fine, and every confirmation honest.
LEMMA ServeFine ==
  ASSUME MqttInv, NEW c \in Mqtt!Conn, tx[c] # <<>>, NEW p, p = Head(tx[c]), NEW t, t = [tx EXCEPT ![c] = Tail(tx[c])]
  PROVE  /\ p \in MqttPacket /\ t \in [Mqtt!Conn -> Seq(MqttPacket)] /\ Forwarded(p) \in [Mqtt!Op -> Nat]
         /\ \A x \in Mqtt!Op : OpFine(op_at[x], reused[x], want[x], Forwarded(p)[x], Pending(t, x))
         /\ rx \in [Mqtt!Conn -> Seq(Honest(Forwarded(p)))]
         /\ Forwards(p, p.id) => Forwarded(p)[p.id] > 0
<1>1. /\ tx \in [Mqtt!Conn -> Seq(MqttPacket)] /\ forwarded \in [Mqtt!Op -> Nat] /\ want \in [Mqtt!Op -> Mqtt!Wanted]
      /\ rx \in [Mqtt!Conn -> Seq(Honest(forwarded))]
  BY DEF MqttInv, MqttTypes
<1>2. tx[c] \in Seq(MqttPacket)
  BY <1>1
<1>3. p \in MqttPacket /\ Tail(tx[c]) \in Seq(MqttPacket)
  BY <1>2, HeadTailProperties
<1>4. t \in [Mqtt!Conn -> Seq(MqttPacket)]
  BY <1>1, <1>3
<1>5. p.id \in Mqtt!Op
  BY <1>3 DEF MqttPacket
<1>6. /\ Forwarded(p) \in [Mqtt!Op -> Nat] /\ Honest(forwarded) \subseteq Honest(Forwarded(p))
      /\ Forwards(p, p.id) => Forwarded(p)[p.id] > 0
  <2>1. CASE Forwards(p, p.id)
    <3>1. Forwarded(p) = [forwarded EXCEPT ![p.id] = forwarded[p.id] + 1]
      BY <2>1 DEF Forwarded
    <3>2. PICK g : g = [forwarded EXCEPT ![p.id] = forwarded[p.id] + 1] /\ Honest(forwarded) \subseteq Honest(g)
      BY <1>1, <1>5, HonestGrows
    <3>3. g \in [Mqtt!Op -> Nat] /\ g[p.id] > 0
      BY <1>1, <1>5, <3>2
    <3> QED BY <3>1, <3>2, <3>3
  <2>2. CASE ~Forwards(p, p.id)
    BY <1>1, <2>2 DEF Forwarded
  <2> QED BY <2>1, <2>2
<1>7. rx \in [Mqtt!Conn -> Seq(Honest(Forwarded(p)))]
  <2>1. \A d \in Mqtt!Conn : rx[d] \in Seq(Honest(forwarded))
    BY <1>1
  <2>2. \A d \in Mqtt!Conn : rx[d] \in Seq(Honest(Forwarded(p)))
    BY <1>6, <2>1, SeqWider
  <2> QED BY <1>1, <2>2
<1>8. ASSUME NEW x \in Mqtt!Op
      PROVE  OpFine(op_at[x], reused[x], want[x], Forwarded(p)[x], Pending(t, x))
  <2>1. Pending(t, x) = Pending(tx, x) + (Queued(Tail(tx[c]), x) - Queued(tx[c], x))
    <3>1. Rewrites(tx, c, Tail(tx[c]), t)
      BY <1>1, <1>3 DEF Rewrites
    <3> QED BY <3>1, PendingRewrites
  <2>2. Queued(tx[c], x) = Mark(p, x) + Queued(Tail(tx[c]), x)
    BY <1>2, CountLess
  <2>3. Pending(t, x) \in Nat /\ Pending(tx, x) \in Nat
    BY <1>1, <1>4, PendingNat
  <2>4. Queued(Tail(tx[c]), x) \in Nat
    BY <1>3, CountNat
  <2>5. PICK n \in Nat, d \in Nat, u \in Nat : n = Pending(t, x) /\ d = Pending(tx, x) /\ u = Queued(Tail(tx[c]), x)
    BY <2>3, <2>4
  <2>6. PICK k \in Nat : k = Mark(p, x) /\ (k = IF Forwards(p, x) THEN 1 ELSE 0)
    BY DEF Mark
  <2>7. n = d + (u - (k + u))
    BY <2>1, <2>2, <2>5, <2>6
  <2>8. d = n + k
    BY <2>7
  <2>9. PICK fw \in Nat : fw = forwarded[x]
    BY <1>1
  <2>10. OpFine(op_at[x], reused[x], want[x], fw, d) /\ want[x] \in Mqtt!Wanted
    BY <1>1, <2>5, <2>9 DEF MqttInv
  <2>11. CASE Forwards(p, x)
    <3>1. x = p.id /\ d = n + 1
      BY <2>6, <2>8, <2>11 DEF Forwards
    <3>2. Forwarded(p)[x] = fw + 1
      BY <1>1, <2>9, <2>11, <3>1 DEF Forwarded
    <3>3. OpFine(op_at[x], reused[x], want[x], fw, n + 1)
      BY <2>10, <3>1
    <3>4. OpFine(op_at[x], reused[x], want[x], fw + 1, n)
      BY <2>10, <3>3, FineForwards
    <3> QED BY <2>5, <3>2, <3>4
  <2>12. CASE ~Forwards(p, x)
    <3>1. d = n
      BY <2>6, <2>8, <2>12
    <3>2. Forwarded(p)[x] = fw
      <4>1. CASE Forwards(p, p.id)
        <5>1. x # p.id
          BY <2>12, <4>1
        <5> QED BY <1>1, <2>9, <4>1, <5>1 DEF Forwarded
      <4>2. CASE ~Forwards(p, p.id)
        BY <2>9, <4>2 DEF Forwarded
      <4> QED BY <4>1, <4>2
    <3> QED BY <2>5, <2>10, <3>1, <3>2
  <2> QED BY <2>11, <2>12
<1> QED BY <1>3, <1>4, <1>6, <1>7, <1>8

\* The broker's answer.
LEMMA AnswerFine ==
  ASSUME NEW p \in MqttPacket, NEW type \in MqttType, NEW c, NEW g, type \in {"PUBACK", "PUBCOMP"} => g[p.id] > 0
  PROVE  Mqtt!Answer(c, type, p) \in Seq(Honest(g))
<1>1. PICK q : q = [p EXCEPT !.type = type]
  OBVIOUS
<1>2. q \in MqttPacket /\ q.type = type /\ q.id = p.id
  BY <1>1 DEF MqttPacket
<1>3. q \in Honest(g)
  BY <1>2 DEF Honest
<1>4. <<q>> \in Seq(Honest(g)) /\ <<>> \in Seq(Honest(g))
  BY <1>3
<1> QED BY <1>1, <1>4 DEF Mqtt!Answer

\* The broker answers one connection.
LEMMA PutFine ==
  ASSUME NEW c \in Mqtt!Conn, NEW g, rx \in [Mqtt!Conn -> Seq(Honest(g))], NEW answer \in Seq(Honest(g)),
         rx' = [rx EXCEPT ![c] = rx[c] \o answer]
  PROVE  rx' \in [Mqtt!Conn -> Seq(Honest(g))]
<1>1. rx[c] \in Seq(Honest(g))
  OBVIOUS
<1>2. rx[c] \o answer \in Seq(Honest(g))
  BY <1>1, ConcatProperties
<1> QED BY <1>2

\* It forwards a message.
LEMMA ForwardFine ==
  ASSUME NEW c \in Mqtt!Conn, NEW g, rx \in [Mqtt!Conn -> Seq(Honest(g))], subs \in [Mqtt!Conn -> SUBSET MqttSubs],
         NEW p \in MqttPacket, NEW answer \in Seq(Honest(g)), Mqtt!Forward(c, p, answer)
  PROVE  rx' \in [Mqtt!Conn -> Seq(Honest(g))]
<1>1. PICK first \in BOOLEAN :
         rx' = [d \in Mqtt!Conn |-> rx[d] \o
                 (IF d # c THEN IF d \in Mqtt!Usable THEN Mqtt!Copies(d, p) ELSE <<>>
                  ELSE IF first THEN answer \o (IF d \in Mqtt!Usable THEN Mqtt!Copies(d, p) ELSE <<>>)
                       ELSE (IF d \in Mqtt!Usable THEN Mqtt!Copies(d, p) ELSE <<>>) \o answer)]
  BY Zenon DEF Mqtt!Forward
<1>2. ASSUME NEW d \in Mqtt!Conn PROVE rx'[d] \in Seq(Honest(g))
  <2>1. PICK copies : copies = IF d \in Mqtt!Usable THEN Mqtt!Copies(d, p) ELSE <<>>
    OBVIOUS
  <2>2. copies \in Seq(Honest(g))
    <3>1. Mqtt!Copies(d, p) \in Seq(Honest(g))
      BY CopiesHonest
    <3>2. <<>> \in Seq(Honest(g))
      OBVIOUS
    <3> QED BY <2>1, <3>1, <3>2
  <2>3. answer \o copies \in Seq(Honest(g)) /\ copies \o answer \in Seq(Honest(g))
    BY <2>2, ConcatProperties
  <2>4. PICK more \in Seq(Honest(g)) : rx'[d] = rx[d] \o more
    <3>1. rx'[d] = rx[d] \o (IF d # c THEN copies ELSE IF first THEN answer \o copies ELSE copies \o answer)
      BY <1>1, <2>1, Zenon
    <3> QED BY <2>2, <2>3, <3>1
  <2>5. rx[d] \in Seq(Honest(g))
    OBVIOUS
  <2>6. rx[d] \o more \in Seq(Honest(g))
    BY <2>4, <2>5, ConcatProperties
  <2> QED BY <2>4, <2>6
<1>3. rx' = [d \in Mqtt!Conn |-> rx'[d]]
  BY <1>1
<1> QED BY <1>2, <1>3

\* The broker reads a packet.
LEMMA MqttServes ==
  ASSUME MqttInv, NEW c \in Mqtt!Conn, Mqtt!Serve(c)
  PROVE  MqttInv'
<1>1. PICK p, t : p = Head(tx[c]) /\ t = [tx EXCEPT ![c] = Tail(tx[c])]
  OBVIOUS
<1>2. tx[c] # <<>> /\ tx' = t
  BY <1>1 DEF Mqtt!Serve
<1>3. cut' = cut /\ UNCHANGED <<pool, made, op_at, want, op_conn, reused, got, dropped>>
  BY DEF Mqtt!Serve, Mqtt!client
<1>4. PICK g : g = Forwarded(p)
  OBVIOUS
<1>5. /\ p \in MqttPacket /\ t \in [Mqtt!Conn -> Seq(MqttPacket)] /\ g \in [Mqtt!Op -> Nat]
      /\ \A x \in Mqtt!Op : OpFine(op_at[x], reused[x], want[x], g[x], Pending(t, x))
      /\ rx \in [Mqtt!Conn -> Seq(Honest(g))] /\ (Forwards(p, p.id) => g[p.id] > 0)
  BY <1>1, <1>2, <1>4, ServeFine
<1>6. subs \in [Mqtt!Conn -> SUBSET MqttSubs] /\ cut \subseteq 1..made
  BY DEF MqttInv, MqttTypes
<1>7. p.type \in MqttType /\ p.qos \in {0, 1, 2} /\ p.topic \in Topic
  BY <1>5 DEF MqttPacket
<1>8. forwarded' = g /\ rx' \in [Mqtt!Conn -> Seq(Honest(g))] /\ subs' \in [Mqtt!Conn -> SUBSET MqttSubs]
  <2>1. CASE p.type = "PUBLISH" /\ p.qos < 2
    <3>1. PICK answer : answer = IF p.qos = 1 THEN Mqtt!Answer(c, "PUBACK", p) ELSE <<>>
      OBVIOUS
    <3>2. Mqtt!Forward(c, p, answer) /\ subs' = subs
      <4>1. subs' = subs
        BY <1>1, <1>7, <2>1 DEF Mqtt!Serve
      <4>2. Mqtt!Forward(c, p, IF p.qos = 1 THEN Mqtt!Answer(c, "PUBACK", p) ELSE <<>>)
        <5>1. p.type \notin {"PUBREL", "SUBSCRIBE", "PUBREC", "PUBACK", "PUBCOMP"} /\ p.qos # 2
          BY <1>7, <2>1
        <5> QED BY <1>1, <5>1, Zenon DEF Mqtt!Serve
      <4> QED BY <3>1, <4>1, <4>2, Zenon
    <3>3. Forwards(p, p.id)
      BY <2>1 DEF Forwards
    <3>4. answer \in Seq(Honest(g))
      <4>1. Mqtt!Answer(c, "PUBACK", p) \in Seq(Honest(g))
        BY <1>5, <3>3, AnswerFine DEF MqttType
      <4>2. <<>> \in Seq(Honest(g))
        OBVIOUS
      <4> QED BY <3>1, <4>1, <4>2
    <3>5. rx' \in [Mqtt!Conn -> Seq(Honest(g))]
      BY <1>5, <1>6, <3>2, <3>4, ForwardFine
    <3>6. forwarded' = g
      BY <1>4, <3>2, <3>3 DEF Mqtt!Forward, Forwarded
    <3> QED BY <1>6, <3>2, <3>5, <3>6
  <2>2. CASE p.type = "PUBLISH" /\ p.qos = 2
    <3>1. ~(p.qos < 2)
      BY <2>2
    <3>2. rx' = [rx EXCEPT ![c] = rx[c] \o Mqtt!Answer(c, "PUBREC", p)] /\ subs' = subs /\ forwarded' = forwarded
      BY <1>1, <2>2, <3>1 DEF Mqtt!Serve
    <3>3. g = forwarded
      BY <1>4, <2>2, <3>1 DEF Forwarded, Forwards
    <3>4. Mqtt!Answer(c, "PUBREC", p) \in Seq(Honest(g))
      BY <1>5, AnswerFine DEF MqttType
    <3>5. rx' \in [Mqtt!Conn -> Seq(Honest(g))]
      BY <1>5, <3>2, <3>4, PutFine
    <3> QED BY <1>6, <3>2, <3>3, <3>5
  <2>3. CASE p.type = "PUBREL"
    <3>1. Mqtt!Forward(c, p, Mqtt!Answer(c, "PUBCOMP", p)) /\ subs' = subs
      BY <1>1, <2>3 DEF Mqtt!Serve
    <3>2. Forwards(p, p.id)
      BY <2>3 DEF Forwards
    <3>3. Mqtt!Answer(c, "PUBCOMP", p) \in Seq(Honest(g))
      BY <1>5, <3>2, AnswerFine DEF MqttType
    <3>4. rx' \in [Mqtt!Conn -> Seq(Honest(g))]
      BY <1>5, <1>6, <3>1, <3>3, ForwardFine
    <3>5. forwarded' = g
      BY <1>4, <3>1, <3>2 DEF Mqtt!Forward, Forwarded
    <3> QED BY <1>6, <3>1, <3>4, <3>5
  <2>4. CASE p.type = "SUBSCRIBE"
    <3>1. forwarded' = forwarded
      BY <1>1, <2>4 DEF Mqtt!Serve
    <3>2. \/ /\ subs' = [subs EXCEPT ![c] = {s \in subs[c] : s.topic # p.topic} \cup {[topic |-> p.topic, qos |-> p.qos]}]
             /\ rx' = [rx EXCEPT ![c] = rx[c] \o Mqtt!Answer(c, "SUBACK", p)]
          \/ subs' = subs /\ rx' = [rx EXCEPT ![c] = rx[c] \o Mqtt!Answer(c, "REFUSED", p)]
      BY <1>1, <2>4 DEF Mqtt!Serve
    <3>3. g = forwarded
      BY <1>4, <2>4 DEF Forwarded, Forwards
    <3>4. Mqtt!Answer(c, "SUBACK", p) \in Seq(Honest(g)) /\ Mqtt!Answer(c, "REFUSED", p) \in Seq(Honest(g))
      BY <1>5, AnswerFine DEF MqttType
    <3>5. rx' \in [Mqtt!Conn -> Seq(Honest(g))]
      BY <1>5, <3>2, <3>4, PutFine
    <3>6. subs' \in [Mqtt!Conn -> SUBSET MqttSubs]
      <4>1. [topic |-> p.topic, qos |-> p.qos] \in MqttSubs
        BY <1>7 DEF MqttSubs
      <4> QED BY <1>6, <3>2, <4>1
    <3> QED BY <3>1, <3>3, <3>5, <3>6
  <2>5. CASE p.type = "PUBREC"
    <3>1. rx' = [rx EXCEPT ![c] = rx[c] \o Mqtt!Answer(c, "PUBREL", p)] /\ subs' = subs /\ forwarded' = forwarded
      BY <1>1, <2>5 DEF Mqtt!Serve
    <3>2. g = forwarded
      BY <1>4, <2>5 DEF Forwarded, Forwards
    <3>3. Mqtt!Answer(c, "PUBREL", p) \in Seq(Honest(g))
      BY <1>5, AnswerFine DEF MqttType
    <3>4. rx' \in [Mqtt!Conn -> Seq(Honest(g))]
      BY <1>5, <3>1, <3>3, PutFine
    <3> QED BY <1>6, <3>1, <3>2, <3>4
  <2>6. CASE p.type \in {"PUBACK", "PUBCOMP", "SUBACK", "REFUSED"}
    <3>1. rx' = rx /\ subs' = subs /\ forwarded' = forwarded
      BY <1>1, <2>6 DEF Mqtt!Serve
    <3>2. g = forwarded
      BY <1>4, <2>6 DEF Forwarded, Forwards
    <3> QED BY <1>5, <1>6, <3>1, <3>2
  <2>7. /\ p.type \in {"PUBLISH", "PUBREL", "SUBSCRIBE", "PUBREC"} \cup {"PUBACK", "PUBCOMP", "SUBACK", "REFUSED"}
        /\ p.qos < 2 \/ p.qos = 2
    BY <1>7 DEF MqttType
  <2> QED BY <2>1, <2>2, <2>3, <2>4, <2>5, <2>6, <2>7
<1>9. /\ tx' \in [Mqtt!Conn -> Seq(MqttPacket)] /\ forwarded' \in [Mqtt!Op -> Nat]
      /\ rx' \in [Mqtt!Conn -> Seq(Honest(forwarded'))] /\ cut' \subseteq 1..made
      /\ \A x \in Mqtt!Op : OpFine(op_at[x], reused[x], want[x], forwarded'[x], Pending(tx', x))
  BY <1>2, <1>3, <1>5, <1>6, <1>8
<1> QED BY <1>3, <1>8, <1>9, BrokerMoves

\* A connection breaks.
LEMMA MqttCuts ==
  ASSUME MqttInv, NEW c \in Mqtt!Conn, Mqtt!Cut(c)
  PROVE  MqttInv'
<1>1. /\ cut' = cut \cup {c} /\ c \in 1..made /\ tx' = [tx EXCEPT ![c] = <<>>]
      /\ rx' = rx /\ subs' = subs /\ forwarded' = forwarded
  BY DEF Mqtt!Cut, Mqtt!Usable
<1>2. UNCHANGED <<pool, made, op_at, want, op_conn, reused, got, dropped>>
  BY DEF Mqtt!Cut, Mqtt!client
<1>3. MqttTypes
  BY DEF MqttInv
<1>4. tx \in [Mqtt!Conn -> Seq(MqttPacket)] /\ <<>> \in Seq(MqttPacket)
  BY <1>3 DEF MqttTypes
<1>5. tx' \in [Mqtt!Conn -> Seq(MqttPacket)]
  BY <1>1, <1>4
<1>6. PICK t \in [Mqtt!Conn -> Seq(MqttPacket)] : t = tx'
  BY <1>5
<1>7. ASSUME NEW x \in Mqtt!Op
      PROVE  OpFine(op_at[x], reused[x], want[x], forwarded'[x], Pending(tx', x))
  <2>1. Pending(t, x) = Pending(tx, x) + (Queued(<<>>, x) - Queued(tx[c], x))
    <3>1. Rewrites(tx, c, <<>>, t)
      BY <1>1, <1>4, <1>6 DEF Rewrites
    <3> QED BY <3>1, PendingRewrites
  <2>2. Pending(t, x) \in Nat /\ Pending(tx, x) \in Nat
    BY <1>4, PendingNat
  <2>3. Queued(tx[c], x) \in Nat /\ Queued(<<>>, x) = 0
    <3>1. tx[c] \in Seq(MqttPacket)
      BY <1>4
    <3> QED BY <3>1, CountNat
  <2>4. PICK n \in Nat, d \in Nat, u \in Nat : n = Pending(t, x) /\ d = Pending(tx, x) /\ u = Queued(tx[c], x)
    BY <2>2, <2>3
  <2>5. n = d + (0 - u)
    BY <2>1, <2>3, <2>4
  <2>6. n <= d
    BY <2>5
  <2>7. OpFine(op_at[x], reused[x], want[x], forwarded[x], d) /\ want[x] \in Mqtt!Wanted /\ forwarded[x] \in Nat
    BY <1>3, <2>4 DEF MqttInv, MqttTypes
  <2>8. OpFine(op_at[x], reused[x], want[x], forwarded[x], n)
    BY <2>6, <2>7, FineLess
  <2> QED BY <1>1, <1>6, <2>4, <2>8
<1>8. /\ cut' \subseteq 1..made /\ subs' \in [Mqtt!Conn -> SUBSET MqttSubs] /\ forwarded' \in [Mqtt!Op -> Nat]
      /\ rx' \in [Mqtt!Conn -> Seq(Honest(forwarded'))]
  BY <1>1, <1>3 DEF MqttTypes
<1> QED BY <1>2, <1>5, <1>7, <1>8, BrokerMoves

\* No connection is open.
LEMMA MqttInit ==
  ASSUME Init
  PROVE  MqttInv
<1>1. /\ pool = <<>> /\ made = 0 /\ op_at = [o \in Mqtt!Op |-> "idle"]
      /\ want = [o \in Mqtt!Op |-> CHOOSE w \in Mqtt!Wanted : TRUE] /\ op_conn = [o \in Mqtt!Op |-> 0]
      /\ got = [o \in Mqtt!Op |-> 0] /\ cut = {} /\ dropped = {}
      /\ tx = [c \in Mqtt!Conn |-> <<>>] /\ rx = [c \in Mqtt!Conn |-> <<>>] /\ subs = [c \in Mqtt!Conn |-> {}]
      /\ forwarded = [o \in Mqtt!Op |-> 0]
  BY DEF Init, Mqtt!Init
<1>2. reused = [o \in Mqtt!Op |-> FALSE]
  BY Zenon DEF Init, Mqtt!Init
<1>3. \E w : w \in Mqtt!Wanted
  <2>1. PICK t, q : t \in Topic /\ q \in Qos
    BY MqttConstants
  <2>2. [kind |-> "publish", topic |-> t, qos |-> q] \in Mqtt!Wanted
    BY <2>1 DEF Mqtt!Wanted
  <2> QED BY <2>2
<1>4. (CHOOSE w \in Mqtt!Wanted : TRUE) \in Mqtt!Wanted
  BY <1>3
<1>5. MqttTypes
  <2>1. MaxConns \in Nat /\ MaxOps \in Nat
    BY MqttConstants
  <2>2. made \in 0..MaxConns /\ op_conn \in [Mqtt!Op -> 0..made] /\ got \in [Mqtt!Op -> 0..MaxOps]
    BY <1>1, <2>1
  <2>3. op_at \in [Mqtt!Op -> Mqtt!Stage] /\ want \in [Mqtt!Op -> Mqtt!Wanted] /\ reused \in [Mqtt!Op -> BOOLEAN]
    BY <1>1, <1>2, <1>4 DEF Mqtt!Stage
  <2>4. \A S : <<>> \in Seq(S)
    OBVIOUS
  <2>5. tx \in [Mqtt!Conn -> Seq(MqttPacket)] /\ rx \in [Mqtt!Conn -> Seq(Honest(forwarded))]
    BY <1>1, <2>4
  <2>6. subs \in [Mqtt!Conn -> SUBSET MqttSubs] /\ forwarded \in [Mqtt!Op -> Nat] /\ cut \subseteq 1..made /\ dropped \subseteq 1..made
    BY <1>1
  <2> QED BY <2>2, <2>3, <2>5, <2>6 DEF MqttTypes
<1>6. Apart(pool, op_at, op_conn, dropped, made)
  <2>1. pool \in Seq(1..made) /\ Len(pool) = 0
    BY <1>1
  <2>2. Distinct(pool) /\ Idling(pool) = {}
    BY <2>1 DEF Distinct, Idling
  <2>3. \A o \in Mqtt!Op : op_at[o] \notin InFlightStage
    BY <1>1 DEF InFlightStage, Mqtt!Waiting, Mqtt!Awaits
  <2> QED BY <1>1, <2>1, <2>2, <2>3 DEF Apart
<1>7. ASSUME NEW o \in Mqtt!Op PROVE OpFine(op_at[o], reused[o], want[o], forwarded[o], Pending(tx, o))
  <2>1. PICK f, C : f = Marked(tx, o) /\ C = Mqtt!Conn
    OBVIOUS
  <2>2. IsFiniteSet(C)
    BY <2>1, MqttConstants
  <2>3. \A c \in C : f[c] = Queued(<<>>, o)
    BY <1>1, <2>1 DEF Marked
  <2>4. Queued(<<>>, o) = 0
    <3>1. <<>> \in Seq(MqttPacket)
      OBVIOUS
    <3> QED BY <3>1, CountNat
  <2>5. SumFunctionOnSet(f, C) = 0
    BY <2>2, <2>3, <2>4, SumZero
  <2>6. Pending(tx, o) = 0
    BY <2>1, <2>5 DEF Pending
  <2>7. op_at[o] = "idle" /\ forwarded[o] = 0 /\ ~reused[o]
    BY <1>1, <1>2
  <2> QED BY <2>6, <2>7 DEF OpFine
<1> QED BY <1>5, <1>6, <1>7 DEF MqttInv

\* Every step keeps the invariant.
LEMMA MqttNext ==
  ASSUME MqttInv, [Next]_vars
  PROVE  MqttInv'
<1>1. CASE Mqtt!Next
  <2>1. \/ \E o \in Mqtt!Op : \E w \in Mqtt!Wanted : Mqtt!Begin(o, w)
        \/ \E o \in Mqtt!Op : Mqtt!Connect(o) \/ Mqtt!Send(o) \/ Mqtt!Receive(o) \/ Mqtt!ReadFails(o)
        \/ \E c \in Mqtt!Conn : Mqtt!Serve(c) \/ Mqtt!Cut(c)
    BY <1>1, Zenon DEF Mqtt!Next
  <2> QED BY <2>1, MqttBegins, MqttConnects, MqttSends, MqttReceives, MqttReadFails, MqttServes, MqttCuts
<1>2. CASE UNCHANGED mqtt
  <2>1. UNCHANGED <<pool, made, op_at, want, op_conn, reused, got, cut, dropped, tx, rx, subs, forwarded>>
    BY <1>2 DEF mqtt
  <2> QED BY <2>1 DEF MqttInv, MqttTypes
<1> QED BY <1>1, <1>2 DEF Next, vars

\* A pooled connection serves one operation at a time and never comes back once
\* given up, a publish that succeeds has been forwarded by the broker, and none is
\* forwarded more often than it may be sent, whatever the topics and the levels,
\* however many operations and connections there are.
THEOREM PublishesTheorem == Spec => []PublishesHonest
<1>1. MqttInv => Mqtt!Exclusive
  <2> SUFFICES ASSUME MqttInv PROVE Mqtt!Exclusive
    OBVIOUS
  <2>1. MqttTypes /\ Apart(pool, op_at, op_conn, dropped, made)
    BY DEF MqttInv
  <2>2. Mqtt!TypeOK
    BY <2>1 DEF MqttTypes, Mqtt!TypeOK
  <2>3. pool \in Seq(1..made) /\ DOMAIN pool = 1..Len(pool)
    BY <2>1, LenProperties DEF Apart
  <2>4. Mqtt!IsInjective(pool)
    BY <2>1, <2>3 DEF Apart, Distinct, Mqtt!IsInjective
  <2>5. Mqtt!ToSet(pool) = Idling(pool)
    BY <2>3, Zenon DEF Mqtt!ToSet, Idling
  <2>6. Mqtt!Using = {o \in Mqtt!Op : op_at[o] \in InFlightStage}
    BY DEF Mqtt!Using, InFlightStage
  <2>7. \A o, p \in Mqtt!Using : op_conn[o] = op_conn[p] => o = p
    BY <2>1, <2>6 DEF Apart
  <2>8. \A o \in Mqtt!Using : op_conn[o] \notin Idling(pool) /\ op_conn[o] \notin dropped
    BY <2>1, <2>6 DEF Apart
  <2>9. (Idling(pool) \cup {op_conn[o] : o \in Mqtt!Using}) \cap dropped = {}
    BY <2>1, <2>8 DEF Apart
  <2> QED BY <2>2, <2>4, <2>5, <2>7, <2>8, <2>9 DEF Mqtt!Exclusive
<1>2. MqttInv => Mqtt!ConfirmedTaken
  BY DEF MqttInv, OpFine, Mqtt!ConfirmedTaken
<1>3. MqttInv => Mqtt!TakenAtMostTwice
  <2> SUFFICES ASSUME MqttInv, NEW o \in Mqtt!Op PROVE forwarded[o] <= (IF want[o].qos = 0 THEN 1 ELSE 2)
    BY DEF Mqtt!TakenAtMostTwice
  <2>1. Pending(tx, o) \in Nat /\ forwarded[o] \in Nat /\ OpFine(op_at[o], reused[o], want[o], forwarded[o], Pending(tx, o))
    BY MqttSays
  <2>2. PICK fw \in Nat, pd \in Nat, l \in Nat : fw = forwarded[o] /\ pd = Pending(tx, o) /\ l = Left(op_at[o], reused[o], want[o].qos)
    BY <2>1 DEF Left
  <2>3. fw = 0 \/ fw + pd + l <= (IF want[o].qos = 0 THEN 1 ELSE 2)
    BY <2>1, <2>2 DEF OpFine
  <2> QED BY <2>2, <2>3
<1>4. MqttInv => PublishesHonest
  BY <1>1, <1>2, <1>3 DEF PublishesHonest
<1> QED BY <1>4, MqttInit, MqttNext, PTL DEF Spec
=============================================================================

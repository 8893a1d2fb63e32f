----------------------------- MODULE GrpcChannel ----------------------------
(* The raw HTTP/2 channel of the gRPC handler                                  *)
(* (crates/loadr-protocols/src/grpc_transport.rs): the calls of many VUs share *)
(* one connection that is dialled on demand, by one call at a time, and a      *)
(* semaphore that bounds the streams.  A request's timeout drops its call at   *)
(* whatever await it has reached, or the body it is reading.                   *)
(*                                                                             *)
(* Semaphore and mutex are tokio's (external); the order in which they serve   *)
(* waiters is left open.                                                       *)
EXTENDS Naturals, FiniteSets

CONSTANTS
  MaxCalls,  \* bound: calls
  Limit,     \* max_streams_per_conn
  MaxDials   \* bound: connections dialled

Call == 1..MaxCalls

ChannelAssumption == MaxCalls \in Nat /\ Limit \in Nat \ {0} /\ MaxDials \in Nat

VARIABLES
  at,       \* where each call stands
  permits,  \* free permits of the semaphore
  gate,     \* the call that holds the dial mutex, or 0
  conn,     \* the connection whose sender is stored, or 0
  dialled,  \* connections so far
  open,     \* connections that take new streams
  stream,   \* the connection a call's stream is on, or 0
  cooldown  \* cooldown_until lies ahead

vars == <<at, permits, gate, conn, dialled, open, stream, cooldown>>

\* Waiting for a permit; looking for a sender; waiting for the gate; holding it;
\* dialling; sending on a live sender; reading the body; over.
Holding == {"sender", "waiting", "gated", "dialing", "sending", "body"}
Ended == {"done", "unavailable", "broken", "dropped"}

Init ==
  /\ at = [c \in Call |-> "idle"] /\ permits = Limit
  /\ gate = 0 /\ conn = 0 /\ dialled = 0 /\ open = {}
  /\ stream = [c \in Call |-> 0] /\ cooldown = FALSE
-----------------------------------------------------------------------------
(* A call. *)

Goto(c, stage) == at' = [at EXCEPT ![c] = stage]

Begin(c) ==
  /\ at[c] = "idle" /\ Goto(c, "permit")
  /\ UNCHANGED <<permits, gate, conn, dialled, open, stream, cooldown>>

\* acquire_owned, before the sender.
Acquire(c) ==
  /\ at[c] = "permit" /\ permits > 0
  /\ permits' = permits - 1 /\ Goto(c, "sender")
  /\ UNCHANGED <<gate, conn, dialled, open, stream, cooldown>>

\* live_sender.
Live == conn \in open

\* A sender is cloned and send_request opens a stream on its connection.
TakeSender(c) == Goto(c, "sending") /\ stream' = [stream EXCEPT ![c] = conn]

\* sender, first look.
FirstLook(c) ==
  /\ at[c] = "sender"
  /\ IF Live THEN TakeSender(c) ELSE Goto(c, "waiting") /\ UNCHANGED stream
  /\ UNCHANGED <<permits, gate, conn, dialled, open, cooldown>>

LockGate(c) ==
  /\ at[c] = "waiting" /\ gate = 0
  /\ gate' = c /\ Goto(c, "gated")
  /\ UNCHANGED <<permits, conn, dialled, open, stream, cooldown>>

\* What the end of a call gives back: its permit, its stream, the gate.
Release(c) ==
  /\ permits' = permits + 1
  /\ stream' = [stream EXCEPT ![c] = 0]
  /\ gate' = IF gate = c THEN 0 ELSE gate

\* Fault: the gate holder does not look again.
SecondLookSkipped(c) ==
  /\ at[c] = "gated"
  /\ IF cooldown THEN Goto(c, "unavailable") /\ Release(c)
     ELSE Goto(c, "dialing") /\ UNCHANGED <<permits, gate, stream>>
  /\ UNCHANGED <<conn, dialled, open, cooldown>>

\* sender under the gate: another call may have dialled; a recent failure ends
\* the call.
SecondLook(c) ==
  /\ at[c] = "gated"
  /\ \/ Live /\ TakeSender(c) /\ gate' = 0 /\ UNCHANGED permits
     \/ ~Live /\ cooldown /\ Goto(c, "unavailable") /\ Release(c)
     \/ ~Live /\ ~cooldown /\ Goto(c, "dialing") /\ UNCHANGED <<permits, gate, stream>>
  /\ UNCHANGED <<conn, dialled, open, cooldown>>

\* dial succeeds: the sender is stored and the gate released.
Dialled(c) ==
  /\ at[c] = "dialing" /\ dialled < MaxDials
  /\ dialled' = dialled + 1 /\ open' = open \cup {dialled + 1}
  /\ conn' = dialled + 1 /\ cooldown' = FALSE /\ gate' = 0
  /\ Goto(c, "sending") /\ stream' = [stream EXCEPT ![c] = dialled + 1]
  /\ UNCHANGED permits

DialFails(c) ==
  /\ at[c] = "dialing"
  /\ cooldown' = TRUE /\ Goto(c, "unavailable") /\ Release(c)
  /\ UNCHANGED <<conn, dialled, open>>

\* Fault: the permit is given back when call returns.
RespondReleasing(c) ==
  /\ at[c] = "sending"
  /\ Goto(c, "body") /\ permits' = permits + 1
  /\ UNCHANGED <<gate, conn, dialled, open, stream, cooldown>>

\* The response head arrives; the permit rides its body (PermitBody).
Respond(c) ==
  /\ at[c] = "sending"
  /\ Goto(c, "body")
  /\ UNCHANGED <<permits, gate, conn, dialled, open, stream, cooldown>>

\* The body is read to its end.
Finish(c) ==
  /\ at[c] = "body"
  /\ Goto(c, "done") /\ Release(c)
  /\ UNCHANGED <<conn, dialled, open, cooldown>>

\* The stream or its connection fails.
Fails(c) ==
  /\ at[c] \in {"sending", "body"}
  /\ Goto(c, "broken") /\ Release(c)
  /\ UNCHANGED <<conn, dialled, open, cooldown>>

\* Fault: a call dropped while it dials leaves the gate locked.
CancelGated(c) ==
  /\ at[c] \notin Ended \cup {"idle"}
  /\ Goto(c, "dropped")
  /\ permits' = IF at[c] \in Holding THEN permits + 1 ELSE permits
  /\ stream' = [stream EXCEPT ![c] = 0]
  /\ UNCHANGED <<gate, conn, dialled, open, cooldown>>

\* The request times out and its call, or its body, is dropped.
Cancel(c) ==
  /\ at[c] \notin Ended \cup {"idle"}
  /\ Goto(c, "dropped")
  /\ IF at[c] \in Holding THEN Release(c) ELSE UNCHANGED <<permits, gate, stream>>
  /\ UNCHANGED <<conn, dialled, open, cooldown>>
-----------------------------------------------------------------------------
(* The peer, and time. *)

\* The connection ends, or takes no new streams while those it has go on.
CloseConn(k) ==
  /\ k \in open
  /\ open' = open \ {k}
  /\ UNCHANGED <<at, permits, gate, conn, dialled, stream, cooldown>>

CooldownPasses ==
  /\ cooldown /\ cooldown' = FALSE
  /\ UNCHANGED <<at, permits, gate, conn, dialled, open, stream>>

Step(c) ==
  \/ Acquire(c) \/ FirstLook(c) \/ LockGate(c) \/ SecondLook(c)
  \/ Dialled(c) \/ DialFails(c) \/ Respond(c) \/ Finish(c) \/ Fails(c)

Next ==
  \/ \E c \in Call : Begin(c) \/ Step(c) \/ Cancel(c)
  \/ \E k \in 1..MaxDials : CloseConn(k)
  \/ CooldownPasses

Spec == Init /\ [][Next]_vars

\* Calls are polled; a dial, a stream and a body come to an end one way or the
\* other.  No call counts on its timeout, or on the connection.
FairSpec == Spec /\ \A c \in Call : WF_vars(Step(c))
-----------------------------------------------------------------------------
(* Properties. *)

TypeOK ==
  /\ at \in [Call -> {"idle", "permit"} \cup Holding \cup Ended]
  /\ permits \in 0..Limit /\ gate \in 0..MaxCalls /\ conn \in 0..dialled
  /\ open \subseteq 1..dialled /\ cooldown \in BOOLEAN

\* The gate's comment: without it "a slow server grows pending streams without
\* limit".  The streams of all calls, on the connection in use and on those that
\* are draining, are never more than the limit, and no way for a call to end
\* loses a permit.
StreamsBounded ==
  /\ TypeOK
  /\ Cardinality({c \in Call : stream[c] # 0}) <= Limit
  /\ permits = Limit - Cardinality({c \in Call : at[c] \in Holding})

\* However many calls find no connection at once, and whichever of them are
\* dropped while they dial, at most one connection takes streams at a time and
\* it is the one whose sender is stored: no connection is dialled and forgotten.
OneConnection == open \subseteq {conn}

\* A call that got a permit ends without help from its timeout, although the
\* calls before it were dropped while they held the gate.
CallsEnd == \A c \in Call : at[c] = "sender" ~> at[c] \in Ended
=============================================================================

--------------------------- MODULE UplinkDelivery ---------------------------
(***************************************************************************)
(* Delivery of uplink messages from one agent id to the controller.         *)
(*                                                                         *)
(* The agent process keeps every sequenced message in a bounded window      *)
(* until the controller acknowledges it (crates/loadr-agent/src/uplink.rs) *)
(* and replays the unacknowledged tail over the next session.  The          *)
(* controller fences each inbound message against the live session,         *)
(* discards what it has already admitted and acknowledges cumulatively      *)
(* (Inner::admit in crates/loadr-agent/src/controller.rs).  A restarted     *)
(* process has a new incarnation and numbers its messages from 1 again.     *)
(*                                                                         *)
(* A connection is one Session RPC.  Its number stands for the controller's *)
(* session counter, which is only ever compared for equality.  A stream is  *)
(* FIFO until it breaks; what was in flight when it broke may still be      *)
(* read, or not.                                                           *)
(***************************************************************************)
EXTENDS Naturals, Sequences, FiniteSets

CONSTANTS
  Proc,         \* agent processes (incarnations) that use the agent id
  NoProc,       \* no process: the id has not registered yet
  MaxSeq,       \* bound: messages one process queues
  MaxMessages,  \* window capacity (max_messages)
  MaxConn,      \* bound: sessions opened
  UpCap,        \* outbound stream capacity
  DownCap       \* inbound stream capacity

ASSUME ProcAssumption == NoProc \notin Proc
ASSUME BoundAssumption ==
  /\ MaxSeq \in Nat /\ MaxMessages \in Nat /\ MaxConn \in Nat
  /\ UpCap \in Nat /\ DownCap \in Nat

Conn == 1..MaxConn

VARIABLES
  proc,      \* life cycle of each process
  next_seq,  \* last sequence number a process has stamped
  pending,   \* its window: unacknowledged sequence numbers, oldest first
  cursor,    \* how many window entries the current writer has taken
  cur,       \* the connection the process serves, 0 when disconnected
  opened,    \* processes whose Session call has returned on it
  nconn,     \* connections made so far
  owner,     \* process that made a connection
  up,        \* sequenced messages in flight on a connection
  hb,        \* connections with a heartbeat in flight
  down,      \* acknowledgements and stream errors in flight
  pump,      \* the controller task that reads a connection
  hand,      \* message a pump has admitted and not yet applied, 0 if none
  entry,     \* the controller's AgentEntry: session, incarnation, last_seq
  admitted,  \* history: sequence numbers admitted, per process
  applied    \* history: sequence numbers applied, per process

agentVars == <<proc, next_seq, pending, cursor, cur, opened>>
wireVars  == <<nconn, owner, up, hb, down>>
ctrlVars  == <<pump, hand, entry, admitted, applied>>
vars      == <<agentVars, wireVars, ctrlVars>>

Ack(n)     == [kind |-> "ack", seq |-> n]
Superseded == [kind |-> "superseded", seq |-> 0]
Down       == [kind : {"ack", "superseded"}, seq : Nat]

TypeOK ==
  /\ proc \in [Proc -> {"unborn", "live", "dead"}]
  /\ next_seq \in [Proc -> Nat]
  /\ pending \in [Proc -> Seq(Nat)]
  /\ cursor \in [Proc -> Nat]
  /\ cur \in [Proc -> Conn \cup {0}]
  /\ opened \in SUBSET Proc
  /\ nconn \in 0..MaxConn
  /\ owner \in [Conn -> Proc \cup {NoProc}]
  /\ up \in [Conn -> Seq(Nat)]
  /\ hb \in SUBSET Conn
  /\ down \in [Conn -> Seq(Down)]
  /\ pump \in [Conn -> {"none", "unread", "reading", "ended"}]
  /\ hand \in [Conn -> Nat]
  /\ entry \in [session : Conn \cup {0}, incarnation : Proc \cup {NoProc},
                last_seq : Nat]
  /\ admitted \in [Proc -> Seq(Nat)]
  /\ applied \in [Proc -> Seq(Nat)]

Init ==
  /\ proc = [p \in Proc |-> "unborn"]
  /\ next_seq = [p \in Proc |-> 0]
  /\ pending = [p \in Proc |-> <<>>]
  /\ cursor = [p \in Proc |-> 0]
  /\ cur = [p \in Proc |-> 0]
  /\ opened = {}
  /\ nconn = 0
  /\ owner = [c \in Conn |-> NoProc]
  /\ up = [c \in Conn |-> <<>>]
  /\ hb = {}
  /\ down = [c \in Conn |-> <<>>]
  /\ pump = [c \in Conn |-> "none"]
  /\ hand = [c \in Conn |-> 0]
  /\ entry = [session |-> 0, incarnation |-> NoProc, last_seq |-> 0]
  /\ admitted = [p \in Proc |-> <<>>]
  /\ applied = [p \in Proc |-> <<>>]

-----------------------------------------------------------------------------
(***************************************************************************)
(* The agent process.                                                      *)
(***************************************************************************)

\* A process starts with an empty window and a fresh incarnation.
Launch(p) ==
  /\ proc[p] = "unborn"
  /\ proc' = [proc EXCEPT ![p] = "live"]
  /\ UNCHANGED <<next_seq, pending, cursor, cur, opened, wireVars, ctrlVars>>

\* Processes of one id follow one another: the next one starts once the last
\* one is gone and the controller has read, or lost, its registrations.
OneProcessAtATime ==
  /\ \A q \in Proc : proc[q] # "live"
  /\ \A c \in Conn : pump[c] # "unread"

Start(p) == OneProcessAtATime /\ Launch(p)

\* Bound: sessions break only while there are connections left to replace the
\* one that broke and every one an unread registration may yet supersede.
ConnectionsLeft ==
  nconn + Cardinality({c \in Conn : pump[c] = "unread"}) < MaxConn

\* The process dies and its window with it.  Bound: the last one stays up.
Crash(p) ==
  /\ proc[p] = "live"
  /\ ConnectionsLeft /\ \E q \in Proc : proc[q] = "unborn"
  /\ proc' = [proc EXCEPT ![p] = "dead"]
  /\ cur' = [cur EXCEPT ![p] = 0]
  /\ opened' = opened \ {p}
  /\ UNCHANGED <<next_seq, pending, cursor, wireVars, ctrlVars>>

\* Uplink::push.  A full window refuses and leaves the sequence untouched.
Push(p) ==
  /\ proc[p] = "live"
  /\ next_seq[p] < MaxSeq
  /\ Len(pending[p]) < MaxMessages
  /\ next_seq' = [next_seq EXCEPT ![p] = @ + 1]
  /\ pending' = [pending EXCEPT ![p] = Append(@, next_seq[p] + 1)]
  /\ UNCHANGED <<proc, cursor, cur, opened, wireVars, ctrlVars>>

\* Agent::run, run_session: connect and queue Register as the first frame.
Connect(p) ==
  /\ proc[p] = "live" /\ cur[p] = 0
  /\ nconn < MaxConn
  /\ nconn' = nconn + 1
  /\ cur' = [cur EXCEPT ![p] = nconn + 1]
  /\ owner' = [owner EXCEPT ![nconn + 1] = p]
  /\ pump' = [pump EXCEPT ![nconn + 1] = "unread"]
  /\ UNCHANGED <<proc, next_seq, pending, cursor, opened, up, hb, down,
                 hand, entry, admitted, applied>>

\* Fault: the new session's writer goes on where the last one stopped.
SessionOpenedNoRewind(p) ==
  /\ cur[p] # 0 /\ p \notin opened
  /\ pump[cur[p]] \in {"reading", "ended"}
  /\ opened' = opened \cup {p}
  /\ UNCHANGED <<proc, next_seq, pending, cursor, cur, wireVars, ctrlVars>>

\* The Session call returns once Register has been read; SessionWriter::spawn
\* rewinds to the oldest unacknowledged message.
SessionOpened(p) ==
  /\ cur[p] # 0 /\ p \notin opened
  /\ pump[cur[p]] \in {"reading", "ended"}
  /\ opened' = opened \cup {p}
  /\ cursor' = [cursor EXCEPT ![p] = 0]
  /\ UNCHANGED <<proc, next_seq, pending, cur, wireVars, ctrlVars>>

\* The session writer takes the next unsent entry and puts it on the stream.
WriteNext(p) ==
  /\ p \in opened
  /\ cursor[p] < Len(pending[p])
  /\ Len(up[cur[p]]) < UpCap
  /\ up' = [up EXCEPT ![cur[p]] = Append(@, pending[p][cursor[p] + 1])]
  /\ cursor' = [cursor EXCEPT ![p] = @ + 1]
  /\ UNCHANGED <<proc, next_seq, pending, cur, opened, nconn, owner, hb, down,
                 ctrlVars>>

\* session_loop, heartbeat tick: never windowed; skipped while one is in flight.
SendHeartbeat(p) ==
  /\ p \in opened
  /\ cur[p] \notin hb
  /\ hb' = hb \cup {cur[p]}
  /\ UNCHANGED <<agentVars, nconn, owner, up, down, ctrlVars>>

\* How many entries at the front of window q an acknowledgement of n retires.
Freed(q, n) ==
  CHOOSE k \in 0..Len(q) :
    /\ \A i \in 1..k : q[i] <= n
    /\ k < Len(q) => q[k + 1] > n

\* Fault: the writer's position is lowered without saturating at zero.
AckWindowWraps(p, n) ==
  LET freed == IF n > next_seq[p] THEN 0 ELSE Freed(pending[p], n)
  IN  /\ pending' = [pending EXCEPT
                       ![p] = SubSeq(@, freed + 1, Len(@))]
      /\ cursor' = [cursor EXCEPT ![p] = @ - freed]

\* Uplink::ack: cumulative; a sequence this process never sent is ignored.
AckWindow(p, n) ==
  LET freed == IF n > next_seq[p] THEN 0 ELSE Freed(pending[p], n)
  IN  /\ pending' = [pending EXCEPT
                       ![p] = SubSeq(@, freed + 1, Len(@))]
      /\ cursor' = [cursor EXCEPT ![p] = IF @ > freed THEN @ - freed ELSE 0]

\* session_loop, handle_controller_message: one message from the controller.
ReadAck(p) ==
  /\ p \in opened
  /\ down[cur[p]] # <<>>
  /\ Head(down[cur[p]]).kind = "ack"
  /\ AckWindow(p, Head(down[cur[p]]).seq)
  /\ down' = [down EXCEPT ![cur[p]] = Tail(@)]
  /\ UNCHANGED <<proc, next_seq, cur, opened, nconn, owner, up, hb, ctrlVars>>

\* A newer registration replaced this session: its sender is dropped, so the
\* stream ends, with the error first when the channel had room for it.
SessionSuperseded(p) ==
  /\ p \in opened /\ entry.session # cur[p]
  /\ down[cur[p]] # <<>> => Head(down[cur[p]]).kind = "superseded"
  /\ cur' = [cur EXCEPT ![p] = 0]
  /\ opened' = opened \ {p}
  /\ UNCHANGED <<proc, next_seq, pending, cursor, wireVars, ctrlVars>>

\* The stream ends or fails at any time, within the bound.
Disconnect(p) ==
  /\ cur[p] # 0 /\ ConnectionsLeft
  /\ cur' = [cur EXCEPT ![p] = 0]
  /\ opened' = opened \ {p}
  /\ UNCHANGED <<proc, next_seq, pending, cursor, wireVars, ctrlVars>>

-----------------------------------------------------------------------------
(***************************************************************************)
(* The controller.                                                         *)
(***************************************************************************)

\* try_send on a session's downlink: dropped when the channel is full.
TrySend(c, m) ==
  down' = IF Len(down[c]) < DownCap THEN [down EXCEPT ![c] = Append(@, m)]
                                    ELSE down

\* Faults: the cursor survives a process restart, or not even a reconnect.
RegisterAgentCursor(c, last_seq) ==
  /\ pump[c] = "unread"
  /\ pump' = [pump EXCEPT ![c] = "reading"]
  /\ entry' = [session |-> c, incarnation |-> owner[c], last_seq |-> last_seq]
  /\ IF entry.session # 0 THEN TrySend(entry.session, Superseded)
                          ELSE UNCHANGED down
  /\ UNCHANGED <<agentVars, nconn, owner, up, hb, hand, admitted, applied>>
RegisterAgentKeeps(c)  == RegisterAgentCursor(c, entry.last_seq)
RegisterAgentResets(c) == RegisterAgentCursor(c, 0)

\* Inner::register_agent, the delivery half: keep the cursor for the same
\* incarnation, reset it for a new one, close the stream this one replaces.
RegisterAgent(c) ==
  /\ pump[c] = "unread"
  /\ pump' = [pump EXCEPT ![c] = "reading"]
  /\ entry' = [session |-> c, incarnation |-> owner[c],
               last_seq |-> IF entry.incarnation = owner[c]
                            THEN entry.last_seq ELSE 0]
  /\ IF entry.session # 0 THEN TrySend(entry.session, Superseded)
                          ELSE UNCHANGED down
  /\ UNCHANGED <<agentVars, nconn, owner, up, hb, hand, admitted, applied>>

\* The agent gave up on a connection before the controller read Register.
LoseRegister(c) ==
  /\ pump[c] = "unread" /\ cur[owner[c]] # c
  /\ pump' = [pump EXCEPT ![c] = "ended"]
  /\ UNCHANGED <<agentVars, wireVars, hand, entry, admitted, applied>>

Reading(c) == pump[c] = "reading" /\ hand[c] = 0

\* Inner::admit, Stale: the pump stops; nothing is touched or acknowledged.
AdmitStale(c) ==
  /\ Reading(c) /\ (up[c] # <<>> \/ c \in hb)
  /\ entry.session # c
  /\ pump' = [pump EXCEPT ![c] = "ended"]
  /\ UNCHANGED <<agentVars, wireVars, hand, entry, admitted, applied>>

\* Fault: a heartbeat does not re-advertise the cursor.
AdmitHeartbeatSilent(c) ==
  /\ Reading(c) /\ c \in hb
  /\ entry.session = c
  /\ hb' = hb \ {c}
  /\ UNCHANGED <<agentVars, nconn, owner, up, down, ctrlVars>>

\* Inner::admit, seq = 0: re-advertise the cursor.
AdmitHeartbeat(c) ==
  /\ Reading(c) /\ c \in hb
  /\ entry.session = c
  /\ hb' = hb \ {c}
  /\ IF entry.last_seq > 0 THEN TrySend(c, Ack(entry.last_seq))
                           ELSE UNCHANGED down
  /\ UNCHANGED <<agentVars, nconn, owner, up, ctrlVars>>

\* Inner::admit, Duplicate: already admitted; acknowledge again and drop.
AdmitDuplicate(c) ==
  /\ Reading(c) /\ up[c] # <<>>
  /\ entry.session = c
  /\ Head(up[c]) <= entry.last_seq
  /\ up' = [up EXCEPT ![c] = Tail(@)]
  /\ TrySend(c, Ack(entry.last_seq))
  /\ UNCHANGED <<agentVars, nconn, owner, hb, ctrlVars>>

\* Faults: the duplicate check, or the session fence, is missing.
AdmitNewIf(c, guard) ==
  /\ Reading(c) /\ up[c] # <<>>
  /\ guard
  /\ up' = [up EXCEPT ![c] = Tail(@)]
  /\ entry' = [entry EXCEPT !.last_seq = Head(up[c])]
  /\ TrySend(c, Ack(Head(up[c])))
  /\ hand' = [hand EXCEPT ![c] = Head(up[c])]
  /\ admitted' = [admitted EXCEPT ![owner[c]] = Append(@, Head(up[c]))]
  /\ UNCHANGED <<agentVars, nconn, owner, hb, pump, applied>>
AdmitNewRepeated(c) == AdmitNewIf(c, entry.session = c)
AdmitNewUnfenced(c) == AdmitNewIf(c, Head(up[c]) > entry.last_seq)

\* Inner::admit, Apply: move the cursor, acknowledge, then apply (a later step).
AdmitNew(c) ==
  /\ Reading(c) /\ up[c] # <<>>
  /\ entry.session = c
  /\ Head(up[c]) > entry.last_seq
  /\ up' = [up EXCEPT ![c] = Tail(@)]
  /\ entry' = [entry EXCEPT !.last_seq = Head(up[c])]
  /\ TrySend(c, Ack(Head(up[c])))
  /\ hand' = [hand EXCEPT ![c] = Head(up[c])]
  /\ admitted' = [admitted EXCEPT ![owner[c]] = Append(@, Head(up[c]))]
  /\ UNCHANGED <<agentVars, nconn, owner, hb, pump, applied>>

\* Inner::apply_agent_message: outside the lock that admitted the message.
Apply(c) ==
  /\ hand[c] # 0
  /\ applied' = [applied EXCEPT ![owner[c]] = Append(@, hand[c])]
  /\ hand' = [hand EXCEPT ![c] = 0]
  /\ UNCHANGED <<agentVars, wireVars, pump, entry, admitted>>

\* The session task sees the stream end, maybe before all it carried was read.
PumpEnds(c) ==
  /\ Reading(c)
  /\ cur[owner[c]] # c
  /\ pump' = [pump EXCEPT ![c] = "ended"]
  /\ UNCHANGED <<agentVars, wireVars, hand, entry, admitted, applied>>

-----------------------------------------------------------------------------

AgentStep(p) ==
  \/ Crash(p) \/ Push(p) \/ Connect(p) \/ SessionOpened(p) \/ WriteNext(p)
  \/ SendHeartbeat(p) \/ ReadAck(p) \/ SessionSuperseded(p) \/ Disconnect(p)

ControllerStep(c) ==
  \/ RegisterAgent(c) \/ LoseRegister(c) \/ AdmitStale(c) \/ AdmitHeartbeat(c)
  \/ AdmitDuplicate(c) \/ AdmitNew(c) \/ Apply(c) \/ PumpEnds(c)

Next ==
  \/ \E p \in Proc : Start(p) \/ AgentStep(p)
  \/ \E c \in Conn : ControllerStep(c)

Spec == Init /\ [][Next]_vars

\* The reconnect loop, the session writer, the heartbeat timer, the session
\* loop and the controller's per-session task all keep running.
Fairness ==
  /\ \A p \in Proc :
       /\ WF_vars(Connect(p)) /\ WF_vars(SessionOpened(p))
       /\ WF_vars(WriteNext(p)) /\ WF_vars(SendHeartbeat(p))
       /\ WF_vars(ReadAck(p)) /\ WF_vars(SessionSuperseded(p))
  /\ \A c \in Conn :
       /\ WF_vars(RegisterAgent(c)) /\ WF_vars(AdmitStale(c))
       /\ WF_vars(AdmitHeartbeat(c)) /\ WF_vars(AdmitDuplicate(c))
       /\ WF_vars(AdmitNew(c)) /\ WF_vars(Apply(c))

FairSpec == Spec /\ Fairness

-----------------------------------------------------------------------------
(***************************************************************************)
(* The delivery guarantee this implements: a message is committed when      *)
(* Inner::admit moves the cursor past it, and forgotten when Uplink::ack    *)
(* drops it from the window.                                               *)
(***************************************************************************)

Delivery == INSTANCE EffectivelyOnce WITH
  Source <- Proc,
  queued <- next_seq,
  committed <- [p \in Proc |-> Len(admitted[p])],
  forgotten <- [p \in Proc |-> next_seq[p] - Len(pending[p])]

\* Windows, replay, fencing and cumulative acknowledgement implement
\* effectively-once delivery: no admission skips or repeats a message, no
\* message is applied before it is admitted or twice, and Uplink::ack retires
\* only what Inner::admit has accepted.
Implements == Delivery!ESpec

-----------------------------------------------------------------------------
(***************************************************************************)
(* Properties.                                                             *)
(***************************************************************************)

InSeq(x, s) == \E i \in 1..Len(s) : s[i] = x

\* Admission is gapless and duplicate-free across replays, reconnects and
\* restarts: the i-th message Inner::admit lets through for a process is its
\* message i, so the cursor it resets or keeps at registration is right.
AdmittedInOrder ==
  \A p \in Proc : \A i \in 1..Len(admitted[p]) : admitted[p][i] = i

\* No message is applied twice, although metric merging is additive and the
\* agent replays whatever it saw no acknowledgement for.
AppliedOnce ==
  \A p \in Proc : \A i, j \in 1..Len(applied[p]) :
    i # j => applied[p][i] # applied[p][j]

\* Every message a live process queued is still in its window, in the hand of
\* a session task that admitted it, or applied: an acknowledgement (also one
\* replayed by a heartbeat, or sent before the message is applied) never
\* retires a message the controller will not apply.
NothingLost ==
  \A p \in Proc : proc[p] = "live" =>
    \A n \in 1..next_seq[p] :
      \/ InSeq(n, pending[p])
      \/ InSeq(n, applied[p])
      \/ \E c \in Conn : owner[c] = p /\ hand[c] = n

\* Every queued message is applied in the end and leaves the window unless its
\* process dies, although sessions break and a full downlink drops
\* acknowledgements: the window drains by the cursor that heartbeats
\* re-advertise even when no further message is sent.
EventuallyApplied ==
  \A p \in Proc : \A n \in 1..MaxSeq :
    (next_seq[p] >= n) ~>
      ((InSeq(n, applied[p]) /\ ~InSeq(n, pending[p])) \/ proc[p] = "dead")

\* What AgentEntry::last_seq is documented to mean: when a message has been
\* applied, every earlier message of its incarnation has been applied too.
CumulativeApplied ==
  \A p \in Proc : \A i \in 1..Len(applied[p]) :
    \A n \in 1..applied[p][i] : InSeq(n, applied[p])

\* What Inner::admit says of a sequence gap, "replaying from the oldest
\* unacknowledged message makes this impossible".
GapImpossible ==
  \A c \in Conn : (pump[c] = "reading" /\ entry.session = c /\ up[c] # <<>>) =>
    Head(up[c]) <= entry.last_seq + 1
=============================================================================

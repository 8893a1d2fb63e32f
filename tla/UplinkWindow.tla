---------------------------- MODULE UplinkWindow ----------------------------
(* The agent's uplink window from the inside: what module UplinkDelivery takes  *)
(* as one step, split where another task can come between                      *)
(* (crates/loadr-agent/src/uplink.rs).  Producers wait for room, one writer    *)
(* per session waits for work, the session loop applies acknowledgements, and  *)
(* both waits rest on tokio's Notify.                                          *)
(*                                                                             *)
(* A session that ends aborts its writer.  SessionWriter::stop waits until the *)
(* writer is gone, its Drop does not: the next session may then be open while  *)
(* the old writer is still on its way out.  Both are behaviours of this model. *)
EXTENDS Integers, SequencesExt

CONSTANTS
  Producer,     \* tasks that queue messages
  Sizes,        \* encoded lengths of messages
  MaxBytes,     \* byte budget (max_bytes)
  MaxMessages,  \* message budget (max_messages)
  Capacity,     \* capacity of a session's outbound channel
  MaxSession,   \* bound: sessions opened
  MaxSeq        \* bound: messages queued

Session == 1..MaxSession

WindowAssumption ==
  /\ Sizes \subseteq Nat \ {0} /\ Sizes # {}
  /\ MaxBytes \in Nat \ {0} /\ MaxMessages \in Nat \ {0} /\ Capacity \in Nat \ {0}
  /\ MaxSession \in Nat /\ MaxSeq \in Nat /\ IsFiniteSet(Producer)

VARIABLES
  next_seq, pending, cursor, bytes, epoch, closed,  \* State
  permit, waiters,  \* ready: its stored permit, the writers parked on it in order
  room,             \* room: what each producer's registration has seen
  producer,         \* where each producer stands
  writer, hand,     \* where each writer stands, and the message it sends
  aborted,          \* writers whose task was told to stop
  chan,             \* outbound channel of the open session
  cur,              \* the session that is open, 0 for none
  acking,           \* the session loop is about to notify producers
  closing,          \* where Agent::run stands at its end
  delivered,        \* history: the last message the controller has read
  taken             \* history: messages taken from the window in this epoch

window == <<next_seq, pending, cursor, bytes, epoch, closed>>
ready == <<permit, waiters>>
wire == <<chan, cur, delivered>>
vars == <<window, ready, room, producer, writer, hand, aborted, wire,
          acking, closing, taken>>

Entry == [seq : Nat, bytes : Sizes]

\* A producer outside enqueue; registered for room; refused; waiting for room;
\* past push and about to notify the writer.
ProducerStates == {"idle", "registered", "full", "parked", "pushed"}

\* A writer not spawned; after rewind; spawned; about to look at the window;
\* about to wait; waiting; woken; in tx.send; about to hand its permit on; gone.
WriterStates == {"unborn", "rewound", "spawned", "look", "poll", "parked",
                 "woken", "send", "leave", "gone"}

Init ==
  /\ next_seq = 0 /\ pending = <<>> /\ cursor = 0 /\ bytes = 0
  /\ epoch = 0 /\ closed = FALSE
  /\ permit = FALSE /\ waiters = <<>>
  /\ room = [p \in Producer |-> "none"]
  /\ producer = [p \in Producer |-> "idle"]
  /\ writer = [w \in Session |-> "unborn"] /\ hand = [w \in Session |-> 0]
  /\ aborted = {}
  /\ chan = <<>> /\ cur = 0 /\ delivered = 0
  /\ acking = FALSE /\ closing = "open"
  /\ taken = {}
-----------------------------------------------------------------------------
(* tokio::sync::Notify. *)

\* notify_one wakes the writer that waits longest, or stores a permit.  The
\* caller may have moved a writer itself: f is where that leaves them.
NotifyOne(f) ==
  /\ permit' = (permit \/ waiters = <<>>)
  /\ waiters' = IF waiters = <<>> THEN waiters ELSE Tail(waiters)
  /\ writer' = IF waiters = <<>> THEN f ELSE [f EXCEPT ![Head(waiters)] = "woken"]

\* notify_waiters reaches the registrations that exist and stores nothing.
NotifyWaiters ==
  room' = [p \in Producer |-> IF room[p] = "waiting" THEN "notified" ELSE room[p]]
-----------------------------------------------------------------------------
(* Producers. *)

\* State::is_full: a budget that has been reached, so an empty window has room.
IsFull == bytes >= MaxBytes \/ Len(pending) >= MaxMessages

\* push, its lock held: stamp, count, append a message of whatever length.
Admit ==
  /\ next_seq' = next_seq + 1
  /\ \E b \in Sizes :
       /\ bytes' = bytes + b
       /\ pending' = Append(pending, [seq |-> next_seq + 1, bytes |-> b])
  /\ UNCHANGED <<cursor, epoch, closed>>

\* Bound: the messages queued, and those whose producers are in enqueue.
MayProduce(p) ==
  /\ producer[p] = "idle"
  /\ next_seq + Cardinality({q \in Producer : producer[q] \notin {"idle", "pushed"}}) < MaxSeq

\* enqueue registers for room before it looks.
Register(p) ==
  /\ MayProduce(p)
  /\ producer' = [producer EXCEPT ![p] = "registered"]
  /\ room' = [room EXCEPT ![p] = "waiting"]
  /\ UNCHANGED <<window, ready, writer, hand, aborted, wire, acking, closing, taken>>

\* The push of enqueue: admitted, refused for good, or refused for now.
Push(p) ==
  /\ producer[p] = "registered"
  /\ \/ /\ closed
        /\ producer' = [producer EXCEPT ![p] = "idle"]
        /\ room' = [room EXCEPT ![p] = "none"]
        /\ UNCHANGED window
     \/ /\ ~closed /\ IsFull
        /\ producer' = [producer EXCEPT ![p] = "full"]
        /\ UNCHANGED <<window, room>>
     \/ /\ ~closed /\ ~IsFull
        /\ Admit
        /\ producer' = [producer EXCEPT ![p] = "pushed"]
        /\ room' = [room EXCEPT ![p] = "none"]
  /\ UNCHANGED <<ready, writer, hand, aborted, wire, acking, closing, taken>>

\* try_enqueue (and on_delta, which asks is_full first): no wait; a refusal
\* changes nothing.
TryEnqueue(p) ==
  /\ MayProduce(p) /\ ~closed /\ ~IsFull
  /\ Admit
  /\ producer' = [producer EXCEPT ![p] = "pushed"]
  /\ UNCHANGED <<ready, room, writer, hand, aborted, wire, acking, closing, taken>>

\* push tells the writer after it has released the lock.
TellWriter(p) ==
  /\ producer[p] = "pushed"
  /\ producer' = [producer EXCEPT ![p] = "idle"]
  /\ NotifyOne(writer)
  /\ UNCHANGED <<window, room, hand, aborted, wire, acking, closing, taken>>

\* Fault: the registration is made only now.
AwaitUnregistered(p) ==
  /\ producer[p] = "full"
  /\ producer' = [producer EXCEPT ![p] = "parked"]
  /\ room' = [room EXCEPT ![p] = "waiting"]
  /\ UNCHANGED <<window, ready, writer, hand, aborted, wire, acking, closing, taken>>

\* room.await on the registration made before the look.
Await(p) ==
  /\ producer[p] = "full"
  /\ producer' = [producer EXCEPT ![p] = "parked"]
  /\ UNCHANGED <<window, ready, room, writer, hand, aborted, wire, acking, closing, taken>>

\* Woken: register again, look again.
Retry(p) ==
  /\ producer[p] = "parked" /\ room[p] = "notified"
  /\ producer' = [producer EXCEPT ![p] = "registered"]
  /\ room' = [room EXCEPT ![p] = "waiting"]
  /\ UNCHANGED <<window, ready, writer, hand, aborted, wire, acking, closing, taken>>
-----------------------------------------------------------------------------
(* Sessions and their writers. *)

\* SessionWriter::spawn: rewind under the lock ...
Rewind ==
  /\ cur = 0 /\ closing = "open" /\ epoch < MaxSession
  /\ epoch' = epoch + 1
  /\ cursor' = 0
  /\ taken' = {}
  /\ cur' = epoch + 1
  /\ writer' = [writer EXCEPT ![epoch + 1] = "rewound"]
  /\ UNCHANGED <<next_seq, pending, bytes, closed, ready, room, producer, hand,
                 aborted, chan, delivered, acking, closing>>

\* ... then wake a superseded writer, and start the new one.
Spawn(w) ==
  /\ writer[w] = "rewound"
  /\ NotifyOne([writer EXCEPT ![w] = "spawned"])
  /\ UNCHANGED <<window, room, producer, hand, aborted, wire, acking, closing, taken>>

\* next_unsent, its lock held: superseded, the next message, closed, or nothing.
Superseded(w) == epoch # w
Unsent == cursor < Len(pending)
Look(w) ==
  /\ writer[w] \in {"spawned", "look", "woken"}
  /\ \/ /\ Superseded(w) \/ (closed /\ ~Unsent)
        /\ writer' = [writer EXCEPT ![w] = "leave"]
        /\ UNCHANGED <<cursor, hand, taken>>
     \/ /\ ~Superseded(w) /\ Unsent
        /\ cursor' = cursor + 1
        /\ hand' = [hand EXCEPT ![w] = pending[cursor + 1].seq]
        /\ taken' = taken \cup {pending[cursor + 1].seq}
        /\ writer' = [writer EXCEPT ![w] = "send"]
     \/ /\ ~Superseded(w) /\ ~Unsent /\ ~closed
        /\ writer' = [writer EXCEPT ![w] = "poll"]
        /\ UNCHANGED <<cursor, hand, taken>>
  /\ UNCHANGED <<next_seq, pending, bytes, epoch, closed, ready, room, producer,
                 aborted, wire, acking, closing>>

\* ready.notified(): take the stored permit, or queue up.
Poll(w) ==
  /\ writer[w] = "poll"
  /\ permit' = FALSE
  /\ waiters' = IF permit THEN waiters ELSE Append(waiters, w)
  /\ writer' = [writer EXCEPT ![w] = IF permit THEN "look" ELSE "parked"]
  /\ UNCHANGED <<window, room, producer, hand, aborted, wire, acking, closing, taken>>

\* Fault: it keeps the permit.
LeaveSilently(w) ==
  /\ writer[w] = "leave"
  /\ writer' = [writer EXCEPT ![w] = "gone"]
  /\ UNCHANGED <<window, ready, room, producer, hand, aborted, wire, acking,
                 closing, taken>>

\* A writer that leaves next_unsent hands its permit on.
Leave(w) ==
  /\ writer[w] = "leave"
  /\ NotifyOne([writer EXCEPT ![w] = "gone"])
  /\ UNCHANGED <<window, room, producer, hand, aborted, wire, acking, closing, taken>>

\* tx.send waits for room in the channel and fails once the session is over.
Send(w) ==
  /\ writer[w] = "send"
  /\ hand' = [hand EXCEPT ![w] = 0]
  /\ \/ /\ cur = w /\ Len(chan) < Capacity
        /\ chan' = Append(chan, hand[w])
        /\ writer' = [writer EXCEPT ![w] = "look"]
     \/ /\ cur # w
        /\ writer' = [writer EXCEPT ![w] = "gone"]
        /\ UNCHANGED chan
  /\ UNCHANGED <<window, ready, room, producer, aborted, cur, delivered, acking,
                 closing, taken>>

\* The controller reads; it learns nothing from a message it has read before.
Reads(n) == delivered' = IF n > delivered THEN n ELSE delivered
Receive ==
  /\ chan # <<>>
  /\ Reads(Head(chan))
  /\ chan' = Tail(chan)
  /\ UNCHANGED <<window, ready, room, producer, writer, hand, aborted, cur, acking,
                 closing, taken>>

\* session_loop returns (a broken stream, or shutdown): the writer is aborted.
\* Of what was under way the controller still reads some part, or nothing.
EndSession ==
  /\ cur # 0 /\ ~acking /\ writer[cur] # "rewound"
  /\ cur' = 0
  /\ aborted' = aborted \cup {cur}
  /\ \E n \in {0} \cup {chan[i] : i \in DOMAIN chan} : Reads(n)
  /\ chan' = <<>>
  /\ UNCHANGED <<window, ready, room, producer, writer, hand, acking, closing, taken>>

\* The abort is observed where the task awaits.  A wait that had been notified
\* passes the notification on when it is dropped.
AbortSeen(w) ==
  /\ w \in aborted
  /\ hand' = [hand EXCEPT ![w] = 0]
  /\ \/ /\ writer[w] = "woken"
        /\ NotifyOne([writer EXCEPT ![w] = "gone"])
     \/ /\ writer[w] = "parked"
        /\ writer' = [writer EXCEPT ![w] = "gone"]
        /\ \E i \in DOMAIN waiters : waiters[i] = w /\ waiters' = RemoveAt(waiters, i)
        /\ UNCHANGED permit
     \/ /\ writer[w] \in {"spawned", "send"}
        /\ writer' = [writer EXCEPT ![w] = "gone"]
        /\ UNCHANGED ready
  /\ UNCHANGED <<window, room, producer, aborted, wire, acking, closing, taken>>

\* Fault: any sequence number is believed.
RetiredBlind(n) == Cardinality({i \in DOMAIN pending : pending[i].seq <= n})

\* How many entries an acknowledgement retires: none when it names a sequence
\* that was never sent, and none again when it is repeated.
Retired(n) ==
  IF n > next_seq THEN 0
  ELSE Cardinality({i \in DOMAIN pending : pending[i].seq <= n})

\* Fault: the cursor stays.
ShortenedNot(freed) == IF cursor > Len(pending) - freed THEN Len(pending) - freed ELSE cursor

\* The cursor names the same message in the shorter window.
Shortened(freed) == IF cursor > freed THEN cursor - freed ELSE 0

\* What the entries of the window have reserved of the byte budget, and what ack
\* gives back of it.
Reserved == [i \in DOMAIN pending |-> pending[i].bytes]
Freed(freed) == SumFunctionOnSet(Reserved, 1..freed)

\* Uplink::ack: what the controller has read, or a sequence this process never
\* sent.
Ack(n) ==
  LET freed == Retired(n)
  IN  /\ cur # 0 /\ ~acking /\ writer[cur] # "rewound"
      /\ n <= delivered \/ n = next_seq + 1
      /\ freed > 0
      /\ pending' = SubSeq(pending, freed + 1, Len(pending))
      /\ bytes' = bytes - Freed(freed)
      /\ cursor' = Shortened(freed)
      /\ acking' = TRUE
      /\ UNCHANGED <<next_seq, epoch, closed, ready, room, producer, writer, hand,
                     aborted, wire, closing, taken>>

\* ack tells every parked producer after it has released the lock.
TellProducers ==
  /\ acking
  /\ acking' = FALSE
  /\ NotifyWaiters
  /\ UNCHANGED <<window, ready, producer, writer, hand, aborted, wire, closing, taken>>
-----------------------------------------------------------------------------
(* Uplink::close, at the end of Agent::run. *)

Close ==
  /\ closing = "open" /\ cur = 0
  /\ closed' = TRUE
  /\ closing' = "writer"
  /\ UNCHANGED <<next_seq, pending, cursor, bytes, epoch, ready, room, producer,
                 writer, hand, aborted, wire, acking, taken>>

CloseTellsWriter ==
  /\ closing = "writer"
  /\ closing' = "producers"
  /\ NotifyOne(writer)
  /\ UNCHANGED <<window, room, producer, hand, aborted, wire, acking, taken>>

CloseTellsProducers ==
  /\ closing = "producers"
  /\ closing' = "over"
  /\ NotifyWaiters
  /\ UNCHANGED <<window, ready, producer, writer, hand, aborted, wire, acking, taken>>
-----------------------------------------------------------------------------

ProducerStep(p) == Push(p) \/ TellWriter(p) \/ Await(p) \/ Retry(p)
WriterStep(w) == Spawn(w) \/ Look(w) \/ Poll(w) \/ Leave(w) \/ Send(w) \/ AbortSeen(w)

Next ==
  \/ \E p \in Producer : Register(p) \/ TryEnqueue(p) \/ ProducerStep(p)
  \/ \E w \in Session : WriterStep(w)
  \/ Receive \/ Rewind \/ EndSession
  \/ \E n \in 1..MaxSeq : Ack(n)
  \/ TellProducers
  \/ Close \/ CloseTellsWriter \/ CloseTellsProducers

Spec == Init /\ [][Next]_vars

\* Tasks are polled, the agent reconnects or shuts down, the controller reads
\* an open stream and acknowledges what it has read.
Fairness ==
  /\ \A p \in Producer : WF_vars(ProducerStep(p))
  /\ \A w \in Session : WF_vars(WriterStep(w))
  /\ WF_vars(Receive)
  /\ WF_vars(Rewind \/ Close) /\ WF_vars(\E n \in 1..MaxSeq : Ack(n))
  /\ WF_vars(TellProducers \/ CloseTellsWriter \/ CloseTellsProducers)

FairSpec == Spec /\ Fairness
-----------------------------------------------------------------------------
(* Properties. *)

TypeOK ==
  /\ next_seq \in 0..MaxSeq /\ pending \in Seq(Entry)
  /\ cursor \in Nat /\ bytes \in Nat /\ epoch \in 0..MaxSession /\ closed \in BOOLEAN
  /\ permit \in BOOLEAN /\ waiters \in Seq(Session)
  /\ room \in [Producer -> {"none", "waiting", "notified"}]
  /\ producer \in [Producer -> ProducerStates]
  /\ writer \in [Session -> WriterStates] /\ hand \in [Session -> 0..MaxSeq]
  /\ aborted \subseteq Session
  /\ chan \in Seq(1..MaxSeq) /\ cur \in {0} \cup Session
  /\ delivered \in 0..MaxSeq
  /\ acking \in BOOLEAN /\ closing \in {"open", "writer", "producers", "over"}
  /\ taken \subseteq 1..MaxSeq

\* The window is the tail of the sequence that starts after a message the
\* controller has read, whatever acknowledgement arrives; its byte count is
\* what its entries reserved, so a budget once spent is given back exactly; and
\* it exceeds a budget by at most the message that reached it.
WindowExact ==
  /\ TypeOK
  /\ \A i \in DOMAIN pending : pending[i].seq = next_seq - Len(pending) + i
  /\ next_seq - Len(pending) <= delivered
  /\ bytes = SumFunction(Reserved)
  /\ Len(pending) <= MaxMessages
  /\ pending # <<>> => bytes - pending[Len(pending)].bytes < MaxBytes

\* The cursor splits the window into what the writer of the current session has
\* taken and what it has not, although acknowledgements shorten the window under
\* it (also for messages this session has not reached yet) and a superseded
\* writer may still be running: no message is skipped or taken twice.
CursorTrue ==
  /\ cursor \in 0..Len(pending)
  /\ \A i \in DOMAIN pending : (i <= cursor) <=> (pending[i].seq \in taken)

\* A producer that waits for room returns in the end: every acknowledgement, and
\* the close, reaches those who found the window full before it.
ProducersReturn ==
  \A p \in Producer : (producer[p] # "idle") ~> (producer[p] = "idle")

\* No wake-up of the writer is lost, whoever consumes a permit: what is queued
\* is sent and acknowledged, and the window empties unless the agent ends.
WindowEmpties == (pending # <<>>) ~> (pending = <<>> \/ closed)
=============================================================================

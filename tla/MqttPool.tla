------------------------------ MODULE MqttPool ------------------------------
(* The MQTT plugin (plugins/loadr-plugin-mqtt/src/lib.rs): operations of many  *)
(* VUs share a pool of connections to a broker.  An operation takes an idle    *)
(* connection or opens one, speaks its part of the protocol, and puts the      *)
(* connection back if it succeeds; a failure on a pooled connection is retried *)
(* once on a fresh one.                                                        *)
(*                                                                             *)
(* One broker and one set of credentials: one pool.  The broker is external:   *)
(* it forwards a message to the subscribers it has at that moment and keeps    *)
(* nothing for later (no retained messages, clean sessions).  A topic filter   *)
(* is one topic.                                                               *)
EXTENDS Naturals, SequencesExt

CONSTANTS
  Topic,    \* topics
  Qos,      \* levels of service that operations ask for
  MaxOps,   \* bound: operations
  MaxConns  \* bound: connections opened

Op == 1..MaxOps
Conn == 1..MaxConns

PoolAssumption ==
  /\ Topic # {} /\ Qos \subseteq 0..2 /\ Qos # {}
  /\ MaxOps \in Nat /\ MaxConns \in Nat

VARIABLES
  pool,     \* idle connections, the last one is taken first
  made,     \* connections opened so far
  at,       \* where each operation stands
  want,     \* what it is asked to do
  conn,     \* the connection it uses
  reused,   \* that connection came from the pool
  got,      \* the message a subscribe has received
  cut,      \* connections that are broken
  dropped,  \* connections that the plugin has closed
  tx, rx,   \* packets on the way to the broker and back
  subs,     \* the broker's subscriptions of each connection
  held,     \* messages of QoS 2 that it holds until their PUBREL
  taken     \* history: how often it has forwarded each message

client == <<pool, made, at, want, conn, reused, got, dropped>>
broker == <<cut, tx, rx, subs, held, taken>>
vars == <<client, broker>>

Wanted == [kind : {"publish", "subscribe"}, topic : Topic, qos : Qos]

Init ==
  /\ pool = <<>> /\ made = 0
  /\ at = [o \in Op |-> "idle"]
  /\ want = [o \in Op |-> CHOOSE w \in Wanted : TRUE]
  /\ conn = [o \in Op |-> 0] /\ reused = [o \in Op |-> FALSE]
  /\ got = [o \in Op |-> 0]
  /\ cut = {} /\ dropped = {}
  /\ tx = [c \in Conn |-> <<>>] /\ rx = [c \in Conn |-> <<>>]
  /\ subs = [c \in Conn |-> {}] /\ held = [c \in Conn |-> {}]
  /\ taken = [o \in Op |-> 0]

\* A packet; id stands for its packet identifier and for the message.
Packet(type, id) == [type |-> type, id |-> id, topic |-> want[id].topic, qos |-> want[id].qos]
-----------------------------------------------------------------------------
(* Operations. *)

\* Fault: the connection stays in the pool.
CheckoutPeek(o) ==
  /\ conn' = [conn EXCEPT ![o] = Last(pool)] /\ reused' = [reused EXCEPT ![o] = TRUE]
  /\ at' = [at EXCEPT ![o] = "send"]
  /\ UNCHANGED pool

\* checkout pops the connection.
Checkout(o) ==
  /\ conn' = [conn EXCEPT ![o] = Last(pool)] /\ reused' = [reused EXCEPT ![o] = TRUE]
  /\ at' = [at EXCEPT ![o] = "send"]
  /\ pool' = Front(pool)

\* handle draws the next packet identifier and calls run.
Begin(o, w) ==
  /\ at[o] = "idle" /\ (o > 1 => at[o - 1] # "idle")
  /\ want' = [want EXCEPT ![o] = w]
  /\ IF pool # <<>> THEN Checkout(o)
     ELSE at' = [at EXCEPT ![o] = "connect"] /\ UNCHANGED <<pool, conn, reused>>
  /\ UNCHANGED <<made, got, dropped, broker>>

\* connect and client_handshake on a fresh connection.
Connect(o) ==
  /\ at[o] = "connect"
  /\ \/ /\ made < MaxConns
        /\ made' = made + 1
        /\ conn' = [conn EXCEPT ![o] = made + 1]
        /\ at' = [at EXCEPT ![o] = "send"]
     \/ /\ at' = [at EXCEPT ![o] = "failed"]
        /\ UNCHANGED <<made, conn>>
  /\ UNCHANGED <<pool, want, reused, got, dropped, broker>>

\* An operation that has succeeded checks its connection in.
Proceed(o, stage) ==
  /\ at' = [at EXCEPT ![o] = stage]
  /\ pool' = IF stage = "ok" THEN Append(pool, conn[o]) ELSE pool
  /\ UNCHANGED <<made, want, conn, reused, dropped>>

\* perform has failed: the connection is closed; run falls through to a fresh
\* one if it was pooled.
Abandon(o) ==
  /\ dropped' = dropped \cup {conn[o]}
  /\ at' = [at EXCEPT ![o] = IF reused[o] THEN "connect" ELSE "failed"]
  /\ reused' = [reused EXCEPT ![o] = FALSE]
  /\ UNCHANGED <<pool, made, want, conn, got>>

\* What a write to a broken connection does: it is lost, or the caller is told.
Written(c, packets) == IF c \in cut THEN tx ELSE [tx EXCEPT ![c] = @ \o packets]

\* Fault: every publish waits for an acknowledgement.
AfterSendAcked(o) ==
  IF want[o].kind = "subscribe" THEN "suback" ELSE IF want[o].qos < 2 THEN "puback" ELSE "pubrec"

\* Where an operation stands once its first packet is written.
AfterSend(o) ==
  IF want[o].kind = "subscribe" THEN "suback"
  ELSE CASE want[o].qos = 0 -> "ok" [] want[o].qos = 1 -> "puback" [] OTHER -> "pubrec"

\* The PUBLISH of do_publish, the SUBSCRIBE of do_subscribe.
Send(o) ==
  LET type == IF want[o].kind = "publish" THEN "PUBLISH" ELSE "SUBSCRIBE" IN
  /\ at[o] = "send"
  /\ \/ /\ tx' = Written(conn[o], <<Packet(type, o)>>)
        /\ Proceed(o, AfterSend(o)) /\ UNCHANGED got
     \/ /\ conn[o] \in cut
        /\ Abandon(o) /\ UNCHANGED tx
  /\ UNCHANGED <<cut, rx, subs, held, taken>>

\* Packet types that the stages wait for.
Awaits == [puback |-> "PUBACK", pubrec |-> "PUBREC", pubcomp |-> "PUBCOMP",
           suback |-> "SUBACK", message |-> "PUBLISH", pubrel |-> "PUBREL"]
Waiting == DOMAIN Awaits

\* wait_for: the wanted packet has the type, and the identifier of the
\* operation, or of the message that is being acknowledged; any PUBLISH will do.
Matches(o, p) ==
  /\ p.type = Awaits[at[o]]
  /\ at[o] # "message" => p.id = (IF at[o] = "pubrel" THEN got[o] ELSE o)

\* Fault: QoS 2 is over with its first acknowledgement.
AfterReceiveEarly(o, p) ==
  CASE at[o] \in {"puback", "pubrec", "pubcomp"} -> [stage |-> "ok", reply |-> <<>>]
    [] at[o] = "suback" -> [stage |-> "message", reply |-> <<>>]
    [] at[o] = "message" -> [stage |-> "ok", reply |-> <<>>]
    [] at[o] = "pubrel" -> [stage |-> "ok", reply |-> <<Packet("PUBCOMP", p.id)>>]

\* do_publish, do_subscribe and ack_incoming after the wanted packet p.
AfterReceive(o, p) ==
  CASE at[o] \in {"puback", "pubcomp"} -> [stage |-> "ok", reply |-> <<>>]
    [] at[o] = "pubrec" -> [stage |-> "pubcomp", reply |-> <<Packet("PUBREL", o)>>]
    [] at[o] = "suback" -> [stage |-> "message", reply |-> <<>>]
    [] at[o] = "message" /\ p.qos = 0 -> [stage |-> "ok", reply |-> <<>>]
    [] at[o] = "message" /\ p.qos = 1 -> [stage |-> "ok", reply |-> <<Packet("PUBACK", p.id)>>]
    [] at[o] = "message" /\ p.qos = 2 ->
         [stage |-> "pubrel", reply |-> <<Packet("PUBREC", p.id)>>]
    [] at[o] = "pubrel" -> [stage |-> "ok", reply |-> <<Packet("PUBCOMP", p.id)>>]

\* wait_for reads a packet; one that is not wanted is a protocol error.
Receive(o) ==
  LET c == conn[o]
      p == Head(rx[c])
  IN
  /\ at[o] \in Waiting /\ rx[c] # <<>>
  /\ rx' = [rx EXCEPT ![c] = Tail(@)]
  /\ \/ /\ Matches(o, p)
        /\ Proceed(o, AfterReceive(o, p).stage)
        /\ tx' = Written(c, AfterReceive(o, p).reply)
        /\ got' = IF at[o] = "message" THEN [got EXCEPT ![o] = p.id] ELSE got
     \/ /\ ~Matches(o, p) \/ (AfterReceive(o, p).reply # <<>> /\ c \in cut)
        /\ Abandon(o) /\ UNCHANGED tx
  /\ UNCHANGED <<cut, subs, held, taken>>

\* The read times out, or the connection is found broken.
ReadFails(o) ==
  /\ at[o] \in Waiting /\ rx[conn[o]] = <<>>
  /\ Abandon(o)
  /\ UNCHANGED broker
-----------------------------------------------------------------------------
(* The broker (external). *)

Usable == 1..made \ (cut \cup dropped)

\* What connection c is sent of message p: at the lower of the two levels.
Copies(c, p) ==
  SetToSeq({[p EXCEPT !.type = "PUBLISH", !.qos = IF s.qos < p.qos THEN s.qos ELSE p.qos] :
              s \in {t \in subs[c] : t.topic = p.topic}})

Answer(c, type, p) == IF c \in Usable THEN <<[p EXCEPT !.type = type]>> ELSE <<>>

Forward(c, p, answer) ==
  /\ taken' = [taken EXCEPT ![p.id] = @ + 1]
  /\ \E first \in BOOLEAN :
       rx' = [d \in Conn |->
         LET copies == IF d \in Usable THEN Copies(d, p) ELSE <<>>
         IN rx[d] \o (IF d # c THEN copies
                      ELSE IF first THEN answer \o copies ELSE copies \o answer)]

\* The broker reads the next packet, also of a connection closed meanwhile.
Serve(c) ==
  LET p == Head(tx[c]) IN
  /\ tx[c] # <<>>
  /\ tx' = [tx EXCEPT ![c] = Tail(@)]
  /\ \/ /\ p.type = "PUBLISH" /\ p.qos < 2
        /\ Forward(c, p, IF p.qos = 1 THEN Answer(c, "PUBACK", p) ELSE <<>>)
        /\ UNCHANGED <<subs, held>>
     \/ /\ p.type = "PUBLISH" /\ p.qos = 2
        /\ held' = [held EXCEPT ![c] = @ \cup {p.id}]
        /\ rx' = [rx EXCEPT ![c] = @ \o Answer(c, "PUBREC", p)]
        /\ UNCHANGED <<subs, taken>>
     \/ /\ p.type = "PUBREL"
        /\ held' = [held EXCEPT ![c] = @ \ {p.id}]
        /\ Forward(c, p, Answer(c, "PUBCOMP", p))
        /\ UNCHANGED subs
     \/ /\ p.type = "SUBSCRIBE"
        /\ \/ /\ subs' = [subs EXCEPT ![c] =
                   {s \in @ : s.topic # p.topic} \cup {[topic |-> p.topic, qos |-> p.qos]}]
              /\ rx' = [rx EXCEPT ![c] = @ \o Answer(c, "SUBACK", p)]
           \/ /\ rx' = [rx EXCEPT ![c] = @ \o Answer(c, "REFUSED", p)]
              /\ UNCHANGED subs
        /\ UNCHANGED <<held, taken>>
     \/ /\ p.type = "PUBREC"
        /\ rx' = [rx EXCEPT ![c] = @ \o Answer(c, "PUBREL", p)]
        /\ UNCHANGED <<subs, held, taken>>
     \/ /\ p.type \in {"PUBACK", "PUBCOMP"}
        /\ UNCHANGED <<rx, subs, held, taken>>
  /\ UNCHANGED <<cut, client>>

\* A connection breaks; packets that the broker has not read are lost.
Cut(c) ==
  /\ c \in Usable
  /\ cut' = cut \cup {c}
  /\ tx' = [tx EXCEPT ![c] = <<>>]
  /\ UNCHANGED <<rx, subs, held, taken, client>>
-----------------------------------------------------------------------------

Next ==
  \/ \E o \in Op :
       \/ \E w \in Wanted : Begin(o, w)
       \/ Connect(o) \/ Send(o) \/ Receive(o) \/ ReadFails(o)
  \/ \E c \in Conn : Serve(c) \/ Cut(c)

Spec == Init /\ [][Next]_vars
-----------------------------------------------------------------------------
(* Properties. *)

Stage == {"idle", "connect", "send", "ok", "failed"} \cup Waiting
Using == {o \in Op : at[o] \in {"send"} \cup Waiting}

TypeOK ==
  /\ made \in 0..MaxConns /\ at \in [Op -> Stage] /\ want \in [Op -> Wanted]
  /\ conn \in [Op -> 0..made] /\ got \in [Op -> 0..MaxOps]
  /\ cut \cup dropped \subseteq 1..made

\* A connection carries one operation at a time, on which wait_for relies, and
\* one that an operation gave up on never comes back: operations in flight and
\* the pool share no connection, and none of theirs is closed.
Exclusive ==
  /\ TypeOK
  /\ IsInjective(pool)
  /\ \A o, p \in Using : conn[o] = conn[p] => o = p
  /\ \A o \in Using : conn[o] \notin ToSet(pool)
  /\ (ToSet(pool) \cup {conn[o] : o \in Using}) \cap dropped = {}

\* docs/src/plugins/mqtt.md: "a message the broker never confirms surfaces as a
\* failed request".  A publish of QoS 1 or 2 succeeds only if the broker has
\* forwarded the message.
ConfirmedTaken ==
  \A o \in Op : at[o] = "ok" /\ want[o].kind = "publish" /\ want[o].qos > 0 => taken[o] > 0

\* A publish is sent at most twice, and a QoS 0 message, which nothing
\* acknowledges, is never taken twice.
TakenAtMostTwice ==
  \A o \in Op : taken[o] <= (IF want[o].qos = 0 THEN 1 ELSE 2)
-----------------------------------------------------------------------------
(* What the documentation says, and the plugin does not do. *)

\* docs/src/plugins/mqtt.md: "A `subscribe` returns the first message delivered
\* on the topic filter".
OwnTopic ==
  \A o \in Op : at[o] = "ok" /\ want[o].kind = "subscribe" => want[got[o]].topic = want[o].topic

\* docs/src/plugins/mqtt.md: "2 exactly-once".
ExactlyOnce ==
  \A o \in Op : want[o].kind = "publish" /\ want[o].qos = 2 => taken[o] <= 1
=============================================================================

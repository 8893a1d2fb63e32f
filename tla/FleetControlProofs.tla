------------------------- MODULE FleetControlProofs -------------------------
(* What is proved of the commands to the agents of a run (module FleetControl), *)
(* for any number of agents, commands and sessions and any downlink capacity.   *)
EXTENDS FleetControl, OperatorProofs, SequenceTheorems

-----------------------------------------------------------------------------
(* The inductive invariant. *)

Message == [id : Command, value : Nat]
Answer == [id : {0} \cup Command, ok : BOOLEAN]
Target == [agent : Agent, session : 1..MaxSession]

\* The types.
AgentTypes ==
  /\ live \in [Agent -> BOOLEAN] /\ session \in [Agent -> 1..MaxSession]
  /\ connected \in [Agent -> BOOLEAN]
  /\ down \in [Agent -> Seq(Message)] /\ up \in [Agent -> Seq(Answer)]
  /\ engine \in [Agent -> {"active", "over", "gone"}]
  /\ pause \in [Agent -> BOOLEAN] /\ vus \in [Agent -> Nat]
RunTypes ==
  over \subseteq Agent /\ lost \subseteq Agent /\ paused \in {"yes", "no", "unknown"}
CallTypes ==
  /\ at \in [Command -> {"idle"} \cup Pending \cup Decided \cup Returned]
  /\ order \in Scripts /\ targets \in [Command -> Seq(Target)]
  /\ sent \in [Command -> Nat]
  /\ yes \in [Command -> SUBSET Agent] /\ no \in [Command -> SUBSET Agent]
  /\ alone \subseteq Command /\ applied \subseteq Command \X Agent

\* A downlink is never overfull.
LinkInv == \A a \in Agent : Len(down[a]) <= LinkCap

\* A call addresses an agent once; while it broadcasts there is one left to send
\* to; calls are made in order; only agents a call addressed have answered it, and
\* their answers are forgotten when it has decided.
CallInv ==
  \A c \in Command :
    /\ \A i, j \in 1..Len(targets[c]) : targets[c][i].agent = targets[c][j].agent => i = j
    /\ at[c] = "send" => sent[c] < Len(targets[c])
    /\ at[c] = "idle" => sent[c] = 0 /\ \A d \in Command : d > c => at[d] = "idle"
    /\ yes[c] \subseteq Expected(c) /\ no[c] \subseteq Expected(c)
    /\ at[c] \notin Pending => yes[c] = {} /\ no[c] = {}

\* The call has sent to its i-th target.
SentTo(c, i) == at[c] \notin {"idle", "refused"} /\ (at[c] = "send" => i <= sent[c])
Reached(c, a) == \E i \in 1..Len(targets[c]) : SentTo(c, i) /\ targets[c][i].agent = a

\* The messages of a channel.
Msgs(q) == {q[k] : k \in 1..Len(q)}

\* A command on a downlink was sent by its call, with the share of its agent;
\* so was one that has been executed.
Sent(m, a) ==
  \E i \in 1..Len(targets[m.id]) :
    SentTo(m.id, i) /\ targets[m.id][i].agent = a /\ m.value = Value(m.id, i)
SentInv ==
  /\ \A a \in Agent : \A m \in Msgs(down[a]) : Sent(m, a)
  /\ \A c \in Command, a \in Agent : <<c, a>> \in applied => Reached(c, a)

\* A yes was said by an agent that has executed the command, be it counted
\* already or on its way to a call that still waits.
Truthful(m, a) ==
  m.id # 0 => /\ at[m.id] # "idle"
              /\ m.ok /\ at[m.id] \in Pending => <<m.id, a>> \in applied
AnswerInv ==
  /\ \A a \in Agent : \A m \in Msgs(up[a]) : Truthful(m, a)
  /\ \A c \in Command : \A a \in yes[c] : <<c, a>> \in applied
  /\ \A c \in Command : at[c] \in {"acked", "ok"} =>
       \A a \in Expected(c) : <<c, a>> \in applied

\* The command is at most the last one of the channel.
OnlyLast(q, c) == \A k \in 1..Len(q) : k < Len(q) => q[k].id # c

\* The agent's engine is in the state that the call asks its i-th target for.
Obeys(a, c, i) ==
  IF order[c].op = "scale" THEN vus[a] = Value(c, i) ELSE pause[a] = (order[c].op = "pause")

\* The command is the last on the agent's downlink; once the agent has executed
\* it, nothing is left there that could undo it.
Settled(c, a) ==
  /\ OnlyLast(down[a], c)
  /\ <<c, a>> \in applied =>
       /\ down[a] = <<>>
       /\ \A i \in 1..Len(targets[c]) : targets[c][i].agent = a => Obeys(a, c, i)

\* The latest of calls that do not overlap is the only one in progress.
LatestAlone(c) ==
  /\ \A d \in Command : d # c => at[d] \notin Pending \cup Decided
  /\ \A a \in Agent : Settled(c, a)
  /\ Told(c)
LatestInv == \A c \in alone : at[c] # "idle" /\ (Latest(c) => LatestAlone(c))

FleetInv ==
  /\ AgentTypes /\ RunTypes /\ CallTypes
  /\ LinkInv /\ CallInv /\ SentInv /\ AnswerInv /\ LatestInv

\* A call that was not refused has somebody to address.
Addressed == \A c \in Command : at[c] \notin {"idle", "refused"} => Len(targets[c]) > 0

-----------------------------------------------------------------------------
(* Channels. *)

\* What is left of a channel whose first message is taken.
LEMMA QueueTail ==
  ASSUME NEW M, NEW q \in Seq(M), q # <<>>
  PROVE  /\ Tail(q) \in Seq(M) /\ Len(Tail(q)) = Len(q) - 1 /\ Len(q) \in Nat
         /\ Head(q) \in M /\ Head(q) \in Msgs(q) /\ Msgs(Tail(q)) \subseteq Msgs(q)
         /\ \A c : OnlyLast(q, c) => OnlyLast(Tail(q), c)
         /\ \A c : OnlyLast(q, c) /\ Head(q).id = c => Tail(q) = <<>>
<1>1. /\ Len(q) \in Nat \ {0} /\ Tail(q) \in Seq(M) /\ Len(Tail(q)) = Len(q) - 1
      /\ \A k \in 1..Len(Tail(q)) : Tail(q)[k] = q[k + 1]
  BY HeadTailProperties, LenProperties, EmptySeq
<1>2. Head(q) = q[1] /\ q[1] \in M
  BY <1>1, ElementOfSeq, HeadTailProperties
<1>3. Head(q) \in Msgs(q) /\ Msgs(Tail(q)) \subseteq Msgs(q)
  BY <1>1, <1>2 DEF Msgs
<1>4. ASSUME NEW c, OnlyLast(q, c) PROVE OnlyLast(Tail(q), c)
  BY <1>1, <1>4 DEF OnlyLast
<1>5. ASSUME NEW c, OnlyLast(q, c), Head(q).id = c PROVE Tail(q) = <<>>
  <2>1. Len(q) = 1
    BY <1>1, <1>2, <1>5 DEF OnlyLast
  <2>2. Len(Tail(q)) = 0
    BY <1>1, <2>1
  <2>3. \A s \in Seq(M) : Len(s) = 0 => s = <<>>
    BY EmptySeq
  <2> QED
    BY <1>1, <2>2, <2>3
<1> QED
  BY <1>1, <1>2, <1>3, <1>4, <1>5

\* A channel with one message more.
LEMMA QueueAppend ==
  ASSUME NEW M, NEW q \in Seq(M), NEW m \in M
  PROVE  /\ Append(q, m) \in Seq(M) /\ Len(Append(q, m)) = Len(q) + 1 /\ Len(q) \in Nat
         /\ Msgs(Append(q, m)) = Msgs(q) \cup {m}
         /\ \A c : (\A n \in Msgs(q) : n.id # c) => OnlyLast(Append(q, m), c)
<1>1. /\ Len(q) \in Nat /\ Append(q, m) \in Seq(M) /\ Len(Append(q, m)) = Len(q) + 1
      /\ \A k \in 1..Len(q) : Append(q, m)[k] = q[k]
      /\ Append(q, m)[Len(q) + 1] = m
  BY AppendProperties, LenProperties
<1>2. Msgs(Append(q, m)) = Msgs(q) \cup {m}
  <2>1. Msgs(Append(q, m)) \subseteq Msgs(q) \cup {m}
    BY <1>1 DEF Msgs
  <2>2. Msgs(q) \cup {m} \subseteq Msgs(Append(q, m))
    BY <1>1 DEF Msgs
  <2> QED
    BY <2>1, <2>2
<1>3. ASSUME NEW c, \A n \in Msgs(q) : n.id # c PROVE OnlyLast(Append(q, m), c)
  BY <1>1, <1>3 DEF OnlyLast, Msgs
<1> QED
  BY <1>1, <1>2, <1>3

\* The empty channel.
LEMMA QueueEmpty ==
  /\ \A M : <<>> \in Seq(M)
  /\ Len(<<>>) = 0 /\ Msgs(<<>>) = {} /\ \A c : OnlyLast(<<>>, c)
BY EmptySeq DEF Msgs, OnlyLast

\* Every message of a channel is one.
LEMMA QueueElements ==
  ASSUME NEW M, NEW q \in Seq(M)
  PROVE  Msgs(q) \subseteq M
BY ElementOfSeq DEF Msgs

-----------------------------------------------------------------------------
(* What every step keeps. *)

\* A call that was made keeps its targets, and what it has sent stays sent.
CallsGrow ==
  /\ order' = order
  /\ \A c \in Command : at[c] # "idle" => targets'[c] = targets[c] /\ at'[c] # "idle"
  /\ \A c \in Command, i \in Nat : SentTo(c, i) => SentTo(c, i)'

\* So a message or an execution that a call accounts for remains accounted for.
LEMMA SentStable ==
  ASSUME CallTypes, CallsGrow
  PROVE  /\ \A m \in Message, a \in Agent : Sent(m, a) => Sent(m, a)'
         /\ \A c \in Command, a \in Agent : Reached(c, a) => Reached(c, a)'
<1>1. ASSUME NEW c \in Command, NEW i \in 1..Len(targets[c]), SentTo(c, i)
      PROVE  SentTo(c, i)' /\ targets'[c] = targets[c] /\ Value(c, i)' = Value(c, i)
  <2>1. Len(targets[c]) \in Nat
    BY LenProperties DEF CallTypes
  <2>2. i \in Nat /\ at[c] # "idle"
    BY <1>1, <2>1 DEF SentTo
  <2>3. SentTo(c, i)' /\ targets'[c] = targets[c] /\ order' = order
    BY <1>1, <2>2 DEF CallsGrow
  <2> QED
    BY <2>3 DEF Value
<1>2. ASSUME NEW m \in Message, NEW a \in Agent, Sent(m, a) PROVE Sent(m, a)'
  <2>1. m.id \in Command
    BY DEF Message
  <2>2. PICK i \in 1..Len(targets[m.id]) :
          SentTo(m.id, i) /\ targets[m.id][i].agent = a /\ m.value = Value(m.id, i)
    BY <1>2 DEF Sent
  <2>3. SentTo(m.id, i)' /\ targets'[m.id] = targets[m.id] /\ Value(m.id, i)' = Value(m.id, i)
    BY <1>1, <2>1, <2>2
  <2> QED
    BY <2>2, <2>3 DEF Sent
<1>3. ASSUME NEW c \in Command, NEW a \in Agent, Reached(c, a) PROVE Reached(c, a)'
  BY <1>1, <1>3 DEF Reached
<1> QED
  BY <1>2, <1>3

\* When nothing is sent and nothing executed, what is on the downlinks stays
\* accounted for.
LEMMA SentKept ==
  ASSUME AgentTypes, CallTypes, SentInv, CallsGrow, applied' = applied,
         \A a \in Agent : Msgs(down[a])' \subseteq Msgs(down[a])
  PROVE  SentInv'
<1>1. ASSUME NEW a \in Agent, NEW m \in Msgs(down[a])' PROVE Sent(m, a)'
  <2>1. m \in Msgs(down[a]) /\ m \in Message
    BY <1>1, QueueElements DEF AgentTypes
  <2> QED
    BY <2>1, SentStable DEF SentInv
<1>2. ASSUME NEW c \in Command, NEW a \in Agent, (<<c, a>> \in applied)' PROVE Reached(c, a)'
  BY <1>2, SentStable DEF SentInv
<1> QED
  BY <1>1, <1>2 DEF SentInv

\* When neither a downlink nor a call changes.
LEMMA SentFrame ==
  ASSUME AgentTypes, CallTypes, SentInv, UNCHANGED <<down, order, targets, sent, applied>>,
         \A c \in Command : at'[c] = at[c]
  PROVE  CallsGrow /\ SentInv'
<1>1. CallsGrow
  BY DEF CallsGrow, SentTo
<1> QED
  BY <1>1, SentKept
-----------------------------------------------------------------------------
(* Init and the steps of the agents' streams and engines. *)

\* Every initial state satisfies the invariant.
LEMMA InitFleet ==
  ASSUME Init PROVE FleetInv
<1> USE ControlAssumption
<1>1. AgentTypes
  BY EmptySeq DEF Init, AgentTypes
<1>2. RunTypes
  BY DEF Init, RunTypes
<1>3. CallTypes
  BY EmptySeq DEF Init, CallTypes
<1>4. LinkInv
  BY DEF Init, LinkInv
<1>5. CallInv
  BY DEF Init, CallInv, Pending
<1>6. SentInv
  BY QueueEmpty DEF Init, SentInv
<1>7. AnswerInv
  BY QueueEmpty DEF Init, AnswerInv
<1>8. LatestInv
  BY DEF Init, LatestInv
<1> QED
  BY <1>1, <1>2, <1>3, <1>4, <1>5, <1>6, <1>7, <1>8 DEF FleetInv

\* mark_disconnected.
LEMMA MarkDisconnectedPreserves ==
  ASSUME FleetInv, NEW a \in Agent, MarkDisconnected(a)
  PROVE  FleetInv'
<1> USE DEF FleetInv, run, calls, history
<1>1. AgentTypes'
  BY DEF MarkDisconnected, AgentTypes
<1>2. RunTypes' /\ CallTypes' /\ LinkInv'
  BY DEF MarkDisconnected, RunTypes, CallTypes, LinkInv
<1>3. CallInv'
  BY DEF MarkDisconnected, CallInv, Expected
<1>4. SentInv'
  BY SentFrame DEF MarkDisconnected
<1>5. AnswerInv'
  BY DEF MarkDisconnected, AnswerInv, Truthful, Msgs, Expected
<1>6. LatestInv'
  BY DEF MarkDisconnected, LatestInv, Latest, LatestAlone, Settled, OnlyLast, Obeys, Told, Value
<1> QED
  BY <1>1, <1>2, <1>3, <1>4, <1>5, <1>6

\* The sweep.
LEMMA SweepPreserves ==
  ASSUME FleetInv, NEW a \in Agent, Sweep(a)
  PROVE  FleetInv'
<1> USE DEF FleetInv, agents, calls, history
<1>1. AgentTypes'
  BY DEF Sweep, AgentTypes
<1>2. RunTypes' /\ CallTypes' /\ LinkInv'
  BY DEF Sweep, RunTypes, CallTypes, LinkInv
<1>3. CallInv'
  BY DEF Sweep, CallInv, Expected
<1>4. SentInv'
  BY SentFrame DEF Sweep
<1>5. AnswerInv'
  BY DEF Sweep, AnswerInv, Truthful, Msgs, Expected
<1>6. LatestInv'
  BY DEF Sweep, LatestInv, Latest, LatestAlone, Settled, OnlyLast, Obeys, Told, Value
<1> QED
  BY <1>1, <1>2, <1>3, <1>4, <1>5, <1>6

\* The slot is cleared.
LEMMA ClearSlotPreserves ==
  ASSUME FleetInv, NEW a \in Agent, ClearSlot(a)
  PROVE  FleetInv'
<1> USE DEF FleetInv, run, calls, history
<1>1. AgentTypes'
  BY DEF ClearSlot, AgentTypes
<1>2. RunTypes' /\ CallTypes' /\ LinkInv'
  BY DEF ClearSlot, RunTypes, CallTypes, LinkInv
<1>3. CallInv'
  BY DEF ClearSlot, CallInv, Expected
<1>4. SentInv'
  BY SentFrame DEF ClearSlot
<1>5. AnswerInv'
  BY DEF ClearSlot, AnswerInv, Truthful, Msgs, Expected
<1>6. LatestInv'
  BY DEF ClearSlot, LatestInv, Latest, LatestAlone, Settled, OnlyLast, Obeys, Told, Value
<1> QED
  BY <1>1, <1>2, <1>3, <1>4, <1>5, <1>6

\* An engine ends: its terminal event answers no command.
LEMMA EngineEndsPreserves ==
  ASSUME FleetInv, NEW a \in Agent, EngineEnds(a)
  PROVE  FleetInv'
<1> USE DEF FleetInv, run, calls, history
<1> DEFINE final == [id |-> 0, ok |-> TRUE]
<1>1. up[a] \in Seq(Answer) /\ final \in Answer
  BY DEF AgentTypes, Answer
<1>2. /\ Append(up[a], final) \in Seq(Answer)
      /\ Msgs(Append(up[a], final)) = Msgs(up[a]) \cup {final}
  <2>1. \A f \in Answer : /\ Append(up[a], f) \in Seq(Answer)
                          /\ Msgs(Append(up[a], f)) = Msgs(up[a]) \cup {f}
    BY <1>1, QueueAppend
  <2> QED
    BY <1>1, <2>1
<1>3. AgentTypes'
  BY <1>2 DEF EngineEnds, AgentTypes
<1>4. RunTypes' /\ CallTypes' /\ LinkInv'
  BY DEF EngineEnds, RunTypes, CallTypes, LinkInv
<1>5. CallInv'
  BY DEF EngineEnds, CallInv, Expected
<1>6. SentInv'
  BY SentFrame DEF EngineEnds
<1>7. AnswerInv'
  <2>1. ASSUME NEW b \in Agent, NEW m \in Msgs(up[b])' PROVE Truthful(m, b)'
    <3>1. m \in Msgs(up[b]) \/ m = final
      BY <1>2, <2>1 DEF EngineEnds, AgentTypes, Msgs
    <3>2. Truthful(m, b)
      BY <3>1 DEF AnswerInv, Truthful
    <3> QED
      BY <3>2 DEF EngineEnds, Truthful
  <2> QED
    BY <2>1 DEF EngineEnds, AnswerInv, Expected
<1>8. LatestInv'
  BY DEF EngineEnds, LatestInv, Latest, LatestAlone, Settled, OnlyLast, Obeys, Told, Value
<1> QED
  BY <1>3, <1>4, <1>5, <1>6, <1>7, <1>8

\* A stream breaks: the commands on it are gone.
LEMMA BreakPreserves ==
  ASSUME FleetInv, NEW a \in Agent, Break(a)
  PROVE  FleetInv'
<1> USE DEF FleetInv, run, calls, history
<1>1. \A b \in Agent : down'[b] = IF b = a THEN <<>> ELSE down[b]
  BY DEF Break, AgentTypes
<1>2. AgentTypes'
  BY EmptySeq DEF Break, AgentTypes
<1>3. RunTypes' /\ CallTypes'
  BY DEF Break, RunTypes, CallTypes
<1>4. LinkInv'
  BY <1>1, QueueEmpty, ControlAssumption DEF LinkInv
<1>5. CallInv'
  BY DEF Break, CallInv, Expected
<1>6. SentInv'
  <2>1. CallsGrow
    BY DEF Break, CallsGrow, SentTo
  <2>2. \A b \in Agent : Msgs(down[b])' \subseteq Msgs(down[b])
    BY <1>1, QueueEmpty DEF Msgs
  <2> QED
    BY <2>1, <2>2, SentKept DEF Break
<1>7. AnswerInv'
  BY DEF Break, AnswerInv, Truthful, Msgs, Expected
<1>8. LatestInv'
  BY <1>1, QueueEmpty DEF Break, LatestInv, Latest, LatestAlone, Settled, OnlyLast, Obeys, Told, Value
<1> QED
  BY <1>2, <1>3, <1>4, <1>5, <1>6, <1>7, <1>8

\* An agent registers again.
LEMMA ReconnectPreserves ==
  ASSUME FleetInv, NEW a \in Agent, Reconnect(a)
  PROVE  FleetInv'
<1> USE DEF FleetInv, calls, history
<1>1. AgentTypes'
  <2>1. session[a] + 1 \in 1..MaxSession
    BY ControlAssumption DEF Reconnect, AgentTypes
  <2>2. session' \in [Agent -> 1..MaxSession]
    BY <2>1 DEF Reconnect, AgentTypes
  <2> QED
    BY <2>2 DEF Reconnect, AgentTypes
<1>2. RunTypes' /\ CallTypes' /\ LinkInv'
  BY DEF Reconnect, RunTypes, CallTypes, LinkInv
<1>3. CallInv'
  BY DEF Reconnect, CallInv, Expected
<1>4. SentInv'
  BY SentFrame DEF Reconnect
<1>5. AnswerInv'
  BY DEF Reconnect, AnswerInv, Truthful, Msgs, Expected
<1>6. LatestInv'
  BY DEF Reconnect, LatestInv, Latest, LatestAlone, Settled, OnlyLast, Obeys, Told, Value
<1> QED
  BY <1>1, <1>2, <1>3, <1>4, <1>5, <1>6
-----------------------------------------------------------------------------
(* The controller decides, returns and hears. *)

\* A call whose agents have all said yes has been executed by all of them.
LEMMA AllExecuted ==
  ASSUME FleetInv, NEW c \in Command, Answered(c), no[c] = {}
  PROVE  \A a \in Expected(c) : <<c, a>> \in applied
<1>1. yes[c] \subseteq Expected(c) /\ Expected(c) \subseteq Agent
  <2>1. targets[c] \in Seq(Target) /\ DOMAIN targets[c] = 1..Len(targets[c])
    BY LenProperties DEF FleetInv, CallTypes
  <2>2. ASSUME NEW i \in DOMAIN targets[c] PROVE targets[c][i].agent \in Agent
    <3>1. targets[c][i] \in Target
      BY <2>1, ElementOfSeq
    <3> QED
      BY <3>1 DEF Target
  <2> QED
    BY <2>2 DEF FleetInv, CallInv, Expected
<1>2. IsFiniteSet(Agent)
  BY FS_Interval, ControlAssumption DEF Agent
<1>3. IsFiniteSet(Expected(c))
  BY <1>1, <1>2, FS_Subset
<1>4. Cardinality(yes[c]) >= Cardinality(Expected(c))
  <2>1. yes[c] \cup no[c] = yes[c]
    OBVIOUS
  <2> QED
    BY <2>1 DEF Answered
<1>5. yes[c] = Expected(c)
  <2>1. PICK y : y = yes[c]
    OBVIOUS
  <2>2. PICK e : e = Expected(c)
    OBVIOUS
  <2>3. /\ IsFiniteSet(y) /\ Cardinality(y) <= Cardinality(e)
        /\ (Cardinality(y) = Cardinality(e) => y = e)
    BY <1>1, <1>3, <2>1, <2>2, FS_Subset
  <2>4. Cardinality(y) \in Nat /\ Cardinality(e) \in Nat
    BY <1>3, <2>2, <2>3, FS_CardinalityType
  <2> QED
    BY <1>4, <2>1, <2>2, <2>3, <2>4
<1> QED
  BY <1>5 DEF FleetInv, AnswerInv

\* All agents have answered.
LEMMA DecidePreserves ==
  ASSUME FleetInv, NEW c \in Command, Decide(c)
  PROVE  FleetInv'
<1> USE DEF FleetInv, agents, run, history
<1>1. AgentTypes' /\ RunTypes' /\ LinkInv'
  BY DEF Decide, AgentTypes, RunTypes, LinkInv
<1>2. CallTypes'
  BY DEF Decide, RemovePending, CallTypes, Decided
<1>3. /\ at[c] = "wait" /\ at'[c] \in Decided
      /\ \A d \in Command : d # c => at'[d] = at[d]
      /\ \A d \in Command : yes'[d] = IF d = c THEN {} ELSE yes[d]
      /\ \A d \in Command : no'[d] = IF d = c THEN {} ELSE no[d]
  BY DEF Decide, RemovePending, CallTypes, Decided
<1>4. CallInv'
  BY <1>3 DEF Decide, CallInv, Expected, Pending, Decided
<1>5. SentInv'
  <2>1. CallsGrow
    BY <1>3 DEF Decide, CallsGrow, SentTo, Decided
  <2> QED
    BY <2>1, SentKept DEF Decide, Msgs
<1>6. AnswerInv'
  <2>1. ASSUME NEW a \in Agent, NEW m \in Msgs(up[a])' PROVE Truthful(m, a)'
    <3>1. m \in Msgs(up[a]) /\ m \in Answer
      BY QueueElements DEF Decide, Msgs, AgentTypes
    <3> QED
      BY <1>3, <3>1 DEF Decide, AnswerInv, Truthful, Answer, Decided, Pending
  <2>2. ASSUME NEW d \in Command, NEW a \in yes[d]' PROVE (<<d, a>> \in applied)'
    BY <1>3 DEF Decide, AnswerInv
  <2>3. ASSUME NEW d \in Command, at'[d] \in {"acked", "ok"}
        PROVE  \A a \in Expected(d)' : (<<d, a>> \in applied)'
    <3>1. CASE d = c
      <4>1. Answered(c) /\ no[c] = {}
        BY <2>3, <3>1 DEF Decide, CallTypes
      <4> QED
        BY <3>1, <4>1, AllExecuted DEF Decide, Expected
    <3>2. CASE d # c
      BY <1>3, <2>3, <3>2 DEF Decide, AnswerInv, Expected
    <3> QED
      BY <3>1, <3>2
  <2> QED
    BY <2>1, <2>2, <2>3 DEF AnswerInv
<1>7. LatestInv'
  BY <1>3 DEF Decide, LatestInv, Latest, LatestAlone, Settled, OnlyLast, Obeys, Told, Value, Pending, Decided
<1> QED
  BY <1>1, <1>2, <1>4, <1>5, <1>6, <1>7

\* Three seconds pass first.
LEMMA TimeoutPreserves ==
  ASSUME FleetInv, NEW c \in Command, Timeout(c)
  PROVE  FleetInv'
<1> USE DEF FleetInv, agents, run, history
<1>1. AgentTypes' /\ RunTypes' /\ LinkInv'
  BY DEF Timeout, AgentTypes, RunTypes, LinkInv
<1>2. CallTypes'
  BY DEF Timeout, RemovePending, CallTypes, Decided
<1>3. /\ at[c] = "wait" /\ at'[c] = "unacked"
      /\ \A d \in Command : d # c => at'[d] = at[d]
      /\ \A d \in Command : yes'[d] = IF d = c THEN {} ELSE yes[d]
      /\ \A d \in Command : no'[d] = IF d = c THEN {} ELSE no[d]
  BY DEF Timeout, RemovePending, CallTypes
<1>4. CallInv'
  BY <1>3 DEF Timeout, CallInv, Expected, Pending
<1>5. SentInv'
  <2>1. CallsGrow
    BY <1>3 DEF Timeout, CallsGrow, SentTo
  <2> QED
    BY <2>1, SentKept DEF Timeout, Msgs
<1>6. AnswerInv'
  <2>1. ASSUME NEW a \in Agent, NEW m \in Msgs(up[a])' PROVE Truthful(m, a)'
    <3>1. m \in Msgs(up[a]) /\ m \in Answer
      BY QueueElements DEF Timeout, Msgs, AgentTypes
    <3> QED
      BY <1>3, <3>1 DEF Timeout, AnswerInv, Truthful, Answer, Pending
  <2> QED
    BY <1>3, <2>1 DEF Timeout, AnswerInv, Expected
<1>7. LatestInv'
  BY <1>3 DEF Timeout, LatestInv, Latest, LatestAlone, Settled, OnlyLast, Obeys, Told, Value, Pending, Decided
<1> QED
  BY <1>1, <1>2, <1>4, <1>5, <1>6, <1>7

\* control leaves its outcome in run.paused and returns.
LEMMA ReturnPreserves ==
  ASSUME FleetInv, NEW c \in Command, Return(c)
  PROVE  FleetInv'
<1> USE DEF FleetInv, agents, history
<1>1. AgentTypes' /\ LinkInv'
  BY DEF Return, AgentTypes, LinkInv
<1>2. RunTypes'
  BY DEF Return, RunTypes, Outcome
<1>3. CallTypes'
  BY DEF Return, CallTypes, Returned
<1>4. /\ at[c] \in Decided /\ at'[c] = IF at[c] = "acked" THEN "ok" ELSE "failed"
      /\ \A d \in Command : d # c => at'[d] = at[d]
  BY DEF Return, CallTypes
<1>5. CallInv'
  BY <1>4 DEF Return, CallInv, Expected, Pending, Decided
<1>6. SentInv'
  <2>1. CallsGrow
    BY <1>4 DEF Return, CallsGrow, SentTo, Decided
  <2> QED
    BY <2>1, SentKept DEF Return, Msgs
<1>7. AnswerInv'
  <2>1. ASSUME NEW a \in Agent, NEW m \in Msgs(up[a])' PROVE Truthful(m, a)'
    <3>1. m \in Msgs(up[a]) /\ m \in Answer
      BY QueueElements DEF Return, Msgs, AgentTypes
    <3> QED
      BY <1>4, <3>1 DEF Return, AnswerInv, Truthful, Answer, Pending, Decided
  <2> QED
    BY <1>4, <2>1 DEF Return, AnswerInv, Expected, Decided
<1>8. LatestInv'
  BY <1>4 DEF Return, Outcome, LatestInv, Latest, LatestAlone, Settled, OnlyLast, Obeys, Told, Value, Pending, Decided
<1> QED
  BY <1>1, <1>2, <1>3, <1>5, <1>6, <1>7, <1>8
\* What is heard of an agent: the end of its run, or an answer that counts for a
\* call that still waits for it.
LEMMA HearPreserves ==
  ASSUME FleetInv, NEW a \in Agent, Hear(a)
  PROVE  FleetInv'
<1> USE DEF FleetInv, history
<1>1. up[a] \in Seq(Answer) /\ up[a] # <<>>
  BY DEF Hear, AgentTypes
<1>2. PICK m \in Answer : m = Head(up[a]) /\ m \in Msgs(up[a])
  BY <1>1, QueueTail
<1>3. Tail(up[a]) \in Seq(Answer) /\ Msgs(Tail(up[a])) \subseteq Msgs(up[a])
  BY <1>1, QueueTail
<1>4. \A b \in Agent : up'[b] = IF b = a THEN Tail(up[a]) ELSE up[b]
  BY DEF Hear, AgentTypes
<1>5. AgentTypes'
  BY <1>3 DEF Hear, AgentTypes
<1>6. RunTypes'
  BY DEF Hear, RunTypes
<1>7. Truthful(m, a) /\ m.id \in {0} \cup Command
  BY <1>2 DEF AnswerInv, Answer
<1>8. ASSUME NEW d \in Command
      PROVE  /\ yes'[d] = yes[d] \/ (yes'[d] = yes[d] \cup {a} /\ d = m.id /\ m.ok
                                      /\ at[d] \in Pending /\ a \in Expected(d))
             /\ no'[d] = no[d] \/ (no'[d] = no[d] \cup {a} /\ at[d] \in Pending
                                     /\ a \in Expected(d))
  BY <1>2, <1>7 DEF Hear, RecordAck, CallTypes
<1>9. CallTypes'
  <2>1. /\ yes' = yes \/ yes' = [yes EXCEPT ![m.id] = @ \cup {a}]
        /\ no' = no \/ no' = [no EXCEPT ![m.id] = @ \cup {a}]
    BY <1>2 DEF Hear, RecordAck
  <2>2. \A f \in [Command -> SUBSET Agent] :
          [f EXCEPT ![m.id] = @ \cup {a}] \in [Command -> SUBSET Agent]
    OBVIOUS
  <2>3. yes' \in [Command -> SUBSET Agent]
    BY <2>1, <2>2, ZenonT(40) DEF CallTypes
  <2>4. no' \in [Command -> SUBSET Agent]
    BY <2>1, <2>2, ZenonT(40) DEF CallTypes
  <2> QED
    BY <2>3, <2>4 DEF Hear, CallTypes
<1>10. LinkInv'
  BY DEF Hear, LinkInv
<1>11. UNCHANGED <<at, order, targets, sent, applied>>
  BY DEF Hear
<1>12. CallInv'
  BY <1>8, <1>11 DEF CallInv, Expected
<1>13. SentInv'
  BY SentFrame DEF Hear
<1>14. AnswerInv'
  <2>1. ASSUME NEW b \in Agent, NEW n \in Msgs(up[b])' PROVE Truthful(n, b)'
    <3>1. n \in Msgs(up[b])
      BY <1>3, <1>4 DEF Msgs
    <3>2. Truthful(n, b)
      BY <3>1 DEF AnswerInv
    <3> QED
      BY <1>11, <3>2 DEF Truthful
  <2>2. ASSUME NEW d \in Command, NEW b \in yes[d]' PROVE (<<d, b>> \in applied)'
    <3>1. CASE b \in yes[d]
      BY <1>11, <3>1 DEF AnswerInv
    <3>2. CASE b \notin yes[d]
      <4>1. b = a /\ d = m.id /\ m.ok /\ at[d] \in Pending
        BY <1>8, <2>2, <3>2
      <4>2. d # 0
        BY DEF Command
      <4> QED
        BY <1>7, <1>11, <4>1, <4>2 DEF Truthful
    <3> QED
      BY <3>1, <3>2
  <2> QED
    BY <1>11, <2>1, <2>2 DEF AnswerInv, Expected
<1>15. LatestInv'
  <2>1. UNCHANGED <<down, pause, vus, paused, alone>>
    BY DEF Hear
  <2> QED
    BY <1>11, <2>1 DEF LatestInv, Latest, LatestAlone, Settled, OnlyLast, Obeys, Told, Value
<1> QED
  BY <1>5, <1>6, <1>9, <1>10, <1>12, <1>13, <1>14, <1>15
-----------------------------------------------------------------------------
(* An agent executes the command it reads. *)

\* Control, and the answer to it.
LEMMA ServePreserves ==
  ASSUME FleetInv, NEW a \in Agent, Serve(a)
  PROVE  FleetInv'
<1> USE DEF FleetInv, run, calls
<1>1. down[a] \in Seq(Message) /\ down[a] # <<>>
  BY DEF Serve, AgentTypes
<1>2. PICK m \in Message : m = Head(down[a]) /\ m \in Msgs(down[a])
  BY <1>1, QueueTail
<1>3. /\ Tail(down[a]) \in Seq(Message) /\ Len(Tail(down[a])) = Len(down[a]) - 1
      /\ Len(down[a]) \in Nat /\ Msgs(Tail(down[a])) \subseteq Msgs(down[a])
      /\ \A c : OnlyLast(down[a], c) => OnlyLast(Tail(down[a]), c)
      /\ \A c : OnlyLast(down[a], c) /\ m.id = c => Tail(down[a]) = <<>>
  BY <1>1, <1>2, QueueTail
<1>4. \A b \in Agent : down'[b] = IF b = a THEN Tail(down[a]) ELSE down[b]
  BY DEF Serve, AgentTypes
<1>5. /\ UNCHANGED <<live, session, connected, engine, over, lost, paused>>
      /\ UNCHANGED <<at, order, targets, sent, yes, no, alone>>
  BY DEF Serve
<1>6. m.id \in Command /\ m.value \in Nat /\ order[m.id].op \in {"pause", "resume", "scale"}
  BY ControlAssumption DEF Message, CallTypes
<1>7. Sent(m, a)
  BY <1>2 DEF SentInv
<1>8. at[m.id] \notin {"idle", "refused"} /\ Reached(m.id, a)
  BY <1>7 DEF Sent, SentTo, Reached
<1>9. PICK ack \in Answer :
        /\ up' = [up EXCEPT ![a] = Append(@, ack)] \/ up' = up
        /\ ack.id = m.id /\ (ack.ok => engine[a] # "gone")
  <2>1. Ack(m, engine[a] # "gone") \in Answer
    BY <1>6 DEF Ack, Answer
  <2> QED
    BY <1>2, <2>1 DEF Serve, Acknowledge, Ack
<1>10. /\ Append(up[a], ack) \in Seq(Answer)
       /\ Msgs(Append(up[a], ack)) = Msgs(up[a]) \cup {ack}
  BY QueueAppend DEF AgentTypes
<1>11. /\ engine[a] = "gone" => UNCHANGED <<pause, vus, applied>>
       /\ engine[a] # "gone" => Execute(a, m)
  BY <1>2 DEF Serve
<1>12. applied \subseteq applied' /\ applied' \subseteq applied \cup {<<m.id, a>>}
  BY <1>11 DEF Execute
<1>13. engine[a] # "gone" /\ at[m.id] \in Pending => <<m.id, a>> \in applied'
  BY <1>6, <1>11 DEF Execute, InProgress
<1>14. AgentTypes'
  <2>1. up' \in [Agent -> Seq(Answer)]
    BY <1>9, <1>10 DEF AgentTypes
  <2>2. down' \in [Agent -> Seq(Message)]
    BY <1>3 DEF Serve, AgentTypes
  <2>3. vus' \in [Agent -> Nat]
    BY <1>6, <1>11 DEF Execute, AgentTypes
  <2>4. pause' \in [Agent -> BOOLEAN]
    BY <1>11, Zenon DEF Execute, AgentTypes
  <2> QED
    BY <1>5, <2>1, <2>2, <2>3, <2>4 DEF AgentTypes
<1>15. RunTypes'
  BY <1>5 DEF RunTypes
<1>16. CallTypes'
  BY <1>5, <1>6, <1>12 DEF CallTypes
<1>17. LinkInv'
  <2>1. Len(down[a]) <= LinkCap /\ LinkCap \in Nat
    BY ControlAssumption DEF LinkInv
  <2>2. Len(Tail(down[a])) <= LinkCap
    BY <1>3, <2>1
  <2>3. ASSUME NEW b \in Agent PROVE Len(down'[b]) <= LinkCap
    BY <1>4, <2>2 DEF LinkInv
  <2> QED
    BY <2>3 DEF LinkInv
<1>18. CallInv'
  BY <1>5 DEF CallInv, Expected
<1>19. SentInv'
  <2>1. CallsGrow
    BY <1>5 DEF CallsGrow, SentTo
  <2>2. ASSUME NEW b \in Agent, NEW n \in Msgs(down[b])' PROVE Sent(n, b)'
    <3>1. Msgs(down[b])' = IF b = a THEN Msgs(Tail(down[a])) ELSE Msgs(down[b])
      BY <1>4 DEF Msgs
    <3>2. n \in Msgs(down[b])
      BY <1>3, <2>2, <3>1
    <3>3. n \in Message
      BY <3>2, QueueElements DEF AgentTypes
    <3> QED
      BY <2>1, <3>2, <3>3, SentStable DEF SentInv
  <2>3. ASSUME NEW c \in Command, NEW b \in Agent, (<<c, b>> \in applied)' PROVE Reached(c, b)'
    <3>1. Reached(c, b)
      BY <1>8, <1>12, <2>3 DEF SentInv
    <3> QED
      BY <2>1, <3>1, SentStable
  <2> QED
    BY <2>2, <2>3 DEF SentInv
<1>20. AnswerInv'
  <2>1. ASSUME NEW b \in Agent, NEW n \in Msgs(up[b])' PROVE Truthful(n, b)'
    <3>1. n \in Msgs(up[b]) \/ (b = a /\ n = ack)
      <4>1. up'[b] = up[b] \/ (b = a /\ up'[b] = Append(up[a], ack))
        BY <1>9 DEF AgentTypes
      <4>2. \/ Msgs(up[b])' = Msgs(up[b])
            \/ b = a /\ Msgs(up[b])' = Msgs(Append(up[a], ack))
        BY <4>1 DEF Msgs
      <4> QED
        BY <1>10, <2>1, <4>2
    <3>2. CASE n \in Msgs(up[b])
      BY <1>5, <1>12, <3>2 DEF AnswerInv, Truthful
    <3>3. CASE b = a /\ n = ack
      BY <1>5, <1>8, <1>9, <1>13, <3>3 DEF Truthful
    <3> QED
      BY <3>1, <3>2, <3>3
  <2> QED
    BY <1>5, <1>12, <2>1 DEF AnswerInv, Expected
<1>21. ASSUME NEW c \in Command, NEW b \in Agent, Settled(c, b) PROVE Settled(c, b)'
  <2>1. CASE b # a
    <3>1. down'[b] = down[b] /\ vus'[b] = vus[b] /\ pause'[b] = pause[b]
      BY <1>4, <1>6, <1>11, <2>1 DEF Execute, AgentTypes
    <3>2. <<c, b>> \in applied' => <<c, b>> \in applied
      BY <1>12, <2>1
    <3> QED
      BY <1>5, <1>21, <3>1, <3>2 DEF Settled, OnlyLast, Obeys, Value
  <2>2. CASE b = a
    <3>1. <<c, a>> \notin applied
      BY <1>1, <1>21, <2>2 DEF Settled
    <3>2. OnlyLast(down[a], c)' /\ (m.id = c => down'[a] = <<>>)
      <4>1. OnlyLast(down[a], c)
        BY <1>21, <2>2 DEF Settled
      <4>2. OnlyLast(Tail(down[a]), c) /\ (m.id = c => Tail(down[a]) = <<>>)
        BY <1>3, <4>1
      <4> QED
        BY <1>4, <4>2 DEF OnlyLast
    <3>3. ASSUME <<c, a>> \in applied'
          PROVE  /\ down'[a] = <<>>
                 /\ \A i \in 1..Len(targets[c]) : targets[c][i].agent = a => Obeys(a, c, i)'
      <4>1. m.id = c
        BY <1>12, <3>1, <3>3
      <4>2. Execute(a, m)
        BY <1>11, <3>1, <3>3
      <4>3. PICK j \in 1..Len(targets[c]) : targets[c][j].agent = a /\ m.value = Value(c, j)
        BY <1>7, <4>1 DEF Sent
      <4>4. ASSUME NEW i \in 1..Len(targets[c]), targets[c][i].agent = a PROVE i = j
        BY <4>3, <4>4 DEF CallInv
      <4>5. Value(c, j)' = Value(c, j)
        BY <1>5 DEF Value
      <4>6. Obeys(a, c, j)'
        BY <1>5, <1>6, <4>1, <4>2, <4>3, <4>5 DEF Execute, Obeys, AgentTypes
      <4> QED
        BY <3>2, <4>1, <4>4, <4>6
    <3> QED
      BY <1>5, <2>2, <3>2, <3>3 DEF Settled
  <2> QED
    BY <2>1, <2>2
<1>22. LatestInv'
  BY <1>5, <1>21 DEF LatestInv, Latest, LatestAlone, Told, CallTypes
<1> QED
  BY <1>14, <1>15, <1>16, <1>17, <1>18, <1>19, <1>20, <1>22
-----------------------------------------------------------------------------
(* The controller issues a command and broadcasts it. *)

\* A remainder is a number, and that of a smaller number the number itself.
LEMMA SmallMod ==
  ASSUME NEW n \in Nat \ {0}, NEW i \in Nat
  PROVE  i % n \in Nat /\ (i < n => i % n = i)
OBVIOUS

\* What a target is sent is a number: its share of the total, or 0.
LEMMA ValueType ==
  ASSUME CallTypes, NEW c \in Command, NEW i \in 1..Len(targets[c])
  PROVE  Value(c, i) \in Nat
<1>1. Len(targets[c]) \in Nat \ {0} /\ i - 1 \in Nat
  BY LenProperties DEF CallTypes
<1>2. order[c].total \in Nat
  BY ControlAssumption DEF CallTypes
<1>3. PICK n \in Nat, l \in Nat \ {0}, k \in Nat :
        n = order[c].total /\ l = Len(targets[c]) /\ k = i - 1
  BY <1>1, <1>2
<1>4. n \div l \in Nat /\ n % l \in 0..(l - 1)
  BY DivMod
<1>5. Split(n, k, l) \in Nat
  BY <1>4 DEF Split
<1> QED
  BY <1>3, <1>5 DEF Value

\* One round of the broadcast.
LEMMA SendPreserves ==
  ASSUME FleetInv, NEW c \in Command, Send(c)
  PROVE  FleetInv'
<1> USE DEF FleetInv, run, history
<1> DEFINE n == Len(targets[c])
<1>0. at[c] = "send" /\ sent[c] \in Nat /\ n \in Nat \ {0} /\ sent[c] + 1 \in 1..n
  BY LenProperties, SMTT(30) DEF Send, CallTypes, CallInv
<1>1. PICK i \in 1..n : i = sent[c] + 1 /\ i \in Nat /\ at[c] = "send"
  BY <1>0
<1>2. PICK b \in Agent : b = targets[c][i].agent
  <2>1. targets[c][i] \in Target
    BY <1>0, ElementOfSeq DEF CallTypes
  <2> QED
    BY <2>1 DEF Target
<1>3. PICK m \in Message : m = [id |-> c, value |-> Value(c, i)]
  BY ValueType DEF Message
<1>4. /\ UNCHANGED <<live, session, connected, up, engine, pause, vus, over, lost, paused>>
      /\ UNCHANGED <<order, targets, yes, alone, applied>>
  BY DEF Send
<1>5. /\ \A d \in Command : at'[d] = IF d # c THEN at[d]
                                     ELSE IF i = n THEN "wait" ELSE "send"
      /\ \A d \in Command : d # c => sent'[d] = sent[d]
      /\ i < n => sent'[c] = i
      /\ sent' \in [Command -> Nat]
  <2>1. i % n \in Nat /\ (i < n => i % n = i)
    BY <1>0, <1>1, SmallMod
  <2>2. sent' = [sent EXCEPT ![c] = i % n]
    BY <1>1 DEF Send
  <2>3. at' = [at EXCEPT ![c] = IF i = n THEN "wait" ELSE "send"]
    BY <1>1 DEF Send
  <2> HIDE DEF n
  <2> QED
    BY <2>1, <2>2, <2>3 DEF CallTypes
<1>6. /\ \/ down' = down
         \/ Len(down[b]) < LinkCap /\ down' = [down EXCEPT ![b] = Append(@, m)]
      /\ no' = no \/ no' = [no EXCEPT ![c] = @ \cup {b}]
  BY <1>1, <1>2, <1>3 DEF Send
<1>7. /\ Append(down[b], m) \in Seq(Message) /\ Len(Append(down[b], m)) = Len(down[b]) + 1
      /\ Len(down[b]) \in Nat /\ Msgs(Append(down[b], m)) = Msgs(down[b]) \cup {m}
      /\ \A d : (\A k \in Msgs(down[b]) : k.id # d) => OnlyLast(Append(down[b], m), d)
  <2>1. down[b] \in Seq(Message)
    BY DEF AgentTypes
  <2> QED
    BY <2>1, QueueAppend
<1>8. AgentTypes'
  <2>1. down' \in [Agent -> Seq(Message)]
    BY <1>6, <1>7 DEF AgentTypes
  <2> QED
    BY <1>4, <2>1 DEF AgentTypes
<1>9. RunTypes'
  BY <1>4 DEF RunTypes
<1>10. CallTypes'
  <2>1. at' \in [Command -> {"idle"} \cup Pending \cup Decided \cup Returned]
    BY DEF Send, CallTypes, Pending
  <2>2. \A f \in [Command -> SUBSET Agent] :
          [f EXCEPT ![c] = @ \cup {b}] \in [Command -> SUBSET Agent]
    BY <1>2
  <2>3. no' \in [Command -> SUBSET Agent]
    BY <1>6, <2>2 DEF CallTypes
  <2> QED
    BY <1>4, <1>5, <2>1, <2>3 DEF CallTypes
<1>11. ASSUME NEW a \in Agent
       PROVE  down'[a] = down[a] \/ (a = b /\ Len(down[b]) < LinkCap
                                          /\ down'[a] = Append(down[b], m))
  BY <1>6 DEF AgentTypes
<1>12. LinkInv'
  <2>1. LinkCap \in Nat /\ (Len(down[b]) < LinkCap => Len(Append(down[b], m)) <= LinkCap)
    BY <1>7, ControlAssumption
  <2>2. ASSUME NEW a \in Agent PROVE Len(down'[a]) <= LinkCap
    BY <1>11, <2>1 DEF LinkInv
  <2> QED
    BY <2>2 DEF LinkInv
<1>13. CallInv'
  <2>1. b \in Expected(c)
    BY <1>2, LenProperties DEF Expected, CallTypes
  <2>2. \A d \in Command : Expected(d)' = Expected(d)
    BY <1>4 DEF Expected
  <2>3. \A d \in Command : no'[d] \subseteq Expected(d) /\ (d # c => no'[d] = no[d])
    BY <1>6, <2>1 DEF CallInv, CallTypes
  <2>4. at'[c] \in Pending /\ (at'[c] = "send" => sent'[c] < Len(targets[c]))
    BY <1>0, <1>1, <1>5 DEF Pending
  <2>5. ASSUME NEW d \in Command, d # c
        PROVE  /\ at'[d] = "send" => sent'[d] < Len(targets[d])
               /\ at'[d] = "idle" => sent'[d] = 0
               /\ at'[d] \notin Pending => yes[d] = {} /\ no'[d] = {}
    BY <1>5, <2>3, <2>5 DEF CallInv
  <2>6. ASSUME NEW d \in Command, at'[d] = "idle"
        PROVE  d # c /\ \A e \in Command : e > d => at'[e] = "idle"
    BY <1>1, <1>5, <2>6 DEF CallInv
  <2> QED
    BY <1>4, <2>2, <2>3, <2>4, <2>5, <2>6 DEF CallInv, Pending
<1>14. CallsGrow
  <2>1. ASSUME NEW d \in Command, NEW j \in Nat, SentTo(d, j) PROVE SentTo(d, j)'
    BY <1>0, <1>1, <1>5, <2>1 DEF SentTo
  <2> QED
    BY <1>1, <1>4, <1>5, <2>1 DEF CallsGrow
<1>15. Sent(m, b)'
  <2>1. SentTo(c, i)'
    BY <1>0, <1>1, <1>5 DEF SentTo
  <2>2. Value(c, i)' = Value(c, i)
    BY <1>4 DEF Value
  <2>3. m.id = c /\ m.value = Value(c, i)
    BY <1>3
  <2> QED
    BY <1>2, <1>4, <2>1, <2>2, <2>3 DEF Sent
<1>16. SentInv'
  <2>1. ASSUME NEW a \in Agent, NEW k \in Msgs(down[a])' PROVE Sent(k, a)'
    <3>1. \/ Msgs(down[a])' = Msgs(down[a])
          \/ a = b /\ Msgs(down[a])' = Msgs(Append(down[b], m))
      BY <1>11 DEF Msgs
    <3>2. k \in Msgs(down[a]) \/ (a = b /\ k = m)
      BY <1>7, <2>1, <3>1
    <3>3. CASE k \in Msgs(down[a])
      <4>1. k \in Message
        BY <3>3, QueueElements DEF AgentTypes
      <4> QED
        BY <1>14, <3>3, <4>1, SentStable DEF SentInv
    <3> QED
      BY <1>15, <3>2, <3>3
  <2>2. ASSUME NEW d \in Command, NEW a \in Agent, (<<d, a>> \in applied)' PROVE Reached(d, a)'
    BY <1>4, <1>14, <2>2, SentStable DEF SentInv
  <2> QED
    BY <2>1, <2>2 DEF SentInv
<1>17. AnswerInv'
  <2>1. \A d \in Command : /\ at'[d] \in Pending <=> at[d] \in Pending
                           /\ at'[d] = "idle" <=> at[d] = "idle"
                           /\ at'[d] \in {"acked", "ok"} <=> at[d] \in {"acked", "ok"}
    BY <1>1, <1>5 DEF Pending
  <2>2. ASSUME NEW a \in Agent, NEW k \in Msgs(up[a])' PROVE Truthful(k, a)'
    <3>1. k \in Msgs(up[a]) /\ k \in Answer
      BY <1>4, QueueElements DEF Msgs, AgentTypes
    <3> QED
      BY <1>4, <2>1, <3>1 DEF AnswerInv, Truthful, Answer
  <2> QED
    BY <1>4, <2>1, <2>2 DEF AnswerInv, Expected
<1>18. ~Reached(c, b) /\ \A k \in Msgs(down[b]) : k.id # c
  <2>1. ASSUME NEW j \in 1..Len(targets[c]), SentTo(c, j), targets[c][j].agent = b PROVE FALSE
    <3>1. j <= sent[c]
      BY <1>1, <2>1 DEF SentTo
    <3>2. j = i
      BY <1>2, <2>1 DEF CallInv
    <3> QED
      BY <1>0, <1>1, <3>1, <3>2
  <2>2. ~Reached(c, b)
    BY <2>1 DEF Reached
  <2>3. ASSUME NEW k \in Msgs(down[b]) PROVE k.id # c
    BY <2>1, <2>3 DEF SentInv, Sent
  <2> QED
    BY <2>2, <2>3
<1>19. ASSUME NEW a \in Agent, Settled(c, a) PROVE Settled(c, a)'
  <2>1. <<c, b>> \notin applied
    BY <1>18 DEF SentInv
  <2>2. OnlyLast(down'[a], c)
    BY <1>7, <1>11, <1>18, <1>19 DEF Settled
  <2>3. <<c, a>> \in applied => down'[a] = down[a]
    BY <1>11, <2>1
  <2>4. \A j : Obeys(a, c, j)' <=> Obeys(a, c, j)
    BY <1>4 DEF Obeys, Value
  <2>5. OnlyLast(down[a], c)'
    BY <2>2 DEF OnlyLast
  <2> QED
    BY <1>4, <1>19, <2>3, <2>4, <2>5 DEF Settled
<1>20. LatestInv'
  <2>1. ASSUME NEW d \in alone', Latest(d)' PROVE at'[d] # "idle" /\ LatestAlone(d)'
    <3>1. d \in alone /\ d \in Command /\ at[d] # "idle" /\ Latest(d)
      BY <1>1, <1>4, <1>5, <2>1 DEF LatestInv, Latest, CallTypes
    <3>2. LatestAlone(d) /\ d = c
      BY <1>1, <3>1 DEF LatestInv, LatestAlone, Pending
    <3> QED
      BY <1>1, <1>4, <1>5, <1>19, <3>2 DEF LatestAlone, Told
  <2>2. ASSUME NEW d \in alone' PROVE at'[d] # "idle"
    BY <1>4, <1>5, <2>2 DEF LatestInv, CallTypes
  <2> QED
    BY <2>1, <2>2 DEF LatestInv
<1> QED
  BY <1>8, <1>9, <1>10, <1>12, <1>13, <1>16, <1>17, <1>20
\* A function on an initial segment of the numbers is a sequence.
LEMMA FunctionIsSeq ==
  ASSUME NEW S, NEW l \in Nat, NEW f \in [1..l -> S]
  PROVE  f \in Seq(S) /\ Len(f) = l
OBVIOUS

\* run_senders lists agents once each, and none only if none can be reached.
LEMMA SendersList ==
  ASSUME AgentTypes, NEW s \in RunSenders
  PROVE  /\ s \in Seq(Target)
         /\ \A i, j \in 1..Len(s) : s[i].agent = s[j].agent => i = j
         /\ Reachable # {} => Len(s) > 0
<1>1. Reachable \subseteq Agent
  BY DEF Reachable
<1>2. IsFiniteSet(Reachable)
  <2>1. IsFiniteSet(Agent)
    BY FS_Interval, ControlAssumption DEF Agent
  <2> QED
    BY <1>1, <2>1, FS_Subset
<1>3. PICK l \in Nat : l = Cardinality(Reachable) /\ (Reachable # {} => l > 0)
  <2>1. Cardinality(Reachable) \in Nat /\ (Cardinality(Reachable) = 0 <=> Reachable = {})
    BY <1>2, FS_CardinalityType, FS_EmptySet
  <2> QED
    BY <2>1
<1>4. PICK q \in [1..l -> Reachable] :
        /\ s = [i \in 1..l |-> [agent |-> q[i], session |-> session[q[i]]]]
        /\ \A i, j \in 1..l : i < j => q[i] < q[j]
  BY <1>3 DEF RunSenders, InOrder
<1>5. \A i \in 1..l : q[i] \in Agent /\ session[q[i]] \in 1..MaxSession
  BY <1>1 DEF AgentTypes
<1>6. s \in [1..l -> Target]
  BY <1>4, <1>5 DEF Target
<1>7. s \in Seq(Target) /\ Len(s) = l
  BY <1>6, FunctionIsSeq
<1>8. ASSUME NEW i \in 1..l, NEW j \in 1..l, s[i].agent = s[j].agent PROVE i = j
  <2>1. q[i] = q[j] /\ q[i] \in Int
    BY <1>4, <1>5, <1>8, ControlAssumption DEF Agent
  <2>2. ~(i < j) /\ ~(j < i)
    BY <1>4, <2>1
  <2> QED
    BY <2>2
<1> QED
  BY <1>3, <1>7, <1>8

\* A command is issued: nobody has heard of it.
LEMMA IssuePreserves ==
  ASSUME FleetInv, NEW c \in Command, Issue(c)
  PROVE  FleetInv'
<1> USE DEF FleetInv, agents, run
<1>1. at[c] = "idle" /\ (c > 1 => at[c - 1] # "idle")
  BY DEF Issue
<1>2. PICK s \in RunSenders : targets' = [targets EXCEPT ![c] = s]
  BY DEF Issue
<1>3. /\ s \in Seq(Target)
      /\ \A i, j \in 1..Len(s) : s[i].agent = s[j].agent => i = j
      /\ Reachable # {} => Len(s) > 0
  BY SendersList
<1>4. /\ \A d \in Command : targets'[d] = IF d = c THEN s ELSE targets[d]
      /\ \A d \in Command : d # c => at'[d] = at[d]
      /\ at'[c] = "refused" \/ (at'[c] = "send" /\ Len(s) > 0)
  BY <1>2, <1>3 DEF Issue, CallTypes
<1>5. UNCHANGED <<live, session, connected, down, up, engine, pause, vus>>
  BY DEF Issue
<1>6. UNCHANGED <<over, lost, paused, order, sent, yes, no, applied>>
  BY DEF Issue
<1>7. /\ alone' \subseteq alone \cup {c}
      /\ \A d \in Command : d \in alone' /\ at[d] \in Pending \cup Decided => d = c
      /\ c \in alone' => \A d \in Command : at[d] \notin Pending \cup Decided
  <2>1. c \notin alone
    BY <1>1 DEF LatestInv
  <2> QED
    BY <2>1 DEF Issue, InProgress
<1>8. AgentTypes' /\ RunTypes' /\ LinkInv'
  BY <1>5, <1>6 DEF AgentTypes, RunTypes, LinkInv
<1>9. CallTypes'
  <2>1. at' \in [Command -> {"idle"} \cup Pending \cup Decided \cup Returned]
    BY DEF Issue, CallTypes, Pending, Returned
  <2>2. targets' \in [Command -> Seq(Target)]
    BY <1>2, <1>3 DEF CallTypes
  <2> QED
    BY <1>6, <1>7, <2>1, <2>2 DEF CallTypes
<1>10. CallInv'
  <2>1. ASSUME NEW d \in Command, d # c PROVE Expected(d)' = Expected(d)
    BY <1>4, <2>1 DEF Expected
  <2>2. yes[c] = {} /\ no[c] = {} /\ sent[c] = 0
    BY <1>1 DEF CallInv, Pending
  <2>3. ASSUME NEW d \in Command, at'[d] = "idle"
        PROVE  d # c /\ \A e \in Command : e > d => at'[e] = "idle"
    <3>1. d # c /\ at[d] = "idle" /\ \A e \in Command : e > d => at[e] = "idle"
      BY <1>4, <2>3 DEF CallInv
    <3>2. ASSUME c > d PROVE FALSE
      <4>1. c > 1 /\ c - 1 \in Command /\ (c - 1 = d \/ c - 1 > d)
        BY <3>2, ControlAssumption DEF Command
      <4> QED
        BY <1>1, <3>1, <4>1
    <3> QED
      BY <1>4, <3>1, <3>2
  <2>4. ASSUME NEW d \in Command, d # c
        PROVE  /\ \A i, j \in 1..Len(targets'[d]) :
                    targets'[d][i].agent = targets'[d][j].agent => i = j
               /\ at'[d] = "send" => sent'[d] < Len(targets'[d])
               /\ at'[d] = "idle" => sent'[d] = 0
               /\ yes'[d] \subseteq Expected(d)' /\ no'[d] \subseteq Expected(d)'
               /\ at'[d] \notin Pending => yes'[d] = {} /\ no'[d] = {}
    BY <1>4, <1>6, <2>1, <2>4 DEF CallInv
  <2>5. /\ \A i, j \in 1..Len(targets'[c]) :
             targets'[c][i].agent = targets'[c][j].agent => i = j
        /\ at'[c] = "send" => sent'[c] < Len(targets'[c])
        /\ yes'[c] = {} /\ no'[c] = {}
    BY <1>3, <1>4, <1>6, <2>2
  <2> QED
    BY <2>3, <2>4, <2>5 DEF CallInv
<1>11. SentInv'
  <2>1. CallsGrow
    BY <1>1, <1>4, <1>6 DEF CallsGrow, SentTo
  <2> QED
    BY <1>5, <1>6, <2>1, SentKept DEF Msgs
<1>12. AnswerInv'
  <2>1. ASSUME NEW a \in Agent, NEW m \in Msgs(up[a])' PROVE Truthful(m, a)'
    <3>1. m \in Msgs(up[a]) /\ m \in Answer
      BY <1>5, QueueElements DEF Msgs, AgentTypes
    <3>2. m.id # 0 => m.id \in Command /\ m.id # c
      BY <1>1, <3>1 DEF AnswerInv, Truthful, Answer
    <3> QED
      BY <1>4, <1>6, <3>1, <3>2 DEF AnswerInv, Truthful
  <2>2. ASSUME NEW d \in Command, at'[d] \in {"acked", "ok"}
        PROVE  \A a \in Expected(d)' : (<<d, a>> \in applied)'
    <3>1. d # c /\ at[d] \in {"acked", "ok"}
      BY <1>4, <2>2
    <3>2. Expected(d)' = Expected(d)
      BY <1>4, <3>1 DEF Expected
    <3> QED
      BY <1>6, <3>1, <3>2 DEF AnswerInv
  <2> QED
    BY <1>6, <2>1, <2>2 DEF AnswerInv
<1>13. LatestInv'
  <2>1. ASSUME NEW d \in alone' PROVE d \in Command /\ at'[d] # "idle"
    BY <1>4, <1>7, <2>1 DEF LatestInv, CallTypes
  <2>2. ASSUME NEW d \in alone', Latest(d)' PROVE d = c
    <3>1. CASE d > c
      BY <1>1, <1>7, <2>1, <3>1 DEF LatestInv, CallInv
    <3>2. CASE c > d
      BY <1>4, <2>1, <2>2, <3>2 DEF Latest
    <3> QED
      BY <2>1, <3>1, <3>2 DEF Command
  <2>3. ASSUME c \in alone', NEW a \in Agent PROVE Settled(c, a)'
    <3>1. ~Reached(c, a)
      BY <1>1 DEF Reached, SentTo
    <3>2. <<c, a>> \notin applied'
      BY <1>6, <3>1 DEF SentInv
    <3>3. \A m \in Msgs(down[a]) : m.id # c
      BY <1>1 DEF SentInv, Sent, SentTo
    <3>4. OnlyLast(down[a], c)'
      BY <1>5, <3>3 DEF OnlyLast, Msgs
    <3> QED
      BY <3>2, <3>4 DEF Settled
  <2>4. ASSUME c \in alone' PROVE LatestAlone(c)'
    <3>1. \A d \in Command : d # c => at'[d] \notin Pending \cup Decided
      BY <1>4, <1>7, <2>4
    <3>2. Told(c)'
      BY <1>4 DEF Told
    <3> QED
      BY <2>3, <2>4, <3>1, <3>2 DEF LatestAlone
  <2> QED
    BY <2>1, <2>2, <2>4 DEF LatestInv
<1> QED
  BY <1>8, <1>9, <1>10, <1>11, <1>12, <1>13

-----------------------------------------------------------------------------
(* The theorems. *)

\* Every step preserves the invariant.
LEMMA StepFleet ==
  ASSUME FleetInv, [Next]_vars PROVE FleetInv'
<1>1. ASSUME NEW c \in Command, Issue(c) \/ CallStep(c) PROVE FleetInv'
  BY <1>1, IssuePreserves, SendPreserves, DecidePreserves, TimeoutPreserves, ReturnPreserves
     DEF CallStep
<1>2. ASSUME NEW a \in Agent,
             \/ Hear(a) \/ MarkDisconnected(a) \/ Sweep(a)
             \/ Serve(a) \/ EngineEnds(a) \/ ClearSlot(a) \/ Break(a) \/ Reconnect(a)
      PROVE  FleetInv'
  BY <1>2, HearPreserves, MarkDisconnectedPreserves, SweepPreserves, ServePreserves,
     EngineEndsPreserves, ClearSlotPreserves, BreakPreserves, ReconnectPreserves
<1>3. CASE UNCHANGED vars
  <2> USE <1>3 DEF vars, agents, run, calls, history, FleetInv
  <2>1. AgentTypes' /\ RunTypes' /\ CallTypes' /\ LinkInv'
    BY DEF AgentTypes, RunTypes, CallTypes, LinkInv
  <2>2. CallInv'
    BY DEF CallInv, Expected
  <2>3. SentInv'
    BY SentFrame
  <2>4. AnswerInv'
    BY DEF AnswerInv, Truthful, Msgs, Expected
  <2>5. LatestInv'
    BY DEF LatestInv, Latest, LatestAlone, Settled, OnlyLast, Obeys, Told, Value
  <2> QED
    BY <2>1, <2>2, <2>3, <2>4, <2>5
<1> QED
  BY <1>1, <1>2, <1>3 DEF Next

\* FleetInv holds in every reachable state.
THEOREM FleetInvariance == Spec => []FleetInv
<1>1. Init => FleetInv
  BY InitFleet
<1>2. FleetInv /\ [Next]_vars => FleetInv'
  BY StepFleet
<1> QED
  BY <1>1, <1>2, PTL DEF Spec

\* ControllerHandle::control returns Ok only when every agent it addressed has
\* executed this very command, whatever sessions broke, acknowledgements were
\* dropped and earlier calls timed out meanwhile.
THEOREM OkTheorem == Spec => []OkMeansApplied
<1>1. FleetInv => TypeOK
  BY DEF FleetInv, AgentTypes, RunTypes, CallTypes, LinkInv, TypeOK
<1>2. FleetInv => OkMeansApplied
  BY <1>1 DEF FleetInv, AnswerInv, OkMeansApplied
<1> QED
  BY <1>2, FleetInvariance, PTL

\* Addressed is preserved: only Issue writes targets, and it refuses a call
\* without agents.
LEMMA StepAddressed ==
  ASSUME FleetInv, Addressed, [Next]_vars
  PROVE  Addressed'
<1>1. ASSUME NEW c \in Command, Issue(c) PROVE Addressed'
  <2>1. at[c] = "idle" /\ at \in [Command -> {"idle"} \cup Pending \cup Decided \cup Returned]
        /\ targets \in [Command -> Seq(Target)]
    BY <1>1 DEF Issue, FleetInv, CallTypes
  <2>2. PICK senders \in RunSenders : targets' = [targets EXCEPT ![c] = senders]
    BY <1>1 DEF Issue
  <2>3. at' = [at EXCEPT ![c] = IF Reachable = {} THEN "refused" ELSE "send"]
    BY <1>1 DEF Issue
  <2>4. Reachable # {} => Len(senders) > 0
    <3>1. PICK q \in InOrder :
            senders = [i \in DOMAIN q |-> [agent |-> q[i], session |-> session[q[i]]]]
      BY <2>2 DEF RunSenders
    <3>2. DOMAIN q = 1..Cardinality(Reachable)
      BY <3>1 DEF InOrder
    <3>3. IsFiniteSet(Reachable)
      <4>1. IsFiniteSet(Agent)
        BY ControlAssumption, FS_Interval DEF Agent
      <4> QED BY <4>1, FS_Subset DEF Reachable
    <3>4. Cardinality(Reachable) \in Nat /\ (Reachable # {} => Cardinality(Reachable) # 0)
      BY <3>3, FS_CardinalityType, FS_EmptySet
    <3>5. Len(senders) = Cardinality(Reachable)
      BY <3>1, <3>2, <3>4
    <3> QED BY <3>4, <3>5
  <2>5. ASSUME NEW d \in Command, at'[d] \notin {"idle", "refused"} PROVE Len(targets'[d]) > 0
    <3>1. CASE d = c
      BY <2>1, <2>2, <2>3, <2>4, <2>5, <3>1
    <3>2. CASE d # c
      BY <2>1, <2>2, <2>3, <2>5, <3>2 DEF Addressed
    <3> QED BY <3>1, <3>2
  <2> QED BY <2>5 DEF Addressed
<1>2. ASSUME UNCHANGED targets,
             \A c \in Command : at'[c] \in {"idle", "refused"} \/ at[c] \notin {"idle", "refused"}
      PROVE  Addressed'
  BY <1>2 DEF Addressed
<1>3. ASSUME NEW c \in Command, CallStep(c) PROVE Addressed'
  <2>1. /\ UNCHANGED targets /\ at[c] \notin {"idle", "refused"}
        /\ \A d \in Command : d # c => at'[d] = at[d]
    BY <1>3 DEF CallStep, Send, Decide, Timeout, Return, Pending, Decided, FleetInv, CallTypes
  <2> QED BY <1>2, <2>1
<1>4. ASSUME UNCHANGED <<targets, at>> PROVE Addressed'
  BY <1>2, <1>4
<1>5. ASSUME NEW a \in Agent,
             \/ Hear(a) \/ MarkDisconnected(a) \/ Sweep(a)
             \/ Serve(a) \/ EngineEnds(a) \/ ClearSlot(a) \/ Break(a) \/ Reconnect(a)
      PROVE  Addressed'
  <2>1. UNCHANGED <<targets, at>>
    BY <1>5 DEF Hear, MarkDisconnected, Sweep, Serve, EngineEnds, ClearSlot, Break, Reconnect,
      calls
  <2> QED BY <1>4, <2>1
<1>6. CASE UNCHANGED vars
  BY <1>4, <1>6 DEF vars, calls
<1> QED
  BY <1>1, <1>3, <1>5, <1>6 DEF Next

\* The engine of an agent that a call was acknowledged by obeys it, if it is the
\* latest of calls that did not overlap.
LEMMA AckedObeys ==
  ASSUME FleetInv, NEW c \in alone, Latest(c), at[c] = "ok", NEW i \in DOMAIN targets[c]
  PROVE  Obeys(targets[c][i].agent, c, i)
<1>1. c \in Command /\ LatestAlone(c)
  BY DEF FleetInv, LatestInv, CallTypes
<1>2. targets[c] \in Seq(Target) /\ i \in 1..Len(targets[c])
  BY <1>1, LenProperties DEF FleetInv, CallTypes
<1>3. targets[c][i] \in Target
  BY <1>2, ElementOfSeq
<1>4. PICK a \in Agent : a = targets[c][i].agent
  BY <1>3 DEF Target
<1>5. a \in Expected(c)
  BY <1>4 DEF Expected
<1>6. <<c, a>> \in applied
  BY <1>1, <1>5 DEF FleetInv, AnswerInv
<1>7. Settled(c, a)
  BY <1>1 DEF LatestAlone
<1> QED
  BY <1>2, <1>4, <1>6, <1>7 DEF Settled

\* The shares of an acknowledged scale add up to its total: each engine has the
\* share of its place among the targets.
LEMMA AckedAddsUp ==
  ASSUME FleetInv, Addressed, NEW c \in alone, Latest(c), at[c] = "ok", order[c].op = "scale"
  PROVE  SumFunctionOnSet(vus, Expected(c)) = order[c].total
<1>1. c \in Command /\ targets[c] \in Seq(Target)
  BY DEF FleetInv, CallTypes
<1>2. PICK n \in Nat \ {0} : n = Len(targets[c]) /\ DOMAIN targets[c] = 1..n
  BY <1>1, LenProperties DEF Addressed
<1>3. PICK q : q = [i \in 1..n |-> targets[c][i].agent]
  OBVIOUS
<1>4. \A i, j \in 1..n : q[i] = q[j] => i = j
  BY <1>1, <1>2, <1>3 DEF FleetInv, CallInv
<1>5. \A i \in 1..n : vus[q[i]] = Split(order[c].total, i - 1, n)
  <2>1. ASSUME NEW i \in 1..n PROVE vus[q[i]] = Value(c, i)
    BY <1>2, <1>3, AckedObeys DEF Obeys
  <2> QED BY <1>2, <2>1 DEF Value
<1>6. order[c].total \in Nat
  BY <1>1, ControlAssumption DEF FleetInv, CallTypes
<1>7. Expected(c) = Numbered(q, n)
  BY <1>2, <1>3 DEF Expected, Numbered
<1>8. SumFunctionOnSet(vus, Numbered(q, n)) = order[c].total
  BY <1>4, <1>5, <1>6, SplitSums
<1> QED BY <1>7, <1>8

\* After calls that did not overlap, every engine that the last one addressed is
\* in the state it asked for once it has returned Ok, whatever earlier commands
\* timed out and were executed late; the shares of a scale add up to its total;
\* and run.paused says what the last call did.
THEOREM LastCommandTheorem == Spec => []LastCommandStands
<1>1. ASSUME FleetInv, Addressed PROVE LastCommandStands
  <2>1. ASSUME NEW c \in alone, Latest(c), at[c] = "ok" PROVE InForce(c)
    BY <1>1, <2>1, AckedObeys DEF InForce, Obeys
  <2>2. ASSUME NEW c \in alone, Latest(c), at[c] = "ok" PROVE AddsUp(c)
    BY <1>1, <2>2, AckedAddsUp DEF AddsUp
  <2>3. ASSUME NEW c \in alone, Latest(c) PROVE Told(c)
    BY <1>1, <2>3 DEF FleetInv, LatestInv, LatestAlone
  <2> QED BY <2>1, <2>2, <2>3 DEF LastCommandStands
<1>2. Init => Addressed
  BY DEF Init, Addressed
<1>3. FleetInv /\ Addressed /\ [Next]_vars => Addressed'
  BY StepAddressed
<1>4. Spec => []Addressed
  BY <1>2, <1>3, FleetInvariance, PTL DEF Spec
<1> QED
  BY <1>1, <1>4, FleetInvariance, PTL
=============================================================================

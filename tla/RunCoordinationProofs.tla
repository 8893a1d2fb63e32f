----------------------- MODULE RunCoordinationProofs -----------------------
(***************************************************************************)
(* The safety properties of RunCoordination for any fleet, any number of    *)
(* submissions and any number of sessions and restarts, from the inductive  *)
(* invariant of RunInvariant.                                              *)
(***************************************************************************)
EXTENDS RunInvariant, SequenceTheorems, TLAPS

-----------------------------------------------------------------------------
(***************************************************************************)
(* Channels.                                                               *)
(***************************************************************************)

\* The messages of a channel are messages.
LEMMA MsgsTyped ==
  ASSUME NEW M, NEW q \in Seq(M)
  PROVE  Msgs(q) \subseteq M
BY DEF Msgs

\* A channel that was lost with its stream holds nothing.
LEMMA MsgsEmpty == Msgs(<<>>) = {} /\ Ordered(<<>>) /\ Single(<<>>)
BY DEF Msgs, Ordered, Single

\* Sending adds one message, behind all others.
LEMMA MsgsAppend ==
  ASSUME NEW M, NEW q \in Seq(M), NEW m \in M
  PROVE  /\ Append(q, m) \in Seq(M)
         /\ Msgs(Append(q, m)) = Msgs(q) \cup {m}
<1>1. /\ Append(q, m) \in Seq(M) /\ Len(q) \in Nat
      /\ Len(Append(q, m)) = Len(q) + 1
      /\ \A i \in 1..Len(q) : Append(q, m)[i] = q[i]
      /\ Append(q, m)[Len(q) + 1] = m
  OBVIOUS
<1>2. 1..(Len(q) + 1) = (1..Len(q)) \cup {Len(q) + 1}
  BY <1>1
<1> QED BY <1>1, <1>2 DEF Msgs

\* Reading takes the first message.
LEMMA MsgsTail ==
  ASSUME NEW M, NEW q \in Seq(M), q # <<>>
  PROVE  /\ Tail(q) \in Seq(M)
         /\ Head(q) \in M /\ Head(q) \in Msgs(q)
         /\ Msgs(Tail(q)) \subseteq Msgs(q)
<1>1. /\ Len(q) \in Nat /\ Len(q) > 0
      /\ Head(q) = q[1] /\ Head(q) \in M
      /\ Tail(q) \in Seq(M) /\ Len(Tail(q)) = Len(q) - 1
      /\ \A i \in 1..Len(Tail(q)) : Tail(q)[i] = q[i + 1]
  BY HeadTailProperties, EmptySeq, LenProperties
<1>2. \A i \in 1..Len(Tail(q)) : i + 1 \in 1..Len(q)
  BY <1>1
<1>3. 1 \in 1..Len(q)
  BY <1>1
<1> QED BY <1>1, <1>2, <1>3 DEF Msgs

\* What is left of a channel when the process at its end dies.
LEMMA MsgsPrefix ==
  ASSUME NEW M, NEW q \in Seq(M), NEW n \in 0..Len(q)
  PROVE  /\ SubSeq(q, 1, n) \in Seq(M)
         /\ Msgs(SubSeq(q, 1, n)) \subseteq Msgs(q)
         /\ Single(q) => Single(SubSeq(q, 1, n))
<1>1. /\ Len(q) \in Nat /\ n \in Nat /\ n <= Len(q)
      /\ \A i \in 1..n : q[i] \in M
  OBVIOUS
<1>2. /\ SubSeq(q, 1, n) \in Seq(M)
      /\ Len(SubSeq(q, 1, n)) = n
      /\ \A i \in 1..n : SubSeq(q, 1, n)[i] = q[i]
  BY <1>1, SubSeqProperties
<1>3. \A i \in 1..n : i \in 1..Len(q)
  BY <1>1
<1> QED BY <1>2, <1>3 DEF Msgs, Single

\* The orders of messages that OnceInv forbids are not made by reading, and by
\* sending only when the first message is there.
LEMMA OrderTail ==
  ASSUME NEW M, NEW q \in Seq(M), q # <<>>
  PROVE  /\ Ordered(q) => Ordered(Tail(q))
         /\ Single(q) => Single(Tail(q))
         /\ Ordered(q) /\ Head(q).kind = "start" =>
              \A m \in Msgs(Tail(q)) : m.kind = "assignment" => m.run # Head(q).run
         /\ Single(q) /\ Head(q).kind = "ended" =>
              \A m \in Msgs(Tail(q)) : m.kind = "ended" => m.run # Head(q).run
<1>1. /\ Len(q) \in Nat /\ Len(q) > 0
      /\ Head(q) = q[1]
      /\ Tail(q) \in Seq(M) /\ Len(Tail(q)) = Len(q) - 1
      /\ \A i \in 1..Len(Tail(q)) : Tail(q)[i] = q[i + 1]
  BY HeadTailProperties, EmptySeq, LenProperties
<1>2. \A i \in 1..Len(Tail(q)) : i + 1 \in 1..Len(q) /\ 1 < i + 1
  BY <1>1
<1>3. \A i, j \in 1..Len(Tail(q)) : i < j => i + 1 < j + 1
  BY <1>1
<1>4. 1 \in 1..Len(q)
  BY <1>1
<1>5. Ordered(q) => Ordered(Tail(q))
  BY <1>1, <1>2, <1>3 DEF Ordered
<1>6. Single(q) => Single(Tail(q))
  BY <1>1, <1>2, <1>3 DEF Single
<1>7. Ordered(q) /\ Head(q).kind = "start" =>
        \A m \in Msgs(Tail(q)) : m.kind = "assignment" => m.run # Head(q).run
  BY <1>1, <1>2, <1>4 DEF Ordered, Msgs
<1>8. Single(q) /\ Head(q).kind = "ended" =>
        \A m \in Msgs(Tail(q)) : m.kind = "ended" => m.run # Head(q).run
  BY <1>1, <1>2, <1>4 DEF Single, Msgs
<1> QED BY <1>5, <1>6, <1>7, <1>8

\* What may be appended to a channel whose messages are in order.
LEMMA OrderAppend ==
  ASSUME NEW M, NEW q \in Seq(M), NEW m \in M
  PROVE  /\ Ordered(q) /\ (m.kind = "assignment" =>
                \A n \in Msgs(q) : n.kind = "start" => n.run # m.run)
              => Ordered(Append(q, m))
         /\ Single(q) /\ (m.kind = "ended" =>
                \A n \in Msgs(q) : n.kind = "ended" => n.run # m.run)
              => Single(Append(q, m))
<1>1. /\ Len(q) \in Nat
      /\ Len(Append(q, m)) = Len(q) + 1
      /\ \A i \in 1..Len(q) : Append(q, m)[i] = q[i]
      /\ Append(q, m)[Len(q) + 1] = m
  OBVIOUS
<1>2. \A i, j \in 1..(Len(q) + 1) :
        i < j => i \in 1..Len(q) /\ (j \in 1..Len(q) \/ j = Len(q) + 1)
  BY <1>1
<1>3. \A i \in 1..Len(q) : q[i] \in Msgs(q)
  BY DEF Msgs
<1> QED BY <1>1, <1>2, <1>3 DEF Ordered, Single

-----------------------------------------------------------------------------
(***************************************************************************)
(* The agent's steps.                                                      *)
(***************************************************************************)

ControllerIdle == UNCHANGED <<entryVars, runVars, taskVars, cmdVars, sweepVars>>

\* A step of one agent changes only what the invariant says of that agent.
LEMMA AgentLocal ==
  ASSUME RunInv, NEW a \in Agent, ControllerIdle, AgentTypes',
         \A b \in Agent : b # a =>
           /\ b \in alive' <=> b \in alive
           /\ incarnation'[b] = incarnation[b] /\ link'[b] = link[b]
           /\ resume'[b] = resume[b] /\ slot'[b] = slot[b] /\ prep'[b] = prep[b]
           /\ up'[b] = up[b] /\ down'[b] = down[b],
         AgentForm(a)', AgentEngine(a)', AgentAssigned(a)', AgentProcess(a)',
         AgentOnce(a)', \A r \in Run : Gone(a, r) => Gone(a, r)'
  PROVE  RunInv'
<1> USE DEF RunInv
<1>1. /\ UNCHANGED <<known, session, connected, active_run, todo>>
      /\ UNCHANGED <<state, assigned, on_agent_loss, ready, failure, started>>
      /\ UNCHANGED <<done, lost, lost_ever, gauges, task, senders, verdict>>
      /\ UNCHANGED <<permit, control, expected, stale, unswept>>
  BY DEF ControllerIdle, entryVars, runVars, optVars, taskVars, cmdVars, sweepVars
<1>2. TypeOK'
  BY <1>1 DEF TypeOK, EntryTypes, RunTypes, TaskTypes
<1>3. FormInv'
  BY <1>1 DEF FormInv, AgentForm
<1>4. BarrierInv' /\ TodoInv' /\ EarnedInv' /\ LossInv'
  BY <1>1 DEF BarrierInv, TodoInv, EarnedInv, Earned, LossInv
<1>5. EngineInv'
  BY <1>1 DEF EngineInv, AgentEngine
<1>6. AssignedInv'
  BY <1>1 DEF AssignedInv, AgentAssigned
<1>7. ProcessInv'
  BY <1>1 DEF ProcessInv, AgentProcess
<1>8. ReservedInv'
  <2>1. \A b \in Agent, r \in Run : Gone(b, r) => Gone(b, r)'
    BY <1>1 DEF Gone
  <2>2. \A r \in Run : assigned[r] \subseteq Agent
    BY DEF TypeOK, RunTypes
  <2> QED BY <1>1, <2>1, <2>2 DEF ReservedInv
<1>9. GaugesSettle'
  BY <1>1, <1>2 DEF GaugesSettle
<1>10. OnceInv'
  BY <1>1 DEF OnceInv, AgentOnce, LetGo, Ended
<1> QED BY <1>2, <1>3, <1>4, <1>5, <1>6, <1>7, <1>8, <1>9, <1>10

\* What the type invariant says of one agent.
LEMMA AgentPoint ==
  ASSUME TypeOK, NEW a \in Agent
  PROVE  /\ slot[a] \in SlotState /\ slot[a].run \in Run \cup {NoRun}
         /\ slot[a].latched \in BOOLEAN
         /\ slot[a] = [phase |-> slot[a].phase, run |-> slot[a].run, latched |-> slot[a].latched]
         /\ prep[a] \subseteq PrepTask
         /\ up[a] \in Seq(Up) /\ down[a] \in Seq(Down)
         /\ Msgs(up[a]) \subseteq Up /\ Msgs(down[a]) \subseteq Down
         /\ incarnation[a] \in Nat /\ known[a] \in Nat /\ session[a] \in Nat
         /\ resume[a] \in Run \cup {NoRun} /\ active_run[a] \in Run \cup {NoRun}
         /\ todo[a] \in TodoItem
<1>1. /\ slot[a] \in SlotState /\ prep[a] \subseteq PrepTask
      /\ up[a] \in Seq(Up) /\ down[a] \in Seq(Down)
      /\ incarnation[a] \in Nat /\ known[a] \in Nat /\ session[a] \in Nat
      /\ resume[a] \in Run \cup {NoRun} /\ active_run[a] \in Run \cup {NoRun}
      /\ todo[a] \in TodoItem
  BY DEF TypeOK, AgentTypes, EntryTypes
<1>2. /\ slot[a].run \in Run \cup {NoRun} /\ slot[a].latched \in BOOLEAN
      /\ slot[a] = [phase |-> slot[a].phase, run |-> slot[a].run, latched |-> slot[a].latched]
  BY <1>1 DEF SlotState
<1> QED BY <1>1, <1>2, MsgsTyped

\* The process dies: of what it had sent, a prefix stays.
LEMMA DiePreserves ==
  ASSUME RunInv, NEW a \in Agent, Die(a)
  PROVE  RunInv'
<1> USE DEF RunInv
<1>1. PICK n \in 0..Len(up[a]) : up' = [up EXCEPT ![a] = SubSeq(@, 1, n)]
  BY DEF Die
<1>2. /\ alive' = alive \ {a} /\ UNCHANGED <<incarnation, resume>>
      /\ link' = [link EXCEPT ![a] = "off"] /\ slot' = [slot EXCEPT ![a] = Idle]
      /\ prep' = [prep EXCEPT ![a] = {}] /\ down' = [down EXCEPT ![a] = <<>>]
      /\ ControllerIdle
  BY DEF Die, ControllerIdle
<1>3. /\ SubSeq(up[a], 1, n) \in Seq(Up) /\ Msgs(SubSeq(up[a], 1, n)) \subseteq Msgs(up[a])
      /\ Single(SubSeq(up[a], 1, n))
  BY MsgsPrefix, AgentPoint DEF OnceInv, AgentOnce
<1>4. Idle \in SlotState /\ <<>> \in Seq(Down)
  BY DEF Idle, SlotState
<1>5. AgentTypes'
  BY <1>1, <1>2, <1>3, <1>4 DEF TypeOK, AgentTypes
<1>6. /\ slot'[a] = Idle /\ prep'[a] = {} /\ down'[a] = <<>> /\ link'[a] = "off"
      /\ up'[a] = SubSeq(up[a], 1, n)
  BY <1>1, <1>2 DEF TypeOK, AgentTypes
<1>7. /\ UNCHANGED <<known, todo, senders, session, started, assigned, done>>
      /\ incarnation' = incarnation /\ resume' = resume
  BY <1>2 DEF ControllerIdle, entryVars, runVars, optVars, taskVars
<1>8. AgentForm(a)'
  BY <1>3, <1>6, AgentPoint DEF FormInv, AgentForm, Idle
<1>9. AgentEngine(a)'
  BY <1>3, <1>6, <1>7, MsgsEmpty DEF EngineInv, AgentEngine, Idle
<1>10. AgentAssigned(a)'
  BY <1>3, <1>6, <1>7, MsgsEmpty DEF AssignedInv, AgentAssigned, Idle
<1>11. AgentProcess(a)'
  BY <1>6, <1>7 DEF ProcessInv, AgentProcess
<1>12. AgentOnce(a)'
  BY <1>3, <1>6, <1>7, MsgsEmpty, RunAssumption DEF OnceInv, AgentOnce, LetGo, Ended, Idle
<1>13. \A r \in Run : Gone(a, r) => Gone(a, r)'
  BY <1>3, <1>6, <1>7, MsgsEmpty, RunAssumption DEF Gone, Idle
<1> QED
  BY <1>1, <1>2, <1>5, <1>8, <1>9, <1>10, <1>11, <1>12, <1>13, AgentLocal
     DEF TypeOK, AgentTypes

\* A new process: the slot of the old one is empty already.
LEMMA RelaunchPreserves ==
  ASSUME RunInv, NEW a \in Agent, Relaunch(a)
  PROVE  RunInv'
<1> USE DEF RunInv
<1>1. /\ alive' = alive \cup {a} /\ UNCHANGED <<link, resume, slot, prep, up, down>>
      /\ incarnation' = [incarnation EXCEPT ![a] = @ + 1] /\ ControllerIdle
      /\ a \notin alive
  BY DEF Relaunch, ControllerIdle, netVars
<1>2. AgentTypes'
  BY <1>1 DEF TypeOK, AgentTypes
<1>3. /\ UNCHANGED <<known, todo, senders, session, started, assigned, done>>
      /\ incarnation'[a] = incarnation[a] + 1 /\ a \in alive'
  BY <1>1 DEF ControllerIdle, entryVars, runVars, optVars, taskVars, TypeOK, AgentTypes
<1>4. /\ AgentForm(a)' /\ AgentEngine(a)' /\ AgentAssigned(a)' /\ AgentOnce(a)'
      /\ \A r \in Run : Gone(a, r) => Gone(a, r)'
  BY <1>1, <1>3 DEF FormInv, AgentForm, EngineInv, AgentEngine, AssignedInv, AgentAssigned,
                    OnceInv, AgentOnce, LetGo, Ended, Gone
<1>5. AgentProcess(a)'
  <2>1. known[a] <= incarnation[a] /\ link[a] = "off" /\ slot[a] = Idle /\ prep[a] = {}
    BY <1>1 DEF ProcessInv, AgentProcess
  <2>0. known[a] \in Nat /\ incarnation[a] \in Nat
    BY AgentPoint
  <2>2. known[a] <= incarnation[a] + 1
    BY <2>0, <2>1
  <2>3. down[a] = <<>>
    BY <2>1 DEF ProcessInv, AgentProcess
  <2> QED BY <1>1, <1>3, <2>1, <2>2, <2>3 DEF AgentProcess
<1> QED BY <1>1, <1>2, <1>4, <1>5, AgentLocal DEF TypeOK, AgentTypes

\* The stream breaks: what it held for the agent is lost.
LEMMA DisconnectPreserves ==
  ASSUME RunInv, NEW a \in Agent, Disconnect(a)
  PROVE  RunInv'
<1> USE DEF RunInv
<1>1. /\ UNCHANGED <<alive, incarnation, resume, slot, prep, up>>
      /\ link' = [link EXCEPT ![a] = "off"] /\ down' = [down EXCEPT ![a] = <<>>]
      /\ link[a] = "on" /\ ControllerIdle
  BY DEF Disconnect, ControllerIdle
<1>2. AgentTypes'
  BY <1>1 DEF TypeOK, AgentTypes
<1>3. /\ UNCHANGED <<known, todo, senders, session, started, assigned, done>>
      /\ link'[a] = "off" /\ down'[a] = <<>>
  BY <1>1 DEF ControllerIdle, entryVars, runVars, optVars, taskVars, TypeOK, AgentTypes
<1>4. AgentForm(a)' /\ AgentEngine(a)' /\ AgentAssigned(a)'
  BY <1>1, <1>3, MsgsEmpty DEF FormInv, AgentForm, EngineInv, AgentEngine, AssignedInv,
                               AgentAssigned
<1>5. AgentProcess(a)'
  BY <1>1, <1>3 DEF ProcessInv, AgentProcess
<1>6. AgentOnce(a)'
  BY <1>1, <1>3, MsgsEmpty DEF OnceInv, AgentOnce, LetGo, Ended
<1>7. \A r \in Run : Gone(a, r) => Gone(a, r)'
  BY <1>1, <1>3, MsgsEmpty DEF Gone
<1> QED BY <1>1, <1>2, <1>4, <1>5, <1>6, <1>7, AgentLocal DEF TypeOK, AgentTypes

\* The claim of a new stream is what the slot holds.
LEMMA ConnectPreserves ==
  ASSUME RunInv, NEW a \in Agent, Connect(a)
  PROVE  RunInv'
<1> USE DEF RunInv
<1>1. /\ UNCHANGED <<alive, incarnation, slot, prep, up, down>>
      /\ link' = [link EXCEPT ![a] = "connecting"]
      /\ resume' = [resume EXCEPT ![a] = slot[a].run]
      /\ a \in alive /\ link[a] = "off" /\ ControllerIdle
  BY DEF Connect, ControllerIdle, netVars
<1>2. AgentTypes'
  BY <1>1, AgentPoint DEF TypeOK, AgentTypes
<1>3. /\ UNCHANGED <<known, todo, senders, session, started, assigned, done>>
      /\ link'[a] = "connecting" /\ resume'[a] = slot[a].run
  BY <1>1 DEF ControllerIdle, entryVars, runVars, optVars, taskVars, TypeOK, AgentTypes
<1>4. AgentForm(a)' /\ AgentEngine(a)' /\ AgentAssigned(a)'
  BY <1>1, <1>3 DEF FormInv, AgentForm, EngineInv, AgentEngine, AssignedInv, AgentAssigned
<1>5. AgentProcess(a)'
  <2>1. AgentProcess(a) /\ Idle.run = NoRun
    BY DEF ProcessInv, Idle
  <2> QED BY <1>1, <1>3, <2>1 DEF AgentProcess
<1>6. AgentOnce(a)'
  BY <1>1, <1>3 DEF OnceInv, AgentOnce, LetGo, Ended
<1>7. \A r \in Run : Gone(a, r) => Gone(a, r)'
  BY <1>1, <1>3 DEF Gone
<1> QED BY <1>1, <1>2, <1>4, <1>5, <1>6, <1>7, AgentLocal DEF TypeOK, AgentTypes

\* A message from the controller is read: the agent has a stream, so its process
\* is the registered one.
LEMMA ReadsEffect ==
  ASSUME RunInv, NEW a \in Agent, NEW kind, Reads(a, kind)
  PROVE  /\ down'[a] = Tail(down[a]) /\ down' \in [Agent -> Seq(Down)]
         /\ \A b \in Agent : b # a => down'[b] = down[b]
         /\ Head(down[a]) \in Down /\ Head(down[a]) \in Msgs(down[a])
         /\ Head(down[a]).kind = kind /\ Head(down[a]).run \in Run
         /\ Head(down[a]) = DownMsg(kind, Head(down[a]).run)
         /\ Msgs(down'[a]) \subseteq Msgs(down[a])
         /\ Ordered(down'[a])
         /\ kind = "start" => \A m \in Msgs(down'[a]) :
                                m.kind = "assignment" => m.run # Head(down[a]).run
         /\ link[a] = "on" /\ a \in alive /\ known[a] = incarnation[a]
<1> USE DEF RunInv
<1>1. down[a] \in Seq(Down) /\ down[a] # <<>> /\ Head(down[a]).kind = kind /\ link[a] = "on"
  BY AgentPoint DEF Reads
<1>2. /\ Tail(down[a]) \in Seq(Down)
      /\ Head(down[a]) \in Down /\ Head(down[a]) \in Msgs(down[a])
      /\ Msgs(Tail(down[a])) \subseteq Msgs(down[a])
  BY <1>1, MsgsTail
<1>3. /\ down'[a] = Tail(down[a]) /\ down' \in [Agent -> Seq(Down)]
      /\ \A b \in Agent : b # a => down'[b] = down[b]
  BY <1>2 DEF Reads, TypeOK, AgentTypes
<1>4. /\ Head(down[a]).run \in Run /\ Head(down[a]) = DownMsg(kind, Head(down[a]).run)
  BY <1>1, <1>2 DEF Down, DownMsg
<1>5. Ordered(down[a])
  BY DEF OnceInv, AgentOnce
<1>6. Ordered(Tail(down[a])) /\ (kind = "start" => \A m \in Msgs(Tail(down[a])) :
                                m.kind = "assignment" => m.run # Head(down[a]).run)
  BY <1>1, <1>5, OrderTail
<1>7. a \in alive /\ known[a] = incarnation[a]
  BY <1>1 DEF ProcessInv, AgentProcess
<1> QED BY <1>1, <1>2, <1>3, <1>4, <1>6, <1>7

\* A message to the controller is queued.
LEMMA QueuesEffect ==
  ASSUME RunInv, NEW a \in Agent, NEW m \in Up, up' = [up EXCEPT ![a] = Append(@, m)]
  PROVE  /\ up'[a] = Append(up[a], m) /\ up' \in [Agent -> Seq(Up)]
         /\ \A b \in Agent : b # a => up'[b] = up[b]
         /\ Msgs(up'[a]) = Msgs(up[a]) \cup {m}
         /\ m.kind # "ended" => Single(up'[a])
         /\ ~ Ended(a, m.run) => Single(up'[a])
<1> USE DEF RunInv
<1>1. up[a] \in Seq(Up)
  BY AgentPoint
<1>2. Append(up[a], m) \in Seq(Up) /\ Msgs(Append(up[a], m)) = Msgs(up[a]) \cup {m}
  BY <1>1, MsgsAppend
<1>3. /\ up'[a] = Append(up[a], m) /\ up' \in [Agent -> Seq(Up)]
      /\ \A b \in Agent : b # a => up'[b] = up[b]
  BY <1>2 DEF TypeOK, AgentTypes
<1>4. Single(up[a])
  BY DEF OnceInv, AgentOnce
<1>5. m.kind # "ended" \/ ~ Ended(a, m.run) => Single(Append(up[a], m))
  BY <1>1, <1>4, OrderAppend DEF Ended
<1> QED BY <1>2, <1>3, <1>5

\* An assignment claims an idle slot, is ignored, or is rejected.
LEMMA ReceiveAssignmentPreserves ==
  ASSUME RunInv, NEW a \in Agent, ReceiveAssignment(a)
  PROVE  RunInv'
<1> USE DEF RunInv
<1> DEFINE r == Head(down[a]).run
<1>1. Reads(a, "assignment")
  BY DEF ReceiveAssignment
<1>2. UNCHANGED <<alive, incarnation, link, resume>> /\ ControllerIdle
  BY DEF ReceiveAssignment, ControllerIdle
<1>3. UNCHANGED <<known, todo, senders, session, started, assigned, done>>
  BY <1>2 DEF ControllerIdle, entryVars, runVars, optVars, taskVars
<1>4. /\ r \in Run /\ DownMsg("assignment", r) \in Msgs(down[a]) /\ r # NoRun
      /\ down' \in [Agent -> Seq(Down)] /\ Msgs(down'[a]) \subseteq Msgs(down[a])
      /\ Ordered(down'[a]) /\ \A b \in Agent : b # a => down'[b] = down[b]
      /\ link[a] = "on" /\ a \in alive /\ known[a] = incarnation[a]
  BY <1>1, ReadsEffect, RunAssumption
<1>5. a \in assigned[r]
  BY <1>4 DEF AssignedInv, AgentAssigned, DownMsg
<1>6. CASE /\ slot[a].phase = "idle" /\ UNCHANGED up
           /\ slot' = [slot EXCEPT ![a] =
                         [phase |-> "preparing", run |-> r, latched |-> FALSE]]
           /\ prep' = [prep EXCEPT ![a] = @ \cup {[run |-> r, cancel |-> FALSE]}]
  <2>1. /\ [phase |-> "preparing", run |-> r, latched |-> FALSE] \in SlotState
        /\ [run |-> r, cancel |-> FALSE] \in PrepTask
    BY <1>4 DEF SlotState, PrepTask
  <2>2. AgentTypes'
    BY <1>2, <1>4, <1>6, <2>1 DEF TypeOK, AgentTypes
  <2>3. /\ slot'[a] = [phase |-> "preparing", run |-> r, latched |-> FALSE]
        /\ prep'[a] = prep[a] \cup {[run |-> r, cancel |-> FALSE]}
        /\ up'[a] = up[a]
        /\ \A b \in Agent : b # a => slot'[b] = slot[b] /\ prep'[b] = prep[b]
    BY <1>6 DEF TypeOK, AgentTypes
  <2>4. AgentForm(a)'
    BY <1>4, <2>3 DEF FormInv, AgentForm
  <2>5. AgentEngine(a)'
    BY <1>3, <1>4, <2>3 DEF EngineInv, AgentEngine
  <2>6. AgentAssigned(a)'
    BY <1>2, <1>3, <1>4, <1>5, <2>3 DEF AssignedInv, AgentAssigned
  <2>7. AgentProcess(a)'
    BY <1>2, <1>3, <1>4 DEF ProcessInv, AgentProcess
  <2>8. AgentOnce(a)'
    BY <1>3, <1>4, <2>3 DEF OnceInv, AgentOnce, LetGo, Ended
  <2>9. \A s \in Run : Gone(a, s) => Gone(a, s)'
    BY <1>2, <1>3, <1>4, <2>3 DEF Gone
  <2> QED
    BY <1>2, <1>4, <1>6, <2>2, <2>3, <2>4, <2>5, <2>6, <2>7, <2>8, <2>9, AgentLocal
<1>7. CASE UNCHANGED <<slot, prep, up>>
  <2>1. AgentTypes'
    BY <1>2, <1>4, <1>7 DEF TypeOK, AgentTypes
  <2>2. AgentForm(a)' /\ AgentEngine(a)' /\ AgentAssigned(a)' /\ AgentProcess(a)'
    BY <1>2, <1>3, <1>4, <1>7 DEF FormInv, AgentForm, EngineInv, AgentEngine, AssignedInv,
                                  AgentAssigned, ProcessInv, AgentProcess
  <2>3. AgentOnce(a)' /\ \A s \in Run : Gone(a, s) => Gone(a, s)'
    BY <1>2, <1>3, <1>4, <1>7 DEF OnceInv, AgentOnce, LetGo, Ended, Gone
  <2> QED BY <1>2, <1>4, <1>7, <2>1, <2>2, <2>3, AgentLocal
<1>8. CASE /\ UNCHANGED <<slot, prep>>
           /\ up' = [up EXCEPT ![a] = Append(@, UpMsg("prep_failed", r, "err"))]
  <2>1. /\ UpMsg("prep_failed", r, "err") \in Up
        /\ UpMsg("prep_failed", r, "err").kind = "prep_failed"
        /\ UpMsg("prep_failed", r, "err").run = r
    BY <1>4 DEF Up, UpMsg
  <2>2. /\ up' \in [Agent -> Seq(Up)] /\ Single(up'[a])
        /\ Msgs(up'[a]) = Msgs(up[a]) \cup {UpMsg("prep_failed", r, "err")}
        /\ \A b \in Agent : b # a => up'[b] = up[b]
    BY <1>8, <2>1, QueuesEffect
  <2>3. AgentTypes'
    BY <1>2, <1>4, <1>8, <2>2 DEF TypeOK, AgentTypes
  <2>4. AgentForm(a)' /\ AgentEngine(a)' /\ AgentAssigned(a)' /\ AgentProcess(a)'
    BY <1>2, <1>3, <1>4, <1>5, <1>8, <2>1, <2>2
       DEF FormInv, AgentForm, EngineInv, AgentEngine, AssignedInv, AgentAssigned,
           ProcessInv, AgentProcess
  <2>5. AgentOnce(a)' /\ \A s \in Run : Gone(a, s) => Gone(a, s)'
    BY <1>2, <1>3, <1>4, <1>8, <2>1, <2>2 DEF OnceInv, AgentOnce, LetGo, Ended, Gone
  <2> QED BY <1>2, <1>4, <1>8, <2>2, <2>3, <2>4, <2>5, AgentLocal
<1> QED BY <1>6, <1>7, <1>8 DEF ReceiveAssignment

\* Start fires an armed run or is latched; what is behind it is no assignment.
LEMMA ReceiveStartPreserves ==
  ASSUME RunInv, NEW a \in Agent, ReceiveStart(a)
  PROVE  RunInv'
<1> USE DEF RunInv
<1> DEFINE r == Head(down[a]).run
           mine == slot[a].run = r
<1>1. Reads(a, "start")
  BY DEF ReceiveStart
<1>2. UNCHANGED <<alive, incarnation, link, resume, prep, up>> /\ ControllerIdle
  BY DEF ReceiveStart, ControllerIdle
<1>3. UNCHANGED <<known, todo, senders, session, started, assigned, done>>
  BY <1>2 DEF ControllerIdle, entryVars, runVars, optVars, taskVars
<1>4. /\ r \in Run /\ DownMsg("start", r) \in Msgs(down[a]) /\ r # NoRun
      /\ down' \in [Agent -> Seq(Down)] /\ Msgs(down'[a]) \subseteq Msgs(down[a])
      /\ Ordered(down'[a]) /\ \A b \in Agent : b # a => down'[b] = down[b]
      /\ \A m \in Msgs(down'[a]) : m.kind = "assignment" => m.run # r
      /\ link[a] = "on" /\ a \in alive /\ known[a] = incarnation[a]
  BY <1>1, ReadsEffect, RunAssumption
<1>5. r \in started
  BY <1>4 DEF EngineInv, AgentEngine, DownMsg
<1>6. PICK p \in {"idle", "preparing", "armed", "fired", "running"}, l \in BOOLEAN :
        /\ slot'[a] = [phase |-> p, run |-> slot[a].run, latched |-> l]
        /\ p = (IF mine /\ slot[a].phase = "armed" THEN "fired" ELSE slot[a].phase)
        /\ l = (slot[a].latched \/ (mine /\ slot[a].phase = "preparing"))
  <2>1. slot \in [Agent -> SlotState] /\ slot[a] \in SlotState
    BY DEF TypeOK, AgentTypes
  <2> QED BY <2>1 DEF ReceiveStart, SlotState
<1>8. /\ slot'[a].phase = p /\ slot'[a].run = slot[a].run /\ slot'[a].latched = l
      /\ \A b \in Agent : b # a => slot'[b] = slot[b]
  BY <1>6 DEF ReceiveStart, TypeOK, AgentTypes
<1>7. slot' \in [Agent -> SlotState]
  <2>0. slot[a].run \in Run \cup {NoRun}
    BY AgentPoint
  <2>1. slot'[a] \in SlotState
    BY <1>6, <2>0 DEF SlotState
  <2>2. slot' = [b \in Agent |-> slot'[b]]
    <3>1. slot = [b \in Agent |-> slot[b]]
      BY DEF TypeOK, AgentTypes
    <3> QED BY <3>1 DEF ReceiveStart
  <2>3. \A b \in Agent : slot'[b] \in SlotState
    BY <1>8, <2>1 DEF TypeOK, AgentTypes
  <2> QED BY <2>2, <2>3
<1>15. /\ p \in {"fired", "running"} => mine \/ slot[a].phase \in {"fired", "running"}
       /\ l => mine \/ slot[a].latched
       /\ mine \/ (p = slot[a].phase /\ l = slot[a].latched)
  <2>1. slot[a].latched \in BOOLEAN
    BY AgentPoint
  <2>2. p \in {"fired", "running"} => mine \/ slot[a].phase \in {"fired", "running"}
    BY <1>6
  <2>3. l => mine \/ slot[a].latched
    BY <1>6, <2>1
  <2>4. mine \/ (p = slot[a].phase /\ l = slot[a].latched)
    BY <1>6, <2>1
  <2> QED BY <2>2, <2>3, <2>4
<1>16. mine => slot[a].phase # "idle" /\ p # "idle"
  <2>1. slot[a].phase = "idle" => slot[a].run = NoRun
    BY DEF FormInv, AgentForm, Idle
  <2> QED BY <1>4, <1>6, <2>1
<1>9. AgentTypes'
  BY <1>2, <1>4, <1>7 DEF TypeOK, AgentTypes
<1>10. AgentForm(a)'
  <2>1. AgentForm(a) /\ slot[a].run \in Run \cup {NoRun}
    BY AgentPoint DEF FormInv
  <2>2. CASE mine
    BY <1>2, <1>4, <1>8, <1>16, <2>1, <2>2 DEF AgentForm
  <2>3. CASE ~ mine
    <3>1. slot'[a] = slot[a]
      BY <1>6, <1>15, <2>3, AgentPoint
    <3> QED BY <1>2, <2>1, <3>1 DEF AgentForm
  <2> QED BY <2>2, <2>3
<1>11. AgentEngine(a)'
  <2>1. AgentEngine(a)
    BY DEF EngineInv
  <2>2. slot'[a].latched \/ slot'[a].phase \in {"fired", "running"} => slot'[a].run \in started
    BY <1>5, <1>8, <1>15, <2>1 DEF AgentEngine
  <2> QED BY <1>2, <1>3, <1>4, <2>1, <2>2 DEF AgentEngine
<1>12. AgentAssigned(a)' /\ AgentProcess(a)'
  BY <1>2, <1>3, <1>4, <1>8 DEF AssignedInv, AgentAssigned, ProcessInv, AgentProcess
<1>13. AgentOnce(a)'
  <2>1. AgentOnce(a)
    BY DEF OnceInv
  <2>2. \A s \in Run : LetGo(a, s)' => LetGo(a, s) \/ s = r
    BY <1>8, <1>15 DEF LetGo
  <2>3. \A s \in Run : Ended(a, s)' <=> Ended(a, s)
    BY <1>2, <1>3 DEF Ended
  <2>4. DownMsg("assignment", r) \notin Msgs(down'[a])
    BY <1>4 DEF DownMsg
  <2> QED BY <1>2, <1>3, <1>4, <1>8, <2>1, <2>2, <2>3, <2>4 DEF AgentOnce
<1>14. \A s \in Run : Gone(a, s) => Gone(a, s)'
  BY <1>2, <1>3, <1>4, <1>8 DEF Gone
<1> QED
  BY <1>2, <1>4, <1>8, <1>9, <1>10, <1>11, <1>12, <1>13, <1>14, AgentLocal

\* A stop frees a slot whose engine has not been let go, and a command is
\* acknowledged.
LEMMA ReceiveStopPreserves ==
  ASSUME RunInv, NEW a \in Agent, NEW kind \in {"stop", "command"}, ReceiveStop(a, kind)
  PROVE  RunInv'
<1> USE DEF RunInv
<1> DEFINE r == Head(down[a]).run
           mine == slot[a].run = r
           m == UpMsg("ack", r, IF mine THEN "ok" ELSE "err")
<1>1. Reads(a, kind)
  BY DEF ReceiveStop
<1>2. UNCHANGED <<alive, incarnation, link, resume>> /\ ControllerIdle
  BY DEF ReceiveStop, ControllerIdle
<1>3. UNCHANGED <<known, todo, senders, session, started, assigned, done>>
  BY <1>2 DEF ControllerIdle, entryVars, runVars, optVars, taskVars
<1>4. /\ r \in Run /\ Head(down[a]) \in Msgs(down[a]) /\ r # NoRun
      /\ down' \in [Agent -> Seq(Down)] /\ Msgs(down'[a]) \subseteq Msgs(down[a])
      /\ Ordered(down'[a]) /\ \A b \in Agent : b # a => down'[b] = down[b]
      /\ link[a] = "on" /\ a \in alive /\ known[a] = incarnation[a]
  BY <1>1, ReadsEffect, RunAssumption
<1>5. a \in assigned[r]
  BY <1>4 DEF AssignedInv, AgentAssigned
<1>6. /\ slot' \in [Agent -> SlotState] /\ slot'[a] \in {slot[a], Idle}
      /\ \A b \in Agent : b # a => slot'[b] = slot[b]
  <2>1. Idle \in SlotState
    BY DEF Idle, SlotState
  <2> QED BY <2>1 DEF ReceiveStop, TypeOK, AgentTypes
<1>7. /\ prep' \in [Agent -> SUBSET PrepTask]
      /\ \A t \in prep'[a] : t \in prep[a] \/ (t.run = r /\ mine)
      /\ \A b \in Agent : b # a => prep'[b] = prep[b]
  <2>1. [run |-> r, cancel |-> TRUE] \in PrepTask /\ [run |-> r, cancel |-> TRUE].run = r
    BY <1>4 DEF PrepTask
  <2>2. prep \in [Agent -> SUBSET PrepTask]
    BY DEF TypeOK, AgentTypes
  <2>3. CASE mine /\ slot[a].phase = "preparing"
    <3>1. prep' = [prep EXCEPT ![a] = {t \in prep[a] : t.run # r}
                                       \cup {[run |-> r, cancel |-> TRUE]}]
      BY <2>3 DEF ReceiveStop
    <3> QED BY <2>1, <2>2, <2>3, <3>1
  <2>4. CASE ~ (mine /\ slot[a].phase = "preparing")
    BY <2>2, <2>4 DEF ReceiveStop
  <2> QED BY <2>3, <2>4
<1>8. m \in Up /\ m.kind = "ack" /\ m.run = r
  BY <1>4 DEF Up, UpMsg
<1>9. /\ up' \in [Agent -> Seq(Up)] /\ Single(up'[a])
      /\ Msgs(up'[a]) \subseteq Msgs(up[a]) \cup {m}
      /\ \A b \in Agent : b # a => up'[b] = up[b]
  <2>1. CASE kind = "command"
    <3>1. up' = [up EXCEPT ![a] = Append(@, m)]
      BY <2>1 DEF ReceiveStop
    <3> QED BY <1>8, <3>1, QueuesEffect
  <2>2. CASE kind # "command"
    BY <2>2 DEF ReceiveStop, TypeOK, AgentTypes, OnceInv, AgentOnce
  <2> QED BY <2>1, <2>2
<1>10. AgentTypes'
  BY <1>2, <1>4, <1>6, <1>7, <1>9 DEF TypeOK, AgentTypes
<1>11. /\ Idle.phase = "idle" /\ Idle.run = NoRun /\ Idle.latched = FALSE
  BY DEF Idle
<1>12. AgentForm(a)'
  BY <1>6, <1>8, <1>9, <1>11 DEF FormInv, AgentForm
<1>13. AgentEngine(a)'
  BY <1>3, <1>4, <1>6, <1>8, <1>9, <1>11 DEF EngineInv, AgentEngine
<1>14. AgentAssigned(a)'
  BY <1>2, <1>3, <1>4, <1>5, <1>6, <1>7, <1>8, <1>9, <1>11 DEF AssignedInv, AgentAssigned
<1>15. AgentProcess(a)'
  BY <1>2, <1>3, <1>4 DEF ProcessInv, AgentProcess
<1>16. AgentOnce(a)'
  BY <1>3, <1>4, <1>6, <1>8, <1>9, <1>11, RunAssumption
     DEF OnceInv, AgentOnce, LetGo, Ended
<1>17. \A s \in Run : Gone(a, s) => Gone(a, s)'
  BY <1>2, <1>3, <1>4, <1>6, <1>7, <1>8, <1>9, <1>11, RunAssumption DEF Gone
<1> QED
  BY <1>2, <1>4, <1>6, <1>7, <1>9, <1>10, <1>12, <1>13, <1>14, <1>15, <1>16, <1>17,
     AgentLocal

\* A slot in use, or a preparation task, belongs to the registered process.
LEMMA InUse ==
  ASSUME RunInv, NEW a \in Agent, slot[a].phase # "idle" \/ prep[a] # {}
  PROVE  a \in alive /\ known[a] = incarnation[a]
<1>1. Idle.phase = "idle"
  BY DEF Idle
<1> QED BY <1>1 DEF RunInv, ProcessInv, AgentProcess

\* A slot changes its phase only.
LEMMA SlotPhase ==
  ASSUME TypeOK, NEW a \in Agent,
         NEW p \in {"idle", "preparing", "armed", "fired", "running"},
         slot' = [slot EXCEPT ![a].phase = p]
  PROVE  /\ slot' \in [Agent -> SlotState]
         /\ slot'[a].phase = p /\ slot'[a].run = slot[a].run
         /\ slot'[a].latched = slot[a].latched
         /\ \A b \in Agent : b # a => slot'[b] = slot[b]
<1>1. slot \in [Agent -> SlotState] /\ slot[a] \in SlotState
  BY DEF TypeOK, AgentTypes
<1>2. /\ [slot[a] EXCEPT !.phase = p] \in SlotState
      /\ [slot[a] EXCEPT !.phase = p].phase = p
      /\ [slot[a] EXCEPT !.phase = p].run = slot[a].run
      /\ [slot[a] EXCEPT !.phase = p].latched = slot[a].latched
  BY <1>1 DEF SlotState
<1>3. slot' = [slot EXCEPT ![a] = [slot[a] EXCEPT !.phase = p]]
  OBVIOUS
<1> QED BY <1>1, <1>2, <1>3

\* Preparation ends: the slot is armed, or fired when Start was latched.
LEMMA PrepareDonePreserves ==
  ASSUME RunInv, NEW a \in Agent, NEW t \in prep[a], PrepareDone(a, t)
  PROVE  RunInv'
<1> USE DEF RunInv
<1> DEFINE m == UpMsg("ready", t.run, "ok")
           p == IF slot[a].latched THEN "fired" ELSE "armed"
           owns == slot[a].phase = "preparing" /\ slot[a].run = t.run
<1>1. UNCHANGED <<alive, incarnation, link, resume, down>> /\ ControllerIdle
  BY DEF PrepareDone, ControllerIdle
<1>2. UNCHANGED <<known, todo, senders, session, started, assigned, done>>
  BY <1>1 DEF ControllerIdle, entryVars, runVars, optVars, taskVars
<1>3. a \in alive /\ known[a] = incarnation[a]
  BY InUse
<1>4. t \in PrepTask /\ t.run \in Run /\ t.run # NoRun
  BY AgentPoint, RunAssumption DEF PrepTask
<1>5. /\ prep' \in [Agent -> SUBSET PrepTask] /\ prep'[a] \subseteq prep[a]
      /\ \A b \in Agent : b # a => prep'[b] = prep[b]
  BY DEF PrepareDone, TypeOK, AgentTypes
<1>6. a \in assigned[t.run]
  BY DEF AssignedInv, AgentAssigned
<1>7. Idle \in SlotState /\ Idle.phase = "idle" /\ Idle.run = NoRun /\ Idle.latched = FALSE
  BY DEF Idle, SlotState
<1>8. CASE UNCHANGED up /\ (UNCHANGED slot \/ slot' = [slot EXCEPT ![a] = Idle])
  <2>1. /\ slot' \in [Agent -> SlotState] /\ slot'[a] \in {slot[a], Idle}
        /\ \A b \in Agent : b # a => slot'[b] = slot[b]
    BY <1>7, <1>8 DEF TypeOK, AgentTypes
  <2>2. AgentTypes'
    BY <1>1, <1>5, <1>8, <2>1 DEF TypeOK, AgentTypes
  <2>3. AgentForm(a)' /\ AgentEngine(a)' /\ AgentAssigned(a)'
    BY <1>1, <1>2, <1>5, <1>7, <1>8, <2>1
       DEF FormInv, AgentForm, EngineInv, AgentEngine, AssignedInv, AgentAssigned
  <2>4. AgentProcess(a)'
    BY <1>1, <1>2, <1>3 DEF ProcessInv, AgentProcess
  <2>5. AgentOnce(a)' /\ \A s \in Run : Gone(a, s) => Gone(a, s)'
    BY <1>1, <1>2, <1>5, <1>7, <1>8, <2>1, RunAssumption
       DEF OnceInv, AgentOnce, LetGo, Ended, Gone
  <2> QED BY <1>1, <1>5, <1>8, <2>1, <2>2, <2>3, <2>4, <2>5, AgentLocal
<1>9. CASE /\ owns /\ slot' = [slot EXCEPT ![a].phase = p]
           /\ up' = [up EXCEPT ![a] = Append(@, m)]
  <2>1. m \in Up /\ m.kind = "ready" /\ m.run = t.run
    BY <1>4 DEF Up, UpMsg
  <2>2. /\ up' \in [Agent -> Seq(Up)] /\ Single(up'[a])
        /\ Msgs(up'[a]) = Msgs(up[a]) \cup {m}
        /\ \A b \in Agent : b # a => up'[b] = up[b]
    BY <1>9, <2>1, QueuesEffect
  <2>3. slot[a].latched \in BOOLEAN /\ slot[a].run \in Run \cup {NoRun}
    BY AgentPoint
  <2>6. /\ slot' \in [Agent -> SlotState]
        /\ slot'[a].phase = p /\ slot'[a].run = t.run /\ slot'[a].latched = slot[a].latched
        /\ \A b \in Agent : b # a => slot'[b] = slot[b]
    BY <1>9, SlotPhase
  <2>7. AgentTypes'
    BY <1>1, <1>5, <2>2, <2>6 DEF TypeOK, AgentTypes
  <2>8. AgentForm(a)'
    BY <1>4, <2>1, <2>2, <2>6 DEF FormInv, AgentForm
  <2>9. AgentEngine(a)'
    BY <1>1, <1>2, <1>9, <2>1, <2>2, <2>3, <2>6 DEF EngineInv, AgentEngine
  <2>10. AgentAssigned(a)'
    BY <1>1, <1>2, <1>5, <1>6, <2>1, <2>2, <2>6 DEF AssignedInv, AgentAssigned
  <2>11. AgentProcess(a)'
    BY <1>1, <1>2, <1>3 DEF ProcessInv, AgentProcess
  <2>12. \A s \in Run : (LetGo(a, s)' => LetGo(a, s)) /\ (Ended(a, s)' <=> Ended(a, s))
    BY <1>2, <1>9, <2>1, <2>2, <2>3, <2>6 DEF LetGo, Ended
  <2>13. AgentOnce(a)'
    BY <1>1, <1>2, <1>9, <2>1, <2>2, <2>6, <2>12 DEF OnceInv, AgentOnce
  <2>14. \A s \in Run : Gone(a, s) => Gone(a, s)'
    BY <1>1, <1>2, <1>5, <1>9, <2>1, <2>2, <2>6 DEF Gone
  <2> QED
    BY <1>1, <1>5, <2>2, <2>6, <2>7, <2>8, <2>9, <2>10, <2>11, <2>13, <2>14, AgentLocal
<1> QED BY <1>8, <1>9 DEF PrepareDone

\* Preparation fails: the slot is freed and the failure reported.
LEMMA PrepareFailsPreserves ==
  ASSUME RunInv, NEW a \in Agent, NEW t \in prep[a], PrepareFails(a, t)
  PROVE  RunInv'
<1> USE DEF RunInv
<1> DEFINE m == UpMsg("prep_failed", t.run, "err")
<1>1. UNCHANGED <<alive, incarnation, link, resume, down>> /\ ControllerIdle
  BY DEF PrepareFails, ControllerIdle
<1>2. UNCHANGED <<known, todo, senders, session, started, assigned, done>>
  BY <1>1 DEF ControllerIdle, entryVars, runVars, optVars, taskVars
<1>3. a \in alive /\ known[a] = incarnation[a]
  BY InUse
<1>4. t.run \in Run /\ a \in assigned[t.run]
  <2>1. t \in PrepTask
    BY AgentPoint
  <2> QED BY <2>1 DEF PrepTask, AssignedInv, AgentAssigned
<1>5. /\ prep' \in [Agent -> SUBSET PrepTask] /\ prep'[a] \subseteq prep[a]
      /\ \A b \in Agent : b # a => prep'[b] = prep[b]
  BY DEF PrepareFails, TypeOK, AgentTypes
<1>6. Idle \in SlotState /\ Idle.phase = "idle" /\ Idle.run = NoRun /\ Idle.latched = FALSE
  BY DEF Idle, SlotState
<1>7. /\ slot' \in [Agent -> SlotState] /\ slot'[a] \in {slot[a], Idle}
      /\ \A b \in Agent : b # a => slot'[b] = slot[b]
  BY <1>6 DEF PrepareFails, TypeOK, AgentTypes
<1>8. m \in Up /\ m.kind = "prep_failed" /\ m.run = t.run
  BY <1>4 DEF Up, UpMsg
<1>9. /\ up' \in [Agent -> Seq(Up)] /\ Single(up'[a])
      /\ Msgs(up'[a]) \subseteq Msgs(up[a]) \cup {m}
      /\ \A b \in Agent : b # a => up'[b] = up[b]
  <2>1. CASE t.cancel
    BY <2>1 DEF PrepareFails, TypeOK, AgentTypes, OnceInv, AgentOnce
  <2>2. CASE ~ t.cancel
    <3>1. up' = [up EXCEPT ![a] = Append(@, m)]
      BY <2>2 DEF PrepareFails
    <3> QED BY <1>8, <3>1, QueuesEffect
  <2> QED BY <2>1, <2>2
<1>10. AgentTypes'
  BY <1>1, <1>5, <1>7, <1>9 DEF TypeOK, AgentTypes
<1>11. AgentForm(a)' /\ AgentEngine(a)'
  BY <1>1, <1>2, <1>6, <1>7, <1>8, <1>9 DEF FormInv, AgentForm, EngineInv, AgentEngine
<1>12. AgentAssigned(a)'
  BY <1>1, <1>2, <1>4, <1>5, <1>6, <1>7, <1>8, <1>9 DEF AssignedInv, AgentAssigned
<1>13. AgentProcess(a)'
  BY <1>1, <1>2, <1>3 DEF ProcessInv, AgentProcess
<1>14. AgentOnce(a)'
  BY <1>1, <1>2, <1>6, <1>7, <1>8, <1>9, RunAssumption DEF OnceInv, AgentOnce, LetGo, Ended
<1>15. \A s \in Run : Gone(a, s) => Gone(a, s)'
  BY <1>1, <1>2, <1>5, <1>6, <1>7, <1>8, <1>9, RunAssumption DEF Gone
<1> QED
  BY <1>1, <1>5, <1>7, <1>9, <1>10, <1>11, <1>12, <1>13, <1>14, <1>15, AgentLocal

\* An engine that has been let go reports its start.
LEMMA EngineStartsPreserves ==
  ASSUME RunInv, NEW a \in Agent, EngineStarts(a)
  PROVE  RunInv'
<1> USE DEF RunInv
<1> DEFINE m == UpMsg("started", slot[a].run, "ok")
<1>1. UNCHANGED <<alive, incarnation, link, resume, prep, down>> /\ ControllerIdle
  BY DEF EngineStarts, ControllerIdle
<1>2. UNCHANGED <<known, todo, senders, session, started, assigned, done>>
  BY <1>1 DEF ControllerIdle, entryVars, runVars, optVars, taskVars
<1>3. slot[a].phase = "fired" /\ a \in alive /\ known[a] = incarnation[a]
  BY InUse DEF EngineStarts
<1>4. /\ slot[a].run \in Run /\ slot[a].run \in started /\ slot[a].run # NoRun
      /\ a \in assigned[slot[a].run]
  BY <1>3, RunAssumption
     DEF FormInv, AgentForm, EngineInv, AgentEngine, AssignedInv, AgentAssigned
<1>5. m \in Up /\ m.kind = "started" /\ m.run = slot[a].run
  BY <1>4 DEF Up, UpMsg
<1>6. /\ up' \in [Agent -> Seq(Up)] /\ Single(up'[a])
      /\ Msgs(up'[a]) = Msgs(up[a]) \cup {m}
      /\ \A b \in Agent : b # a => up'[b] = up[b]
  BY <1>5, QueuesEffect DEF EngineStarts
<1>7. /\ slot' \in [Agent -> SlotState]
      /\ slot'[a].phase = "running" /\ slot'[a].run = slot[a].run
      /\ slot'[a].latched = slot[a].latched
      /\ \A b \in Agent : b # a => slot'[b] = slot[b]
  BY SlotPhase DEF EngineStarts
<1>8. AgentTypes'
  BY <1>1, <1>6, <1>7 DEF TypeOK, AgentTypes
<1>9. AgentForm(a)' /\ AgentEngine(a)' /\ AgentAssigned(a)'
  BY <1>1, <1>2, <1>4, <1>5, <1>6, <1>7
     DEF FormInv, AgentForm, EngineInv, AgentEngine, AssignedInv, AgentAssigned
<1>10. AgentProcess(a)'
  BY <1>1, <1>2, <1>3 DEF ProcessInv, AgentProcess
<1>11. AgentOnce(a)'
  BY <1>1, <1>2, <1>3, <1>5, <1>6, <1>7 DEF OnceInv, AgentOnce, LetGo, Ended
<1>12. \A s \in Run : Gone(a, s) => Gone(a, s)'
  BY <1>1, <1>2, <1>5, <1>6, <1>7 DEF Gone
<1> QED
  BY <1>1, <1>6, <1>7, <1>8, <1>9, <1>10, <1>11, <1>12, AgentLocal

\* A running engine sends a batch.
LEMMA EngineReportsPreserves ==
  ASSUME RunInv, NEW a \in Agent, EngineReports(a)
  PROVE  RunInv'
<1> USE DEF RunInv
<1> DEFINE m == UpMsg("metrics", slot[a].run, "ok")
<1>1. UNCHANGED <<alive, incarnation, link, resume, slot, prep, down>> /\ ControllerIdle
  BY DEF EngineReports, ControllerIdle, agentVars
<1>2. UNCHANGED <<known, todo, senders, session, started, assigned, done>>
  BY <1>1 DEF ControllerIdle, entryVars, runVars, optVars, taskVars
<1>3. slot[a].phase = "running"
  BY DEF EngineReports
<1>4. /\ slot[a].run \in Run /\ slot[a].run \in started /\ a \in assigned[slot[a].run]
  BY <1>3, RunAssumption
     DEF FormInv, AgentForm, EngineInv, AgentEngine, AssignedInv, AgentAssigned
<1>5. m \in Up /\ m.kind = "metrics" /\ m.run = slot[a].run
  BY <1>4 DEF Up, UpMsg
<1>6. /\ up' \in [Agent -> Seq(Up)] /\ Single(up'[a])
      /\ Msgs(up'[a]) = Msgs(up[a]) \cup {m}
      /\ \A b \in Agent : b # a => up'[b] = up[b]
  BY <1>5, QueuesEffect DEF EngineReports
<1>7. AgentTypes'
  BY <1>1, <1>6 DEF TypeOK, AgentTypes
<1>8. AgentForm(a)' /\ AgentEngine(a)' /\ AgentAssigned(a)' /\ AgentProcess(a)'
  BY <1>1, <1>2, <1>4, <1>5, <1>6
     DEF FormInv, AgentForm, EngineInv, AgentEngine, AssignedInv, AgentAssigned, ProcessInv,
         AgentProcess
<1>9. AgentOnce(a)' /\ \A s \in Run : Gone(a, s) => Gone(a, s)'
  BY <1>1, <1>2, <1>5, <1>6 DEF OnceInv, AgentOnce, LetGo, Ended, Gone
<1> QED BY <1>1, <1>6, <1>7, <1>8, <1>9, AgentLocal

\* An engine ends once: no other end of the run is known or on its way.
LEMMA EngineEndsPreserves ==
  ASSUME RunInv, NEW a \in Agent, EngineEnds(a)
  PROVE  RunInv'
<1> USE DEF RunInv
<1>1. PICK k \in EndKinds :
        up' = [up EXCEPT ![a] = Append(@, UpMsg("ended", slot[a].run, k))]
  BY DEF EngineEnds
<1> DEFINE r == slot[a].run
           m == UpMsg("ended", r, k)
<1>2. UNCHANGED <<alive, incarnation, link, resume, prep, down>> /\ ControllerIdle
  BY DEF EngineEnds, ControllerIdle
<1>3. UNCHANGED <<known, todo, senders, session, started, assigned, done>>
  BY <1>2 DEF ControllerIdle, entryVars, runVars, optVars, taskVars
<1>4. slot[a].phase = "running" /\ a \in alive /\ known[a] = incarnation[a]
  BY InUse DEF EngineEnds
<1>5. r \in Run /\ r \in started /\ r # NoRun /\ a \in assigned[r]
  BY <1>4, RunAssumption
     DEF FormInv, AgentForm, EngineInv, AgentEngine, AssignedInv, AgentAssigned
<1>6. m \in Up /\ m.kind = "ended" /\ m.run = r /\ m.how \in Terminal
  BY <1>5, EndAssumption DEF Up, UpMsg, Terminal
<1>7. LetGo(a, r) /\ ~ Ended(a, r)
  BY <1>4, <1>5 DEF LetGo, OnceInv, AgentOnce
<1>8. /\ up' \in [Agent -> Seq(Up)] /\ Single(up'[a])
      /\ Msgs(up'[a]) = Msgs(up[a]) \cup {m}
      /\ \A b \in Agent : b # a => up'[b] = up[b]
  BY <1>1, <1>6, <1>7, QueuesEffect
<1>9. Idle \in SlotState /\ Idle.phase = "idle" /\ Idle.run = NoRun /\ Idle.latched = FALSE
  BY DEF Idle, SlotState
<1>10. /\ slot' \in [Agent -> SlotState] /\ slot'[a] = Idle
       /\ \A b \in Agent : b # a => slot'[b] = slot[b]
  BY <1>9 DEF EngineEnds, TypeOK, AgentTypes
<1>11. AgentTypes'
  BY <1>2, <1>8, <1>10 DEF TypeOK, AgentTypes
<1>12. AgentForm(a)' /\ AgentEngine(a)' /\ AgentAssigned(a)'
  BY <1>2, <1>3, <1>5, <1>6, <1>8, <1>9, <1>10
     DEF FormInv, AgentForm, EngineInv, AgentEngine, AssignedInv, AgentAssigned
<1>13. AgentProcess(a)'
  BY <1>2, <1>3, <1>4 DEF ProcessInv, AgentProcess
<1>14. AgentOnce(a)'
  <2>1. AgentOnce(a)
    BY DEF OnceInv
  <2>2. \A s \in Run : ~ LetGo(a, s)' /\ (Ended(a, s)' => Ended(a, s) \/ s = r)
    BY <1>3, <1>6, <1>8, <1>9, <1>10 DEF LetGo, Ended
  <2>3. DownMsg("assignment", r) \notin Msgs(down[a]) /\ done[r][a] = "none"
    BY <1>5, <1>7, <2>1 DEF AgentOnce, Ended
  <2> QED
    BY <1>2, <1>3, <1>6, <1>8, <1>9, <1>10, <2>1, <2>2, <2>3, RunAssumption DEF AgentOnce
<1>15. \A s \in Run : Gone(a, s) => Gone(a, s)'
  BY <1>2, <1>3, <1>6, <1>8, <1>9, <1>10, RunAssumption DEF Gone
<1> QED
  BY <1>2, <1>8, <1>10, <1>11, <1>12, <1>13, <1>14, <1>15, AgentLocal

\* Every step of an agent.
LEMMA AgentStepPreserves ==
  ASSUME RunInv, NEW a \in Agent, AgentStep(a)
  PROVE  RunInv'
BY DiePreserves, RelaunchPreserves, DisconnectPreserves, ConnectPreserves,
   ReceiveAssignmentPreserves, ReceiveStartPreserves, ReceiveStopPreserves,
   PrepareDonePreserves, PrepareFailsPreserves, EngineStartsPreserves,
   EngineReportsPreserves, EngineEndsPreserves DEF AgentStep

-----------------------------------------------------------------------------
(***************************************************************************)
(* The controller's steps: what they leave alone.                          *)
(***************************************************************************)

\* The messages a step puts on an agent's downlink.
NewDown(a) == Msgs(down'[a]) \ Msgs(down[a])

\* A step of the controller leaves the agents alone, takes uplink messages from
\* the front, and sends to agents with a stream.
ControllerStep ==
  /\ UNCHANGED agentVars /\ UNCHANGED <<known, session>>
  /\ up' \in [Agent -> Seq(Up)] /\ down' \in [Agent -> Seq(Down)]
  /\ \A a \in Agent :
       /\ Msgs(up'[a]) \subseteq Msgs(up[a]) /\ Single(up'[a])
       /\ Ordered(down'[a]) /\ (link[a] # "on" => down'[a] = down[a])

\* Sending to the senders in S.
LEMMA SendEffect ==
  ASSUME RunInv, NEW S, NEW m \in Down, Send(S, m),
         m.kind = "assignment" =>
           \A s \in S : s.agent \in Agent => \A n \in Msgs(down[s.agent]) :
             n.kind = "start" => n.run # m.run
  PROVE  /\ down' \in [Agent -> Seq(Down)]
         /\ \A a \in Agent :
              /\ Ordered(down'[a]) /\ (link[a] # "on" => down'[a] = down[a])
              /\ \A n \in NewDown(a) :
                   n = m /\ \E s \in S : s.agent = a /\ s.session = session[a]
<1> USE DEF RunInv
<1>1. \A a \in Agent : down[a] \in Seq(Down) /\ Ordered(down[a])
  BY AgentPoint DEF OnceInv, AgentOnce
<1>2. \A a \in Agent : /\ Append(down[a], m) \in Seq(Down)
                       /\ Msgs(Append(down[a], m)) = Msgs(down[a]) \cup {m}
  BY <1>1, MsgsAppend
<1>3. \A a \in Agent :
        \/ down'[a] = down[a]
        \/ /\ down'[a] = Append(down[a], m) /\ link[a] = "on"
           /\ \E s \in S : s.agent = a /\ s.session = session[a]
  BY DEF Send, Reaches
<1>4. down' \in [Agent -> Seq(Down)]
  BY <1>1, <1>2 DEF Send
<1>5. SUFFICES ASSUME NEW a \in Agent
               PROVE  /\ Ordered(down'[a]) /\ (link[a] # "on" => down'[a] = down[a])
                      /\ \A n \in NewDown(a) :
                           n = m /\ \E s \in S : s.agent = a /\ s.session = session[a]
  BY <1>4
<1>6. CASE down'[a] = down[a]
  BY <1>1, <1>6 DEF NewDown
<1>7. CASE /\ down'[a] = Append(down[a], m) /\ link[a] = "on"
           /\ \E s \in S : s.agent = a /\ s.session = session[a]
  <2>1. Ordered(Append(down[a], m))
    BY <1>1, <1>7, OrderAppend
  <2> QED BY <1>2, <1>7, <2>1 DEF NewDown
<1> QED BY <1>3, <1>6, <1>7

\* Applying an uplink message.
LEMMA AppliesEffect ==
  ASSUME RunInv, NEW a \in Agent, NEW kind, Applies(a, kind)
  PROVE  /\ up' \in [Agent -> Seq(Up)]
         /\ \A b \in Agent : Msgs(up'[b]) \subseteq Msgs(up[b]) /\ Single(up'[b])
         /\ Head(up[a]) \in Msgs(up[a]) /\ Head(up[a]).kind = kind
         /\ Head(up[a]).run \in Run /\ a \in assigned[Head(up[a]).run]
         /\ kind \in {"started", "metrics", "ended"} => Head(up[a]).run \in started
         /\ kind = "ended" => /\ Head(up[a]).how \in Terminal
                              /\ \A m \in Msgs(up'[a]) :
                                   m.kind = "ended" => m.run # Head(up[a]).run
         /\ a \in connected /\ todo[a] = NoTodo
<1> USE DEF RunInv
<1>1. /\ up[a] \in Seq(Up) /\ up[a] # <<>> /\ Head(up[a]).kind = kind /\ Single(up[a])
      /\ a \in connected /\ todo[a] = NoTodo
  BY AgentPoint DEF Applies, OnceInv, AgentOnce
<1>2. /\ Tail(up[a]) \in Seq(Up) /\ Head(up[a]) \in Up /\ Head(up[a]) \in Msgs(up[a])
      /\ Msgs(Tail(up[a])) \subseteq Msgs(up[a])
  BY <1>1, MsgsTail
<1>3. /\ Single(Tail(up[a]))
      /\ kind = "ended" => \A m \in Msgs(Tail(up[a])) :
                             m.kind = "ended" => m.run # Head(up[a]).run
  BY <1>1, OrderTail
<1>4. /\ up' \in [Agent -> Seq(Up)] /\ up'[a] = Tail(up[a])
      /\ \A b \in Agent : b # a => up'[b] = up[b]
  BY <1>2 DEF Applies, TypeOK, AgentTypes
<1>5. \A b \in Agent : Single(up[b])
  BY DEF OnceInv, AgentOnce
<1>6. Head(up[a]).run \in Run
  BY <1>2 DEF Up
<1>7. /\ a \in assigned[Head(up[a]).run]
      /\ kind \in {"started", "metrics", "ended"} => Head(up[a]).run \in started
      /\ kind = "ended" => Head(up[a]).how \in Terminal
  BY <1>1, <1>2 DEF AssignedInv, AgentAssigned, EngineInv, AgentEngine, FormInv, AgentForm
<1> QED BY <1>1, <1>2, <1>3, <1>4, <1>5, <1>6, <1>7

\* What the invariant says of the agents survives a step of the controller.
LEMMA AgentsKeep ==
  ASSUME RunInv, ControllerStep, started \subseteq started',
         \A r \in Run : assigned[r] \subseteq assigned'[r],
         \A a \in Agent : \A m \in NewDown(a) :
           /\ a \in assigned[m.run] /\ m.run \in Run
           /\ m.kind = "start" => m.run \in started'
  PROVE  /\ AgentTypes' /\ \A a \in Agent : AgentForm(a)' /\ AgentAssigned(a)'
         /\ EngineInv' /\ ProcessInv'
<1> USE DEF RunInv
<1>1. UNCHANGED <<alive, incarnation, link, resume, slot, prep, known>>
  BY DEF ControllerStep, agentVars
<1>2. AgentTypes'
  BY <1>1 DEF ControllerStep, TypeOK, AgentTypes
<1>3. SUFFICES ASSUME NEW a \in Agent
               PROVE  AgentForm(a)' /\ AgentAssigned(a)' /\ AgentEngine(a)' /\ AgentProcess(a)'
  BY <1>2 DEF EngineInv, ProcessInv
<1>4. /\ Msgs(up'[a]) \subseteq Msgs(up[a])
      /\ \A m \in Msgs(down'[a]) : m \in Msgs(down[a]) \/ m \in NewDown(a)
      /\ link[a] # "on" => down'[a] = down[a]
  BY DEF ControllerStep, NewDown
<1>5. AgentForm(a)'
  BY <1>1, <1>4 DEF FormInv, AgentForm
<1>6. AgentEngine(a)'
  BY <1>1, <1>4 DEF EngineInv, AgentEngine
<1>7. AgentProcess(a)'
  BY <1>1, <1>4 DEF ProcessInv, AgentProcess
<1>8. AgentAssigned(a)'
  <2>1. /\ slot[a].run \in Run \cup {NoRun} /\ resume[a] \in Run \cup {NoRun}
        /\ \A t \in prep[a] : t.run \in Run
        /\ \A m \in Msgs(down[a]) : m.run \in Run
        /\ \A m \in Msgs(up[a]) : m.run \in Run
    BY AgentPoint DEF PrepTask, Down, Up
  <2> QED BY <1>1, <1>4, <2>1 DEF AssignedInv, AgentAssigned
<1> QED BY <1>5, <1>6, <1>7, <1>8

\* An assignment is only sent again to an agent that is not ready, so never to
\* one whose engine was let go; and results come from ends on their way.
LEMMA OnceKeeps ==
  ASSUME RunInv, ControllerStep,
         \A a \in Agent, r \in Run : done'[r][a] # "none" =>
           /\ Ended(a, r)
           /\ done[r][a] # "none" \/ \A m \in Msgs(up'[a]) : m.kind = "ended" => m.run # r,
         \A a \in Agent : \A m \in NewDown(a) : m.kind = "assignment" =>
           m.run \notin started \/ a \notin ready[m.run]
  PROVE  OnceInv'
<1> USE DEF RunInv
<1>1. slot' = slot
  BY DEF ControllerStep, agentVars
<1>2. SUFFICES ASSUME NEW a \in Agent
               PROVE  AgentOnce(a)'
  BY DEF OnceInv
<1>3. Ordered(down'[a]) /\ Single(up'[a]) /\ Msgs(up'[a]) \subseteq Msgs(up[a])
  BY DEF ControllerStep
<1>4. SUFFICES ASSUME NEW r \in Run
               PROVE  /\ LetGo(a, r)' \/ Ended(a, r)' =>
                           DownMsg("assignment", r) \notin Msgs(down'[a])
                      /\ Ended(a, r)' => slot'[a].run # r
                      /\ done'[r][a] # "none" =>
                           \A m \in Msgs(up'[a]) : m.kind = "ended" => m.run # r
  BY <1>3 DEF AgentOnce
<1>5. AgentOnce(a)
  BY DEF OnceInv
<1>6. (LetGo(a, r)' => LetGo(a, r)) /\ (Ended(a, r)' => Ended(a, r))
  BY <1>1, <1>3 DEF LetGo, Ended
<1>7. LetGo(a, r) => r \in started /\ a \in assigned[r]
  BY RunAssumption DEF LetGo, EngineInv, AgentEngine, AssignedInv, AgentAssigned
<1>8. Ended(a, r) => r \in started /\ a \in assigned[r]
  BY DEF Ended, EngineInv, AgentEngine, AssignedInv, AgentAssigned, BarrierInv
<1>9. LetGo(a, r) \/ Ended(a, r) => r \in started /\ a \in ready[r]
  BY <1>7, <1>8 DEF BarrierInv
<1>10. LetGo(a, r) \/ Ended(a, r) => DownMsg("assignment", r) \notin Msgs(down'[a])
  <2>1. /\ DownMsg("assignment", r).kind = "assignment"
        /\ DownMsg("assignment", r).run = r
    BY DEF DownMsg
  <2> QED BY <1>5, <1>9, <2>1 DEF AgentOnce, NewDown
<1>11. Ended(a, r)' => slot'[a].run # r
  BY <1>1, <1>5, <1>6 DEF AgentOnce
<1>12. done'[r][a] # "none" => \A m \in Msgs(up'[a]) : m.kind = "ended" => m.run # r
  BY <1>3, <1>5 DEF AgentOnce
<1> QED BY <1>6, <1>10, <1>11, <1>12

\* An agent that is out of a run stays out of it.
LEMMA GoneKeeps ==
  ASSUME RunInv, ControllerStep, NEW a \in Agent, NEW r \in Run, Gone(a, r),
         senders'[r] \subseteq senders[r],
         todo'[a].kind \in {"resume", "replay"} => todo'[a] = todo[a],
         \A m \in NewDown(a) : m.kind = "assignment" => m.run # r
  PROVE  Gone(a, r)'
<1>1. UNCHANGED <<link, resume, slot, prep, session>>
  BY DEF ControllerStep, agentVars
<1>2. DownMsg("assignment", r) \notin Msgs(down'[a])
  BY DEF DownMsg, NewDown, Gone
<1>3. Msgs(up'[a]) \subseteq Msgs(up[a])
  BY DEF ControllerStep
<1> QED BY <1>1, <1>2, <1>3 DEF Gone

\* Only one task's work changes.
LEMMA TodoSet ==
  ASSUME TypeOK, NEW x \in Agent \cup {Sweeper}, NEW v \in TodoItem,
         todo' = [todo EXCEPT ![x] = v]
  PROVE  /\ todo' \in [Agent \cup {Sweeper} -> TodoItem] /\ todo'[x] = v
         /\ \A y \in Agent \cup {Sweeper} : y # x => todo'[y] = todo[y]
BY DEF TypeOK, EntryTypes

\* The work that can be set.
LEMMA TodoTyped ==
  /\ NoTodo \in TodoItem /\ NoTodo.kind = "none" /\ NoTodo.run = NoRun
  /\ \A r \in Run : \A k \in {"terminate", "replay", "resume", "loss"} :
       Todo(k, r) \in TodoItem /\ Todo(k, r).kind = k /\ Todo(k, r).run = r
  /\ \A r \in Run : \A v \in Terminal :
       LET t == [Todo("finalize", r) EXCEPT !.verdict = v]
       IN  t \in TodoItem /\ t.kind = "finalize" /\ t.run = r /\ t.verdict = v
BY DEF NoTodo, Todo, TodoItem

\* The reservations are in order after a step that neither makes nor releases
\* one, if the agents without theirs are still accounted for.
LEMMA ReservedKeeps ==
  ASSUME RunInv, ControllerStep, UNCHANGED <<active_run, assigned>>,
         \A r \in Run :
           /\ senders'[r] \subseteq senders[r]
           /\ state'[r] \notin Terminal => state[r] \notin Terminal
           /\ task[r] = "reserved" \/ state[r] \in Live =>
                task'[r] = "reserved" \/ state'[r] \in Live,
         \A a \in Agent :
           /\ todo'[a].kind \in {"resume", "replay", "terminate"} => todo'[a] = todo[a]
           /\ \A m \in NewDown(a) : m.kind = "assignment" => ~ Gone(a, m.run),
         \A r \in Run : \A a \in assigned[r] :
           state'[r] \notin Terminal /\ active_run[a] # r /\ Gone(a, r) =>
             /\ r \notin started' => \/ todo'[a] = Todo("terminate", r)
                                     \/ failure'[r] # "none" \/ a \notin ready'[r]
             /\ r \in started' => \/ todo'[a] = Todo("terminate", r)
                                  \/ done'[r][a] # "none" \/ a \in lost'[r],
         \A r \in Run : \A a \in lost'[r] :
           state'[r] \notin Terminal => a \in lost_ever'[r] \/ active_run[a] # r
  PROVE  ReservedInv'
<1> USE DEF RunInv
<1>1. \A r \in Run : assigned[r] \subseteq Agent
  BY DEF TypeOK, RunTypes
<1>2. \A a \in Agent : active_run[a] \in Run \cup {NoRun}
  BY AgentPoint
<1>3. ASSUME NEW r \in Run, state'[r] \notin Terminal, NEW a \in assigned[r], active_run[a] # r
      PROVE  Gone(a, r) /\ Gone(a, r)'
  <2>1. Gone(a, r)
    BY <1>3 DEF ReservedInv
  <2>2. \A m \in NewDown(a) : m.kind = "assignment" => m.run # r
    BY <1>1, <1>3, <2>1
  <2> QED BY <1>1, <1>3, <2>1, <2>2, GoneKeeps
<1>4. \A a \in Agent :
        /\ active_run'[a] # NoRun =>
             task'[active_run'[a]] = "reserved" \/ state'[active_run'[a]] \in Live
        /\ todo'[a].kind = "terminate" =>
             /\ todo'[a] = Todo("terminate", todo'[a].run)
             /\ active_run'[a] # todo'[a].run
  BY <1>2 DEF ReservedInv
<1> QED BY <1>3, <1>4 DEF ReservedInv

\* A step that decides nothing: no run, reservation, result or loss changes, and
\* no assignment goes out.
LEMMA SendKeeps ==
  ASSUME RunInv, ControllerStep,
         UNCHANGED <<active_run, todo, state, assigned, on_agent_loss, ready>>,
         UNCHANGED <<failure, started, done, lost, lost_ever, senders>>,
         connected' \subseteq Agent, TaskTypes', gauges' \in [Run -> SUBSET Agent],
         BarrierInv',
         \A r \in Run : /\ task'[r] = "reserved" <=> task[r] = "reserved"
                        /\ task'[r] = "none" => task[r] = "none"
                        /\ task'[r] = "failing" => verdict'[r] # "none",
         \A r \in Run : state[r] \in Live => \A a \in gauges'[r] :
           done[r][a] = "none" /\ (a \in lost[r] => active_run[a] # r),
         \A a \in Agent : \A m \in NewDown(a) :
           /\ m.kind # "assignment" /\ m.run \in Run /\ a \in assigned[m.run]
           /\ m.kind = "start" => m.run \in started
  PROVE  RunInv'
<1> USE DEF RunInv
<1>1. /\ AgentTypes' /\ \A a \in Agent : AgentForm(a)' /\ AgentAssigned(a)'
      /\ EngineInv' /\ ProcessInv'
  BY AgentsKeep
<1>2. known' = known /\ session' = session
  BY DEF ControllerStep
<1>3. TypeOK'
  BY <1>1, <1>2 DEF TypeOK, EntryTypes, RunTypes
<1>4. FormInv' /\ TodoInv' /\ EarnedInv' /\ LossInv'
  BY <1>1 DEF FormInv, TodoInv, EarnedInv, Earned, LossInv
<1>5. AssignedInv'
  BY <1>1, <1>2 DEF AssignedInv
<1>6. ReservedInv'
  <2>1. \A r \in Run : \A a \in assigned[r] :
          state[r] \notin Terminal /\ active_run[a] # r =>
             /\ r \notin started => \/ todo[a] = Todo("terminate", r)
                                    \/ failure[r] # "none" \/ a \notin ready[r]
             /\ r \in started => \/ todo[a] = Todo("terminate", r)
                                 \/ done[r][a] # "none" \/ a \in lost[r]
    BY DEF ReservedInv
  <2>2. \A r \in Run : \A a \in lost[r] :
          state[r] \notin Terminal => a \in lost_ever[r] \/ active_run[a] # r
    BY DEF ReservedInv
  <2> QED BY <2>1, <2>2, ReservedKeeps
<1>7. GaugesSettle'
  BY <1>3 DEF GaugesSettle
<1>8. OnceInv'
  BY OnceKeeps DEF OnceInv, AgentOnce, Ended, ControllerStep
<1> QED BY <1>1, <1>3, <1>4, <1>5, <1>6, <1>7, <1>8

\* Such a step that sends nothing.
LEMMA LightKeeps ==
  ASSUME RunInv, ControllerStep,
         UNCHANGED <<down, active_run, todo, state, assigned, on_agent_loss, ready>>,
         UNCHANGED <<failure, started, done, lost, lost_ever, senders, verdict>>,
         connected' \subseteq Agent, TaskTypes', gauges' \in [Run -> SUBSET Agent],
         BarrierInv',
         \A r \in Run : /\ task'[r] = "reserved" <=> task[r] = "reserved"
                        /\ task'[r] = "none" => task[r] = "none"
                        /\ task'[r] = "failing" => verdict[r] # "none",
         \A r \in Run : state[r] \in Live => \A a \in gauges'[r] :
           done[r][a] = "none" /\ (a \in lost[r] => active_run[a] # r)
  PROVE  RunInv'
<1>1. \A a \in Agent : NewDown(a) = {}
  BY DEF NewDown
<1> QED BY <1>1, SendKeeps

\* What the barrier's state says, when none of it changes.
LEMMA BarrierKeeps ==
  ASSUME BarrierInv, UNCHANGED <<task, state, started, assigned, ready, gauges, done, failure>>,
         \A r \in Run : control'[r] = "waiting" => control[r] = "waiting",
         \A r \in Run : lost'[r] \subseteq lost[r],
         unswept' \subseteq unswept
  PROVE  BarrierInv'
BY DEF BarrierInv

\* The three ways in which a step of the controller treats the channels.
LEMMA QuietStep ==
  ASSUME RunInv, UNCHANGED agentVars, UNCHANGED <<known, session, up, down>>
  PROVE  ControllerStep
BY AgentPoint DEF RunInv, ControllerStep, OnceInv, AgentOnce, TypeOK, AgentTypes

\* A message taken from an uplink: nothing new is on its way to an agent.
LEMMA AppliesStep ==
  ASSUME RunInv, UNCHANGED agentVars, UNCHANGED <<known, session, down>>,
         NEW a \in Agent, NEW kind, Applies(a, kind)
  PROVE  ControllerStep /\ \A b \in Agent : NewDown(b) = {}
<1>1. ControllerStep
  BY AppliesEffect, AgentPoint
     DEF RunInv, ControllerStep, OnceInv, AgentOnce, TypeOK, AgentTypes
<1> QED BY <1>1 DEF NewDown

\* A broadcast: only its message is new, and only on the session it was sent to.
LEMMA SendsStep ==
  ASSUME RunInv, UNCHANGED agentVars, UNCHANGED <<known, session, up>>,
         NEW S, NEW m \in Down, Send(S, m),
         m.kind = "assignment" =>
           \A s \in S : s.agent \in Agent => \A n \in Msgs(down[s.agent]) :
             n.kind = "start" => n.run # m.run
  PROVE  /\ ControllerStep
         /\ \A a \in Agent : \A n \in NewDown(a) :
              n = m /\ \E s \in S : s.agent = a /\ s.session = session[a]
<1>1. ControllerStep
  BY SendEffect, AgentPoint
     DEF RunInv, ControllerStep, OnceInv, AgentOnce, TypeOK, AgentTypes
<1> QED BY <1>1, SendEffect

-----------------------------------------------------------------------------
(***************************************************************************)
(* The controller's steps that decide nothing.                             *)
(***************************************************************************)

\* The session task sees its stream end.
LEMMA PumpEndsPreserves ==
  ASSUME RunInv, NEW a \in Agent, PumpEnds(a)
  PROVE  RunInv'
<1> USE DEF RunInv
<1>1. /\ UNCHANGED agentVars /\ UNCHANGED <<up, down, known, session, active_run, todo>>
      /\ UNCHANGED <<state, assigned, on_agent_loss, ready, failure, started>>
      /\ UNCHANGED <<done, lost, lost_ever, gauges, task, senders, verdict>>
      /\ UNCHANGED <<permit, control, expected, stale, unswept>>
      /\ connected' = connected \ {a}
  BY DEF PumpEnds, netVars, runVars, optVars, taskVars, cmdVars, sweepVars
<1>2. ControllerStep
  BY <1>1, QuietStep
<1>3. connected' \subseteq Agent /\ TaskTypes' /\ gauges \in [Run -> SUBSET Agent]
  BY <1>1 DEF TypeOK, EntryTypes, TaskTypes, RunTypes
<1>4. BarrierInv'
  BY <1>1, BarrierKeeps
<1>5. \A r \in Run : task[r] = "failing" => verdict[r] # "none"
  BY DEF FormInv
<1>6. \A r \in Run : state[r] \in Live => \A b \in gauges[r] :
        done[r][b] = "none" /\ (b \in lost[r] => active_run[b] # r)
  BY DEF GaugesSettle
<1> QED BY <1>1, <1>2, <1>3, <1>4, <1>5, <1>6, LightKeeps

\* The start of an engine finds the run started.
LEMMA ApplyStartedPreserves ==
  ASSUME RunInv, NEW a \in Agent, ApplyStarted(a)
  PROVE  RunInv'
<1> USE DEF RunInv
<1>1. /\ UNCHANGED agentVars /\ UNCHANGED <<down, known, session, active_run, todo, connected>>
      /\ UNCHANGED <<assigned, on_agent_loss, ready, failure, started>>
      /\ UNCHANGED <<done, lost, lost_ever, gauges, task, senders, verdict>>
      /\ UNCHANGED <<permit, control, expected, stale, unswept>>
      /\ Applies(a, "started")
  BY DEF ApplyStarted, entryVars, optVars, taskVars, cmdVars, sweepVars
<1>2. ControllerStep
  BY <1>1, AppliesStep
<1>3. state' = state
  <2>1. Head(up[a]).run \in Run /\ Head(up[a]).run \in started
    BY <1>1, AppliesEffect
  <2>2. state[Head(up[a]).run] # "pending"
    BY <2>1 DEF BarrierInv
  <2>3. state' = [state EXCEPT ![Head(up[a]).run] = @]
    BY <2>2 DEF ApplyStarted
  <2> QED BY <2>1, <2>3 DEF TypeOK, RunTypes
<1>4. connected' \subseteq Agent /\ TaskTypes' /\ gauges \in [Run -> SUBSET Agent]
  BY <1>1 DEF TypeOK, EntryTypes, TaskTypes, RunTypes
<1>5. BarrierInv'
  BY <1>1, <1>3, BarrierKeeps
<1>6. \A r \in Run : task[r] = "failing" => verdict[r] # "none"
  BY DEF FormInv
<1>7. \A r \in Run : state[r] \in Live => \A b \in gauges[r] :
        done[r][b] = "none" /\ (b \in lost[r] => active_run[b] # r)
  BY DEF GaugesSettle
<1> QED BY <1>1, <1>2, <1>3, <1>4, <1>5, <1>6, <1>7, LightKeeps

\* A batch: the gauges of an agent that is lost or done stay at zero.
LEMMA ApplyMetricsPreserves ==
  ASSUME RunInv, NEW a \in Agent, ApplyMetrics(a)
  PROVE  RunInv'
<1> USE DEF RunInv
<1> DEFINE r == Head(up[a]).run
<1>1. /\ UNCHANGED agentVars /\ UNCHANGED <<down, known, session, active_run, todo, connected>>
      /\ UNCHANGED <<state, assigned, on_agent_loss, ready, failure, started>>
      /\ UNCHANGED <<done, lost, lost_ever, task, senders, verdict>>
      /\ UNCHANGED <<permit, control, expected, stale, unswept>>
      /\ Applies(a, "metrics")
  BY DEF ApplyMetrics, entryVars, optVars, taskVars, cmdVars, sweepVars
<1>2. ControllerStep
  BY <1>1, AppliesStep
<1>3. r \in Run /\ r \in started
  BY <1>1, AppliesEffect
<1>4. /\ gauges' \in [Run -> SUBSET Agent]
      /\ \A s \in Run : s # r => gauges'[s] = gauges[s]
      /\ state[r] \notin Terminal =>
           gauges'[r] = IF a \in lost[r] \/ done[r][a] # "none" THEN gauges[r] \ {a}
                        ELSE gauges[r] \cup {a}
  BY <1>3, ZenonT(40) DEF ApplyMetrics, TypeOK, RunTypes
<1>5. connected' \subseteq Agent /\ TaskTypes'
  BY <1>1 DEF TypeOK, EntryTypes, TaskTypes
<1>6. BarrierInv'
  BY <1>1, <1>3, <1>4 DEF BarrierInv
<1>7. \A s \in Run : task[s] = "failing" => verdict[s] # "none"
  BY DEF FormInv
<1>8. \A s \in Run : state[s] \in Live => \A b \in gauges'[s] :
        done[s][b] = "none" /\ (b \in lost[s] => active_run[b] # s)
  BY <1>4 DEF GaugesSettle, Live, Terminal
<1> QED BY <1>1, <1>2, <1>4, <1>5, <1>6, <1>7, <1>8, LightKeeps

\* An acknowledgement of a stop command.
LEMMA ApplyAckPreserves ==
  ASSUME RunInv, NEW a \in Agent, ApplyAck(a)
  PROVE  RunInv'
<1> USE DEF RunInv
<1> DEFINE r == Head(up[a]).run
<1>1. /\ UNCHANGED agentVars /\ UNCHANGED <<down, known, session, active_run, todo, connected>>
      /\ UNCHANGED <<state, assigned, on_agent_loss, ready, failure, started>>
      /\ UNCHANGED <<done, lost, lost_ever, gauges, task, senders, verdict>>
      /\ UNCHANGED <<permit, stale, unswept>>
      /\ Applies(a, "ack")
  BY DEF ApplyAck, entryVars, runVars, optVars, taskVars, sweepVars
<1>2. ControllerStep
  BY <1>1, AppliesStep
<1>3. r \in Run
  BY <1>1, AppliesEffect
<1>4. /\ control' \in [Run -> {"none", "waiting", "over"}]
      /\ expected' \in [Run -> SUBSET Agent]
      /\ \A s \in Run : control'[s] = "waiting" => control[s] = "waiting"
  BY <1>3 DEF ApplyAck, TypeOK, TaskTypes
<1>5. connected' \subseteq Agent /\ TaskTypes' /\ gauges \in [Run -> SUBSET Agent]
  BY <1>1, <1>4 DEF TypeOK, EntryTypes, TaskTypes, RunTypes
<1>6. BarrierInv'
  BY <1>1, <1>4, BarrierKeeps
<1>7. \A s \in Run : task[s] = "failing" => verdict[s] # "none"
  BY DEF FormInv
<1>8. \A s \in Run : state[s] \in Live => \A b \in gauges[s] :
        done[s][b] = "none" /\ (b \in lost[s] => active_run[b] # s)
  BY DEF GaugesSettle
<1> QED BY <1>1, <1>2, <1>5, <1>6, <1>7, <1>8, LightKeeps

\* The barrier's deadline passes.
LEMMA BarrierExpiresPreserves ==
  ASSUME RunInv, NEW r \in Run, BarrierExpires(r)
  PROVE  RunInv'
<1> USE DEF RunInv
<1>1. /\ UNCHANGED agentVars /\ UNCHANGED <<up, down, known, session, active_run, todo>>
      /\ UNCHANGED <<state, assigned, on_agent_loss, ready, failure, started, connected>>
      /\ UNCHANGED <<done, lost, lost_ever, gauges, senders, verdict>>
      /\ UNCHANGED <<permit, control, expected, stale, unswept>>
      /\ task[r] = "parked" /\ task' = [task EXCEPT ![r] = "expired"]
  BY DEF BarrierExpires, netVars, entryVars, runVars, optVars, cmdVars, sweepVars
<1>2. ControllerStep
  BY <1>1, QuietStep
<1>3. task'[r] = "expired" /\ \A s \in Run : s # r => task'[s] = task[s]
  BY <1>1 DEF TypeOK, TaskTypes
<1>4. connected' \subseteq Agent /\ TaskTypes' /\ gauges \in [Run -> SUBSET Agent]
  BY <1>1 DEF TypeOK, EntryTypes, TaskTypes, RunTypes
<1>5. BarrierInv'
  BY <1>1, <1>3 DEF BarrierInv
<1>6. \A s \in Run : task[s] = "failing" => verdict[s] # "none"
  BY DEF FormInv
<1>7. \A s \in Run : state[s] \in Live => \A b \in gauges[s] :
        done[s][b] = "none" /\ (b \in lost[s] => active_run[b] # s)
  BY DEF GaugesSettle
<1> QED BY <1>1, <1>2, <1>3, <1>4, <1>5, <1>6, <1>7, LightKeeps

\* The time for acknowledgements is over.
LEMMA StopTimesOutPreserves ==
  ASSUME RunInv, NEW r \in Run, StopTimesOut(r)
  PROVE  RunInv'
<1> USE DEF RunInv
<1>1. /\ UNCHANGED agentVars /\ UNCHANGED <<up, down, known, session, active_run, todo>>
      /\ UNCHANGED <<state, assigned, on_agent_loss, ready, failure, started, connected>>
      /\ UNCHANGED <<done, lost, lost_ever, gauges, task, senders, verdict>>
      /\ UNCHANGED <<permit, expected, stale, unswept>>
      /\ control' = [control EXCEPT ![r] = "over"]
  BY DEF StopTimesOut, netVars, entryVars, runVars, optVars, taskVars, sweepVars
<1>2. ControllerStep
  BY <1>1, QuietStep
<1>3. connected' \subseteq Agent /\ TaskTypes' /\ gauges \in [Run -> SUBSET Agent]
  BY <1>1 DEF TypeOK, EntryTypes, TaskTypes, RunTypes
<1>4. BarrierInv'
  BY <1>1, BarrierKeeps DEF TypeOK, TaskTypes
<1>5. \A s \in Run : task[s] = "failing" => verdict[s] # "none"
  BY DEF FormInv
<1>6. \A s \in Run : state[s] \in Live => \A b \in gauges[s] :
        done[s][b] = "none" /\ (b \in lost[s] => active_run[b] # s)
  BY DEF GaugesSettle
<1> QED BY <1>1, <1>2, <1>3, <1>4, <1>5, <1>6, LightKeeps

\* The sweep notes the runs it has to look at: they are live.
LEMMA SweepScanPreserves ==
  ASSUME RunInv, SweepScan
  PROVE  RunInv'
<1> USE DEF RunInv
<1>1. /\ UNCHANGED agentVars /\ UNCHANGED <<up, down, known, session, active_run, todo>>
      /\ UNCHANGED <<state, assigned, on_agent_loss, ready, failure, started, connected>>
      /\ UNCHANGED <<done, lost, lost_ever, gauges, task, senders, verdict>>
      /\ UNCHANGED <<permit, control, expected>>
      /\ stale' \subseteq Agent /\ unswept' \subseteq {r \in Run : state[r] \in Live}
  BY DEF SweepScan, netVars, entryVars, runVars, optVars, taskVars, cmdVars, Silent
<1>2. ControllerStep
  BY <1>1, QuietStep
<1>3. connected' \subseteq Agent /\ TaskTypes' /\ gauges \in [Run -> SUBSET Agent]
  BY <1>1 DEF TypeOK, EntryTypes, TaskTypes, RunTypes
<1>4. BarrierInv'
  BY <1>1 DEF BarrierInv, Live
<1>5. \A s \in Run : task[s] = "failing" => verdict[s] # "none"
  BY DEF FormInv
<1>6. \A s \in Run : state[s] \in Live => \A b \in gauges[s] :
        done[s][b] = "none" /\ (b \in lost[s] => active_run[b] # s)
  BY DEF GaugesSettle
<1> QED BY <1>1, <1>2, <1>3, <1>4, <1>5, <1>6, LightKeeps

-----------------------------------------------------------------------------
(***************************************************************************)
(* A preparation failure is recorded.                                      *)
(***************************************************************************)

\* A failure of a pending run settles what the sweeper, or the session of an
\* agent that restarted, had left to do about it.
LEMMA RecordKeeps ==
  ASSUME RunInv, ControllerStep, NEW r \in Run, Unstarted(r),
         NEW v \in {"aborted", "failed"}, RecordPrepFailure(r, v),
         UNCHANGED <<down, connected, active_run, state, assigned, on_agent_loss, ready>>,
         UNCHANGED <<started, done, lost, lost_ever, gauges, task, senders, verdict>>,
         UNCHANGED <<stale, unswept>>,
         control' \in [Run -> {"none", "waiting", "over"}], expected' \in [Run -> SUBSET Agent],
         \A s \in Run : control'[s] = "waiting" => control[s] = "waiting",
         todo' \in [Agent \cup {Sweeper} -> TodoItem],
         \A x \in Agent \cup {Sweeper} :
           \/ todo'[x] = todo[x]
           \/ todo'[x] = NoTodo /\ todo[x].run = r /\ todo[x].kind \in {"terminate", "loss"}
  PROVE  RunInv'
<1> USE DEF RunInv
<1>1. \A a \in Agent : NewDown(a) = {}
  BY DEF NewDown
<1>2. /\ AgentTypes' /\ \A a \in Agent : AgentForm(a)' /\ AgentAssigned(a)'
      /\ EngineInv' /\ ProcessInv'
  BY <1>1, AgentsKeep
<1>3. known' = known /\ session' = session
  BY DEF ControllerStep
<1>4. /\ failure' \in [Run -> {"none", "aborted", "failed"}] /\ failure'[r] # "none"
      /\ \A s \in Run : s # r => failure'[s] = failure[s]
      /\ permit' \subseteq Run
  BY DEF RecordPrepFailure, TypeOK, RunTypes, TaskTypes
<1>5. TypeOK'
  BY <1>2, <1>3, <1>4 DEF TypeOK, EntryTypes, RunTypes, TaskTypes
<1>6. state[r] = "pending" /\ r \notin started
  BY DEF Unstarted, BarrierInv
<1>7. NoTodo.kind = "none"
  BY TodoTyped
<1>8. FormInv' /\ TodoInv'
  BY <1>2, <1>7 DEF FormInv, TodoInv
<1>9. BarrierInv'
  BY <1>4, <1>6 DEF BarrierInv
<1>10. AssignedInv'
  BY <1>2, <1>3, <1>7 DEF AssignedInv
<1>11. ReservedInv'
  <2>1. \A s \in Run : \A a \in assigned[s] :
          state[s] \notin Terminal /\ active_run[a] # s /\ s # r =>
             /\ s \notin started => \/ todo'[a] = Todo("terminate", s)
                                    \/ failure[s] # "none" \/ a \notin ready[s]
             /\ s \in started => \/ todo'[a] = Todo("terminate", s)
                                 \/ done[s][a] # "none" \/ a \in lost[s]
    <3>1. \A s \in Run : assigned[s] \subseteq Agent
      BY DEF TypeOK, RunTypes
    <3>2. \A s \in Run : Todo("terminate", s).run = s
      BY TodoTyped
    <3> QED BY <3>1, <3>2 DEF ReservedInv
  <2>2. \A s \in Run : \A a \in lost[s] :
          state[s] \notin Terminal => a \in lost_ever[s] \/ active_run[a] # s
    BY DEF ReservedInv
  <2> QED BY <1>1, <1>4, <1>6, <1>7, <2>1, <2>2, ReservedKeeps
<1>12. GaugesSettle'
  BY <1>5 DEF GaugesSettle
<1>13. OnceInv'
  BY <1>1, OnceKeeps DEF OnceInv, AgentOnce, Ended, ControllerStep
<1>14. EarnedInv'
  BY <1>7 DEF EarnedInv, Earned
<1>15. LossInv'
  <2>1. \A s \in Run : Todo("loss", s).run = s
    BY TodoTyped
  <2> QED BY <1>4, <1>6, <2>1 DEF LossInv
<1> QED BY <1>2, <1>5, <1>8, <1>9, <1>10, <1>11, <1>12, <1>13, <1>14, <1>15

\* A failed preparation is reported; a run that is not pending takes no notice.
LEMMA ApplyPrepFailedPreserves ==
  ASSUME RunInv, NEW a \in Agent, ApplyPrepFailed(a)
  PROVE  RunInv'
<1> USE DEF RunInv
<1> DEFINE r == Head(up[a]).run
<1>1. /\ UNCHANGED agentVars /\ UNCHANGED <<down, known, session, active_run, todo, connected>>
      /\ UNCHANGED <<state, assigned, on_agent_loss, ready, started>>
      /\ UNCHANGED <<done, lost, lost_ever, gauges, task, senders, verdict>>
      /\ UNCHANGED <<control, expected, stale, unswept>>
      /\ Applies(a, "prep_failed")
  BY DEF ApplyPrepFailed, entryVars, optVars, cmdVars, sweepVars
<1>2. ControllerStep
  BY <1>1, AppliesStep
<1>3. r \in Run
  BY <1>1, AppliesEffect
<1>4. CASE Unstarted(r)
  <2>1. RecordPrepFailure(r, "failed")
    BY <1>4 DEF ApplyPrepFailed
  <2>2. /\ control \in [Run -> {"none", "waiting", "over"}] /\ expected \in [Run -> SUBSET Agent]
        /\ todo \in [Agent \cup {Sweeper} -> TodoItem]
    BY DEF TypeOK, TaskTypes, EntryTypes
  <2> QED BY <1>1, <1>2, <1>3, <1>4, <2>1, <2>2, RecordKeeps
<1>5. CASE ~ Unstarted(r)
  <2>1. failure' = failure /\ permit' = permit
    BY <1>5 DEF ApplyPrepFailed
  <2>2. connected' \subseteq Agent /\ TaskTypes' /\ gauges \in [Run -> SUBSET Agent]
    BY <1>1, <2>1 DEF TypeOK, EntryTypes, TaskTypes, RunTypes
  <2>3. BarrierInv'
    BY <1>1, <2>1, BarrierKeeps
  <2>4. \A s \in Run : task[s] = "failing" => verdict[s] # "none"
    BY DEF FormInv
  <2>5. \A s \in Run : state[s] \in Live => \A b \in gauges[s] :
          done[s][b] = "none" /\ (b \in lost[s] => active_run[b] # s)
    BY DEF GaugesSettle
  <2> QED BY <1>1, <1>2, <2>1, <2>2, <2>3, <2>4, <2>5, LightKeeps
<1> QED BY <1>4, <1>5

-----------------------------------------------------------------------------
(***************************************************************************)
(* The barrier, and the user's stop.                                       *)
(***************************************************************************)

\* The agents of a run that are told something.
LEMMA RunSendersAssigned ==
  ASSUME TypeOK, NEW r \in Run, NEW s \in RunSenders(r)
  PROVE  s.agent \in Agent /\ s.agent \in assigned[r]
BY DEF RunSenders, Current, TypeOK, RunTypes

\* Telling agents of a run to start or to stop.
LEMMA TellsStep ==
  ASSUME RunInv, UNCHANGED agentVars, UNCHANGED <<known, session>>,
         up' \in [Agent -> Seq(Up)],
         \A b \in Agent : Msgs(up'[b]) \subseteq Msgs(up[b]) /\ Single(up'[b]),
         NEW S, NEW r \in Run, NEW k \in {"start", "stop", "command"}, Send(S, DownMsg(k, r)),
         \A s \in S : s.agent \in assigned[r], k = "start" => r \in started
  PROVE  /\ ControllerStep
         /\ \A a \in Agent : \A m \in NewDown(a) :
              /\ m.kind # "assignment" /\ m.run = r /\ a \in assigned[m.run]
              /\ m.kind = "start" => m.run \in started
<1>1. DownMsg(k, r) \in Down /\ DownMsg(k, r).kind = k /\ DownMsg(k, r).run = r
  BY DEF DownMsg, Down
<1>2. /\ down' \in [Agent -> Seq(Down)]
      /\ \A a \in Agent :
           /\ Ordered(down'[a]) /\ (link[a] # "on" => down'[a] = down[a])
           /\ \A n \in NewDown(a) :
                n = DownMsg(k, r) /\ \E s \in S : s.agent = a /\ s.session = session[a]
  BY <1>1, SendEffect
<1>3. ControllerStep
  BY <1>2 DEF ControllerStep
<1> QED BY <1>1, <1>2, <1>3

\* The channels when no uplink message is applied.
LEMMA UplinkSame ==
  ASSUME RunInv, up' = up
  PROVE  /\ up' \in [Agent -> Seq(Up)]
         /\ \A b \in Agent : Msgs(up'[b]) \subseteq Msgs(up[b]) /\ Single(up'[b])
BY DEF RunInv, TypeOK, AgentTypes, OnceInv, AgentOnce

\* The barrier gives up on a run.
LEMMA BarrierFailsKeeps ==
  ASSUME RunInv, NEW r \in Run, task[r] \in {"check", "parked", "expired"},
         NEW v \in {"aborted", "failed"}, BarrierFails(r, v), permit' \subseteq Run,
         UNCHANGED <<agentVars, up, entryVars, optVars, ready, failure, done, lost>>,
         UNCHANGED <<lost_ever, senders, cmdVars, sweepVars>>
  PROVE  RunInv'
<1> USE DEF RunInv
<1>1. /\ UNCHANGED agentVars /\ UNCHANGED <<up, known, session, active_run, todo, connected>>
      /\ UNCHANGED <<state, assigned, on_agent_loss, ready, failure, started>>
      /\ UNCHANGED <<done, lost, lost_ever, gauges, senders>>
      /\ UNCHANGED <<control, expected, stale, unswept>>
      /\ task' = [task EXCEPT ![r] = "failing"] /\ verdict' = [verdict EXCEPT ![r] = v]
      /\ Send(RunSenders(r), DownMsg("stop", r))
  BY DEF BarrierFails, entryVars, optVars, cmdVars, sweepVars
<1>2. /\ ControllerStep
      /\ \A a \in Agent : \A m \in NewDown(a) :
           /\ m.kind # "assignment" /\ m.run = r /\ a \in assigned[m.run]
           /\ m.kind = "start" => m.run \in started
  BY <1>1, UplinkSame, RunSendersAssigned, TellsStep
<1>3. /\ task'[r] = "failing" /\ \A s \in Run : s # r => task'[s] = task[s]
      /\ verdict'[r] = v /\ \A s \in Run : s # r => verdict'[s] = verdict[s]
  BY <1>1 DEF TypeOK, TaskTypes
<1>4. connected' \subseteq Agent /\ TaskTypes' /\ gauges \in [Run -> SUBSET Agent]
  BY <1>1 DEF TypeOK, EntryTypes, TaskTypes, RunTypes
<1>5. BarrierInv'
  BY <1>1, <1>3 DEF BarrierInv
<1>6. \A s \in Run : task'[s] = "failing" => verdict'[s] # "none"
  BY <1>3 DEF FormInv
<1>7. \A s \in Run : state[s] \in Live => \A b \in gauges[s] :
        done[s][b] = "none" /\ (b \in lost[s] => active_run[b] # s)
  BY DEF GaugesSettle
<1> QED BY <1>1, <1>2, <1>3, <1>4, <1>5, <1>6, <1>7, SendKeeps

\* The preparation timeout.
LEMMA BarrierTimeoutPreserves ==
  ASSUME RunInv, NEW r \in Run, BarrierTimeout(r)
  PROVE  RunInv'
BY BarrierFailsKeeps DEF BarrierTimeout, RunInv, TypeOK, TaskTypes

\* The barrier commits the start: every agent is ready, no failure is recorded.
LEMMA CommitKeeps ==
  ASSUME RunInv, NEW r \in Run, task[r] \in {"check", "parked"},
         state[r] \notin Terminal, failure[r] = "none", AllReady(r),
         started' = started \cup {r}, gauges' = [gauges EXCEPT ![r] = {}],
         state' = [state EXCEPT ![r] = "running"], task' = [task EXCEPT ![r] = "starting"],
         permit' \subseteq Run, UNCHANGED <<verdict, down>>,
         UNCHANGED <<agentVars, up, entryVars, optVars, ready, failure, done, lost>>,
         UNCHANGED <<lost_ever, senders, cmdVars, sweepVars>>
  PROVE  RunInv'
<1> USE DEF RunInv
<1>1. /\ UNCHANGED agentVars /\ UNCHANGED <<up, known, session, active_run, todo, connected>>
      /\ UNCHANGED <<down, assigned, on_agent_loss, ready, failure>>
      /\ UNCHANGED <<done, lost, lost_ever, senders, verdict>>
      /\ UNCHANGED <<control, expected, stale, unswept>>
  BY DEF entryVars, optVars, cmdVars, sweepVars
<1>2. ControllerStep /\ \A a \in Agent : NewDown(a) = {}
  BY <1>1, QuietStep DEF NewDown
<1>3. /\ task'[r] = "starting" /\ \A s \in Run : s # r => task'[s] = task[s]
      /\ state'[r] = "running" /\ \A s \in Run : s # r => state'[s] = state[s]
      /\ gauges'[r] = {} /\ \A s \in Run : s # r => gauges'[s] = gauges[s]
  BY DEF TypeOK, TaskTypes, RunTypes
<1>4. r \notin started /\ state[r] = "pending"
  BY DEF BarrierInv, TypeOK, RunTypes, Live
<1>5. /\ AgentTypes' /\ \A a \in Agent : AgentForm(a)' /\ AgentAssigned(a)'
      /\ EngineInv' /\ ProcessInv'
  BY <1>1, <1>2, AgentsKeep
<1>6. TypeOK'
  BY <1>1, <1>5 DEF TypeOK, EntryTypes, TaskTypes, RunTypes, Live
<1>7. FormInv' /\ TodoInv'
  BY <1>1, <1>3, <1>5 DEF FormInv, TodoInv
<1>8. BarrierInv'
  BY <1>1, <1>3, <1>4 DEF BarrierInv, AllReady
<1>9. AssignedInv'
  BY <1>1, <1>3, <1>5 DEF AssignedInv
<1>10. ReservedInv'
  <2>1. \A s \in Run : \A a \in assigned[s] :
          state'[s] \notin Terminal /\ active_run[a] # s =>
             /\ s \notin started' => \/ todo[a] = Todo("terminate", s)
                                     \/ failure[s] # "none" \/ a \notin ready[s]
             /\ s \in started' => \/ todo[a] = Todo("terminate", s)
                                  \/ done[s][a] # "none" \/ a \in lost[s]
    BY <1>3, <1>4 DEF ReservedInv, AllReady
  <2>2. \A s \in Run : \A a \in lost[s] :
          state'[s] \notin Terminal => a \in lost_ever[s] \/ active_run[a] # s
    BY <1>3 DEF ReservedInv
  <2>3. \A s \in Run : /\ state'[s] \notin Terminal => state[s] \notin Terminal
                       /\ task[s] = "reserved" \/ state[s] \in Live =>
                            task'[s] = "reserved" \/ state'[s] \in Live
    BY <1>3 DEF Live
  <2> QED BY <1>1, <1>2, <2>1, <2>2, <2>3, ReservedKeeps
<1>11. GaugesSettle'
  BY <1>1, <1>3, <1>6 DEF GaugesSettle
<1>12. OnceInv'
  BY <1>1, <1>2, OnceKeeps DEF OnceInv, AgentOnce, Ended
<1>13. EarnedInv'
  BY <1>1, <1>3 DEF EarnedInv, Earned
<1>14. LossInv'
  <2>1. Todo("loss", r).run = r /\ Todo("loss", r).kind = "loss"
    BY TodoTyped
  <2>2. lost[r] # {} => todo[Sweeper] = Todo("loss", r)
    BY <1>4 DEF LossInv, Live
  <2> QED BY <1>1, <1>3, <2>1, <2>2 DEF LossInv
<1> QED BY <1>5, <1>6, <1>7, <1>8, <1>9, <1>10, <1>11, <1>12, <1>13, <1>14

\* One turn of the barrier.
LEMMA BarrierCheckPreserves ==
  ASSUME RunInv, NEW r \in Run, BarrierCheck(r)
  PROVE  RunInv'
<1> USE DEF RunInv
<1>1. /\ UNCHANGED <<agentVars, up, entryVars, optVars, ready, failure, done, lost>>
      /\ UNCHANGED <<lost_ever, senders, cmdVars, sweepVars>>
      /\ task[r] \in {"check", "parked"} /\ permit' \subseteq Run
  BY DEF BarrierCheck, TypeOK, TaskTypes
<1>2. CASE /\ state[r] \notin Terminal /\ failure[r] # "none"
           /\ BarrierFails(r, failure[r])
  <2>1. failure[r] \in {"aborted", "failed"}
    BY <1>2 DEF TypeOK, RunTypes
  <2> QED BY <1>1, <1>2, <2>1, BarrierFailsKeeps
<1>3. CASE /\ state[r] \notin Terminal /\ failure[r] = "none"
           /\ AllReady(r)
           /\ started' = started \cup {r}
           /\ gauges' = [gauges EXCEPT ![r] = {}]
           /\ state' = [state EXCEPT ![r] = "running"]
           /\ task' = [task EXCEPT ![r] = "starting"]
           /\ UNCHANGED <<verdict, down>>
  BY <1>1, <1>3, CommitKeeps
<1>4. ASSUME NEW t \in {"over", "parked"}, task' = [task EXCEPT ![r] = t],
             t = "over" => state[r] \in Terminal,
             UNCHANGED <<state, started, gauges, verdict, down>>
      PROVE  RunInv'
  <2>1. /\ UNCHANGED agentVars /\ UNCHANGED <<up, known, session, active_run, todo, connected>>
        /\ UNCHANGED <<assigned, on_agent_loss, ready, failure, done, lost, lost_ever, senders>>
        /\ UNCHANGED <<control, expected, stale, unswept>>
        /\ UNCHANGED <<state, started, gauges, verdict, down>>
    BY <1>1, <1>4 DEF entryVars, optVars, cmdVars, sweepVars
  <2>2. ControllerStep
    BY <2>1, QuietStep
  <2>3. task'[r] = t /\ \A s \in Run : s # r => task'[s] = task[s]
    BY <1>4 DEF TypeOK, TaskTypes
  <2>4. connected' \subseteq Agent /\ TaskTypes' /\ gauges \in [Run -> SUBSET Agent]
    BY <1>1, <1>4, <2>1 DEF TypeOK, EntryTypes, TaskTypes, RunTypes
  <2>5. BarrierInv'
    BY <1>1, <2>1, <2>3 DEF BarrierInv
  <2>6. \A s \in Run : task'[s] = "failing" => verdict[s] # "none"
    BY <2>3 DEF FormInv
  <2>7. \A s \in Run : state[s] \in Live => \A b \in gauges[s] :
          done[s][b] = "none" /\ (b \in lost[s] => active_run[b] # s)
    BY DEF GaugesSettle
  <2> QED BY <1>1, <2>1, <2>2, <2>3, <2>4, <2>5, <2>6, <2>7, LightKeeps
<1>5. CASE /\ state[r] \in Terminal /\ task' = [task EXCEPT ![r] = "over"]
           /\ UNCHANGED <<state, started, gauges, verdict, down>>
  BY <1>4, <1>5
<1>6. CASE /\ task' = [task EXCEPT ![r] = "parked"]
           /\ UNCHANGED <<state, started, gauges, verdict, down>>
  BY <1>4, <1>6
<1> QED BY <1>2, <1>3, <1>5, <1>6 DEF BarrierCheck

\* The start goes out.
LEMMA BroadcastStartPreserves ==
  ASSUME RunInv, NEW r \in Run, BroadcastStart(r)
  PROVE  RunInv'
<1> USE DEF RunInv
<1>1. /\ UNCHANGED agentVars /\ UNCHANGED <<up, known, session, active_run, todo, connected>>
      /\ UNCHANGED <<state, assigned, on_agent_loss, ready, failure, started>>
      /\ UNCHANGED <<done, lost, lost_ever, gauges, senders, verdict, permit>>
      /\ UNCHANGED <<control, expected, stale, unswept>>
      /\ task[r] = "starting" /\ task' = [task EXCEPT ![r] = "over"]
      /\ Send(RunSenders(r), DownMsg("start", r))
  BY DEF BroadcastStart, entryVars, runVars, optVars, cmdVars, sweepVars
<1>2. r \in started
  BY <1>1 DEF BarrierInv
<1>3. /\ ControllerStep
      /\ \A a \in Agent : \A m \in NewDown(a) :
           /\ m.kind # "assignment" /\ m.run = r /\ a \in assigned[m.run]
           /\ m.kind = "start" => m.run \in started
  BY <1>1, <1>2, UplinkSame, RunSendersAssigned, TellsStep
<1>4. task'[r] = "over" /\ \A s \in Run : s # r => task'[s] = task[s]
  BY <1>1 DEF TypeOK, TaskTypes
<1>5. connected' \subseteq Agent /\ TaskTypes' /\ gauges \in [Run -> SUBSET Agent]
  BY <1>1 DEF TypeOK, EntryTypes, TaskTypes, RunTypes
<1>6. BarrierInv'
  BY <1>1, <1>2, <1>4 DEF BarrierInv
<1>7. \A s \in Run : task'[s] = "failing" => verdict'[s] # "none"
  BY <1>1, <1>4 DEF FormInv
<1>8. \A s \in Run : state[s] \in Live => \A b \in gauges[s] :
        done[s][b] = "none" /\ (b \in lost[s] => active_run[b] # s)
  BY DEF GaugesSettle
<1> QED BY <1>1, <1>3, <1>4, <1>5, <1>6, <1>7, <1>8, SendKeeps

\* A user stops a run.
LEMMA StopRunPreserves ==
  ASSUME RunInv, NEW r \in Run, StopRun(r)
  PROVE  RunInv'
<1> USE DEF RunInv
<1>1. /\ UNCHANGED agentVars /\ UNCHANGED <<up, known, session, active_run, todo, connected>>
      /\ UNCHANGED <<state, assigned, on_agent_loss, ready, started>>
      /\ UNCHANGED <<done, lost, lost_ever, gauges, task, senders, verdict>>
      /\ UNCHANGED <<stale, unswept>> /\ state[r] # "none"
  BY DEF StopRun, entryVars, optVars, sweepVars
<1>2. CASE /\ Unstarted(r)
           /\ RecordPrepFailure(r, "aborted")
           /\ control' = [control EXCEPT ![r] = "over"]
           /\ UNCHANGED <<expected, down>>
  <2>1. ControllerStep
    BY <1>1, <1>2, QuietStep
  <2>2. /\ control' \in [Run -> {"none", "waiting", "over"}]
        /\ expected' \in [Run -> SUBSET Agent]
        /\ \A s \in Run : control'[s] = "waiting" => control[s] = "waiting"
        /\ todo \in [Agent \cup {Sweeper} -> TodoItem]
    BY <1>2 DEF TypeOK, TaskTypes, EntryTypes
  <2> QED BY <1>1, <1>2, <2>1, <2>2, RecordKeeps
<1>3. CASE /\ ~ Unstarted(r)
           /\ Send(RunSenders(r), DownMsg("command", r))
           /\ expected' = [expected EXCEPT ![r] = {s.agent : s \in RunSenders(r)}]
           /\ control' = [control EXCEPT ![r] = "waiting"]
           /\ UNCHANGED <<failure, permit>>
  <2>1. /\ ControllerStep
        /\ \A a \in Agent : \A m \in NewDown(a) :
             /\ m.kind # "assignment" /\ m.run = r /\ a \in assigned[m.run]
             /\ m.kind = "start" => m.run \in started
    BY <1>1, <1>3, UplinkSame, RunSendersAssigned, TellsStep
  <2>2. {s.agent : s \in RunSenders(r)} \subseteq Agent
    BY RunSendersAssigned
  <2>3. connected' \subseteq Agent /\ TaskTypes' /\ gauges \in [Run -> SUBSET Agent]
    BY <1>1, <1>3, <2>2 DEF TypeOK, EntryTypes, TaskTypes, RunTypes
  <2>4. \A s \in Run : s # r => control'[s] = control[s]
    BY <1>3 DEF TypeOK, TaskTypes
  <2>5. BarrierInv'
    BY <1>1, <1>3, <2>4 DEF BarrierInv, Unstarted
  <2>6. \A s \in Run : task[s] = "failing" => verdict[s] # "none"
    BY DEF FormInv
  <2>7. \A s \in Run : state[s] \in Live => \A b \in gauges[s] :
          done[s][b] = "none" /\ (b \in lost[s] => active_run[b] # s)
    BY DEF GaugesSettle
  <2> QED BY <1>1, <1>3, <2>1, <2>3, <2>5, <2>6, <2>7, SendKeeps
<1> QED BY <1>2, <1>3 DEF StopRun

\* Every agent has acknowledged the stop: a run that is not settled is stopping.
LEMMA StopAcknowledgedPreserves ==
  ASSUME RunInv, NEW r \in Run, StopAcknowledged(r)
  PROVE  RunInv'
<1> USE DEF RunInv
<1>1. /\ UNCHANGED agentVars /\ UNCHANGED <<up, down, known, session, active_run, todo, connected>>
      /\ UNCHANGED <<assigned, on_agent_loss, ready, failure, started>>
      /\ UNCHANGED <<done, lost, lost_ever, gauges, task, senders, verdict>>
      /\ UNCHANGED <<permit, expected, stale, unswept>>
      /\ control' = [control EXCEPT ![r] = "over"] /\ control[r] = "waiting"
      /\ state' = [state EXCEPT ![r] = IF @ \in Terminal THEN @ ELSE "stopping"]
  BY DEF StopAcknowledged, netVars, entryVars, optVars, taskVars, sweepVars
<1>2. ControllerStep /\ \A a \in Agent : NewDown(a) = {}
  BY <1>1, QuietStep DEF NewDown
<1>3. /\ state'[r] = IF state[r] \in Terminal THEN state[r] ELSE "stopping"
      /\ \A s \in Run : s # r => state'[s] = state[s]
      /\ control'[r] = "over" /\ \A s \in Run : s # r => control'[s] = control[s]
  BY <1>1 DEF TypeOK, TaskTypes, RunTypes
<1>4. /\ state[r] \in {"running", "stopping"} \cup Terminal
      /\ r \notin started => state[r] \in Terminal
  BY <1>1 DEF BarrierInv, TypeOK, RunTypes, Live
<1>5. /\ AgentTypes' /\ \A a \in Agent : AgentForm(a)' /\ AgentAssigned(a)'
      /\ EngineInv' /\ ProcessInv'
  BY <1>1, <1>2, AgentsKeep
<1>6. TypeOK'
  BY <1>1, <1>5 DEF TypeOK, EntryTypes, TaskTypes, RunTypes, Live
<1>7. FormInv' /\ TodoInv'
  BY <1>1, <1>3, <1>4, <1>5 DEF FormInv, TodoInv
<1>8. BarrierInv'
  BY <1>1, <1>3, <1>4 DEF BarrierInv, Terminal
<1>9. AssignedInv'
  BY <1>1, <1>5 DEF AssignedInv
<1>10. \A s \in Run : /\ state'[s] \in Terminal <=> state[s] \in Terminal
                      /\ state'[s] \in Live <=> state[s] \in Live
  BY <1>3, <1>4 DEF Live, Terminal
<1>11. ReservedInv'
  <2>1. \A s \in Run : \A a \in assigned[s] :
          state[s] \notin Terminal /\ active_run[a] # s =>
             /\ s \notin started => \/ todo[a] = Todo("terminate", s)
                                    \/ failure[s] # "none" \/ a \notin ready[s]
             /\ s \in started => \/ todo[a] = Todo("terminate", s)
                                 \/ done[s][a] # "none" \/ a \in lost[s]
    BY DEF ReservedInv
  <2>2. \A s \in Run : \A a \in lost[s] :
          state[s] \notin Terminal => a \in lost_ever[s] \/ active_run[a] # s
    BY DEF ReservedInv
  <2> QED BY <1>1, <1>2, <1>10, <2>1, <2>2, ReservedKeeps
<1>12. GaugesSettle'
  BY <1>1, <1>6, <1>10 DEF GaugesSettle
<1>13. OnceInv'
  BY <1>1, <1>2, OnceKeeps DEF OnceInv, AgentOnce, Ended
<1>14. EarnedInv'
  BY <1>1, <1>3 DEF EarnedInv, Earned
<1>15. LossInv'
  BY <1>1, <1>3, <1>4, <1>10 DEF LossInv, Terminal
<1> QED BY <1>5, <1>6, <1>7, <1>8, <1>9, <1>11, <1>12, <1>13, <1>14, <1>15

-----------------------------------------------------------------------------
(***************************************************************************)
(* A run is settled.                                                       *)
(***************************************************************************)

\* The first verdict stands and gives the agents back.
LEMMA FinalizeEffect ==
  ASSUME RunInv, NEW r \in Run, NEW v \in Terminal, Finalize(r, v), state[r] # "none"
  PROVE  /\ state' \in [Run -> {"none"} \cup Live \cup Terminal]
         /\ state'[r] = IF state[r] \in Terminal THEN state[r] ELSE v
         /\ \A s \in Run : s # r => state'[s] = state[s]
         /\ active_run' \in [Agent -> Run \cup {NoRun}]
         /\ \A a \in Agent : active_run'[a] = IF active_run[a] = r THEN NoRun ELSE active_run[a]
         /\ permit' \subseteq Run
<1> USE DEF RunInv
<1>1. /\ state \in [Run -> {"none"} \cup Live \cup Terminal] /\ permit \subseteq Run
      /\ active_run \in [Agent -> Run \cup {NoRun}]
  BY DEF TypeOK, RunTypes, EntryTypes, TaskTypes
<1>2. CASE state[r] \in Terminal
  <2>1. \A a \in Agent : active_run[a] # r
    <3>1. task[r] # "reserved" /\ state[r] \notin Live
      BY <1>2 DEF BarrierInv, Terminal, Live
    <3> QED BY <3>1, RunAssumption DEF ReservedInv
  <2> QED BY <1>1, <1>2, <2>1 DEF Finalize
<1>3. CASE state[r] \notin Terminal
  <2>1. \A a \in Agent : active_run[a] = r => a \in assigned[r]
    BY RunAssumption DEF AssignedInv
  <2>2. /\ state' = [state EXCEPT ![r] = v]
        /\ active_run' = [a \in Agent |->
             IF a \in assigned[r] /\ active_run[a] = r THEN NoRun ELSE active_run[a]]
        /\ permit' = permit \cup {r}
    BY <1>3 DEF Finalize
  <2> QED BY <1>1, <1>3, <2>1, <2>2
<1> QED BY <1>2, <1>3

\* Finalizing a run: finalize_run with the verdict v keeps the invariant.
LEMMA SettleKeeps ==
  ASSUME RunInv, NEW r \in Run, NEW v \in Terminal, Finalize(r, v), state[r] # "none",
         v = "finished" => Earned(r),
         UNCHANGED <<agentVars, netVars, known, session, connected, optVars, ready, failure>>,
         UNCHANGED <<started, done, lost, lost_ever, gauges, senders, verdict>>,
         UNCHANGED <<cmdVars, sweepVars>>,
         todo' \in [Agent \cup {Sweeper} -> TodoItem],
         \A x \in Agent \cup {Sweeper} :
           \/ todo'[x] = todo[x]
           \/ todo'[x] = NoTodo /\ todo[x].run = r /\ todo[x].kind = "finalize",
         task' = task \/ (task[r] = "failing" /\ task' = [task EXCEPT ![r] = "over"])
  PROVE  RunInv'
<1> USE DEF RunInv
<1>1. /\ UNCHANGED agentVars /\ UNCHANGED <<up, down, known, session, connected>>
      /\ UNCHANGED <<assigned, on_agent_loss, ready, failure, started>>
      /\ UNCHANGED <<done, lost, lost_ever, gauges, senders, verdict>>
      /\ UNCHANGED <<control, expected, stale, unswept>>
  BY DEF netVars, optVars, cmdVars, sweepVars
<1>2. ControllerStep /\ \A a \in Agent : NewDown(a) = {}
  BY <1>1, QuietStep DEF NewDown
<1>3. /\ state' \in [Run -> {"none"} \cup Live \cup Terminal]
      /\ state'[r] = IF state[r] \in Terminal THEN state[r] ELSE v
      /\ \A s \in Run : s # r => state'[s] = state[s]
      /\ active_run' \in [Agent -> Run \cup {NoRun}]
      /\ \A a \in Agent : active_run'[a] = IF active_run[a] = r THEN NoRun ELSE active_run[a]
      /\ permit' \subseteq Run
  BY FinalizeEffect
<1>4. /\ task' \in [Run -> {"none", "reserved", "check", "parked", "expired",
                            "starting", "failing", "over"}]
      /\ \A s \in Run : s # r => task'[s] = task[s]
      /\ task'[r] = task[r] \/ (task[r] = "failing" /\ task'[r] = "over")
  <2>1. task \in [Run -> {"none", "reserved", "check", "parked", "expired",
                          "starting", "failing", "over"}]
    BY DEF TypeOK, TaskTypes
  <2>2. CASE task' = task
    BY <2>1, <2>2
  <2>3. CASE task[r] = "failing" /\ task' = [task EXCEPT ![r] = "over"]
    BY <2>1, <2>3
  <2> QED BY <2>2, <2>3
<1>5. /\ AgentTypes' /\ \A a \in Agent : AgentForm(a)' /\ AgentAssigned(a)'
      /\ EngineInv' /\ ProcessInv'
  BY <1>1, <1>2, AgentsKeep
<1>6. TypeOK'
  BY <1>1, <1>3, <1>4, <1>5 DEF TypeOK, EntryTypes, TaskTypes, RunTypes
<1>7. NoTodo.kind = "none" /\ state'[r] \in Terminal
  BY <1>3, TodoTyped
<1>8. \A s \in Run, a \in Agent : active_run'[a] = s => active_run[a] = s
  BY <1>3, RunAssumption
<1>9. FormInv'
  BY <1>1, <1>4, <1>5, <1>7 DEF FormInv
<1>10. TodoInv'
  BY <1>3, <1>7 DEF TodoInv, FormInv, Terminal
<1>11. BarrierInv'
  <2>1. v = "finished" => failure[r] = "none"
    BY DEF Earned, BarrierInv, TypeOK, RunTypes
  <2>2. state'[r] \notin {"none", "pending"}
    BY <1>7 DEF Terminal
  <2>3. failure[r] # "none" => state'[r] \in {"pending", "aborted", "failed"}
    BY <1>3, <2>1 DEF BarrierInv, Terminal
  <2>4. task[r] \notin {"none", "reserved"}
    BY DEF BarrierInv
  <2> QED BY <1>1, <1>3, <1>4, <1>7, <2>2, <2>3, <2>4 DEF BarrierInv
<1>12. AssignedInv'
  BY <1>1, <1>3, <1>4, <1>5, <1>7 DEF AssignedInv
<1>13. ReservedInv'
  <2>1. ASSUME NEW s \in Run, state'[s] \notin Terminal
        PROVE  s # r /\ state[s] \notin Terminal /\ task'[s] = task[s]
    BY <1>3, <1>4, <1>7, <2>1
  <2>2. \A s \in Run : assigned[s] \subseteq Agent /\ lost[s] \subseteq Agent
    BY DEF TypeOK, RunTypes
  <2>3. ASSUME NEW s \in Run, state'[s] \notin Terminal, NEW a \in assigned[s],
               active_run'[a] # s
        PROVE  /\ Gone(a, s)'
               /\ s \notin started' => \/ todo'[a] = Todo("terminate", s)
                                       \/ failure'[s] # "none" \/ a \notin ready'[s]
               /\ s \in started' => \/ todo'[a] = Todo("terminate", s)
                                    \/ done'[s][a] # "none" \/ a \in lost'[s]
    <3>1. s # r /\ state[s] \notin Terminal /\ active_run[a] # s /\ a \in Agent
      BY <1>3, <2>1, <2>2, <2>3
    <3>2. Gone(a, s)
      BY <3>1 DEF ReservedInv
    <3>3. Gone(a, s)'
      BY <1>1, <1>2, <1>7, <3>1, <3>2, GoneKeeps
    <3>4. todo[a] = Todo("terminate", s) => todo'[a] = Todo("terminate", s)
      BY <3>1, TodoTyped
    <3> QED BY <1>1, <3>1, <3>3, <3>4 DEF ReservedInv
  <2>4. ASSUME NEW a \in Agent
        PROVE  /\ active_run'[a] # NoRun =>
                    task'[active_run'[a]] = "reserved" \/ state'[active_run'[a]] \in Live
               /\ todo'[a].kind = "terminate" =>
                    /\ todo'[a] = Todo("terminate", todo'[a].run)
                    /\ active_run'[a] # todo'[a].run
    <3>1. active_run[a] \in Run \cup {NoRun}
      BY AgentPoint
    <3>2. todo'[a].kind = "terminate" => todo'[a] = todo[a] /\ todo[a].run \in Run
      BY <1>7 DEF FormInv
    <3> QED BY <1>3, <1>4, <3>1, <3>2, RunAssumption DEF ReservedInv
  <2>5. \A s \in Run : state'[s] \notin Terminal => \A a \in lost[s] :
          a \in lost_ever[s] \/ active_run'[a] # s
    BY <1>8, <2>1, <2>2 DEF ReservedInv
  <2> QED BY <1>1, <2>3, <2>4, <2>5 DEF ReservedInv
<1>14. GaugesSettle'
  <2>1. \A s \in Run : gauges[s] \subseteq Agent
    BY DEF TypeOK, RunTypes
  <2>2. state'[r] \notin Live
    BY <1>7 DEF Terminal, Live
  <2>3. \A s \in Run : state'[s] \in Live => state[s] \in Live
    BY <1>3, <2>2
  <2> QED BY <1>1, <1>6, <1>8, <2>1, <2>3 DEF GaugesSettle
<1>15. OnceInv'
  BY <1>1, <1>2, OnceKeeps DEF OnceInv, AgentOnce, Ended
<1>16. EarnedInv'
  <2>1. \A s \in Run : Earned(s)' <=> Earned(s)
    BY <1>1 DEF Earned
  <2>2. \A s \in Run : state'[s] = "finished" => Earned(s)
    BY <1>3 DEF EarnedInv
  <2>3. \A x \in Agent \cup {Sweeper} :
          todo'[x].kind = "finalize" => todo'[x] = todo[x] /\ todo[x].run \in Run
    BY <1>7 DEF FormInv
  <2> QED BY <2>1, <2>2, <2>3 DEF EarnedInv
<1>17. LossInv'
  <2>1. state'[r] \notin Live
    BY <1>7 DEF Terminal, Live
  <2>2. \A s \in Run : Todo("loss", s).kind = "loss" /\ Todo("loss", s).run = s
    BY TodoTyped
  <2> QED BY <1>1, <1>3, <2>1, <2>2 DEF LossInv
<1> QED BY <1>5, <1>6, <1>9, <1>10, <1>11, <1>12, <1>13, <1>14, <1>15, <1>16, <1>17

\* A session task or the sweeper finalizes a run.
LEMMA FinalizeRunPreserves ==
  ASSUME RunInv, NEW x \in Agent \cup {Sweeper}, FinalizeRun(x)
  PROVE  RunInv'
<1> USE DEF RunInv
<1> DEFINE r == todo[x].run
           v == todo[x].verdict
<1>1. /\ todo[x].kind = "finalize" /\ Finalize(r, v) /\ todo' = [todo EXCEPT ![x] = NoTodo]
      /\ UNCHANGED <<agentVars, netVars, known, session, connected, optVars, ready, failure>>
      /\ UNCHANGED <<started, done, lost, lost_ever, gauges, senders, verdict>>
      /\ UNCHANGED <<cmdVars, sweepVars>> /\ task' = task
  BY DEF FinalizeRun
<1>2. r \in Run /\ v \in Terminal /\ state[r] # "none" /\ (v = "finished" => Earned(r))
  BY <1>1 DEF FormInv, TodoInv, EarnedInv
<1>3. /\ todo' \in [Agent \cup {Sweeper} -> TodoItem] /\ todo'[x] = NoTodo
      /\ \A y \in Agent \cup {Sweeper} : y # x => todo'[y] = todo[y]
  BY <1>1, TodoSet, TodoTyped
<1> QED BY <1>1, <1>2, <1>3, SettleKeeps

\* The barrier finalizes a run it has failed.
LEMMA BarrierFinalizePreserves ==
  ASSUME RunInv, NEW r \in Run, BarrierFinalize(r)
  PROVE  RunInv'
<1> USE DEF RunInv
<1>1. /\ task[r] = "failing" /\ task' = [task EXCEPT ![r] = "over"] /\ Finalize(r, verdict[r])
      /\ UNCHANGED <<agentVars, netVars, known, session, connected, optVars, ready, failure>>
      /\ UNCHANGED <<started, done, lost, lost_ever, gauges, senders, verdict>>
      /\ UNCHANGED <<cmdVars, sweepVars>> /\ todo' = todo
  BY DEF BarrierFinalize
<1>2. verdict[r] \in {"aborted", "failed"} /\ state[r] # "none"
  BY <1>1 DEF FormInv, BarrierInv, TypeOK, TaskTypes
<1>3. todo' \in [Agent \cup {Sweeper} -> TodoItem] /\ verdict[r] \in Terminal
  BY <1>1, <1>2 DEF TypeOK, EntryTypes, Terminal
<1> QED BY <1>1, <1>2, <1>3, SettleKeeps

-----------------------------------------------------------------------------
(***************************************************************************)
(* A run is found complete, or has lost an agent.                          *)
(***************************************************************************)

\* What check_completion leaves to do: nothing, or a verdict that is "finished"
\* only when every agent that is not lost has finished, and some agent has.
LEMMA CompletionEffect ==
  ASSUME RunInv, NEW x \in Agent \cup {Sweeper}, NEW r \in Run, NEW l,
         NEW d \in [Agent -> {"none"} \cup Terminal],
         \A a \in Agent : d[a] # "none" => a \in assigned[r],
         CheckCompletion(x, r, d, l)
  PROVE  /\ todo' \in [Agent \cup {Sweeper} -> TodoItem]
         /\ \A y \in Agent \cup {Sweeper} : y # x => todo'[y] = todo[y]
         /\ \/ todo'[x] = NoTodo
            \/ /\ todo'[x].kind = "finalize" /\ todo'[x].run = r
               /\ todo'[x].verdict \in Terminal
               /\ todo'[x].verdict = "finished" =>
                    /\ \E a \in assigned[r] : d[a] = "finished"
                    /\ \A a \in assigned[r] : d[a] = "finished" \/ a \in l
<1> USE DEF RunInv
<1> DEFINE v == CompletionVerdict(d)
           kinds == {d[a] : a \in Agent} \ {"none"}
           t == [Todo("finalize", r) EXCEPT !.verdict = v]
<1>1. v \in Terminal
  BY DEF CompletionVerdict, Terminal
<1>2. v = "finished" => "failed" \notin kinds /\ kinds # {} /\ "aborted" \notin kinds
  BY DEF CompletionVerdict
<1>3. v = "finished" => \A a \in Agent : d[a] \in {"none", "finished"}
  BY <1>2 DEF Terminal
<1>4. v = "finished" => \E a \in Agent : d[a] = "finished"
  BY <1>2, <1>3
<1>5. t \in TodoItem /\ t.kind = "finalize" /\ t.run = r /\ t.verdict = v
  BY <1>1, TodoTyped
<1>6. CASE /\ \A a \in assigned[r] : d[a] # "none" \/ a \in l
           /\ todo' = [todo EXCEPT ![x] = t]
  <2>1. /\ todo' \in [Agent \cup {Sweeper} -> TodoItem] /\ todo'[x] = t
        /\ \A y \in Agent \cup {Sweeper} : y # x => todo'[y] = todo[y]
    BY <1>5, <1>6, TodoSet
  <2>2. assigned[r] \subseteq Agent
    BY DEF TypeOK, RunTypes
  <2>3. v = "finished" => /\ \E a \in assigned[r] : d[a] = "finished"
                          /\ \A a \in assigned[r] : d[a] = "finished" \/ a \in l
    BY <1>3, <1>4, <1>6, <2>2
  <2> QED BY <1>1, <1>5, <2>1, <2>3
<1>7. CASE todo' = [todo EXCEPT ![x] = NoTodo]
  BY <1>7, TodoSet, TodoTyped
<1> QED BY <1>6, <1>7 DEF CheckCompletion

\* An end is applied: it is the only one of the agent and the run.
LEMMA ApplyEndedPreserves ==
  ASSUME RunInv, NEW a \in Agent, ApplyEnded(a)
  PROVE  RunInv'
<1> USE DEF RunInv
<1>1. Applies(a, "ended")
  BY DEF ApplyEnded
<1>2. PICK r \in Run, h \in Terminal : r = Head(up[a]).run /\ h = Head(up[a]).how
  BY <1>1, AppliesEffect
<1>3. PICK d : d = [done[r] EXCEPT ![a] = h]
  OBVIOUS
<1>4. /\ UNCHANGED agentVars /\ UNCHANGED <<down, known, session, active_run, connected>>
      /\ UNCHANGED <<state, assigned, on_agent_loss, ready, failure, started>>
      /\ UNCHANGED <<lost, lost_ever, task, senders, verdict>>
      /\ UNCHANGED <<permit, control, expected, stale, unswept>>
      /\ Applies(a, "ended") /\ gauges' = [gauges EXCEPT ![r] = @ \ {a}]
      /\ done' = [done EXCEPT ![r] = d] /\ CheckCompletion(a, r, d, lost[r])
  BY <1>2, <1>3 DEF ApplyEnded, optVars, taskVars, cmdVars, sweepVars
<1>5. ControllerStep /\ \A b \in Agent : NewDown(b) = {}
  BY <1>4, AppliesStep
<1>6. /\ r \in Run /\ a \in assigned[r] /\ r \in started
      /\ Head(up[a]) \in Msgs(up[a]) /\ Head(up[a]).kind = "ended"
      /\ \A m \in Msgs(up'[a]) : m.kind = "ended" => m.run # r
      /\ todo[a] = NoTodo
  BY <1>4, <1>2, AppliesEffect
<1>7. done[r][a] = "none"
  BY <1>6, <1>2 DEF OnceInv, AgentOnce
<1>8. done \in [Run -> [Agent -> {"none"} \cup Terminal]] /\ gauges \in [Run -> SUBSET Agent]
  BY DEF TypeOK, RunTypes
<1>9. /\ d \in [Agent -> {"none"} \cup Terminal] /\ d[a] = h
      /\ \A b \in Agent : b # a => d[b] = done[r][b]
  BY <1>3, <1>8
<1>10. /\ done' \in [Run -> [Agent -> {"none"} \cup Terminal]] /\ done'[r] = d
      /\ \A s \in Run : s # r => done'[s] = done[s]
  BY <1>4, <1>6, <1>8, <1>9
<1>11. /\ gauges' \in [Run -> SUBSET Agent] /\ gauges'[r] = gauges[r] \ {a}
      /\ \A s \in Run : s # r => gauges'[s] = gauges[s]
  BY <1>4, <1>6, <1>8
<1>12. /\ todo' \in [Agent \cup {Sweeper} -> TodoItem]
      /\ \A y \in Agent \cup {Sweeper} : y # a => todo'[y] = todo[y]
      /\ \/ todo'[a] = NoTodo
         \/ /\ todo'[a].kind = "finalize" /\ todo'[a].run = r
            /\ todo'[a].verdict \in Terminal
            /\ todo'[a].verdict = "finished" =>
                 /\ \E b \in assigned[r] : d[b] = "finished"
                 /\ \A b \in assigned[r] : d[b] = "finished" \/ b \in lost[r]
  <2>1. \A b \in Agent : d[b] # "none" => b \in assigned[r]
    BY <1>6, <1>9 DEF AssignedInv
  <2>2. a \in Agent \cup {Sweeper}
    OBVIOUS
  <2>3. CheckCompletion(a, r, d, lost[r])
    BY <1>4
  <2>4. d \in [Agent -> {"none"} \cup Terminal]
    BY <1>9
  <2>5. PICK l : l = lost[r]
    OBVIOUS
  <2>6. CheckCompletion(a, r, d, l)
    BY <2>3, <2>5
  <2> HIDE DEF RunInv
  <2> QED BY <2>1, <2>2, <2>4, <2>5, <2>6, CompletionEffect
<1>13. NoTodo.kind = "none" /\ a # Sweeper
  BY TodoTyped, SweeperAssumption
<1>14. /\ AgentTypes' /\ \A b \in Agent : AgentForm(b)' /\ AgentAssigned(b)'
       /\ EngineInv' /\ ProcessInv'
  BY <1>4, <1>5, AgentsKeep
<1>15. TypeOK'
  BY <1>4, <1>10, <1>11, <1>12, <1>14 DEF TypeOK, EntryTypes, TaskTypes, RunTypes
<1>16. FormInv'
  BY <1>4, <1>6, <1>12, <1>13, <1>14 DEF FormInv
<1>17. BarrierInv'
  BY <1>4, <1>6, <1>10, <1>11 DEF BarrierInv
<1>18. TodoInv'
  <2>1. state[r] # "none"
    BY <1>6 DEF BarrierInv
  <2> QED BY <1>4, <1>12, <1>13, <2>1 DEF TodoInv
<1>19. AssignedInv'
  <2>1. \A s \in Run, b \in Agent : done'[s][b] # "none" => b \in assigned[s]
    BY <1>6, <1>9, <1>10 DEF AssignedInv
  <2>2. \A b \in Agent : todo'[b].kind # "none" => b \in assigned[todo'[b].run]
    BY <1>6, <1>12, <1>13 DEF AssignedInv
  <2>3. session' = session
    BY <1>4
  <2> QED BY <1>4, <1>14, <2>1, <2>2, <2>3 DEF AssignedInv
<1>20. \A s \in Run, b \in Agent : done[s][b] # "none" => done'[s][b] = done[s][b]
  BY <1>7, <1>9, <1>10
<1>21. ReservedInv'
  <2>1. \A s \in Run : \A b \in assigned[s] :
          state[s] \notin Terminal /\ active_run[b] # s =>
             /\ s \notin started => \/ todo[b] = Todo("terminate", s)
                                    \/ failure[s] # "none" \/ b \notin ready[s]
             /\ s \in started => \/ todo[b] = Todo("terminate", s)
                                 \/ done[s][b] # "none" \/ b \in lost[s]
    BY DEF ReservedInv
  <2>2. \A s \in Run : \A b \in lost[s] :
          state[s] \notin Terminal => b \in lost_ever[s] \/ active_run[b] # s
    BY DEF ReservedInv
  <2>3. \A s \in Run, b \in Agent :
          todo[b] = Todo("terminate", s) => todo'[b] = Todo("terminate", s)
    BY <1>6, <1>12, <1>13, TodoTyped
  <2>4. \A s \in Run : assigned[s] \subseteq Agent
    BY DEF TypeOK, RunTypes
  <2>5. \A b \in Agent :
          todo'[b].kind \in {"resume", "replay", "terminate"} => todo'[b] = todo[b]
    BY <1>12, <1>13
  <2>6. \A s \in Run : \A b \in assigned[s] :
          state[s] \notin Terminal /\ active_run[b] # s =>
             /\ s \notin started => \/ todo'[b] = Todo("terminate", s)
                                    \/ failure[s] # "none" \/ b \notin ready[s]
             /\ s \in started => \/ todo'[b] = Todo("terminate", s)
                                 \/ done'[s][b] # "none" \/ b \in lost[s]
    BY <1>20, <2>1, <2>3, <2>4
  <2> QED BY <1>4, <1>5, <2>2, <2>5, <2>6, ReservedKeeps
<1>22. GaugesSettle'
  BY <1>4, <1>8, <1>9, <1>10, <1>11, <1>15 DEF GaugesSettle
<1>23. OnceInv'
  <2>1. Ended(a, r)
    BY <1>6, <1>2 DEF Ended
  <2>2. \A b \in Agent, s \in Run : done'[s][b] # "none" =>
          done[s][b] # "none" \/ (b = a /\ s = r)
    BY <1>9, <1>10
  <2>3. \A b \in Agent, s \in Run : done[s][b] # "none" => Ended(b, s)
    BY DEF Ended
  <2> QED BY <1>5, <1>6, <2>1, <2>2, <2>3, OnceKeeps
<1>24. EarnedInv'
  <2>1. \A s \in Run : Earned(s) => Earned(s)'
    <3>1. \A s \in Run : assigned[s] \subseteq Agent
      BY DEF TypeOK, RunTypes
    <3> QED BY <1>4, <1>20, <3>1 DEF Earned
  <2>2. todo'[a].kind = "finalize" /\ todo'[a].verdict = "finished" => Earned(r)'
    BY <1>4, <1>10, <1>12, <1>13 DEF Earned
  <2>3. \A x \in Agent \cup {Sweeper} : todo[x].kind = "finalize" => todo[x].run \in Run
    BY DEF FormInv
  <2> QED BY <1>4, <1>12, <1>13, <2>1, <2>2, <2>3 DEF EarnedInv
<1>25. LossInv'
  BY <1>4, <1>6, <1>12, <1>13 DEF LossInv
<1> QED BY <1>14, <1>15, <1>16, <1>17, <1>18, <1>19, <1>21, <1>22, <1>23, <1>24, <1>25

\* What the loss policy leaves to do, and whom it stops.
LEMMA PolicyEffect ==
  ASSUME RunInv, UNCHANGED agentVars, UNCHANGED <<known, session, up>>,
         NEW x \in Agent \cup {Sweeper}, NEW r \in Run, NEW S, LossPolicy(x, r, S)
  PROVE  /\ ControllerStep
         /\ \A a \in Agent : \A m \in NewDown(a) :
              m.kind = "stop" /\ m.run = r /\ a \in assigned[m.run]
         /\ todo' \in [Agent \cup {Sweeper} -> TodoItem]
         /\ \A y \in Agent \cup {Sweeper} : y # x => todo'[y] = todo[y]
         /\ \/ todo'[x] = NoTodo /\ on_agent_loss[r] = "continue"
            \/ /\ todo'[x].kind = "finalize" /\ todo'[x].run = r
               /\ todo'[x].verdict \in Terminal
               /\ todo'[x].verdict = "finished" =>
                    /\ \E a \in assigned[r] : done[r][a] = "finished"
                    /\ \A a \in assigned[r] : done[r][a] = "finished" \/ a \in lost[r] \cup S
<1>1. CASE on_agent_loss[r] = "continue"
  <2>1. CheckCompletion(x, r, done[r], lost[r] \cup S) /\ down' = down
    BY <1>1 DEF LossPolicy
  <2>2. PICK d, l : d = done[r] /\ l = lost[r] \cup S
    OBVIOUS
  <2>3. d \in [Agent -> {"none"} \cup Terminal] /\ \A a \in Agent : d[a] # "none" => a \in assigned[r]
    BY <2>2 DEF RunInv, TypeOK, RunTypes, AssignedInv
  <2>4. CheckCompletion(x, r, d, l)
    BY <2>1, <2>2
  <2>5. /\ todo' \in [Agent \cup {Sweeper} -> TodoItem]
        /\ \A y \in Agent \cup {Sweeper} : y # x => todo'[y] = todo[y]
        /\ \/ todo'[x] = NoTodo
           \/ /\ todo'[x].kind = "finalize" /\ todo'[x].run = r
              /\ todo'[x].verdict \in Terminal
              /\ todo'[x].verdict = "finished" =>
                   /\ \E a \in assigned[r] : d[a] = "finished"
                   /\ \A a \in assigned[r] : d[a] = "finished" \/ a \in l
    BY <2>3, <2>4, CompletionEffect
  <2>6. ControllerStep /\ \A a \in Agent : NewDown(a) = {}
    BY <2>1, QuietStep DEF NewDown
  <2> QED BY <1>1, <2>2, <2>5, <2>6
<1>2. CASE on_agent_loss[r] # "continue"
  <2> DEFINE T == {s \in RunSenders(r) : s.agent \notin S}
             t == [Todo("finalize", r) EXCEPT !.verdict = "failed"]
  <2>1. Send(T, DownMsg("stop", r)) /\ todo' = [todo EXCEPT ![x] = t]
    BY <1>2 DEF LossPolicy
  <2>2. TypeOK
    BY DEF RunInv
  <2>3. \A s \in T : s.agent \in assigned[r]
    BY <2>2, RunSendersAssigned
  <2>4. /\ ControllerStep
        /\ \A a \in Agent : \A m \in NewDown(a) :
             m.kind = "stop" /\ m.run = r /\ a \in assigned[m.run]
    <3>1. DownMsg("stop", r) \in Down /\ DownMsg("stop", r).kind = "stop"
          /\ DownMsg("stop", r).run = r
      BY DEF DownMsg, Down
    <3> HIDE DEF T
    <3> QED BY <2>1, <2>3, <3>1, SendsStep
  <2>5. t \in TodoItem /\ t.kind = "finalize" /\ t.run = r /\ t.verdict = "failed"
    BY TodoTyped DEF Terminal
  <2>6. /\ todo' \in [Agent \cup {Sweeper} -> TodoItem] /\ todo'[x] = t
        /\ \A y \in Agent \cup {Sweeper} : y # x => todo'[y] = todo[y]
    BY <2>1, <2>2, <2>5, TodoSet
  <2> QED BY <2>4, <2>5, <2>6 DEF Terminal
<1> QED BY <1>1, <1>2

\* The loss policy is applied to a run that has left the barrier, by the task
\* that found the loss: S is the agent that has restarted, or nobody new.
LEMMA PolicyKeeps ==
  ASSUME RunInv, NEW x \in Agent \cup {Sweeper}, NEW r \in Run, NEW S \in SUBSET assigned[r],
         state[r] \notin {"none", "pending"},
         \A a \in S : active_run[a] # r,
         todo[x].kind \in {"terminate", "loss"}, todo[x].run = r,
         todo[x].kind = "terminate" => x \in S \/ state[r] \in Terminal,
         lost' = [lost EXCEPT ![r] = @ \cup S], LossPolicy(x, r, S),
         UNCHANGED agentVars,
         UNCHANGED <<up, known, session, connected, active_run, state, optVars, ready>>,
         UNCHANGED <<failure, permit, started, done, lost_ever, gauges, task>>,
         UNCHANGED <<senders, verdict, cmdVars, sweepVars>>
  PROVE  RunInv'
<1> USE DEF RunInv
<1>1. /\ UNCHANGED agentVars /\ UNCHANGED <<up, known, session, active_run, connected>>
      /\ UNCHANGED <<state, assigned, on_agent_loss, ready, failure, started>>
      /\ UNCHANGED <<done, lost_ever, gauges, task, senders, verdict>>
      /\ UNCHANGED <<permit, control, expected, stale, unswept>>
  BY DEF optVars, cmdVars, sweepVars
<1>2. /\ ControllerStep
      /\ \A a \in Agent : \A m \in NewDown(a) :
           m.kind = "stop" /\ m.run = r /\ a \in assigned[m.run]
      /\ todo' \in [Agent \cup {Sweeper} -> TodoItem]
      /\ \A y \in Agent \cup {Sweeper} : y # x => todo'[y] = todo[y]
      /\ \/ todo'[x] = NoTodo /\ on_agent_loss[r] = "continue"
         \/ /\ todo'[x].kind = "finalize" /\ todo'[x].run = r
            /\ todo'[x].verdict \in Terminal
            /\ todo'[x].verdict = "finished" =>
                 /\ \E a \in assigned[r] : done[r][a] = "finished"
                 /\ \A a \in assigned[r] : done[r][a] = "finished" \/ a \in lost[r] \cup S
  BY <1>1, PolicyEffect
<1>3. /\ lost' \in [Run -> SUBSET Agent] /\ lost'[r] = lost[r] \cup S
      /\ \A s \in Run : s # r => lost'[s] = lost[s]
  BY DEF TypeOK, RunTypes
<1>4. NoTodo.kind = "none"
  BY TodoTyped
<1>5. /\ AgentTypes' /\ \A a \in Agent : AgentForm(a)' /\ AgentAssigned(a)'
      /\ EngineInv' /\ ProcessInv'
  BY <1>1, <1>2, AgentsKeep
<1>6. TypeOK'
  BY <1>1, <1>2, <1>3, <1>5 DEF TypeOK, EntryTypes, TaskTypes, RunTypes
<1>7. FormInv'
  BY <1>1, <1>2, <1>4, <1>5 DEF FormInv
<1>8. BarrierInv'
  BY <1>1, <1>3 DEF BarrierInv
<1>9. TodoInv'
  BY <1>1, <1>2, <1>4 DEF TodoInv
<1>10. AssignedInv'
  <2>1. \A b \in Agent : todo'[b].kind # "none" => b \in assigned[todo'[b].run]
    BY <1>2, <1>4 DEF AssignedInv
  <2>2. \A s \in Run : lost'[s] \subseteq assigned[s]
    BY <1>3 DEF AssignedInv
  <2> QED BY <1>1, <1>5, <2>1, <2>2 DEF AssignedInv
<1>11. ReservedInv'
  <2>1. \A s \in Run, a \in Agent : todo[a] = Todo("terminate", s) =>
          todo'[a] = Todo("terminate", s) \/ (s = r /\ (a \in S \/ state[r] \in Terminal))
    BY <1>2, TodoTyped
  <2>2. \A s \in Run : assigned[s] \subseteq Agent
    BY DEF TypeOK, RunTypes
  <2>3. r \in started \/ state[r] \in Terminal
    BY DEF BarrierInv
  <2>4. \A s \in Run : \A a \in assigned[s] :
          state[s] \notin Terminal /\ active_run[a] # s =>
             /\ s \notin started => \/ todo'[a] = Todo("terminate", s)
                                    \/ failure[s] # "none" \/ a \notin ready[s]
             /\ s \in started => \/ todo'[a] = Todo("terminate", s)
                                 \/ done[s][a] # "none" \/ a \in lost'[s]
    BY <1>3, <2>1, <2>2, <2>3 DEF ReservedInv
  <2>5. \A s \in Run : \A a \in lost'[s] :
          state[s] \notin Terminal => a \in lost_ever[s] \/ active_run[a] # s
    BY <1>3 DEF ReservedInv
  <2>6. \A a \in Agent : /\ \A m \in NewDown(a) : m.kind # "assignment"
                         /\ todo'[a].kind \in {"resume", "replay", "terminate"} =>
                              todo'[a] = todo[a]
    BY <1>2, <1>4
  <2> QED BY <1>1, <1>2, <2>4, <2>5, <2>6, ReservedKeeps
<1>12. GaugesSettle'
  BY <1>1, <1>3, <1>6 DEF GaugesSettle
<1>13. OnceInv'
  BY <1>1, <1>2, OnceKeeps DEF OnceInv, AgentOnce, Ended
<1>14. EarnedInv'
  <2>1. \A s \in Run : Earned(s) => Earned(s)'
    BY <1>1, <1>3 DEF Earned
  <2>2. todo'[x].kind = "finalize" /\ todo'[x].verdict = "finished" => Earned(r)'
    BY <1>1, <1>2, <1>3, <1>4 DEF Earned
  <2>3. \A y \in Agent \cup {Sweeper} : todo[y].kind = "finalize" => todo[y].run \in Run
    BY DEF FormInv
  <2> QED BY <1>1, <1>2, <1>4, <2>1, <2>2, <2>3 DEF EarnedInv
<1>15. LossInv'
  <2>1. ASSUME NEW s \in Run, s # r, state[s] \in Live, lost[s] # {}
        PROVE  /\ state[s] = "pending" => failure[s] # "none" \/ todo'[Sweeper] = Todo("loss", s)
               /\ state[s] # "pending" /\ on_agent_loss[s] = "abort" =>
                    \E y \in Agent \cup {Sweeper} :
                      todo'[y].run = s /\ todo'[y].kind \in {"loss", "finalize"}
    BY <1>2, <2>1, TodoTyped DEF LossInv
  <2>2. on_agent_loss[r] = "abort" =>
          todo'[x].run = r /\ todo'[x].kind \in {"loss", "finalize"}
    BY <1>2
  <2> QED BY <1>1, <1>3, <2>1, <2>2 DEF LossInv
<1> QED BY <1>5, <1>6, <1>7, <1>8, <1>9, <1>10, <1>11, <1>12, <1>13, <1>14, <1>15

\* A process that restarted gives up its part in the run.
LEMMA FollowsUpKeeps ==
  ASSUME RunInv, ControllerStep, NEW a \in Agent, NEW r \in Run, todo[a].run = r,
         NEW k \in {"terminate", "replay", "resume"}, FollowsUp(a, k),
         UNCHANGED <<connected, active_run, state, assigned, on_agent_loss, ready, failure>>,
         UNCHANGED <<started, done, lost_ever, gauges, task, senders, verdict>>,
         UNCHANGED <<permit, control, expected, stale, unswept>>,
         k = "terminate" => state[r] \in Terminal \cup {"none"} \/ done[r][a] # "none",
         \/ lost' = lost
         \/ lost' = [lost EXCEPT ![r] = @ \ {a}] /\ k = "resume" /\ state[r] \in Live,
         \A b \in Agent : \A m \in NewDown(b) :
           /\ b = a /\ m.run = r /\ k # "terminate"
           /\ m.kind = "start" => r \in started
           /\ m.kind = "assignment" => a \notin ready[r]
  PROVE  RunInv'
<1> USE DEF RunInv
<1>1. /\ todo' \in [Agent \cup {Sweeper} -> TodoItem] /\ todo'[a] = NoTodo
      /\ \A y \in Agent \cup {Sweeper} : y # a => todo'[y] = todo[y]
      /\ todo[a].kind = k /\ NoTodo.kind = "none" /\ a # Sweeper
  BY TodoSet, TodoTyped, SweeperAssumption DEF FollowsUp
<1>2. a \in assigned[r] /\ known' = known /\ session' = session
  BY <1>1 DEF AssignedInv, ControllerStep
<1>3. state[r] \in Live /\ k = "resume" => active_run[a] = r
  <2>1. state[r] \in Live => state[r] \notin Terminal
    BY DEF Live, Terminal
  <2>2. k = "resume" => ~ Gone(a, r)
    BY <1>1 DEF Gone
  <2> QED BY <1>2, <2>1, <2>2 DEF ReservedInv
<1>4. /\ lost' \in [Run -> SUBSET Agent]
      /\ \A s \in Run : lost'[s] \subseteq lost[s]
      /\ \A s \in Run : \A b \in lost[s] :
           b \in lost'[s] \/ (s = r /\ b = a /\ active_run[a] = r /\ state[r] \in Live)
  <2>1. lost \in [Run -> SUBSET Agent]
    BY DEF TypeOK, RunTypes
  <2>2. CASE lost' = lost
    BY <2>1, <2>2
  <2>3. CASE lost' = [lost EXCEPT ![r] = @ \ {a}] /\ k = "resume" /\ state[r] \in Live
    BY <1>3, <2>1, <2>3
  <2> QED BY <2>2, <2>3
<1>5. /\ AgentTypes' /\ \A b \in Agent : AgentForm(b)' /\ AgentAssigned(b)'
      /\ EngineInv' /\ ProcessInv'
  BY <1>2, AgentsKeep
<1>6. TypeOK'
  BY <1>1, <1>2, <1>4, <1>5 DEF TypeOK, EntryTypes, TaskTypes, RunTypes
<1>7. FormInv' /\ TodoInv'
  BY <1>1, <1>5 DEF FormInv, TodoInv
<1>8. BarrierInv'
  BY <1>4, BarrierKeeps
<1>9. AssignedInv'
  BY <1>1, <1>2, <1>4, <1>5 DEF AssignedInv
<1>10. ReservedInv'
  <2>1. \A s \in Run, b \in Agent : todo[b] = Todo("terminate", s) =>
          todo'[b] = Todo("terminate", s) \/ (s = r /\ b = a /\ k = "terminate")
    BY <1>1, TodoTyped
  <2>2. \A s \in Run : assigned[s] \subseteq Agent
    BY DEF TypeOK, RunTypes
  <2>3. k = "terminate" =>
          state[r] \in Terminal \/ done[r][a] # "none" \/ (a \notin ready[r] /\ r \notin started)
    BY DEF BarrierInv
  <2>4. \A s \in Run : \A b \in assigned[s] :
          state[s] \notin Terminal /\ active_run[b] # s =>
             /\ s \notin started => \/ todo'[b] = Todo("terminate", s)
                                    \/ failure[s] # "none" \/ b \notin ready[s]
             /\ s \in started => \/ todo'[b] = Todo("terminate", s)
                                 \/ done[s][b] # "none" \/ b \in lost'[s]
    <3>1. done[r][a] # "none" => r \in started
      BY DEF BarrierInv
    <3> QED BY <1>4, <2>1, <2>2, <2>3, <3>1 DEF ReservedInv
  <2>5. \A s \in Run : \A b \in lost'[s] :
          state[s] \notin Terminal => b \in lost_ever[s] \/ active_run[b] # s
    BY <1>4 DEF ReservedInv
  <2>6. \A b \in Agent :
          /\ todo'[b].kind \in {"resume", "replay", "terminate"} => todo'[b] = todo[b]
          /\ \A m \in NewDown(b) : m.kind = "assignment" => ~ Gone(b, m.run)
    BY <1>1 DEF Gone
  <2> QED BY <2>4, <2>5, <2>6, ReservedKeeps
<1>11. GaugesSettle'
  BY <1>4, <1>6 DEF GaugesSettle
<1>12. OnceInv'
  BY OnceKeeps DEF OnceInv, AgentOnce, Ended, ControllerStep
<1>13. EarnedInv'
  <2>1. \A s \in Run : \A b \in lost[s] : b \in lost'[s] \cup lost_ever[s]
    <3>1. state[r] \in Live => state[r] \notin Terminal
      BY DEF Live, Terminal
    <3> QED BY <1>4, <3>1 DEF ReservedInv
  <2>2. \A s \in Run : Earned(s) => Earned(s)'
    BY <2>1 DEF Earned
  <2>3. \A y \in Agent \cup {Sweeper} :
          todo'[y].kind = "finalize" => todo'[y] = todo[y] /\ todo[y].run \in Run
    BY <1>1 DEF FormInv
  <2> QED BY <2>2, <2>3 DEF EarnedInv
<1>14. LossInv'
  BY <1>1, <1>4 DEF LossInv
<1> QED BY <1>5, <1>6, <1>7, <1>8, <1>9, <1>10, <1>11, <1>12, <1>13, <1>14

\* A restarted agent is taken out of the run it served.
LEMMA TerminateParticipationPreserves ==
  ASSUME RunInv, NEW a \in Agent, TerminateParticipation(a)
  PROVE  RunInv'
<1> USE DEF RunInv
<1>1. todo[a].kind = "terminate"
  BY DEF TerminateParticipation, FollowsUp
<1>2. PICK r \in Run : r = todo[a].run
  BY <1>1 DEF FormInv
<1>3. /\ UNCHANGED agentVars /\ UNCHANGED <<up, known, session, active_run, connected>>
      /\ UNCHANGED <<state, assigned, on_agent_loss, ready, started>>
      /\ UNCHANGED <<done, lost_ever, gauges, task, senders, verdict>>
      /\ UNCHANGED <<control, expected, stale, unswept>>
      /\ UNCHANGED <<optVars, cmdVars, sweepVars>>
  BY DEF TerminateParticipation, optVars, cmdVars, sweepVars
<1>4. CASE /\ FollowsUp(a, "terminate") /\ Unstarted(r)
           /\ RecordPrepFailure(r, "failed") /\ UNCHANGED <<lost, down>>
  <2>1. ControllerStep
    BY <1>3, <1>4, QuietStep
  <2>2. /\ todo' \in [Agent \cup {Sweeper} -> TodoItem] /\ todo'[a] = NoTodo
        /\ \A y \in Agent \cup {Sweeper} : y # a => todo'[y] = todo[y]
    BY <1>4, TodoSet, TodoTyped DEF FollowsUp
  <2>3. control \in [Run -> {"none", "waiting", "over"}] /\ expected \in [Run -> SUBSET Agent]
    BY DEF TypeOK, TaskTypes
  <2> QED BY <1>1, <1>2, <1>3, <1>4, <2>1, <2>2, <2>3, RecordKeeps
<1>5. CASE /\ FollowsUp(a, "terminate") /\ ~ Unstarted(r)
           /\ state[r] \notin Live \/ done[r][a] # "none"
           /\ UNCHANGED <<failure, lost, permit, down>>
  <2>1. ControllerStep /\ \A b \in Agent : NewDown(b) = {}
    BY <1>3, <1>5, QuietStep DEF NewDown
  <2>2. state[r] \in Terminal \cup {"none"} \/ done[r][a] # "none"
    BY <1>5 DEF TypeOK, RunTypes
  <2> QED BY <1>2, <1>3, <1>5, <2>1, <2>2, FollowsUpKeeps
<1>6. CASE /\ ~ Unstarted(r) /\ state[r] \in Live /\ done[r][a] = "none"
           /\ lost' = [lost EXCEPT ![r] = @ \cup {a}] /\ LossPolicy(a, r, {a})
           /\ UNCHANGED <<failure, permit>>
  <2>1. state[r] \notin {"none", "pending"}
    BY <1>6 DEF Unstarted, Live
  <2>2. a \in assigned[r] /\ active_run[a] # r
    BY <1>1, <1>2 DEF AssignedInv, ReservedInv
  <2>3. {a} \in SUBSET assigned[r] /\ a \in {a}
    BY <2>2
  <2>4. \A b \in {a} : active_run[b] # r
    BY <2>2
  <2> QED BY <1>1, <1>2, <1>3, <1>6, <2>1, <2>3, <2>4, PolicyKeeps
<1> QED BY <1>2, <1>4, <1>5, <1>6 DEF TerminateParticipation

\* The current sender of an agent.
LEMMA CurrentAgent == \A a : Current(a).agent = a /\ Current(a).session = session[a]
BY DEF Current

\* An assignment or a start is replayed, or a kill sent, to one agent.
LEMMA ReplaysStep ==
  ASSUME RunInv, UNCHANGED agentVars, UNCHANGED <<known, session, up>>, NEW a \in Agent,
         NEW r \in Run, a \in assigned[r], NEW m \in Down, m.run = r, Send({Current(a)}, m),
         m.kind = "assignment" => a \notin ready[r]
  PROVE  /\ ControllerStep
         /\ \A b \in Agent : \A n \in NewDown(b) : b = a /\ n = m
<1>1. m.kind = "assignment" => \A n \in Msgs(down[a]) : n.kind = "start" => n.run # r
  BY DEF RunInv, EngineInv, AgentEngine, BarrierInv
<1>2. PICK S : S = {Current(a)}
  OBVIOUS
<1>3. m.kind = "assignment" => \A s \in S : s.agent \in Agent =>
        \A n \in Msgs(down[s.agent]) : n.kind = "start" => n.run # m.run
  BY <1>1, <1>2, CurrentAgent
<1>4. /\ ControllerStep
      /\ \A b \in Agent : \A n \in NewDown(b) :
           n = m /\ \E s \in S : s.agent = b /\ s.session = session[b]
  BY <1>2, <1>3, SendsStep
<1> QED BY <1>2, <1>4, CurrentAgent

\* Messages to agents.
LEMMA DownTyped ==
  \A r \in Run : \A k \in {"assignment", "start", "stop", "command"} :
    DownMsg(k, r) \in Down /\ DownMsg(k, r).kind = k /\ DownMsg(k, r).run = r
BY DEF DownMsg, Down

\* Reserved, with an empty slot: the assignment is sent again.
LEMMA ReplayAssignmentPreserves ==
  ASSUME RunInv, NEW a \in Agent, ReplayAssignment(a)
  PROVE  RunInv'
<1> USE DEF RunInv
<1>1. todo[a].kind = "replay" /\ FollowsUp(a, "replay")
  BY DEF ReplayAssignment, FollowsUp
<1>2. PICK r \in Run : r = todo[a].run
  BY <1>1 DEF FormInv
<1>3. /\ UNCHANGED agentVars /\ UNCHANGED <<up, known, session, active_run, connected>>
      /\ UNCHANGED <<state, assigned, on_agent_loss, ready, failure, started>>
      /\ UNCHANGED <<done, lost, lost_ever, gauges, task, senders, verdict>>
      /\ UNCHANGED <<permit, control, expected, stale, unswept>>
  BY DEF ReplayAssignment, runVars, optVars, taskVars, cmdVars, sweepVars
<1>4. a \in assigned[r]
  BY <1>1, <1>2 DEF AssignedInv
<1>5. CASE down' = down
  <2>1. ControllerStep /\ \A b \in Agent : NewDown(b) = {}
    BY <1>3, <1>5, QuietStep DEF NewDown
  <2> QED BY <1>1, <1>2, <1>3, <2>1, FollowsUpKeeps
<1>6. CASE a \notin ready[r] /\ Send({Current(a)}, DownMsg("assignment", r))
  <2>1. DownMsg("assignment", r) \in Down /\ DownMsg("assignment", r).kind = "assignment" /\ DownMsg("assignment", r).run = r
    BY DownTyped
  <2>2. /\ ControllerStep
        /\ \A b \in Agent : \A m \in NewDown(b) : b = a /\ m = DownMsg("assignment", r)
    BY <1>3, <1>4, <1>6, <2>1, ReplaysStep
  <2> QED BY <1>1, <1>2, <1>3, <1>6, <2>1, <2>2, FollowsUpKeeps
<1> QED BY <1>2, <1>5, <1>6 DEF ReplayAssignment

\* A process that still holds the run is counted again and told what it missed.
LEMMA ResumeRunPreserves ==
  ASSUME RunInv, NEW a \in Agent, ResumeRun(a)
  PROVE  RunInv'
<1> USE DEF RunInv
<1>1. todo[a].kind = "resume" /\ FollowsUp(a, "resume")
  BY DEF ResumeRun, FollowsUp
<1>2. PICK r \in Run : r = todo[a].run
  BY <1>1 DEF FormInv
<1> DEFINE settled == state[r] \notin Live \/ done[r][a] # "none"
<1>3. /\ UNCHANGED agentVars /\ UNCHANGED <<up, known, session, active_run, connected>>
      /\ UNCHANGED <<state, assigned, on_agent_loss, ready, failure, started>>
      /\ UNCHANGED <<done, lost_ever, gauges, task, senders, verdict>>
      /\ UNCHANGED <<permit, control, expected, stale, unswept>>
  BY DEF ResumeRun, optVars, taskVars, cmdVars, sweepVars
<1>4. /\ lost' = [lost EXCEPT ![r] = IF settled THEN @ ELSE @ \ {a}]
      /\ IF settled THEN Send({Current(a)}, DownMsg("stop", r))
         ELSE IF a \notin ready[r] THEN Send({Current(a)}, DownMsg("assignment", r))
         ELSE IF r \in started THEN Send({Current(a)}, DownMsg("start", r))
         ELSE UNCHANGED down
  BY <1>2 DEF ResumeRun
<1>5. a \in assigned[r]
  BY <1>1, <1>2 DEF AssignedInv
<1>6. \/ lost' = lost
      \/ lost' = [lost EXCEPT ![r] = @ \ {a}] /\ state[r] \in Live
  <2>1. CASE settled
    <3>1. lost' = [lost EXCEPT ![r] = @]
      BY <1>4, <2>1
    <3> QED BY <3>1 DEF TypeOK, RunTypes
  <2>2. CASE ~ settled
    <3>1. lost' = [lost EXCEPT ![r] = @ \ {a}]
      BY <1>4, <2>2
    <3> QED BY <2>2, <3>1
  <2> QED BY <2>1, <2>2
<1>7. CASE down' = down
  <2>1. ControllerStep /\ \A b \in Agent : NewDown(b) = {}
    BY <1>3, <1>7, QuietStep DEF NewDown
  <2> QED BY <1>1, <1>2, <1>3, <1>6, <2>1, FollowsUpKeeps
<1>8. CASE Send({Current(a)}, DownMsg("stop", r))
  <2>1. DownMsg("stop", r) \in Down /\ DownMsg("stop", r).kind = "stop" /\ DownMsg("stop", r).run = r
    BY DownTyped
  <2>2. /\ ControllerStep
        /\ \A b \in Agent : \A m \in NewDown(b) : b = a /\ m = DownMsg("stop", r)
    BY <1>3, <1>5, <1>8, <2>1, ReplaysStep
  <2> QED BY <1>1, <1>2, <1>3, <1>6, <1>8, <2>1, <2>2, FollowsUpKeeps
<1>9. CASE a \notin ready[r] /\ Send({Current(a)}, DownMsg("assignment", r))
  <2>1. DownMsg("assignment", r) \in Down /\ DownMsg("assignment", r).kind = "assignment" /\ DownMsg("assignment", r).run = r
    BY DownTyped
  <2>2. /\ ControllerStep
        /\ \A b \in Agent : \A m \in NewDown(b) : b = a /\ m = DownMsg("assignment", r)
    BY <1>3, <1>5, <1>9, <2>1, ReplaysStep
  <2> QED BY <1>1, <1>2, <1>3, <1>6, <1>9, <2>1, <2>2, FollowsUpKeeps
<1>10. CASE r \in started /\ Send({Current(a)}, DownMsg("start", r))
  <2>1. DownMsg("start", r) \in Down /\ DownMsg("start", r).kind = "start" /\ DownMsg("start", r).run = r
    BY DownTyped
  <2>2. /\ ControllerStep
        /\ \A b \in Agent : \A m \in NewDown(b) : b = a /\ m = DownMsg("start", r)
    BY <1>3, <1>5, <1>10, <2>1, ReplaysStep
  <2> QED BY <1>1, <1>2, <1>3, <1>6, <1>10, <2>1, <2>2, FollowsUpKeeps
<1> QED BY <1>4, <1>7, <1>8, <1>9, <1>10

\* The sweep's loss, before the start or after it.
LEMMA SweepSettlesPreserves ==
  ASSUME RunInv, SweepSettles
  PROVE  RunInv'
<1> USE DEF RunInv
<1>1. todo[Sweeper].kind = "loss"
  BY DEF SweepSettles, FollowsUp
<1>2. PICK r \in Run : r = todo[Sweeper].run
  BY <1>1 DEF FormInv
<1>3. /\ UNCHANGED agentVars /\ UNCHANGED <<up, known, session, active_run, connected>>
      /\ UNCHANGED <<state, assigned, on_agent_loss, ready, started>>
      /\ UNCHANGED <<done, lost, lost_ever, gauges, task, senders, verdict>>
      /\ UNCHANGED <<control, expected, stale, unswept>>
      /\ UNCHANGED <<optVars, cmdVars, sweepVars>>
  BY DEF SweepSettles, optVars, cmdVars, sweepVars
<1>4. CASE /\ FollowsUp(Sweeper, "loss") /\ Unstarted(r)
           /\ RecordPrepFailure(r, "failed") /\ UNCHANGED down
  <2>1. ControllerStep
    BY <1>3, <1>4, QuietStep
  <2>2. /\ todo' \in [Agent \cup {Sweeper} -> TodoItem] /\ todo'[Sweeper] = NoTodo
        /\ \A y \in Agent \cup {Sweeper} : y # Sweeper => todo'[y] = todo[y]
    BY <1>4, TodoSet, TodoTyped DEF FollowsUp
  <2>3. control \in [Run -> {"none", "waiting", "over"}] /\ expected \in [Run -> SUBSET Agent]
    BY DEF TypeOK, TaskTypes
  <2> QED BY <1>1, <1>2, <1>3, <1>4, <2>1, <2>2, <2>3, RecordKeeps
<1>5. CASE /\ ~ Unstarted(r) /\ LossPolicy(Sweeper, r, {}) /\ UNCHANGED <<failure, permit>>
  <2>1. state[r] \notin {"none", "pending"}
    BY <1>1, <1>2, <1>5 DEF Unstarted, TodoInv
  <2>2. PICK S : S = {}
    OBVIOUS
  <2>3. /\ lost' = [lost EXCEPT ![r] = @ \cup S] /\ S \in SUBSET assigned[r]
        /\ LossPolicy(Sweeper, r, S) /\ \A a \in S : active_run[a] # r
    BY <1>3, <1>5, <2>2 DEF TypeOK, RunTypes
  <2>4. todo[Sweeper].kind \in {"terminate", "loss"} /\ todo[Sweeper].kind # "terminate"
    BY <1>1
  <2> HIDE DEF RunInv
  <2> QED BY <1>2, <1>3, <1>5, <2>1, <2>3, <2>4, PolicyKeeps, ZenonT(40)
<1> QED BY <1>2, <1>4, <1>5 DEF SweepSettles

\* The sweep marks the agents it found silent.
LEMMA SweepRunPreserves ==
  ASSUME RunInv, NEW r \in Run, SweepRun(r)
  PROVE  RunInv'
<1> USE DEF RunInv
<1>1. /\ UNCHANGED agentVars /\ UNCHANGED <<up, down, known, session, active_run, connected>>
      /\ UNCHANGED <<state, assigned, on_agent_loss, ready, failure, started>>
      /\ UNCHANGED <<done, task, senders, verdict, permit, control, expected, stale>>
      /\ unswept' = unswept \ {r} /\ r \in unswept /\ todo[Sweeper] = NoTodo
  BY DEF SweepRun, netVars, optVars, taskVars, cmdVars
<1>2. ControllerStep /\ \A b \in Agent : NewDown(b) = {}
  BY <1>1, QuietStep DEF NewDown
<1>3. CASE UNCHANGED <<todo, lost, lost_ever, gauges>>
  <2>1. connected' \subseteq Agent /\ TaskTypes' /\ gauges \in [Run -> SUBSET Agent]
    BY <1>1 DEF TypeOK, EntryTypes, TaskTypes, RunTypes
  <2>2. BarrierInv'
    BY <1>1, <1>3, BarrierKeeps
  <2>3. \A s \in Run : task[s] = "failing" => verdict[s] # "none"
    BY DEF FormInv
  <2>4. \A s \in Run : state[s] \in Live => \A b \in gauges[s] :
          done[s][b] = "none" /\ (b \in lost[s] => active_run[b] # s)
    BY DEF GaugesSettle
  <2> QED BY <1>1, <1>2, <1>3, <2>1, <2>2, <2>3, <2>4, LightKeeps
<1>4. ASSUME NEW S, S = NewlyLost(r, stale), state[r] \notin Terminal, MarkLost(r, S),
             todo' = [todo EXCEPT ![Sweeper] = Todo("loss", r)]
      PROVE  RunInv'
  <2>1. S \subseteq assigned[r] /\ assigned[r] \subseteq Agent
    BY <1>4 DEF NewlyLost, TypeOK, RunTypes
  <2>2. /\ lost' \in [Run -> SUBSET Agent] /\ lost_ever' \in [Run -> SUBSET Agent]
        /\ gauges' \in [Run -> SUBSET Agent]
        /\ lost'[r] = lost[r] \cup S /\ \A s \in Run : s # r => lost'[s] = lost[s]
        /\ lost_ever'[r] = lost_ever[r] \cup S
        /\ \A s \in Run : s # r => lost_ever'[s] = lost_ever[s]
        /\ gauges'[r] = gauges[r] \ S /\ \A s \in Run : s # r => gauges'[s] = gauges[s]
    BY <1>4, <2>1 DEF MarkLost, TypeOK, RunTypes
  <2>3. /\ todo' \in [Agent \cup {Sweeper} -> TodoItem] /\ todo'[Sweeper] = Todo("loss", r)
        /\ \A y \in Agent \cup {Sweeper} : y # Sweeper => todo'[y] = todo[y]
    BY <1>4, TodoSet, TodoTyped
  <2>4. /\ Todo("loss", r).kind = "loss" /\ Todo("loss", r).run = r /\ NoTodo.kind = "none"
        /\ Sweeper \notin Agent
    BY TodoTyped, SweeperAssumption
  <2>5. state[r] # "none"
    BY <1>1 DEF BarrierInv
  <2>6. /\ AgentTypes' /\ \A b \in Agent : AgentForm(b)' /\ AgentAssigned(b)'
        /\ EngineInv' /\ ProcessInv'
    BY <1>1, <1>2, AgentsKeep
  <2>7. TypeOK'
    BY <1>1, <2>2, <2>3, <2>6 DEF TypeOK, EntryTypes, TaskTypes, RunTypes
  <2>8. FormInv' /\ TodoInv'
    BY <1>1, <2>3, <2>4, <2>5, <2>6 DEF FormInv, TodoInv
  <2>9. BarrierInv'
    BY <1>1, <2>2, <2>5 DEF BarrierInv
  <2>10. AssignedInv'
    <3>1. \A b \in Agent : todo'[b] = todo[b]
      BY <2>3, <2>4
    <3>2. \A s \in Run : lost'[s] \subseteq assigned[s]
      BY <2>1, <2>2 DEF AssignedInv
    <3> QED BY <1>1, <2>6, <3>1, <3>2 DEF AssignedInv
  <2>11. ReservedInv'
    <3>1. \A b \in Agent : todo'[b] = todo[b]
      BY <2>3, <2>4
    <3>2. \A s \in Run : assigned[s] \subseteq Agent /\ lost[s] \subseteq lost'[s]
      BY <2>2 DEF TypeOK, RunTypes
    <3>3. \A s \in Run : \A b \in assigned[s] :
            state[s] \notin Terminal /\ active_run[b] # s =>
               /\ s \notin started => \/ todo'[b] = Todo("terminate", s)
                                      \/ failure[s] # "none" \/ b \notin ready[s]
               /\ s \in started => \/ todo'[b] = Todo("terminate", s)
                                   \/ done[s][b] # "none" \/ b \in lost'[s]
      BY <3>1, <3>2 DEF ReservedInv
    <3>4. \A s \in Run : \A b \in lost'[s] :
            state[s] \notin Terminal => b \in lost_ever'[s] \/ active_run[b] # s
      BY <2>2 DEF ReservedInv
    <3> QED BY <1>1, <1>2, <3>1, <3>3, <3>4, ReservedKeeps
  <2>12. GaugesSettle'
    BY <1>1, <2>2, <2>7 DEF GaugesSettle
  <2>13. OnceInv'
    BY <1>1, <1>2, OnceKeeps DEF OnceInv, AgentOnce, Ended
  <2>14. EarnedInv'
    <3>1. \A s \in Run : Earned(s) => Earned(s)'
      BY <1>1, <2>2 DEF Earned
    <3>2. \A y \in Agent \cup {Sweeper} :
            todo'[y].kind = "finalize" => todo'[y] = todo[y] /\ todo[y].run \in Run
      BY <2>3, <2>4 DEF FormInv
    <3> QED BY <1>1, <3>1, <3>2 DEF EarnedInv
  <2>15. LossInv'
    <3>1. ASSUME NEW s \in Run, s # r, state[s] \in Live, lost[s] # {}
          PROVE  /\ state[s] = "pending" => failure[s] # "none"
                 /\ state[s] # "pending" /\ on_agent_loss[s] = "abort" =>
                      \E y \in Agent \cup {Sweeper} :
                        todo'[y].run = s /\ todo'[y].kind \in {"loss", "finalize"}
      BY <1>1, <2>3, <2>4, <3>1, TodoTyped DEF LossInv
    <3> QED BY <1>1, <2>2, <2>3, <2>4, <3>1 DEF LossInv
  <2> QED BY <2>6, <2>7, <2>8, <2>9, <2>10, <2>11, <2>12, <2>13, <2>14, <2>15
<1> QED BY <1>3, <1>4 DEF SweepRun

-----------------------------------------------------------------------------
(***************************************************************************)
(* Readiness, submission and registration.                                 *)
(***************************************************************************)

\* An agent reports readiness: it has its reservation, or the run is settled.
LEMMA ApplyReadyPreserves ==
  ASSUME RunInv, NEW a \in Agent, ApplyReady(a)
  PROVE  RunInv'
<1> USE DEF RunInv
<1>1. /\ UNCHANGED agentVars /\ UNCHANGED <<known, session, active_run, todo, connected>>
      /\ UNCHANGED <<state, assigned, on_agent_loss, failure, started>>
      /\ UNCHANGED <<done, lost, lost_ever, gauges, task, senders, verdict>>
      /\ UNCHANGED <<control, expected, stale, unswept>>
      /\ Applies(a, "ready")
  BY DEF ApplyReady, entryVars, optVars, cmdVars, sweepVars
<1>2. PICK r \in Run : r = Head(up[a]).run
  BY <1>1, AppliesEffect
<1>3. /\ a \in assigned[r] /\ Head(up[a]) \in Msgs(up[a]) /\ Head(up[a]).kind = "ready"
      /\ up' \in [Agent -> Seq(Up)]
      /\ \A b \in Agent : Msgs(up'[b]) \subseteq Msgs(up[b]) /\ Single(up'[b])
  BY <1>1, <1>2, AppliesEffect
<1>4. CASE state[r] \in Live
  <2>1. ready' = [ready EXCEPT ![r] = @ \cup {a}] /\ permit' = permit \cup {r} /\ down' = down
    BY <1>2, <1>4 DEF ApplyReady
  <2>2. ControllerStep /\ \A b \in Agent : NewDown(b) = {}
    BY <1>1, <2>1, AppliesStep
  <2>3. /\ ready' \in [Run -> SUBSET Agent] /\ ready'[r] = ready[r] \cup {a}
        /\ \A s \in Run : s # r => ready'[s] = ready[s]
    BY <2>1 DEF TypeOK, RunTypes
  <2>4. /\ AgentTypes' /\ \A b \in Agent : AgentForm(b)' /\ AgentAssigned(b)'
        /\ EngineInv' /\ ProcessInv'
    BY <1>1, <2>2, AgentsKeep
  <2>5. TypeOK'
    BY <1>1, <2>1, <2>3, <2>4 DEF TypeOK, EntryTypes, TaskTypes, RunTypes
  <2>6. FormInv' /\ TodoInv' /\ EarnedInv' /\ LossInv' /\ AssignedInv'
    BY <1>1, <2>4 DEF FormInv, TodoInv, EarnedInv, Earned, LossInv, AssignedInv
  <2>7. BarrierInv'
    BY <1>1, <1>4, <2>3 DEF BarrierInv, Live
  <2>8. ReservedInv'
    <3>1. ~ Gone(a, r)
      BY <1>2, <1>3 DEF Gone
    <3>2. \A s \in Run : \A b \in assigned[s] :
            state[s] \notin Terminal /\ active_run[b] # s /\ Gone(b, s) =>
               /\ s \notin started => \/ todo[b] = Todo("terminate", s)
                                      \/ failure[s] # "none" \/ b \notin ready'[s]
               /\ s \in started => \/ todo[b] = Todo("terminate", s)
                                   \/ done[s][b] # "none" \/ b \in lost[s]
      BY <2>3, <3>1 DEF ReservedInv
    <3>3. \A s \in Run : \A b \in lost[s] :
            state[s] \notin Terminal => b \in lost_ever[s] \/ active_run[b] # s
      BY DEF ReservedInv
    <3> QED BY <1>1, <2>2, <3>2, <3>3, ReservedKeeps
  <2>9. GaugesSettle'
    BY <1>1, <2>5 DEF GaugesSettle
  <2>10. OnceInv'
    BY <1>1, <2>2, OnceKeeps DEF OnceInv, AgentOnce, Ended, ControllerStep
  <2> QED BY <2>4, <2>5, <2>6, <2>7, <2>8, <2>9, <2>10
<1>5. CASE state[r] \notin Live
  <2>1. Send({Current(a)}, DownMsg("stop", r)) /\ ready' = ready /\ permit' = permit
    BY <1>2, <1>5 DEF ApplyReady
  <2>2. PICK S : S = {Current(a)}
    OBVIOUS
  <2>3. \A s \in S : s.agent \in assigned[r]
    BY <1>3, <2>2, CurrentAgent
  <2>4. /\ ControllerStep
        /\ \A b \in Agent : \A m \in NewDown(b) :
             /\ m.kind # "assignment" /\ m.run = r /\ b \in assigned[m.run]
             /\ m.kind = "start" => m.run \in started
    BY <1>1, <1>3, <2>1, <2>2, <2>3, TellsStep
  <2>5. connected' \subseteq Agent /\ TaskTypes' /\ gauges \in [Run -> SUBSET Agent]
    BY <1>1, <2>1 DEF TypeOK, EntryTypes, TaskTypes, RunTypes
  <2>6. BarrierInv'
    BY <1>1, <2>1, BarrierKeeps
  <2>7. \A s \in Run : task[s] = "failing" => verdict[s] # "none"
    BY DEF FormInv
  <2>8. \A s \in Run : state[s] \in Live => \A b \in gauges[s] :
          done[s][b] = "none" /\ (b \in lost[s] => active_run[b] # s)
    BY DEF GaugesSettle
  <2> QED BY <1>1, <2>1, <2>4, <2>5, <2>6, <2>7, <2>8, SendKeeps
<1> QED BY <1>4, <1>5

\* The assignments go out over the sessions the submission reserved.
LEMMA SendAssignmentsPreserves ==
  ASSUME RunInv, NEW r \in Run, SendAssignments(r)
  PROVE  RunInv'
<1> USE DEF RunInv
<1>1. /\ UNCHANGED agentVars /\ UNCHANGED <<up, known, session, active_run, todo, connected>>
      /\ UNCHANGED <<assigned, on_agent_loss, ready, failure, started>>
      /\ UNCHANGED <<done, lost, lost_ever, gauges, verdict, permit>>
      /\ UNCHANGED <<control, expected, stale, unswept>>
      /\ task[r] = "reserved" /\ task' = [task EXCEPT ![r] = "check"]
      /\ state' = [state EXCEPT ![r] = "pending"] /\ senders' = [senders EXCEPT ![r] = {}]
      /\ Send(senders[r], DownMsg("assignment", r))
  BY DEF SendAssignments, entryVars, optVars, cmdVars, sweepVars
<1>2. state[r] = "none" /\ r \notin started
  BY <1>1 DEF BarrierInv
<1>3. \A s \in senders[r] : s.agent \in Agent /\ s.agent \in assigned[r]
  BY DEF AssignedInv, TypeOK, RunTypes
<1>4. /\ ControllerStep
      /\ \A b \in Agent : \A m \in NewDown(b) :
           /\ m = DownMsg("assignment", r)
           /\ \E s \in senders[r] : s.agent = b /\ s.session = session[b]
  <2>1. /\ DownMsg("assignment", r) \in Down /\ DownMsg("assignment", r).run = r
        /\ \A b \in Agent : \A n \in Msgs(down[b]) : n.kind = "start" => n.run # r
    BY <1>2, DownTyped DEF EngineInv, AgentEngine
  <2> QED BY <1>1, <1>3, <2>1, SendsStep
<1>5. DownMsg("assignment", r).kind = "assignment" /\ DownMsg("assignment", r).run = r
  BY DownTyped
<1>6. \A b \in Agent : \A m \in NewDown(b) :
        m.kind = "assignment" /\ m.run = r /\ b \in assigned[r] /\ ~ Gone(b, r)
  <2>1. ASSUME NEW b \in Agent, NEW m \in NewDown(b)
        PROVE  b \in assigned[r] /\ ~ Gone(b, r)
    <3>1. PICK s \in senders[r] : s.agent = b /\ s.session = session[b]
      BY <1>4, <2>1
    <3>2. session[b] \in Nat
      BY AgentPoint
    <3> QED BY <1>3, <3>1, <3>2 DEF Gone
  <2> QED BY <1>4, <1>5, <2>1
<1>7. /\ task'[r] = "check" /\ \A s \in Run : s # r => task'[s] = task[s]
      /\ state'[r] = "pending" /\ \A s \in Run : s # r => state'[s] = state[s]
      /\ senders'[r] = {} /\ \A s \in Run : s # r => senders'[s] = senders[s]
  BY <1>1 DEF TypeOK, TaskTypes, RunTypes
<1>8. /\ AgentTypes' /\ \A b \in Agent : AgentForm(b)' /\ AgentAssigned(b)'
      /\ EngineInv' /\ ProcessInv'
  BY <1>1, <1>4, <1>6, AgentsKeep
<1>9. TypeOK'
  BY <1>1, <1>8 DEF TypeOK, EntryTypes, TaskTypes, RunTypes, Live
<1>10. FormInv' /\ TodoInv'
  BY <1>1, <1>7, <1>8 DEF FormInv, TodoInv
<1>11. BarrierInv'
  BY <1>1, <1>2, <1>7 DEF BarrierInv
<1>12. AssignedInv'
  BY <1>1, <1>7, <1>8 DEF AssignedInv
<1>13. lost[r] = {} /\ gauges[r] = {}
  BY <1>2 DEF BarrierInv
<1>14. ReservedInv'
  <2>1. \A s \in Run : \A b \in assigned[s] :
          state'[s] \notin Terminal /\ active_run[b] # s =>
             /\ s \notin started => \/ todo[b] = Todo("terminate", s)
                                    \/ failure[s] # "none" \/ b \notin ready[s]
             /\ s \in started => \/ todo[b] = Todo("terminate", s)
                                 \/ done[s][b] # "none" \/ b \in lost[s]
    BY <1>2, <1>7 DEF ReservedInv, Terminal
  <2>2. \A s \in Run : \A b \in lost[s] :
          state'[s] \notin Terminal => b \in lost_ever[s] \/ active_run[b] # s
    BY <1>7, <1>13 DEF ReservedInv
  <2>3. \A s \in Run : /\ senders'[s] \subseteq senders[s]
                       /\ state'[s] \notin Terminal => state[s] \notin Terminal
                       /\ task[s] = "reserved" \/ state[s] \in Live =>
                            task'[s] = "reserved" \/ state'[s] \in Live
    BY <1>2, <1>7 DEF Live, Terminal
  <2>4. \A b \in Agent :
          /\ todo'[b] = todo[b]
          /\ \A m \in NewDown(b) : m.kind = "assignment" => ~ Gone(b, m.run)
    BY <1>1, <1>6
  <2> QED BY <1>1, <1>4, <2>1, <2>2, <2>3, <2>4, ReservedKeeps
<1>15. GaugesSettle'
  BY <1>1, <1>7, <1>9, <1>13 DEF GaugesSettle
<1>16. OnceInv'
  BY <1>1, <1>2, <1>4, <1>6, OnceKeeps DEF OnceInv, AgentOnce, Ended
<1>17. EarnedInv'
  BY <1>1, <1>7 DEF EarnedInv, Earned
<1>18. LossInv'
  BY <1>1, <1>7, <1>13 DEF LossInv
<1> QED BY <1>8, <1>9, <1>10, <1>11, <1>12, <1>14, <1>15, <1>16, <1>17, <1>18

\* A submission takes agents that no run holds.
LEMMA ReservePreserves ==
  ASSUME RunInv, NEW r \in Run, Reserve(r)
  PROVE  RunInv'
<1> USE DEF RunInv
<1>1. /\ UNCHANGED agentVars /\ UNCHANGED <<up, down, known, session, todo, connected, state>>
      /\ UNCHANGED <<ready, failure, started, done, lost, lost_ever, gauges, verdict>>
      /\ UNCHANGED <<permit, control, expected, stale, unswept>>
      /\ task[r] = "none" /\ task' = [task EXCEPT ![r] = "reserved"]
  BY DEF Reserve, netVars, cmdVars, sweepVars
<1>2. PICK S \in SUBSET Agent :
        /\ \A a \in S : active_run[a] = NoRun
        /\ active_run' = [a \in Agent |-> IF a \in S THEN r ELSE active_run[a]]
        /\ assigned' = [assigned EXCEPT ![r] = S]
        /\ senders' = [senders EXCEPT ![r] = {Current(a) : a \in S}]
  <2>1. PICK match \in SUBSET Agent :
          LET selected == {a \in match : Selectable(a)}
          IN  /\ selected # {}
              /\ active_run' = [a \in Agent |-> IF a \in selected THEN r ELSE active_run[a]]
              /\ assigned' = [assigned EXCEPT ![r] = selected]
              /\ senders' = [senders EXCEPT ![r] = {Current(a) : a \in selected}]
    BY DEF Reserve
  <2>2. {a \in match : Selectable(a)} \in SUBSET Agent
    BY <2>1
  <2>3. \A a \in {a \in match : Selectable(a)} : active_run[a] = NoRun
    BY DEF Selectable
  <2> QED BY <2>1, <2>2, <2>3
<1>3. on_agent_loss' \in [Run -> {"continue", "abort"}]
      /\ \A s \in Run : s # r => on_agent_loss'[s] = on_agent_loss[s]
  <2>1. PICK p \in Policies : on_agent_loss' = [on_agent_loss EXCEPT ![r] = p]
    BY DEF Reserve
  <2> QED BY <2>1, PolicyAssumption DEF TypeOK, RunTypes
<1>4. /\ task'[r] = "reserved" /\ \A s \in Run : s # r => task'[s] = task[s]
      /\ assigned'[r] = S /\ \A s \in Run : s # r => assigned'[s] = assigned[s]
      /\ senders'[r] = {Current(a) : a \in S} /\ \A s \in Run : s # r => senders'[s] = senders[s]
      /\ \A a \in Agent : active_run'[a] = IF a \in S THEN r ELSE active_run[a]
  BY <1>1, <1>2 DEF TypeOK, TaskTypes, RunTypes
<1>5. state[r] = "none" /\ assigned[r] = {} /\ lost[r] = {} /\ r \notin started
  BY <1>1 DEF BarrierInv, AssignedInv
<1>6. {Current(a) : a \in S} \subseteq Sender
  <2>1. \A a \in S : a \in Agent /\ session[a] \in Nat
    BY <1>2 DEF TypeOK, EntryTypes
  <2> QED BY <2>1 DEF Current, Sender
<1>7. ControllerStep /\ \A b \in Agent : NewDown(b) = {}
  BY <1>1, QuietStep DEF NewDown
<1>8. \A s \in Run : assigned[s] \subseteq assigned'[s]
  BY <1>4, <1>5
<1>9. /\ AgentTypes' /\ \A b \in Agent : AgentForm(b)' /\ AgentAssigned(b)'
      /\ EngineInv' /\ ProcessInv'
  BY <1>1, <1>7, <1>8, AgentsKeep
<1>10. TypeOK'
  <2>1. EntryTypes'
    BY <1>1, <1>2 DEF TypeOK, EntryTypes
  <2>2. RunTypes'
    BY <1>1, <1>2, <1>3 DEF TypeOK, RunTypes
  <2>3. TaskTypes'
    BY <1>1, <1>2, <1>6 DEF TypeOK, TaskTypes
  <2> QED BY <1>9, <2>1, <2>2, <2>3 DEF TypeOK
<1>11. FormInv' /\ TodoInv'
  BY <1>1, <1>4, <1>9 DEF FormInv, TodoInv
<1>12. BarrierInv'
  BY <1>1, <1>4, <1>5 DEF BarrierInv
<1>13. \A a \in Agent : todo[a].kind # "none" => todo[a].run \in Run /\ todo[a].run # r
  BY <1>5 DEF FormInv, AssignedInv
<1>14. AssignedInv'
  <2>1. \A a \in Agent :
          /\ active_run'[a] # NoRun => a \in assigned'[active_run'[a]]
          /\ todo[a].kind # "none" => a \in assigned'[todo[a].run]
    <3>1. \A a \in Agent : active_run[a] \in Run \cup {NoRun}
      BY AgentPoint
    <3> QED BY <1>4, <1>8, <1>13, <3>1 DEF AssignedInv
  <2>2. \A s \in Run : \A t \in senders'[s] : t.agent \in assigned'[s] /\ t.session <= session[t.agent]
    <3>1. \A a \in S : session[a] <= session[a]
      BY <1>2 DEF TypeOK, EntryTypes
    <3>2. \A t \in senders'[r] : t.agent \in S /\ t.session <= session[t.agent]
      BY <1>4, <3>1, CurrentAgent
    <3> QED BY <1>4, <3>2 DEF AssignedInv
  <2>3. \A s \in Run : /\ task'[s] = "none" => assigned'[s] = {}
                       /\ lost[s] \subseteq assigned'[s]
                       /\ \A a \in Agent : done[s][a] # "none" => a \in assigned'[s]
    BY <1>4, <1>8 DEF AssignedInv
  <2> QED BY <1>1, <1>9, <2>1, <2>2, <2>3 DEF AssignedInv
<1>15. \A s \in Run, a \in Agent : s # r /\ active_run'[a] # s => active_run[a] # s
  BY <1>2, <1>4, RunAssumption
<1>16. \A s \in Run, a \in Agent : s # r /\ active_run[a] # s => active_run'[a] # s
  BY <1>2, <1>4
<1>17. ReservedInv'
  <2>1. ASSUME NEW s \in Run, state[s] \notin Terminal, NEW a \in assigned'[s],
               active_run'[a] # s
        PROVE  /\ Gone(a, s)'
               /\ s \notin started => \/ todo[a] = Todo("terminate", s)
                                      \/ failure[s] # "none" \/ a \notin ready[s]
               /\ s \in started => \/ todo[a] = Todo("terminate", s)
                                   \/ done[s][a] # "none" \/ a \in lost[s]
    <3>1. s # r /\ a \in assigned[s]
      BY <1>4, <2>1
    <3>2. a \in Agent /\ active_run[a] # s
      BY <1>15, <2>1, <3>1 DEF TypeOK, RunTypes
    <3>3. Gone(a, s)
      BY <2>1, <3>1, <3>2 DEF ReservedInv
    <3>4. Gone(a, s)'
      BY <1>1, <1>4, <1>7, <3>1, <3>2, <3>3, GoneKeeps
    <3> QED BY <2>1, <3>1, <3>2, <3>4 DEF ReservedInv
  <2>2. \A a \in Agent : active_run'[a] # NoRun =>
          task'[active_run'[a]] = "reserved" \/ state[active_run'[a]] \in Live
    <3>1. \A a \in Agent : active_run[a] \in Run \cup {NoRun}
      BY AgentPoint
    <3> QED BY <1>4, <3>1 DEF ReservedInv
  <2>3. \A a \in Agent : todo[a].kind = "terminate" =>
          todo[a] = Todo("terminate", todo[a].run) /\ active_run'[a] # todo[a].run
    BY <1>13, <1>16 DEF ReservedInv
  <2>4. \A s \in Run : state[s] \notin Terminal => \A a \in lost[s] :
          a \in lost_ever[s] \/ active_run'[a] # s
    <3>1. \A s \in Run : lost[s] \subseteq Agent
      BY DEF TypeOK, RunTypes
    <3> QED BY <1>5, <1>16, <3>1 DEF ReservedInv
  <2> QED BY <1>1, <2>1, <2>2, <2>3, <2>4 DEF ReservedInv
<1>18. GaugesSettle'
  <2>1. \A s \in Run : gauges[s] \subseteq Agent /\ (state[s] \in Live => s # r)
    BY <1>5 DEF TypeOK, RunTypes, Live
  <2> QED BY <1>1, <1>10, <1>16, <2>1 DEF GaugesSettle
<1>19. OnceInv'
  BY <1>1, <1>7, OnceKeeps DEF OnceInv, AgentOnce, Ended
<1>20. EarnedInv'
  <2>1. \A s \in Run : s # r => (Earned(s)' <=> Earned(s))
    BY <1>1, <1>4 DEF Earned
  <2>2. \A x \in Agent \cup {Sweeper} :
          todo[x].kind = "finalize" => todo[x].run \in Run /\ todo[x].run # r
    BY <1>5 DEF FormInv, TodoInv
  <2> QED BY <1>1, <1>5, <2>1, <2>2 DEF EarnedInv
<1>21. LossInv'
  BY <1>1, <1>3, <1>5 DEF LossInv
<1> QED BY <1>9, <1>10, <1>11, <1>12, <1>14, <1>17, <1>18, <1>19, <1>20, <1>21

\* An agent registers again, as the same process or as a new one.
LEMMA RegisterPreserves ==
  ASSUME RunInv, NEW a \in Agent, Register(a)
  PROVE  RunInv'
<1> USE DEF RunInv
<1> DEFINE restarted == known[a] # incarnation[a]
<1>1. /\ UNCHANGED <<alive, incarnation, resume, slot, prep, down>>
      /\ UNCHANGED <<state, assigned, on_agent_loss, ready, failure, started>>
      /\ UNCHANGED <<done, lost, lost_ever, gauges, task, senders, verdict, permit>>
      /\ UNCHANGED <<control, expected, stale, unswept>>
      /\ link[a] = "connecting" /\ todo[a] = NoTodo
  BY DEF Register, runVars, optVars, taskVars, cmdVars, sweepVars
<1>2. /\ link' = [link EXCEPT ![a] = "on"] /\ session' = [session EXCEPT ![a] = @ + 1]
      /\ known' = [known EXCEPT ![a] = incarnation[a]] /\ connected' = connected \cup {a}
      /\ active_run' = [active_run EXCEPT ![a] = IF restarted THEN NoRun ELSE @]
      /\ up' = IF restarted THEN [up EXCEPT ![a] = <<>>] ELSE up
  BY DEF Register
<1>3. PICK t : /\ todo' = [todo EXCEPT ![a] = t]
               /\ t = IF active_run[a] # NoRun /\ restarted THEN Todo("terminate", active_run[a])
                      ELSE IF active_run[a] # NoRun /\ resume[a] = NoRun
                           THEN Todo("replay", active_run[a])
                      ELSE IF resume[a] # NoRun /\ ~ restarted THEN Todo("resume", resume[a])
                      ELSE NoTodo
  BY DEF Register
<1>4. /\ active_run[a] \in Run \cup {NoRun} /\ resume[a] \in Run \cup {NoRun}
      /\ session[a] \in Nat /\ incarnation[a] \in Nat /\ up[a] \in Seq(Up)
  BY AgentPoint
<1>5. /\ t \in TodoItem /\ t.kind \in {"none", "terminate", "replay", "resume"}
      /\ t.kind # "none" => t.run \in Run /\ a \in assigned[t.run]
      /\ t.kind = "terminate" => /\ t = Todo("terminate", t.run) /\ t.run = active_run[a]
                                 /\ restarted
      /\ t.kind = "replay" => t.run = active_run[a] /\ ~ restarted
      /\ t.kind = "resume" => t.run = resume[a]
      /\ restarted /\ active_run[a] # NoRun => t = Todo("terminate", active_run[a])
  <2>1. /\ active_run[a] # NoRun => active_run[a] \in Run /\ a \in assigned[active_run[a]]
        /\ resume[a] # NoRun => resume[a] \in Run /\ a \in assigned[resume[a]]
    BY <1>4 DEF AssignedInv, AgentAssigned
  <2>2. CASE active_run[a] # NoRun /\ restarted
    BY <1>3, <2>1, <2>2, TodoTyped
  <2>3. CASE active_run[a] # NoRun /\ ~ restarted /\ resume[a] = NoRun
    BY <1>3, <2>1, <2>3, TodoTyped
  <2>4. CASE /\ ~ (active_run[a] # NoRun /\ restarted)
             /\ ~ (active_run[a] # NoRun /\ resume[a] = NoRun)
             /\ resume[a] # NoRun /\ ~ restarted
    BY <1>3, <2>1, <2>4, TodoTyped
  <2>5. CASE /\ ~ (active_run[a] # NoRun /\ restarted)
             /\ ~ (active_run[a] # NoRun /\ resume[a] = NoRun)
             /\ ~ (resume[a] # NoRun /\ ~ restarted)
    BY <1>3, <2>5, TodoTyped
  <2> QED BY <2>2, <2>3, <2>4, <2>5
<1>6. /\ link'[a] = "on" /\ session'[a] = session[a] + 1 /\ known'[a] = incarnation[a]
      /\ active_run'[a] = (IF restarted THEN NoRun ELSE active_run[a])
      /\ todo'[a] = t /\ up'[a] = IF restarted THEN <<>> ELSE up[a]
      /\ \A b \in Agent : b # a =>
           /\ link'[b] = link[b] /\ session'[b] = session[b] /\ known'[b] = known[b]
           /\ active_run'[b] = active_run[b] /\ up'[b] = up[b]
      /\ \A y \in Agent \cup {Sweeper} : y # a => todo'[y] = todo[y]
  BY <1>2, <1>3 DEF TypeOK, AgentTypes, EntryTypes
<1>7. /\ Msgs(up'[a]) \subseteq Msgs(up[a]) /\ Single(up'[a]) /\ up'[a] \in Seq(Up)
      /\ restarted => Msgs(up'[a]) = {}
  BY <1>4, <1>6, MsgsEmpty DEF OnceInv, AgentOnce
<1>8. a \in alive /\ down[a] = <<>> /\ Msgs(down[a]) = {}
  BY <1>1, MsgsEmpty DEF ProcessInv, AgentProcess
<1>9. /\ restarted => slot[a] = Idle /\ prep[a] = {} /\ resume[a] = NoRun
      /\ Idle.run = NoRun
  BY <1>1 DEF ProcessInv, AgentProcess, Idle
<1>10. TypeOK'
  <2>1. AgentTypes'
    <3>1. up' \in [Agent -> Seq(Up)]
      BY <1>2 DEF TypeOK, AgentTypes
    <3> QED BY <1>1, <1>2, <3>1 DEF TypeOK, AgentTypes
  <2>2. EntryTypes'
    BY <1>2, <1>3, <1>4, <1>5 DEF TypeOK, EntryTypes
  <2> QED BY <1>1, <2>1, <2>2 DEF TypeOK, RunTypes, TaskTypes
<1>11. FormInv'
  <2>1. \A b \in Agent : AgentForm(b)'
    BY <1>1, <1>6, <1>7 DEF FormInv, AgentForm
  <2> QED BY <1>1, <1>5, <1>6, <2>1 DEF FormInv
<1>12. BarrierInv'
  BY <1>1, BarrierKeeps
<1>13. EngineInv'
  BY <1>1, <1>6, <1>7 DEF EngineInv, AgentEngine
<1>14. TodoInv'
  BY <1>1, <1>5, <1>6 DEF TodoInv
<1>15. AssignedInv'
  <2>1. \A b \in Agent : AgentAssigned(b)'
    BY <1>1, <1>6, <1>7 DEF AssignedInv, AgentAssigned
  <2>2. \A b \in Agent : /\ active_run'[b] # NoRun => b \in assigned[active_run'[b]]
                         /\ todo'[b].kind # "none" => b \in assigned[todo'[b].run]
    BY <1>5, <1>6 DEF AssignedInv
  <2>3. \A r \in Run : \A s \in senders[r] : s.agent \in assigned[r] /\ s.session <= session'[s.agent]
    <3>1. \A r \in Run : \A s \in senders[r] : s.agent \in Agent /\ s.session \in Nat
      BY DEF TypeOK, TaskTypes, Sender
    <3>2. \A r \in Run : \A s \in senders[r] : s.agent \in assigned[r] /\ s.session <= session[s.agent]
      BY DEF AssignedInv
    <3>3. \A n \in Nat : n <= session[a] => n <= session[a] + 1
      BY <1>4
    <3> QED BY <1>6, <3>1, <3>2, <3>3
  <2> QED BY <1>1, <2>1, <2>2, <2>3 DEF AssignedInv
<1>16. ProcessInv'
  <2>1. AgentProcess(a)'
    <3>1. incarnation[a] <= incarnation[a]
      BY <1>4
    <3> QED BY <1>1, <1>6, <1>8, <3>1 DEF AgentProcess
  <2> QED BY <1>1, <1>6, <2>1 DEF ProcessInv, AgentProcess
<1>17. \A r \in Run : \A s \in senders[r] : s.agent = a => s.session < session'[a]
  <2>1. \A r \in Run : \A s \in senders[r] : s.session \in Nat /\ s.session <= session[s.agent]
    BY DEF TypeOK, TaskTypes, Sender, AssignedInv
  <2>2. \A n \in Nat : n <= session[a] => n < session[a] + 1
    BY <1>4
  <2> QED BY <1>6, <2>1, <2>2
<1>18. \A b \in Agent, r \in Run : b # a /\ Gone(b, r) => Gone(b, r)'
  BY <1>1, <1>6 DEF Gone
<1>19. ASSUME NEW r \in Run, active_run'[a] # r, active_run[a] # r => Gone(a, r)
       PROVE  Gone(a, r)'
  <2>1. slot[a].run # r /\ \A p \in prep[a] : p.run # r
    BY <1>6, <1>9, <1>19, RunAssumption DEF Gone
  <2>2. DownMsg("assignment", r) \notin Msgs(down[a])
    BY <1>8
  <2>3. \A m \in Msgs(up'[a]) : m.kind = "ready" => m.run # r
    BY <1>6, <1>7, <1>19 DEF Gone
  <2>4. t.kind \in {"resume", "replay"} => t.run # r
    BY <1>1, <1>5, <1>6, <1>9, <1>19, RunAssumption DEF Gone
  <2> QED BY <1>1, <1>6, <1>17, <2>1, <2>2, <2>3, <2>4 DEF Gone
<1>20. \A r \in Run, b \in Agent : active_run[b] # r => active_run'[b] # r
  BY <1>6, RunAssumption
<1>21. ReservedInv'
  <2>1. ASSUME NEW r \in Run, state[r] \notin Terminal, NEW b \in assigned[r], active_run'[b] # r
        PROVE  /\ Gone(b, r)'
               /\ r \notin started => \/ todo'[b] = Todo("terminate", r)
                                      \/ failure[r] # "none" \/ b \notin ready[r]
               /\ r \in started => \/ todo'[b] = Todo("terminate", r)
                                   \/ done[r][b] # "none" \/ b \in lost[r]
    <3>1. b \in Agent /\ (active_run[b] # r => Gone(b, r))
      BY <2>1 DEF TypeOK, RunTypes, ReservedInv
    <3>2. CASE b # a
      BY <1>6, <1>18, <2>1, <3>1, <3>2 DEF ReservedInv
    <3>3. CASE b = a /\ active_run[a] = r
      <4>1. todo'[a] = Todo("terminate", r)
        BY <1>5, <1>6, <2>1, <3>3, RunAssumption
      <4> QED BY <1>19, <2>1, <3>1, <3>3, <4>1
    <3>4. CASE b = a /\ active_run[a] # r
      <4>1. todo[a] # Todo("terminate", r)
        BY <1>1, TodoTyped
      <4> QED BY <1>19, <2>1, <3>1, <3>4, <4>1 DEF ReservedInv
    <3> QED BY <3>2, <3>3, <3>4
  <2>2. \A b \in Agent : active_run'[b] # NoRun =>
          task[active_run'[b]] = "reserved" \/ state[active_run'[b]] \in Live
    BY <1>6 DEF ReservedInv
  <2>3. \A b \in Agent : todo'[b].kind = "terminate" =>
          todo'[b] = Todo("terminate", todo'[b].run) /\ active_run'[b] # todo'[b].run
    BY <1>5, <1>6, RunAssumption DEF ReservedInv
  <2>4. \A r \in Run : state[r] \notin Terminal => \A b \in lost[r] :
          b \in lost_ever[r] \/ active_run'[b] # r
    <3>1. \A r \in Run : lost[r] \subseteq Agent
      BY DEF TypeOK, RunTypes
    <3> QED BY <1>20, <3>1 DEF ReservedInv
  <2> QED BY <1>1, <2>1, <2>2, <2>3, <2>4 DEF ReservedInv
<1>22. GaugesSettle'
  <2>1. \A r \in Run : gauges[r] \subseteq Agent
    BY DEF TypeOK, RunTypes
  <2> QED BY <1>1, <1>10, <1>20, <2>1 DEF GaugesSettle
<1>23. OnceInv'
  <2>1. \A b \in Agent : Msgs(up'[b]) \subseteq Msgs(up[b]) /\ Single(up'[b])
    BY <1>6, <1>7 DEF OnceInv, AgentOnce
  <2> QED BY <1>1, <2>1 DEF OnceInv, AgentOnce, LetGo, Ended
<1>24. EarnedInv'
  <2>1. \A r \in Run : Earned(r)' <=> Earned(r)
    BY <1>1 DEF Earned
  <2>2. \A x \in Agent \cup {Sweeper} :
          todo'[x].kind = "finalize" => todo'[x] = todo[x] /\ todo[x].run \in Run
    BY <1>5, <1>6 DEF FormInv
  <2> QED BY <1>1, <2>1, <2>2 DEF EarnedInv
<1>25. LossInv'
  <2>1. a # Sweeper /\ NoTodo.kind = "none"
    BY SweeperAssumption, TodoTyped
  <2> QED BY <1>1, <1>6, <2>1 DEF LossInv
<1> QED
  BY <1>10, <1>11, <1>12, <1>13, <1>14, <1>15, <1>16, <1>21, <1>22, <1>23, <1>24, <1>25

-----------------------------------------------------------------------------
(***************************************************************************)
(* The invariant.                                                          *)
(***************************************************************************)

\* Every step of a session task.
LEMMA SessionStepPreserves ==
  ASSUME RunInv, NEW a \in Agent, SessionStep(a)
  PROVE  RunInv'
<1>1. a \in Agent \cup {Sweeper}
  OBVIOUS
<1> QED
  BY <1>1, RegisterPreserves, TerminateParticipationPreserves, ReplayAssignmentPreserves,
     ResumeRunPreserves, FinalizeRunPreserves, PumpEndsPreserves, ApplyReadyPreserves,
     ApplyPrepFailedPreserves, ApplyStartedPreserves, ApplyMetricsPreserves,
     ApplyEndedPreserves, ApplyAckPreserves DEF SessionStep

\* Every step of a submission, its barrier, its stop command and its sweep.
LEMMA RunStepPreserves ==
  ASSUME RunInv, NEW r \in Run, RunStep(r)
  PROVE  RunInv'
BY ReservePreserves, SendAssignmentsPreserves, BarrierCheckPreserves, BarrierExpiresPreserves,
   BarrierTimeoutPreserves, BarrierFinalizePreserves, BroadcastStartPreserves,
   StopRunPreserves, StopAcknowledgedPreserves, StopTimesOutPreserves, SweepRunPreserves
   DEF RunStep

\* A step that changes nothing.
LEMMA StutterPreserves ==
  ASSUME RunInv, UNCHANGED vars
  PROVE  RunInv'
<1> USE DEF RunInv
<1>1. /\ UNCHANGED <<alive, incarnation, link, resume, slot, prep, up, down>>
      /\ UNCHANGED <<known, session, connected, active_run, todo>>
      /\ UNCHANGED <<state, assigned, on_agent_loss, ready, failure, started>>
      /\ UNCHANGED <<done, lost, lost_ever, gauges, task, senders, verdict>>
      /\ UNCHANGED <<permit, control, expected, stale, unswept>>
  BY DEF vars, agentVars, netVars, entryVars, runVars, optVars, taskVars, cmdVars, sweepVars
<1>2. TypeOK'
  BY <1>1 DEF TypeOK, AgentTypes, EntryTypes, RunTypes, TaskTypes
<1>3. FormInv' /\ BarrierInv' /\ EngineInv' /\ TodoInv'
  BY <1>1 DEF FormInv, AgentForm, BarrierInv, EngineInv, AgentEngine, TodoInv
<1>4. AssignedInv' /\ ProcessInv'
  BY <1>1 DEF AssignedInv, AgentAssigned, ProcessInv, AgentProcess
<1>5. ReservedInv' /\ GaugesSettle'
  BY <1>1, <1>2 DEF ReservedInv, Gone, GaugesSettle
<1>6. OnceInv' /\ EarnedInv' /\ LossInv'
  BY <1>1 DEF OnceInv, AgentOnce, LetGo, Ended, EarnedInv, Earned, LossInv
<1> QED BY <1>2, <1>3, <1>4, <1>5, <1>6

\* The idle fleet.
LEMMA InitInv ==
  ASSUME Init
  PROVE  RunInv
<1> USE DEF Init
<1>1. NoTodo \in TodoItem /\ NoTodo.kind = "none" /\ NoTodo.run = NoRun
  BY TodoTyped
<1>2. /\ Idle \in SlotState /\ Idle.phase = "idle" /\ Idle.run = NoRun /\ Idle.latched = FALSE
      /\ <<>> \in Seq(Up) /\ <<>> \in Seq(Down)
  BY DEF Idle, SlotState
<1>3. TypeOK
  BY <1>1, <1>2 DEF TypeOK, AgentTypes, EntryTypes, RunTypes, TaskTypes, Live, Terminal
<1>4. \A a \in Agent : Msgs(up[a]) = {} /\ Msgs(down[a]) = {} /\ Ordered(down[a]) /\ Single(up[a])
  BY MsgsEmpty
<1>5. FormInv /\ BarrierInv /\ TodoInv
  BY <1>1, <1>2, <1>4 DEF FormInv, AgentForm, BarrierInv, TodoInv
<1>6. EngineInv /\ AssignedInv
  BY <1>1, <1>2, <1>4 DEF EngineInv, AgentEngine, AssignedInv, AgentAssigned
<1>7. ProcessInv /\ GaugesSettle
  BY <1>3 DEF ProcessInv, AgentProcess, GaugesSettle
<1>8. ReservedInv
  BY <1>1, <1>4 DEF ReservedInv
<1>9. OnceInv
  BY <1>2, <1>4, RunAssumption DEF OnceInv, AgentOnce, LetGo, Ended
<1>10. EarnedInv /\ LossInv
  BY <1>1 DEF EarnedInv, LossInv
<1> QED BY <1>3, <1>5, <1>6, <1>7, <1>8, <1>9, <1>10 DEF RunInv

\* The invariant is inductive.
LEMMA NextPreserves ==
  ASSUME RunInv, [Next]_vars
  PROVE  RunInv'
<1>1. Sweeper \in Agent \cup {Sweeper}
  OBVIOUS
<1> QED
  BY <1>1, AgentStepPreserves, SessionStepPreserves, RunStepPreserves, SweepScanPreserves,
     SweepSettlesPreserves, FinalizeRunPreserves, StutterPreserves DEF Next

\* What the runs, the barrier, the agents' slots, the messages in flight and the
\* reservations always agree on: RunInv holds in every state of every fleet.
THEOREM RunInvariance == Spec => []RunInv
<1>1. Init => RunInv
  BY InitInv
<1>2. RunInv /\ [Next]_vars => RunInv'
  BY NextPreserves
<1> QED BY <1>1, <1>2, PTL DEF Spec

-----------------------------------------------------------------------------
(***************************************************************************)
(* What follows from it.                                                   *)
(***************************************************************************)

\* A message in flight is one of the channel's messages.
LEMMA InFlightMsgs ==
  ASSUME NEW a \in Agent, NEW r \in Run, NEW kinds, InFlight(a, r, kinds)
  PROVE  \E m \in Msgs(up[a]) : m.run = r /\ m.kind \in kinds
BY DEF InFlight, Msgs

\* Until the barrier commits, nothing of the run is executed, in flight or
\* counted: re-anchoring the aggregator at the commit discards nothing.
THEOREM QuietTheorem == Spec => []QuietBeforeStart
<1>1. RunInv => QuietBeforeStart
  <2>1. SUFFICES ASSUME RunInv, NEW r \in Run, state[r] \in {"none", "pending"}
                 PROVE  /\ gauges[r] = {} /\ r \notin started
                        /\ \A a \in Agent :
                             /\ done[r][a] = "none" /\ ~ Engine(a, r)
                             /\ ~ InFlight(a, r, {"started", "metrics", "ended"})
    BY DEF QuietBeforeStart
  <2>2. r \notin started /\ gauges[r] = {} /\ \A a \in Agent : done[r][a] = "none"
    BY <2>1 DEF RunInv, BarrierInv
  <2>3. \A a \in Agent : ~ Engine(a, r)
    BY <2>1, <2>2 DEF RunInv, EngineInv, AgentEngine, Engine
  <2>4. \A a \in Agent : ~ InFlight(a, r, {"started", "metrics", "ended"})
    BY <2>1, <2>2, InFlightMsgs DEF RunInv, EngineInv, AgentEngine
  <2> QED BY <2>2, <2>3, <2>4
<1> QED BY <1>1, RunInvariance, PTL

\* The synchronized start: an engine runs only in a run all of whose agents have
\* reported ready, whatever was replayed or latched.
THEOREM StartsTogetherTheorem == Spec => []StartsTogether
<1>1. RunInv => StartsTogether
  <2>1. SUFFICES ASSUME RunInv, NEW r \in Run, NEW a \in assigned[r], Engine(a, r)
                 PROVE  assigned[r] \subseteq ready[r]
    BY DEF StartsTogether
  <2>2. a \in Agent
    BY <2>1 DEF RunInv, TypeOK, RunTypes
  <2>3. r \in started
    BY <2>1, <2>2 DEF RunInv, EngineInv, AgentEngine, Engine
  <2> QED BY <2>1, <2>3 DEF RunInv, BarrierInv
<1> QED BY <1>1, RunInvariance, PTL

\* A recorded preparation failure and the start commit exclude one another.
THEOREM FailedNeverStartsTheorem == Spec => []FailedNeverStarts
<1>1. RunInv => FailedNeverStarts
  <2>1. SUFFICES ASSUME RunInv, NEW r \in Run, failure[r] # "none"
                 PROVE  /\ r \notin started /\ state[r] \in {"pending", "aborted", "failed"}
                        /\ \A a \in Agent : ~ Engine(a, r)
    BY DEF FailedNeverStarts
  <2>2. r \notin started /\ state[r] \in {"pending", "aborted", "failed"}
    BY <2>1 DEF RunInv, BarrierInv
  <2>3. \A a \in Agent : ~ Engine(a, r)
    BY <2>1, <2>2 DEF RunInv, EngineInv, AgentEngine, Engine
  <2> QED BY <2>2, <2>3
<1> QED BY <1>1, RunInvariance, PTL

\* The type invariant, and live gauges: those of an agent that is done, or that
\* is counted as lost and still reserved, are at zero.
THEOREM GaugesTheorem == Spec => []GaugesSettle
<1>1. RunInv => GaugesSettle
  BY DEF RunInv
<1> QED BY <1>1, RunInvariance, PTL

\* A finished run has earned it: a result from some agent, and from all but lost
\* ones.
THEOREM FinishedTheorem == Spec => []FinishedIsEarned
<1>1. RunInv => FinishedIsEarned
  BY DEF RunInv, EarnedInv, Earned, FinishedIsEarned
<1> QED BY <1>1, RunInvariance, PTL

\* A started run holds the reservation of every agent whose result it waits for;
\* a settled run holds none.
THEOREM ReservationTheorem == Spec => []ReservationExact
<1>1. RunInv => ReservationExact
  <2>1. SUFFICES ASSUME RunInv
                 PROVE  ReservationExact
    OBVIOUS
  <2>2. ASSUME NEW r \in started, state[r] \in Live, NEW a \in assigned[r]
        PROVE  \/ active_run[a] = r
               \/ done[r][a] # "none" \/ a \in lost[r]
               \/ todo[a] = Todo("terminate", r)
    <3>1. r \in Run
      BY <2>1, <2>2 DEF RunInv, TypeOK, RunTypes
    <3>2. state[r] \notin Terminal
      BY <2>2 DEF Live, Terminal
    <3> QED BY <2>1, <2>2, <3>1, <3>2 DEF RunInv, ReservedInv
  <2>3. \A a \in Agent : active_run[a] # NoRun =>
          task[active_run[a]] = "reserved" \/ state[active_run[a]] \in Live
    BY <2>1 DEF RunInv, ReservedInv
  <2> QED BY <2>2, <2>3 DEF ReservationExact
<1> QED BY <1>1, RunInvariance, PTL

\* The abort policy: a started run with a lost agent is settled, or the task that
\* lost the agent is about to settle it.
THEOREM LossAbortsTheorem == Spec => []LossAborts
<1>1. RunInv => LossAborts
  BY DEF RunInv, LossInv, LossAborts, Live
<1> QED BY <1>1, RunInvariance, PTL

\* An agent executes a run at most once: when it has reported the end, or the end
\* is on its way, it does not hold the run and no assignment of it is on the way.
THEOREM ExecutesOnceTheorem == Spec => []ExecutesOnce
<1>1. RunInv => ExecutesOnce
  BY DEF RunInv, OnceInv, AgentOnce, ExecutesOnce
<1> QED BY <1>1, RunInvariance, PTL

\* The race of the barrier, the sweep, terminal events and stop commands for the
\* verdict has one winner.
LEMMA VerdictStep ==
  ASSUME RunInv, [Next]_vars, NEW r \in Run, state[r] \in Terminal
  PROVE  state'[r] = state[r]
<1> USE DEF RunInv
<1>1. state \in [Run -> {"none"} \cup Live \cup Terminal]
  BY DEF TypeOK, RunTypes
<1>2. ASSUME NEW s \in Run, NEW v, Finalize(s, v)
      PROVE  state'[r] = state[r]
  BY <1>1, <1>2 DEF Finalize
<1>3. CASE \E a \in Agent : AgentStep(a)
  BY <1>3, SMTT(30) DEF AgentStep, Die, Relaunch, Disconnect, Connect, ReceiveAssignment, ReceiveStart,
              ReceiveStop, PrepareDone, PrepareFails, EngineStarts, EngineReports, EngineEnds,
              runVars
<1>4. ASSUME NEW x \in Agent \cup {Sweeper}, FinalizeRun(x)
      PROVE  state'[r] = state[r]
  <2>1. todo[x].run \in Run /\ Finalize(todo[x].run, todo[x].verdict)
    BY <1>4 DEF FinalizeRun, FormInv
  <2> QED BY <1>2, <2>1
<1>5. ASSUME NEW a \in Agent, SessionStep(a)
      PROVE  state'[r] = state[r]
  <2>1. CASE FinalizeRun(a)
    BY <1>4, <2>1
  <2>2. CASE ApplyStarted(a)
    <3>1. Head(up[a]).run \in Run
      BY <2>2, AppliesEffect DEF ApplyStarted
    <3> QED BY <1>1, <2>2, <3>1 DEF ApplyStarted, Terminal
  <2>3. CASE \/ Register(a) \/ TerminateParticipation(a) \/ ReplayAssignment(a)
             \/ ResumeRun(a) \/ PumpEnds(a) \/ ApplyReady(a) \/ ApplyPrepFailed(a)
             \/ ApplyMetrics(a) \/ ApplyEnded(a) \/ ApplyAck(a)
    BY <2>3 DEF Register, TerminateParticipation, ReplayAssignment, ResumeRun, PumpEnds,
                ApplyReady, ApplyPrepFailed, ApplyMetrics, ApplyEnded, ApplyAck, runVars
  <2> QED BY <1>5, <2>1, <2>2, <2>3 DEF SessionStep
<1>6. ASSUME NEW s \in Run, RunStep(s)
      PROVE  state'[r] = state[r]
  <2>1. CASE SendAssignments(s)
    <3>1. state[s] = "none"
      BY <2>1 DEF SendAssignments, BarrierInv
    <3> QED BY <1>1, <2>1, <3>1 DEF SendAssignments, Terminal
  <2>2. CASE BarrierCheck(s)
    BY <1>1, <2>2 DEF BarrierCheck, BarrierFails
  <2>3. CASE BarrierFinalize(s)
    BY <1>2, <2>3 DEF BarrierFinalize
  <2>4. CASE StopAcknowledged(s)
    BY <1>1, <2>4 DEF StopAcknowledged
  <2>5. CASE \/ Reserve(s) \/ BarrierExpires(s) \/ BarrierTimeout(s) \/ BroadcastStart(s)
             \/ StopRun(s) \/ StopTimesOut(s) \/ SweepRun(s)
    BY <2>5 DEF Reserve, BarrierExpires, BarrierTimeout, BarrierFails, BroadcastStart, StopRun,
                StopTimesOut, SweepRun, runVars
  <2> QED BY <1>6, <2>1, <2>2, <2>3, <2>4, <2>5 DEF RunStep
<1>7. CASE SweepScan \/ SweepSettles \/ UNCHANGED vars
  BY <1>7 DEF SweepScan, SweepSettles, vars, runVars
<1> QED BY <1>3, <1>4, <1>5, <1>6, <1>7 DEF Next

\* A settled run keeps its verdict.
THEOREM VerdictTheorem == Spec => VerdictStands
<1>1. RunInv /\ [Next]_vars =>
        [\A r \in Run : state[r] \in Terminal => state'[r] = state[r]]_vars
  BY VerdictStep
<1> QED BY <1>1, RunInvariance, PTL DEF Spec, VerdictStands
=============================================================================

---------------------------- MODULE FleetControl ----------------------------
(* Commands to the agents of a started run: pause, resume and scale, from       *)
(* ControllerHandle::control of crates/loadr-agent/src/controller.rs to the     *)
(* engines' handles and back.  Each call is a task of its own that broadcasts   *)
(* under a fresh command id and waits three seconds for the acknowledgements.   *)
(*                                                                              *)
(* Stop and kill are the subject of module RunCoordination.  A downlink belongs *)
(* to a session and dies with it; the uplink delivers what a process queued     *)
(* once and in order, over any number of sessions (module UplinkDelivery).      *)
EXTENDS Partition, SequencesExt

CONSTANTS
  Count,        \* agents of the run, in partition order
  Scripts,      \* sequences of commands that Init may choose: pause, resume, scale to a total
  LinkCap,      \* capacity of a session's downlink
  Flaky,        \* agents that may fill their window, fall silent, disconnect or end
  MaxCommands,  \* bound: commands issued, the length of a script
  MaxSession    \* bound: sessions of an agent

Agent == 1..Count
Command == 1..MaxCommands

ASSUME ControlAssumption ==
  /\ Count \in Nat \ {0} /\ LinkCap \in Nat \ {0}
  /\ Flaky \subseteq Agent
  /\ Scripts \subseteq [Command -> [op : {"pause", "resume", "scale"}, total : Nat]]
  /\ MaxCommands \in Nat /\ MaxSession \in Nat \ {0}

VARIABLES
  live,       \* the agent's stream is up
  session,    \* the session its entry holds the sender of
  connected,  \* AgentEntry.connected
  down,       \* commands on the live session
  up,         \* acknowledgements and the terminal event on their way
  engine,     \* the engine of the agent process: active, over, or off its slot
  pause,      \* the pause switch of each engine
  vus,        \* the target of its externally-controlled scenario
  over, lost, \* ControllerRun.done and .lost
  paused,     \* ControllerRun.paused: "no", "yes", or "unknown" for None
  at,         \* where each call of control stands
  order,      \* what each asks for
  targets,    \* agents and senders it addresses, in partition order
  sent,       \* how many of them it has sent to
  yes, no,    \* responses of its PendingControl
  alone,      \* history: calls that no other call overlapped
  applied     \* history: which agent has executed which command in time

agents == <<live, session, connected, down, up, engine, pause, vus>>
run == <<over, lost, paused>>
calls == <<at, order, targets, sent, yes, no>>
history == <<alone, applied>>
vars == <<agents, run, calls, history>>

\* A call not made; broadcasting; waiting; decided either way; returned.
Pending == {"send", "wait"}
Decided == {"acked", "unacked"}
Returned == {"ok", "failed", "refused"}
InProgress == {c \in Command : at[c] \in Pending \cup Decided}

Init ==
  /\ live = [a \in Agent |-> TRUE] /\ session = [a \in Agent |-> 1]
  /\ connected = [a \in Agent |-> TRUE]
  /\ down = [a \in Agent |-> <<>>] /\ up = [a \in Agent |-> <<>>]
  /\ engine = [a \in Agent |-> "active"]
  /\ pause = [a \in Agent |-> FALSE] /\ vus = [a \in Agent |-> 0]
  /\ over = {} /\ lost = {} /\ paused = "no"
  /\ at = [c \in Command |-> "idle"]
  /\ order \in Scripts
  /\ targets = [c \in Command |-> <<>>] /\ sent = [c \in Command |-> 0]
  /\ yes = [c \in Command |-> {}] /\ no = [c \in Command |-> {}]
  /\ alone = {} /\ applied = {}
-----------------------------------------------------------------------------
(* The controller's calls. *)

\* run_senders: assigned agents that are connected and neither done nor lost, in
\* partition order, with their senders.  There is exactly one such list.
Reachable == {a \in Agent : connected[a] /\ a \notin over \cup lost}
InOrder == {q \in [1..Cardinality(Reachable) -> Reachable] :
              \A i, j \in DOMAIN q : i < j => q[i] < q[j]}
RunSenders ==
  {[i \in DOMAIN q |-> [agent |-> q[i], session |-> session[q[i]]]] : q \in InOrder}

\* control up to its first await: refused without agents, else a fresh command
\* id is entered into pending_controls.
Issue(c) ==
  /\ at[c] = "idle" /\ (c > 1 => at[c - 1] # "idle")
  /\ \E senders \in RunSenders : targets' = [targets EXCEPT ![c] = senders]
  /\ at' = [at EXCEPT ![c] = IF Reachable = {} THEN "refused" ELSE "send"]
  /\ alone' = IF InProgress = {} THEN alone \cup {c} ELSE alone \ InProgress
  /\ UNCHANGED <<agents, run, order, sent, yes, no, applied>>

Value(c, i) ==
  IF order[c].op = "scale" THEN Split(order[c].total, i - 1, Len(targets[c])) ELSE 0

\* One round of the broadcast.  A full downlink is awaited.  The sender of a
\* session that is gone fails, or swallows the command if its channel is not
\* dropped yet.
Send(c) ==
  LET i == sent[c] + 1
      t == targets[c][i]
      open == live[t.agent] /\ session[t.agent] = t.session
  IN
  /\ at[c] = "send"
  /\ sent' = [sent EXCEPT ![c] = i % Len(targets[c])]
  /\ at' = [at EXCEPT ![c] = IF i = Len(targets[c]) THEN "wait" ELSE "send"]
  /\ \/ /\ open /\ Len(down[t.agent]) < LinkCap
        /\ down' = [down EXCEPT ![t.agent] = Append(@, [id |-> c, value |-> Value(c, i)])]
        /\ UNCHANGED no
     \/ /\ ~open
        /\ no' \in {no, [no EXCEPT ![c] = @ \cup {t.agent}]}
        /\ UNCHANGED down
  /\ UNCHANGED <<live, session, connected, up, engine, pause, vus, run, order, targets,
                 yes, history>>

Expected(c) == {targets[c][i].agent : i \in DOMAIN targets[c]}

\* Fault: one answer is enough.
AnsweredOnce(c) == yes[c] \cup no[c] # {}

Answered(c) == Cardinality(yes[c] \cup no[c]) >= Cardinality(Expected(c))

\* The entry leaves pending_controls.
RemovePending(c) == yes' = [yes EXCEPT ![c] = {}] /\ no' = [no EXCEPT ![c] = {}]

\* All agents have answered.
Decide(c) ==
  /\ at[c] = "wait" /\ Answered(c)
  /\ at' = [at EXCEPT ![c] = IF no[c] = {} THEN "acked" ELSE "unacked"]
  /\ RemovePending(c)
  /\ UNCHANGED <<agents, run, order, targets, sent, history>>

\* Three seconds pass first.
Timeout(c) ==
  /\ at[c] = "wait" /\ ~Answered(c)
  /\ at' = [at EXCEPT ![c] = "unacked"]
  /\ RemovePending(c)
  /\ UNCHANGED <<agents, run, order, targets, sent, history>>

\* What control leaves in run.paused, under a lock of its own.
Outcome(c) ==
  IF order[c].op = "scale" THEN paused
  ELSE IF at[c] = "unacked" THEN "unknown"
  ELSE IF order[c].op = "pause" THEN "yes" ELSE "no"

Return(c) ==
  /\ at[c] \in Decided
  /\ paused' = Outcome(c)
  /\ at' = [at EXCEPT ![c] = IF @ = "acked" THEN "ok" ELSE "failed"]
  /\ UNCHANGED <<agents, over, lost, order, targets, sent, yes, no, history>>
-----------------------------------------------------------------------------
(* What the controller hears of its agents. *)

\* ControlAck: a response of a command that is still pending.
RecordAck(a, ack) ==
  LET heard == at[ack.id] \in Pending /\ a \in Expected(ack.id) IN
  /\ yes' = IF heard /\ ack.ok THEN [yes EXCEPT ![ack.id] = @ \cup {a}] ELSE yes
  /\ no' = IF heard /\ ~ack.ok THEN [no EXCEPT ![ack.id] = @ \cup {a}] ELSE no

\* Messages are read while the session's task lives.
Hear(a) ==
  /\ connected[a] /\ up[a] # <<>>
  /\ up' = [up EXCEPT ![a] = Tail(@)]
  /\ IF Head(up[a]).id = 0
       THEN over' = over \cup {a} /\ UNCHANGED <<yes, no>>
       ELSE RecordAck(a, Head(up[a])) /\ UNCHANGED over
  /\ UNCHANGED <<live, session, connected, down, engine, pause, vus, lost, paused, at,
                 order, targets, sent, history>>

\* mark_disconnected, once the task of a broken stream ends.
MarkDisconnected(a) ==
  /\ connected[a] /\ ~live[a]
  /\ connected' = [connected EXCEPT ![a] = FALSE]
  /\ UNCHANGED <<live, session, down, up, engine, pause, vus, run, calls, history>>

\* The sweep declares a silent agent lost, be its stream broken or only slow.
Sweep(a) ==
  /\ a \in Flaky /\ a \notin over \cup lost
  /\ lost' = lost \cup {a}
  /\ UNCHANGED <<agents, over, paused, calls, history>>
-----------------------------------------------------------------------------
(* The agents. *)

Ack(m, ok) == [id |-> m.id, ok |-> ok]

\* The acknowledgement is dropped when the uplink window is full.
Acknowledge(a, m, ok) ==
  \/ up' = [up EXCEPT ![a] = Append(@, Ack(m, ok))]
  \/ a \in Flaky /\ UNCHANGED up

\* Control: a run in the slot drives its handle, otherwise the answer is an error.
Execute(a, m) ==
  LET o == order[m.id] IN
  /\ pause' = IF o.op = "scale" THEN pause ELSE [pause EXCEPT ![a] = o.op = "pause"]
  /\ vus' = IF o.op = "scale" THEN [vus EXCEPT ![a] = m.value] ELSE vus
  /\ applied' = applied \cup ({<<m.id, a>>} \cap (InProgress \X Agent))

\* Fault: each command is handled by a task of its own.
ServeAny(a) ==
  /\ live[a] /\ engine[a] = "active"
  /\ \E i \in DOMAIN down[a] :
       /\ down' = [down EXCEPT ![a] = RemoveAt(@, i)]
       /\ Acknowledge(a, down[a][i], TRUE)
       /\ Execute(a, down[a][i])
  /\ UNCHANGED <<live, session, connected, engine, run, calls, alone>>

Serve(a) ==
  /\ live[a] /\ down[a] # <<>>
  /\ down' = [down EXCEPT ![a] = Tail(@)]
  /\ Acknowledge(a, Head(down[a]), engine[a] # "gone")
  /\ IF engine[a] # "gone" THEN Execute(a, Head(down[a]))
     ELSE UNCHANGED <<pause, vus, applied>>
  /\ UNCHANGED <<live, session, connected, engine, run, calls, alone>>

\* The engine returns; its terminal event has command id 0.
EngineEnds(a) ==
  /\ a \in Flaky /\ engine[a] = "active"
  /\ engine' = [engine EXCEPT ![a] = "over"]
  /\ up' = [up EXCEPT ![a] = Append(@, [id |-> 0, ok |-> TRUE])]
  /\ UNCHANGED <<live, session, connected, down, pause, vus, run, calls, history>>

\* The run task clears the slot after it has reported.
ClearSlot(a) ==
  /\ engine[a] = "over"
  /\ engine' = [engine EXCEPT ![a] = "gone"]
  /\ UNCHANGED <<live, session, connected, down, up, pause, vus, run, calls, history>>

\* The stream breaks.  A process that dies is one whose engine has ended and
\* whose stream breaks for good: to the controller they look the same.
Break(a) ==
  /\ a \in Flaky /\ live[a]
  /\ live' = [live EXCEPT ![a] = FALSE] /\ down' = [down EXCEPT ![a] = <<>>]
  /\ UNCHANGED <<session, connected, up, engine, pause, vus, run, calls, history>>

\* The agent registers again.  resume_run takes a run that is still in its slot
\* back into the run and replays its Start, but no command.  A settled run is not resumed.
Reconnect(a) ==
  /\ ~live[a] /\ session[a] < MaxSession
  /\ over \cup lost # Agent
  /\ session' = [session EXCEPT ![a] = @ + 1]
  /\ live' = [live EXCEPT ![a] = TRUE] /\ connected' = [connected EXCEPT ![a] = TRUE]
  /\ lost' = IF engine[a] # "gone" /\ a \notin over THEN lost \ {a} ELSE lost
  /\ UNCHANGED <<down, up, engine, pause, vus, over, paused, calls, history>>
-----------------------------------------------------------------------------

CallStep(c) == Send(c) \/ Decide(c) \/ Timeout(c) \/ Return(c)

Next ==
  \/ \E c \in Command : Issue(c) \/ CallStep(c)
  \/ \E a \in Agent :
       \/ Hear(a) \/ MarkDisconnected(a) \/ Sweep(a)
       \/ Serve(a) \/ EngineEnds(a) \/ ClearSlot(a) \/ Break(a) \/ Reconnect(a)

Spec == Init /\ [][Next]_vars
-----------------------------------------------------------------------------
(* Properties. *)

TypeOK ==
  /\ live \in [Agent -> BOOLEAN] /\ session \in [Agent -> 1..MaxSession]
  /\ connected \in [Agent -> BOOLEAN]
  /\ \A a \in Agent : Len(down[a]) <= LinkCap
  /\ engine \in [Agent -> {"active", "over", "gone"}]
  /\ pause \in [Agent -> BOOLEAN] /\ vus \in [Agent -> Nat]
  /\ over \subseteq Agent /\ lost \subseteq Agent /\ paused \in {"yes", "no", "unknown"}
  /\ at \in [Command -> {"idle"} \cup Pending \cup Decided \cup Returned]
  /\ order \in Scripts

\* control returns Ok only when every agent it addressed has executed this very
\* command: not when an agent was lost, reconnected or ended meanwhile, nor on
\* the strength of an answer to another command or of a command that was never
\* delivered.
OkMeansApplied ==
  /\ TypeOK
  /\ \A c \in Command : at[c] = "ok" => \A a \in Expected(c) : <<c, a>> \in applied

\* Every engine a call addressed is in the state it asked for.
InForce(c) ==
  \A i \in DOMAIN targets[c] : engine[targets[c][i].agent] = "active" =>
    IF order[c].op = "scale" THEN vus[targets[c][i].agent] = Value(c, i)
    ELSE pause[targets[c][i].agent] = (order[c].op = "pause")

\* The shares of a scale add up to its total.
AddsUp(c) ==
  order[c].op = "scale" /\ (\A a \in Expected(c) : engine[a] = "active") =>
    SumFunctionOnSet(vus, Expected(c)) = order[c].total

\* run.paused says what a call did, or unknown if it failed.
Told(c) ==
  order[c].op # "scale" /\ at[c] \in {"ok", "failed"} =>
    paused = IF at[c] = "failed" THEN "unknown"
             ELSE IF order[c].op = "pause" THEN "yes" ELSE "no"

\* The last call that was made.
Latest(c) == \A d \in Command : d > c => at[d] = "idle"

\* The last command is the one in force.  After calls that did not overlap, the
\* engines it addressed are in the state it asked for, whatever earlier commands
\* timed out and were executed late; the shares of a scale add up to the total;
\* and run.paused says so, or says unknown if the command failed.
LastCommandStands ==
  \A c \in alone : Latest(c) => /\ at[c] = "ok" => InForce(c) /\ AddsUp(c)
                                /\ Told(c)
-----------------------------------------------------------------------------
(* What a comment says of run.paused, and the code does not do. *)

\* RunOperationalInfo.paused: "Applied pause state.  None means a partially
\* acknowledged command may have left agents in different states."  With no call
\* in progress, a known state is the state of every engine that can be reached.
PauseKnown ==
  paused # "unknown" /\ InProgress = {} =>
    \A a \in Agent : engine[a] = "active" /\ live[a] => pause[a] = (paused = "yes")
=============================================================================

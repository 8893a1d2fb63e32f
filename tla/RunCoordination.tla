-------------------------- MODULE RunCoordination --------------------------
(***************************************************************************)
(* The life of distributed runs: submission and reservation of agents, the  *)
(* preparation barrier, the synchronized start, completion, loss of agents, *)
(* user stops, reconnects and restarts (controller.rs and agent.rs of       *)
(* crates/loadr-agent).                                                     *)
(*                                                                         *)
(* The uplink is what UplinkDelivery shows it to be: the messages of one    *)
(* process are applied once and in order, over whichever session is live.   *)
(* The downlink is a plain channel per session; what it holds when the      *)
(* session breaks is lost, and so is what is sent later to its stale sender. *)
(***************************************************************************)
EXTENDS Naturals, Sequences, FiniteSets

CONSTANTS
  Agent,         \* agent ids
  Run,           \* submissions
  NoRun,         \* no run
  Sweeper,       \* the task of the liveness sweep
  Policies,      \* loss policies a submission may ask for
  EndKinds,      \* how an engine may end
  MaxSession,    \* bound: registrations of an agent
  MaxIncarnation,\* bound: processes of an agent
  MayBreak,      \* agents whose stream may break or whose process may die
  MayStall,      \* agents that may fall silent with their stream up
  MayStop        \* runs a user may stop

ASSUME RunAssumption == NoRun \notin Run
ASSUME SweeperAssumption == Sweeper \notin Agent
ASSUME PolicyAssumption == Policies \subseteq {"continue", "abort"}
ASSUME EndAssumption == EndKinds \subseteq {"finished", "aborted", "failed"}
ASSUME BoundAssumption == MaxSession \in Nat /\ MaxIncarnation \in Nat
ASSUME FaultAssumption ==
  MayBreak \subseteq Agent /\ MayStall \subseteq Agent /\ MayStop \subseteq Run

VARIABLES
  \* The agents.
  alive,        \* agents with a process
  incarnation,  \* process number of an agent
  link,         \* its stream: "off", "connecting" or "on"
  resume,       \* resume_run_id in the Register it sent
  slot,         \* the run occupying it (SharedRun)
  prep,         \* preparation tasks on its blocking pool
  up,           \* uplink messages not yet applied
  down,         \* downlink messages of the live session
  \* The controller: agent entries and sessions.
  known,        \* incarnation registered
  session,      \* registrations so far: the live session
  connected,    \* agents whose session task runs
  active_run,   \* reservation of an agent
  todo,         \* what its session task, or the sweeper, has left to do
  \* The controller: runs and the tasks that drive them.
  state, assigned, on_agent_loss, ready, failure, started, done, lost, lost_ever,
  gauges,       \* agents whose live gauges are up in the run's aggregator
  task,         \* where the submission, then the barrier, of a run stands
  senders,      \* the sessions a submission reserved
  verdict,      \* what the barrier has decided to finalize the run with
  permit,       \* runs with a stored prep_notify permit
  control,      \* where the user's stop command stands
  expected,     \* agents that have not acknowledged it
  stale,        \* agents the sweep in progress found silent
  unswept       \* runs it has still to look at

agentVars == <<alive, incarnation, link, resume, slot, prep>>
netVars   == <<up, down>>
entryVars == <<known, session, connected, active_run, todo>>
optVars   == <<assigned, on_agent_loss>>
runVars   == <<state, optVars, ready, failure, started, done, lost,
               lost_ever, gauges>>
taskVars  == <<task, senders, verdict, permit>>
cmdVars   == <<control, expected>>
sweepVars == <<stale, unswept>>
vars == <<agentVars, netVars, entryVars, runVars, taskVars, cmdVars, sweepVars>>

Terminal == {"finished", "aborted", "failed"}
Live     == {"pending", "running", "stopping"}
Sender   == [agent : Agent, session : Nat]
Idle     == [phase |-> "idle", run |-> NoRun, latched |-> FALSE]

Down == [kind : {"assignment", "start", "stop", "command"}, run : Run]
Up   == [kind : {"ready", "prep_failed", "started", "metrics", "ended", "ack"},
         run : Run, how : {"ok", "err"} \cup Terminal]
SlotState == [phase : {"idle", "preparing", "armed", "fired", "running"},
              run : Run \cup {NoRun}, latched : BOOLEAN]
PrepTask  == [run : Run, cancel : BOOLEAN]
TodoItem  == [kind : {"none", "terminate", "replay", "resume", "loss", "finalize"},
              run : Run \cup {NoRun}, verdict : {"none"} \cup Terminal]
DownMsg(k, r)  == [kind |-> k, run |-> r]
UpMsg(k, r, h) == [kind |-> k, run |-> r, how |-> h]

AgentTypes ==
  /\ alive \subseteq Agent
  /\ incarnation \in [Agent -> Nat]
  /\ link \in [Agent -> {"off", "connecting", "on"}]
  /\ resume \in [Agent -> Run \cup {NoRun}]
  /\ slot \in [Agent -> SlotState]
  /\ prep \in [Agent -> SUBSET PrepTask]
  /\ up \in [Agent -> Seq(Up)]
  /\ down \in [Agent -> Seq(Down)]

EntryTypes ==
  /\ known \in [Agent -> Nat]
  /\ session \in [Agent -> Nat]
  /\ connected \subseteq Agent
  /\ active_run \in [Agent -> Run \cup {NoRun}]
  /\ todo \in [Agent \cup {Sweeper} -> TodoItem]

RunTypes ==
  /\ state \in [Run -> {"none"} \cup Live \cup Terminal]
  /\ assigned \in [Run -> SUBSET Agent]
  /\ on_agent_loss \in [Run -> {"continue", "abort"}]
  /\ ready \in [Run -> SUBSET Agent]
  /\ failure \in [Run -> {"none", "aborted", "failed"}]
  /\ started \subseteq Run
  /\ done \in [Run -> [Agent -> {"none"} \cup Terminal]]
  /\ lost \in [Run -> SUBSET Agent]
  /\ lost_ever \in [Run -> SUBSET Agent]
  /\ gauges \in [Run -> SUBSET Agent]

TaskTypes ==
  /\ task \in [Run -> {"none", "reserved", "check", "parked", "expired",
                       "starting", "failing", "over"}]
  /\ senders \in [Run -> SUBSET Sender]
  /\ verdict \in [Run -> {"none", "aborted", "failed"}]
  /\ permit \subseteq Run
  /\ control \in [Run -> {"none", "waiting", "over"}]
  /\ expected \in [Run -> SUBSET Agent]
  /\ stale \subseteq Agent
  /\ unswept \subseteq Run

TypeOK == AgentTypes /\ EntryTypes /\ RunTypes /\ TaskTypes

Todo(k, r) == [kind |-> k, run |-> r, verdict |-> "none"]
NoTodo     == Todo("none", NoRun)

\* An idle fleet that has registered; no run yet.
Init ==
  /\ alive = Agent
  /\ incarnation = [a \in Agent |-> 1]
  /\ link = [a \in Agent |-> "on"]
  /\ resume = [a \in Agent |-> NoRun]
  /\ slot = [a \in Agent |-> Idle]
  /\ prep = [a \in Agent |-> {}]
  /\ up = [a \in Agent |-> <<>>]
  /\ down = [a \in Agent |-> <<>>]
  /\ known = [a \in Agent |-> 1]
  /\ session = [a \in Agent |-> 1]
  /\ connected = Agent
  /\ active_run = [a \in Agent |-> NoRun]
  /\ todo = [x \in Agent \cup {Sweeper} |-> NoTodo]
  /\ state = [r \in Run |-> "none"]
  /\ assigned = [r \in Run |-> {}]
  /\ on_agent_loss = [r \in Run |-> "continue"]
  /\ ready = [r \in Run |-> {}]
  /\ failure = [r \in Run |-> "none"]
  /\ started = {}
  /\ done = [r \in Run |-> [a \in Agent |-> "none"]]
  /\ lost = [r \in Run |-> {}]
  /\ lost_ever = [r \in Run |-> {}]
  /\ gauges = [r \in Run |-> {}]
  /\ task = [r \in Run |-> "none"]
  /\ senders = [r \in Run |-> {}]
  /\ verdict = [r \in Run |-> "none"]
  /\ permit = {}
  /\ control = [r \in Run |-> "none"]
  /\ expected = [r \in Run |-> {}]
  /\ stale = {}
  /\ unswept = {}
-----------------------------------------------------------------------------
(***************************************************************************)
(* Senders and settlement.                                                 *)
(***************************************************************************)

\* A sender reaches its agent while its session is the one the agent serves.
Reaches(s) == s.session = session[s.agent] /\ link[s.agent] = "on"

\* agent_sender, and the sends to it.
Current(a) == [agent |-> a, session |-> session[a]]
Send(S, m) ==
  down' = [a \in Agent |-> IF \E s \in S : s.agent = a /\ Reaches(s)
                           THEN Append(down[a], m) ELSE down[a]]

\* Inner::run_senders.
RunSenders(r) ==
  {Current(a) : a \in {b \in assigned[r] \cap connected :
                         done[r][b] = "none" /\ b \notin lost[r]}}

\* Fault: the reservations are not released.
FinalizeKeeps(r, v) ==
  IF state[r] \in Terminal
  THEN UNCHANGED <<state, active_run, permit>>
  ELSE /\ state' = [state EXCEPT ![r] = v]
       /\ permit' = permit \cup {r}
       /\ UNCHANGED active_run

\* Inner::finalize_run with release_reservations: the first verdict stands.
Finalize(r, v) ==
  IF state[r] \in Terminal
  THEN UNCHANGED <<state, active_run, permit>>
  ELSE /\ state' = [state EXCEPT ![r] = v]
       /\ active_run' = [a \in Agent |->
            IF a \in assigned[r] /\ active_run[a] = r THEN NoRun ELSE active_run[a]]
       /\ permit' = permit \cup {r}

\* Fault: a run without any result counts as a success.
CompletionVerdictEmpty(d) ==
  LET kinds == {d[a] : a \in Agent} \ {"none"}
  IN  IF "failed" \in kinds THEN "failed"
      ELSE IF "aborted" \in kinds THEN "aborted" ELSE "finished"

\* Inner::check_completion, given the run's done and lost agents.  What it
\* found under their locks is finalized later, with the locks released.
CompletionVerdict(d) ==
  LET kinds == {d[a] : a \in Agent} \ {"none"}
  IN  IF "failed" \in kinds \/ kinds = {} THEN "failed"
      ELSE IF "aborted" \in kinds THEN "aborted" ELSE "finished"
CheckCompletion(x, r, d, l) ==
  todo' = [todo EXCEPT ![x] =
    IF state[r] \notin Terminal /\ \A a \in assigned[r] : d[a] # "none" \/ a \in l
    THEN [Todo("finalize", r) EXCEPT !.verdict = CompletionVerdict(d)]
    ELSE NoTodo]

\* Fault: a failure is also recorded after the start commit.
UnsettledRun(r) == state[r] \in Live

\* Inner::record_prep_failure: only a pending run has preparation failures, and
\* the first one is kept.
Unstarted(r) == state[r] = "pending"
RecordPrepFailure(r, v) ==
  /\ failure' = [failure EXCEPT ![r] = IF @ = "none" THEN v ELSE @]
  /\ permit' = permit \cup {r}

\* Fault: only the current losses are kept.
MarkLostForgets(r, S) ==
  /\ lost' = [lost EXCEPT ![r] = @ \cup S]
  /\ gauges' = [gauges EXCEPT ![r] = @ \ S]
  /\ UNCHANGED lost_ever

\* How the sweep marks agents as lost, live gauges included.
MarkLost(r, S) ==
  /\ lost' = [lost EXCEPT ![r] = @ \cup S]
  /\ lost_ever' = [lost_ever EXCEPT ![r] = @ \cup S]
  /\ gauges' = [gauges EXCEPT ![r] = @ \ S]

\* Fault: the policy is not consulted.
LossPolicyContinue(x, r, S) ==
  CheckCompletion(x, r, done[r], lost[r] \cup S) /\ UNCHANGED down

\* on_agent_loss after the start, with S newly lost: complete the run without
\* them, or stop the others and finalize once the stops are out.
LossPolicy(x, r, S) ==
  IF on_agent_loss[r] = "continue"
  THEN CheckCompletion(x, r, done[r], lost[r] \cup S) /\ UNCHANGED down
  ELSE /\ Send({s \in RunSenders(r) : s.agent \notin S}, DownMsg("stop", r))
       /\ todo' = [todo EXCEPT ![x] =
                     [Todo("finalize", r) EXCEPT !.verdict = "failed"]]

\* The session task or the sweeper finalizes what it has found to be over.
FinalizeRun(x) ==
  /\ todo[x].kind = "finalize"
  /\ Finalize(todo[x].run, todo[x].verdict)
  /\ todo' = [todo EXCEPT ![x] = NoTodo]
  /\ UNCHANGED <<agentVars, netVars, known, session, connected, optVars, ready,
                 failure, started, done, lost, lost_ever, gauges, task, senders,
                 verdict, cmdVars, sweepVars>>

-----------------------------------------------------------------------------
(***************************************************************************)
(* The agent: connection.                                                  *)
(***************************************************************************)

\* The process dies; of its window, what was on the wire may still arrive.
Die(a) ==
  /\ a \in alive \cap MayBreak /\ incarnation[a] < MaxIncarnation
  /\ alive' = alive \ {a}
  /\ link' = [link EXCEPT ![a] = "off"]
  /\ slot' = [slot EXCEPT ![a] = Idle]
  /\ prep' = [prep EXCEPT ![a] = {}]
  /\ down' = [down EXCEPT ![a] = <<>>]
  /\ \E n \in 0..Len(up[a]) : up' = [up EXCEPT ![a] = SubSeq(@, 1, n)]
  /\ UNCHANGED <<incarnation, resume, entryVars, runVars, taskVars, cmdVars,
                 sweepVars>>

\* A new process of the same agent id.
Relaunch(a) ==
  /\ a \notin alive /\ session[a] < MaxSession
  /\ alive' = alive \cup {a}
  /\ incarnation' = [incarnation EXCEPT ![a] = @ + 1]
  /\ UNCHANGED <<link, resume, slot, prep, netVars, entryVars, runVars,
                 taskVars, cmdVars, sweepVars>>

\* The stream breaks.  Bound: while there is a session left to replace it.
Disconnect(a) ==
  /\ a \in MayBreak /\ link[a] = "on" /\ session[a] < MaxSession
  /\ link' = [link EXCEPT ![a] = "off"]
  /\ down' = [down EXCEPT ![a] = <<>>]
  /\ UNCHANGED <<alive, incarnation, resume, slot, prep, up, entryVars,
                 runVars, taskVars, cmdVars, sweepVars>>

\* run_session, register_message: the claim is what the slot holds now.
Connect(a) ==
  /\ a \in alive /\ link[a] = "off" /\ session[a] < MaxSession
  /\ link' = [link EXCEPT ![a] = "connecting"]
  /\ resume' = [resume EXCEPT ![a] = slot[a].run]
  /\ UNCHANGED <<alive, incarnation, slot, prep, netVars, entryVars, runVars,
                 taskVars, cmdVars, sweepVars>>

-----------------------------------------------------------------------------
(***************************************************************************)
(* The agent: the run slot.                                                *)
(***************************************************************************)

\* The next message from the controller.
Reads(a, kind) ==
  /\ link[a] = "on" /\ down[a] # <<>> /\ Head(down[a]).kind = kind
  /\ down' = [down EXCEPT ![a] = Tail(@)]

\* arm_assignment: claim an idle slot; a duplicate is ignored; a busy agent
\* rejects, unless its window is full and the rejection is dropped.
ReceiveAssignment(a) ==
  LET r == Head(down[a]).run
  IN  /\ Reads(a, "assignment")
      /\ \/ /\ slot[a].phase = "idle"
            /\ slot' = [slot EXCEPT ![a] =
                          [phase |-> "preparing", run |-> r, latched |-> FALSE]]
            /\ prep' = [prep EXCEPT ![a] = @ \cup {[run |-> r, cancel |-> FALSE]}]
            /\ UNCHANGED up
         \/ /\ slot[a].run = r
            /\ UNCHANGED <<slot, prep, up>>
         \/ /\ slot[a].phase # "idle" /\ slot[a].run # r
            /\ \/ up' = [up EXCEPT ![a] = Append(@, UpMsg("prep_failed", r, "err"))]
               \/ UNCHANGED up
            /\ UNCHANGED <<slot, prep>>
      /\ UNCHANGED <<alive, incarnation, link, resume, entryVars, runVars,
                     taskVars, cmdVars, sweepVars>>

\* Start fires an armed run once and is latched by one still preparing.
ReceiveStart(a) ==
  LET mine == slot[a].run = Head(down[a]).run
  IN  /\ Reads(a, "start")
      /\ slot' = [slot EXCEPT
           ![a].phase = IF mine /\ @ = "armed" THEN "fired" ELSE @,
           ![a].latched = @ \/ (mine /\ slot[a].phase = "preparing")]
      /\ UNCHANGED <<alive, incarnation, link, resume, prep, up, entryVars,
                     runVars, taskVars, cmdVars, sweepVars>>

\* A stop or kill.  Preparing: cancel and free the slot.  Armed: disarm, which
\* drops start_tx and reports no terminal event.  Started: the engine is told
\* and ends by itself.  A user's command is acknowledged.
ReceiveStop(a, kind) ==
  LET r    == Head(down[a]).run
      mine == slot[a].run = r
  IN  /\ Reads(a, kind)
      /\ IF mine /\ slot[a].phase \in {"preparing", "armed"}
         THEN slot' = [slot EXCEPT ![a] = Idle]
         ELSE UNCHANGED slot
      /\ IF mine /\ slot[a].phase = "preparing"
         THEN prep' = [prep EXCEPT ![a] = {t \in @ : t.run # r}
                                          \cup {[run |-> r, cancel |-> TRUE]}]
         ELSE UNCHANGED prep
      /\ up' = IF kind = "command"
               THEN [up EXCEPT ![a] =
                       Append(@, UpMsg("ack", r, IF mine THEN "ok" ELSE "err"))]
               ELSE up
      /\ UNCHANGED <<alive, incarnation, link, resume, entryVars, runVars,
                     taskVars, cmdVars, sweepVars>>

\* prepare_assignment after prepare_engine succeeded: discard when the slot was
\* freed or re-owned, free it when cancelled, else arm it and report readiness.
PrepareDone(a, t) ==
  LET owns == slot[a].phase = "preparing" /\ slot[a].run = t.run
  IN  /\ t \in prep[a]
      /\ prep' = [prep EXCEPT ![a] = @ \ {t}]
      /\ \/ /\ ~ owns
            /\ UNCHANGED <<slot, up>>
         \/ /\ owns /\ t.cancel
            /\ slot' = [slot EXCEPT ![a] = Idle]
            /\ UNCHANGED up
         \/ /\ owns /\ ~ t.cancel
            /\ slot' = [slot EXCEPT
                 ![a].phase = IF slot[a].latched THEN "fired" ELSE "armed"]
            /\ up' = [up EXCEPT ![a] = Append(@, UpMsg("ready", t.run, "ok"))]
      /\ UNCHANGED <<alive, incarnation, link, resume, down, entryVars, runVars,
                     taskVars, cmdVars, sweepVars>>

\* prepare_assignment after prepare_engine failed.
PrepareFails(a, t) ==
  /\ t \in prep[a]
  /\ prep' = [prep EXCEPT ![a] = @ \ {t}]
  /\ IF slot[a].phase = "preparing" /\ slot[a].run = t.run
     THEN slot' = [slot EXCEPT ![a] = Idle] ELSE UNCHANGED slot
  /\ up' = IF t.cancel THEN up
           ELSE [up EXCEPT ![a] = Append(@, UpMsg("prep_failed", t.run, "err"))]
  /\ UNCHANGED <<alive, incarnation, link, resume, down, entryVars, runVars,
                 taskVars, cmdVars, sweepVars>>

\* spawn_run: the start time has come.
EngineStarts(a) ==
  /\ slot[a].phase = "fired"
  /\ slot' = [slot EXCEPT ![a].phase = "running"]
  /\ up' = [up EXCEPT ![a] = Append(@, UpMsg("started", slot[a].run, "ok"))]
  /\ UNCHANGED <<alive, incarnation, link, resume, prep, down, entryVars,
                 runVars, taskVars, cmdVars, sweepVars>>

\* DeltaOutput::on_delta.  Bound: one batch in the window at a time.
EngineReports(a) ==
  /\ slot[a].phase = "running"
  /\ \A i \in 1..Len(up[a]) : up[a][i].kind # "metrics"
  /\ up' = [up EXCEPT ![a] = Append(@, UpMsg("metrics", slot[a].run, "ok"))]
  /\ UNCHANGED <<agentVars, down, entryVars, runVars, taskVars, cmdVars,
                 sweepVars>>

\* spawn_run: the engine returns, the outcome is queued, the slot is cleared.
EngineEnds(a) ==
  /\ slot[a].phase = "running"
  /\ \E k \in EndKinds :
       up' = [up EXCEPT ![a] = Append(@, UpMsg("ended", slot[a].run, k))]
  /\ slot' = [slot EXCEPT ![a] = Idle]
  /\ UNCHANGED <<alive, incarnation, link, resume, prep, down, entryVars,
                 runVars, taskVars, cmdVars, sweepVars>>
-----------------------------------------------------------------------------
(***************************************************************************)
(* The controller: sessions.                                               *)
(***************************************************************************)

\* Inner::register_agent under the agents lock.  The reservation stays with
\* the agent id unless the process restarted; what is left to do follows.
Register(a) ==
  LET restarted == known[a] # incarnation[a]
      reserved  == active_run[a] # NoRun
  IN  /\ link[a] = "connecting" /\ todo[a] = NoTodo
      /\ link' = [link EXCEPT ![a] = "on"]
      /\ session' = [session EXCEPT ![a] = @ + 1]
      /\ known' = [known EXCEPT ![a] = incarnation[a]]
      /\ connected' = connected \cup {a}
      /\ active_run' = [active_run EXCEPT ![a] = IF restarted THEN NoRun ELSE @]
      /\ todo' = [todo EXCEPT ![a] =
           IF reserved /\ restarted THEN Todo("terminate", active_run[a])
           ELSE IF reserved /\ resume[a] = NoRun THEN Todo("replay", active_run[a])
           ELSE IF resume[a] # NoRun /\ ~ restarted THEN Todo("resume", resume[a])
           ELSE NoTodo]
      /\ up' = IF restarted THEN [up EXCEPT ![a] = <<>>] ELSE up
      /\ UNCHANGED <<alive, incarnation, resume, slot, prep, down, runVars,
                     taskVars, cmdVars, sweepVars>>

\* The session task takes up the rest of register_agent.
FollowsUp(a, kind) ==
  /\ todo[a].kind = kind
  /\ todo' = [todo EXCEPT ![a] = NoTodo]

\* Inner::terminate_participation: the process restarted while reserved.
TerminateParticipation(a) ==
  LET r == todo[a].run
  IN  /\ \/ /\ FollowsUp(a, "terminate")
            /\ Unstarted(r)
            /\ RecordPrepFailure(r, "failed")
            /\ UNCHANGED <<lost, down>>
         \/ /\ FollowsUp(a, "terminate")
            /\ ~ Unstarted(r)
            /\ state[r] \notin Live \/ done[r][a] # "none"
            /\ UNCHANGED <<failure, lost, permit, down>>
         \/ /\ todo[a].kind = "terminate"
            /\ ~ Unstarted(r)
            /\ state[r] \in Live /\ done[r][a] = "none"
            /\ lost' = [lost EXCEPT ![r] = @ \cup {a}]
            /\ LossPolicy(a, r, {a})
            /\ UNCHANGED <<failure, permit>>
      /\ UNCHANGED <<agentVars, up, known, session, connected, active_run, state,
                     optVars, ready, started, done, lost_ever, gauges, task,
                     senders, verdict, cmdVars, sweepVars>>

\* Inner::replay_assignment_if_pending: reserved, with an empty slot.
ReplayAssignment(a) ==
  LET r == todo[a].run
  IN  /\ FollowsUp(a, "replay")
      /\ IF /\ state[r] \in Live /\ a \notin ready[r]
            /\ done[r][a] = "none" /\ a \notin lost[r]
         THEN Send({Current(a)}, DownMsg("assignment", r))
         ELSE UNCHANGED down
      /\ UNCHANGED <<agentVars, up, known, session, connected, active_run,
                     runVars, taskVars, cmdVars, sweepVars>>

\* Faults: Start is replayed before it was decided, or is never replayed.
ResumeRunStart(a, replays) ==
  LET r       == todo[a].run
      settled == state[r] \notin Live \/ done[r][a] # "none"
  IN  /\ FollowsUp(a, "resume")
      /\ lost' = [lost EXCEPT ![r] = IF settled THEN @ ELSE @ \ {a}]
      /\ IF settled THEN Send({Current(a)}, DownMsg("stop", r))
         ELSE IF a \notin ready[r] THEN Send({Current(a)}, DownMsg("assignment", r))
         ELSE IF replays THEN Send({Current(a)}, DownMsg("start", r))
         ELSE UNCHANGED down
      /\ UNCHANGED <<agentVars, up, known, session, connected, active_run, state,
                     optVars, ready, failure, started, done, lost_ever, gauges,
                     taskVars, cmdVars, sweepVars>>
ResumeRunEager(a)  == ResumeRunStart(a, TRUE)
ResumeRunSilent(a) == ResumeRunStart(a, FALSE)

\* Inner::resume_run: kill what is settled, else count the agent again and
\* replay what its phase says it missed.
ResumeRun(a) ==
  LET r       == todo[a].run
      settled == state[r] \notin Live \/ done[r][a] # "none"
  IN  /\ FollowsUp(a, "resume")
      /\ lost' = [lost EXCEPT ![r] = IF settled THEN @ ELSE @ \ {a}]
      /\ IF settled THEN Send({Current(a)}, DownMsg("stop", r))
         ELSE IF a \notin ready[r] THEN Send({Current(a)}, DownMsg("assignment", r))
         ELSE IF r \in started THEN Send({Current(a)}, DownMsg("start", r))
         ELSE UNCHANGED down
      /\ UNCHANGED <<agentVars, up, known, session, connected, active_run, state,
                     optVars, ready, failure, started, done, lost_ever, gauges,
                     taskVars, cmdVars, sweepVars>>

\* The session task sees its stream end: mark_disconnected.
PumpEnds(a) ==
  /\ a \in connected /\ link[a] # "on" /\ todo[a] = NoTodo
  /\ connected' = connected \ {a}
  /\ UNCHANGED <<agentVars, netVars, known, session, active_run, todo,
                 runVars, taskVars, cmdVars, sweepVars>>

-----------------------------------------------------------------------------
(***************************************************************************)
(* The controller: uplink messages (apply_agent_message).                  *)
(***************************************************************************)

Applies(a, kind) ==
  /\ a \in connected /\ todo[a] = NoTodo
  /\ up[a] # <<>> /\ Head(up[a]).kind = kind
  /\ up' = [up EXCEPT ![a] = Tail(@)]

\* handle_assignment_ready: readiness for a settled run is answered by a kill.
ApplyReady(a) ==
  LET r == Head(up[a]).run
  IN  /\ Applies(a, "ready")
      /\ IF state[r] \in Live
         THEN /\ ready' = [ready EXCEPT ![r] = @ \cup {a}]
              /\ permit' = permit \cup {r}
              /\ UNCHANGED down
         ELSE /\ Send({Current(a)}, DownMsg("stop", r))
              /\ UNCHANGED <<ready, permit>>
      /\ UNCHANGED <<agentVars, entryVars, state, optVars, failure, started,
                     done, lost, lost_ever, gauges, task, senders, verdict,
                     cmdVars, sweepVars>>

\* Fault: a preparation failure is entered as the agent's terminal event.
ApplyPrepFailedDone(a) ==
  LET r == Head(up[a]).run
  IN  /\ Applies(a, "prep_failed")
      /\ done' = [done EXCEPT ![r][a] = Head(up[a]).how]
      /\ UNCHANGED <<agentVars, down, entryVars, state, optVars, ready, failure,
                     started, lost, lost_ever, gauges, taskVars, cmdVars, sweepVars>>

\* handle_run_event, prep_failed: only a pending run takes notice.
ApplyPrepFailed(a) ==
  LET r == Head(up[a]).run
  IN  /\ Applies(a, "prep_failed")
      /\ IF Unstarted(r) THEN RecordPrepFailure(r, "failed")
                         ELSE UNCHANGED <<failure, permit>>
      /\ UNCHANGED <<agentVars, down, entryVars, state, optVars, ready, started,
                     done, lost, lost_ever, gauges, task, senders, verdict,
                     cmdVars, sweepVars>>

\* handle_run_event, started.
ApplyStarted(a) ==
  LET r == Head(up[a]).run
  IN  /\ Applies(a, "started")
      /\ state' = [state EXCEPT ![r] = IF @ = "pending" THEN "running" ELSE @]
      /\ UNCHANGED <<agentVars, down, entryVars, optVars, ready, failure,
                     started, done, lost, lost_ever, gauges, taskVars, cmdVars,
                     sweepVars>>

\* Fault: a late batch is merged without zeroing the gauges again.
ApplyMetricsLate(a) ==
  LET r == Head(up[a]).run
  IN  /\ Applies(a, "metrics")
      /\ gauges' = [gauges EXCEPT ![r] =
           IF state[r] \in Terminal THEN @ ELSE @ \cup {a}]
      /\ UNCHANGED <<agentVars, down, entryVars, state, optVars, ready, failure,
                     started, done, lost, lost_ever, taskVars, cmdVars, sweepVars>>

\* A metrics batch: merged while the run is live; the gauges of an agent that
\* is lost or done are zeroed again.
ApplyMetrics(a) ==
  LET r == Head(up[a]).run
  IN  /\ Applies(a, "metrics")
      /\ gauges' = [gauges EXCEPT ![r] =
           IF state[r] \in Terminal THEN @
           ELSE IF a \in lost[r] \/ done[r][a] # "none" THEN @ \ {a} ELSE @ \cup {a}]
      /\ UNCHANGED <<agentVars, down, entryVars, state, optVars, ready, failure,
                     started, done, lost, lost_ever, taskVars, cmdVars, sweepVars>>

\* handle_run_event, a terminal kind.
ApplyEnded(a) ==
  LET r == Head(up[a]).run
      d == [done[r] EXCEPT ![a] = Head(up[a]).how]
  IN  /\ Applies(a, "ended")
      /\ gauges' = [gauges EXCEPT ![r] = @ \ {a}]
      /\ done' = [done EXCEPT ![r] = d]
      /\ CheckCompletion(a, r, d, lost[r])
      /\ UNCHANGED <<agentVars, down, known, session, connected, active_run,
                     state, optVars, ready, failure, started, lost, lost_ever,
                     taskVars, cmdVars, sweepVars>>

\* A control acknowledgement: counted while the command is pending; a refusal
\* fails the command.
ApplyAck(a) ==
  LET r == Head(up[a]).run
  IN  /\ Applies(a, "ack")
      /\ control' = [control EXCEPT ![r] =
           IF @ = "waiting" /\ Head(up[a]).how = "err" THEN "over" ELSE @]
      /\ expected' = [expected EXCEPT ![r] = @ \ {a}]
      /\ UNCHANGED <<agentVars, down, entryVars, runVars, taskVars, sweepVars>>

-----------------------------------------------------------------------------
(***************************************************************************)
(* The controller: submission and the preparation barrier.                 *)
(***************************************************************************)

\* Fault: an agent reserved for another run is selected too.
SelectableTwice(a) == a \in connected

\* Inner::reserve_agents: every connected, matching, unreserved agent, at once.
Selectable(a) == a \in connected /\ active_run[a] = NoRun
Reserve(r) ==
  /\ task[r] = "none"
  /\ \E match \in SUBSET Agent :
       LET selected == {a \in match : Selectable(a)}
       IN  /\ selected # {}
           /\ active_run' = [a \in Agent |-> IF a \in selected THEN r
                                             ELSE active_run[a]]
           /\ assigned' = [assigned EXCEPT ![r] = selected]
           /\ senders' = [senders EXCEPT ![r] = {Current(a) : a \in selected}]
  /\ \E p \in Policies : on_agent_loss' = [on_agent_loss EXCEPT ![r] = p]
  /\ task' = [task EXCEPT ![r] = "reserved"]
  /\ UNCHANGED <<agentVars, netVars, known, session, connected, todo, state,
                 ready, failure, started, done, lost, lost_ever, gauges, verdict,
                 permit, cmdVars, sweepVars>>

\* submit: the run becomes known, the assignments go out, the barrier starts.
SendAssignments(r) ==
  /\ task[r] = "reserved"
  /\ state' = [state EXCEPT ![r] = "pending"]
  /\ Send(senders[r], DownMsg("assignment", r))
  /\ senders' = [senders EXCEPT ![r] = {}]
  /\ task' = [task EXCEPT ![r] = "check"]
  /\ UNCHANGED <<agentVars, up, entryVars, optVars, ready, failure, started,
                 done, lost, lost_ever, gauges, verdict, permit, cmdVars, sweepVars>>

\* The barrier fails the run: stops to the agents it can reach, then finalize.
BarrierFails(r, v) ==
  /\ verdict' = [verdict EXCEPT ![r] = v]
  /\ task' = [task EXCEPT ![r] = "failing"]
  /\ Send(RunSenders(r), DownMsg("stop", r))
  /\ UNCHANGED <<state, started, gauges>>

\* Fault: the barrier does not wait for the last agent.
SomeReady(r) == assigned[r] \cap ready[r] # {}

\* Every assigned agent has reported readiness.
AllReady(r) == assigned[r] \subseteq ready[r]

\* One turn of the barrier's loop, under the state lock: settled elsewhere,
\* failed, committed (aggregator re-anchored), or nothing yet.
BarrierCheck(r) ==
  /\ task[r] = "check" \/ (task[r] = "parked" /\ r \in permit)
  /\ permit' = IF task[r] = "parked" THEN permit \ {r} ELSE permit
  /\ \/ /\ state[r] \in Terminal
        /\ task' = [task EXCEPT ![r] = "over"]
        /\ UNCHANGED <<state, started, gauges, verdict, down>>
     \/ /\ state[r] \notin Terminal /\ failure[r] # "none"
        /\ BarrierFails(r, failure[r])
     \/ /\ state[r] \notin Terminal /\ failure[r] = "none"
        /\ AllReady(r)
        /\ started' = started \cup {r}
        /\ gauges' = [gauges EXCEPT ![r] = {}]
        /\ state' = [state EXCEPT ![r] = "running"]
        /\ task' = [task EXCEPT ![r] = "starting"]
        /\ UNCHANGED <<verdict, down>>
     \/ /\ state[r] \notin Terminal /\ failure[r] = "none"
        /\ ~ AllReady(r)
        /\ task' = [task EXCEPT ![r] = "parked"]
        /\ UNCHANGED <<state, started, gauges, verdict, down>>
  /\ UNCHANGED <<agentVars, up, entryVars, optVars, ready, failure, done, lost,
                 lost_ever, senders, cmdVars, sweepVars>>

\* Fault: the barrier waits without a deadline.
BarrierWaits(r) == FALSE /\ UNCHANGED vars

\* preparation_timeout: the poll that found no notification finds the deadline
\* passed; what is recorded in between goes unseen.
BarrierExpires(r) ==
  /\ task[r] = "parked" /\ r \notin permit
  /\ task' = [task EXCEPT ![r] = "expired"]
  /\ UNCHANGED <<agentVars, netVars, entryVars, runVars, senders, verdict,
                 permit, cmdVars, sweepVars>>

BarrierTimeout(r) ==
  /\ task[r] = "expired"
  /\ BarrierFails(r, "failed")
  /\ UNCHANGED <<agentVars, up, entryVars, optVars, ready, failure, done, lost,
                 lost_ever, senders, permit, cmdVars, sweepVars>>

\* The barrier finalizes a failed run once its stops are out.
BarrierFinalize(r) ==
  /\ task[r] = "failing"
  /\ task' = [task EXCEPT ![r] = "over"]
  /\ Finalize(r, verdict[r])
  /\ UNCHANGED <<agentVars, netVars, known, session, connected, todo,
                 optVars, ready, failure, started, done, lost, lost_ever, gauges,
                 senders, verdict, cmdVars, sweepVars>>

\* The synchronized start, after the commit and outside its lock.
BroadcastStart(r) ==
  /\ task[r] = "starting"
  /\ Send(RunSenders(r), DownMsg("start", r))
  /\ task' = [task EXCEPT ![r] = "over"]
  /\ UNCHANGED <<agentVars, up, entryVars, runVars, senders, verdict, permit,
                 cmdVars, sweepVars>>

-----------------------------------------------------------------------------
(***************************************************************************)
(* The controller: the user's stop and the liveness sweep.                 *)
(***************************************************************************)

\* control, stop or kill: a pending run is left to its barrier; otherwise the
\* agents are told and must all acknowledge.
StopRun(r) ==
  /\ r \in MayStop /\ state[r] # "none" /\ control[r] = "none"
  /\ \/ /\ Unstarted(r)
        /\ RecordPrepFailure(r, "aborted")
        /\ control' = [control EXCEPT ![r] = "over"]
        /\ UNCHANGED <<expected, down>>
     \/ /\ ~ Unstarted(r) /\ RunSenders(r) # {}
        /\ Send(RunSenders(r), DownMsg("command", r))
        /\ expected' = [expected EXCEPT ![r] = {s.agent : s \in RunSenders(r)}]
        /\ control' = [control EXCEPT ![r] = "waiting"]
        /\ UNCHANGED <<failure, permit>>
  /\ UNCHANGED <<agentVars, up, entryVars, state, optVars, ready, started, done,
                 lost, lost_ever, gauges, task, senders, verdict, sweepVars>>

\* Fault: the acknowledgements are not checked against the run's end.
StopAcknowledgedLate(r) ==
  /\ control[r] = "waiting" /\ expected[r] = {}
  /\ control' = [control EXCEPT ![r] = "over"]
  /\ state' = [state EXCEPT ![r] = "stopping"]
  /\ UNCHANGED <<agentVars, netVars, entryVars, optVars, ready, failure, started,
                 done, lost, lost_ever, gauges, taskVars, expected, sweepVars>>

\* Every agent acknowledged: the run is stopping unless it has ended meanwhile.
StopAcknowledged(r) ==
  /\ control[r] = "waiting" /\ expected[r] = {}
  /\ control' = [control EXCEPT ![r] = "over"]
  /\ state' = [state EXCEPT ![r] = IF @ \in Terminal THEN @ ELSE "stopping"]
  /\ UNCHANGED <<agentVars, netVars, entryVars, optVars, ready, failure, started,
                 done, lost, lost_ever, gauges, taskVars, expected, sweepVars>>

\* The three seconds for acknowledgements are over.
StopTimesOut(r) ==
  /\ control[r] = "waiting" /\ expected[r] # {}
  /\ control' = [control EXCEPT ![r] = "over"]
  /\ UNCHANGED <<agentVars, netVars, entryVars, runVars, taskVars, expected,
                 sweepVars>>

\* Agents silent for longer than the liveness window.
Silent == {a \in Agent : link[a] # "on" \/ a \in MayStall}

\* sweep, the scan: whom it found silent is used later, run by run.  A scan
\* that finds nobody new to any live run changes nothing and is left out.
NewlyLost(r, S) == {a \in S \cap assigned[r] : a \notin lost[r] /\ done[r][a] = "none"}
SweepScan ==
  /\ unswept = {} /\ todo[Sweeper] = NoTodo
  /\ stale' \in SUBSET Silent
  /\ unswept' = {r \in Run : state[r] \in Live /\ NewlyLost(r, stale') # {}}
  /\ unswept' # {}
  /\ UNCHANGED <<agentVars, netVars, entryVars, runVars, taskVars, cmdVars>>

\* sweep, one run: mark the loss.
SweepRun(r) ==
  LET newly == NewlyLost(r, stale)
  IN  /\ r \in unswept /\ todo[Sweeper] = NoTodo
      /\ unswept' = unswept \ {r}
      /\ \/ /\ state[r] \in Terminal \/ newly = {}
            /\ UNCHANGED <<todo, lost, lost_ever, gauges>>
         \/ /\ state[r] \notin Terminal /\ newly # {}
            /\ MarkLost(r, newly)
            /\ todo' = [todo EXCEPT ![Sweeper] = Todo("loss", r)]
      /\ UNCHANGED <<agentVars, netVars, known, session, connected, active_run,
                     state, optVars, ready, failure, started, done, taskVars,
                     cmdVars, stale>>

\* Before the start a loss is a preparation failure; if the barrier's commit
\* came first, the loss policy applies.
SweepSettles ==
  LET r == todo[Sweeper].run
  IN  /\ \/ /\ FollowsUp(Sweeper, "loss")
            /\ Unstarted(r)
            /\ RecordPrepFailure(r, "failed")
            /\ UNCHANGED down
         \/ /\ todo[Sweeper].kind = "loss"
            /\ ~ Unstarted(r)
            /\ LossPolicy(Sweeper, r, {})
            /\ UNCHANGED <<failure, permit>>
      /\ UNCHANGED <<agentVars, up, known, session, connected, active_run, state,
                     optVars, ready, started, done, lost, lost_ever, gauges, task,
                     senders, verdict, cmdVars, sweepVars>>

-----------------------------------------------------------------------------

AgentStep(a) ==
  \/ Die(a) \/ Relaunch(a) \/ Disconnect(a) \/ Connect(a)
  \/ ReceiveAssignment(a) \/ ReceiveStart(a)
  \/ ReceiveStop(a, "stop") \/ ReceiveStop(a, "command")
  \/ \E t \in prep[a] : PrepareDone(a, t) \/ PrepareFails(a, t)
  \/ EngineStarts(a) \/ EngineReports(a) \/ EngineEnds(a)

SessionStep(a) ==
  \/ Register(a) \/ TerminateParticipation(a) \/ ReplayAssignment(a)
  \/ ResumeRun(a) \/ FinalizeRun(a) \/ PumpEnds(a)
  \/ ApplyReady(a) \/ ApplyPrepFailed(a) \/ ApplyStarted(a) \/ ApplyMetrics(a)
  \/ ApplyEnded(a) \/ ApplyAck(a)

RunStep(r) ==
  \/ Reserve(r) \/ SendAssignments(r) \/ BarrierCheck(r) \/ BarrierExpires(r)
  \/ BarrierTimeout(r) \/ BarrierFinalize(r) \/ BroadcastStart(r)
  \/ StopRun(r) \/ StopAcknowledged(r) \/ StopTimesOut(r) \/ SweepRun(r)

Next ==
  \/ \E a \in Agent : AgentStep(a) \/ SessionStep(a)
  \/ \E r \in Run : RunStep(r)
  \/ SweepScan \/ SweepSettles \/ FinalizeRun(Sweeper)

Spec == Init /\ [][Next]_vars
\* Session loops, preparation and engine tasks, session tasks, the submission,
\* barrier and control tasks and the sweeper all keep running; an engine's plan
\* has an end; the sweep finds a dead agent in the end, but need not take a
\* connected one for silent.
Fairness ==
  /\ \A a \in Agent :
       /\ WF_vars(Connect(a)) /\ WF_vars(ReceiveAssignment(a))
       /\ WF_vars(ReceiveStart(a))
       /\ WF_vars(ReceiveStop(a, "stop")) /\ WF_vars(ReceiveStop(a, "command"))
       /\ WF_vars(\E t \in prep[a] : PrepareDone(a, t) \/ PrepareFails(a, t))
       /\ WF_vars(EngineStarts(a)) /\ WF_vars(EngineEnds(a))
       /\ WF_vars(SessionStep(a))
  /\ \A r \in Run :
       /\ WF_vars(SendAssignments(r)) /\ WF_vars(BarrierCheck(r))
       /\ WF_vars(BarrierExpires(r)) /\ WF_vars(BarrierTimeout(r))
       /\ WF_vars(BarrierFinalize(r)) /\ WF_vars(BroadcastStart(r))
       /\ WF_vars(StopAcknowledged(r)) /\ WF_vars(StopTimesOut(r))
       /\ WF_vars(SweepRun(r))
  /\ WF_vars(SweepSettles) /\ WF_vars(FinalizeRun(Sweeper))
  /\ WF_vars(SweepScan /\ Agent \ alive \subseteq stale' /\ \A a \in stale' : link[a] # "on")

FairSpec == Spec /\ Fairness

-----------------------------------------------------------------------------
(***************************************************************************)
(* Properties.                                                             *)
(***************************************************************************)

\* An engine of the run has been let go on the agent.
Engine(a, r) == slot[a].run = r /\ slot[a].phase \in {"fired", "running"}

InFlight(a, r, kinds) ==
  \E i \in 1..Len(up[a]) : up[a][i].run = r /\ up[a][i].kind \in kinds

\* The barrier is the only place a run leaves "pending": until it commits no
\* engine has been let go and no engine message has been sent or applied, so
\* re-anchoring the aggregator discards nothing and a "started" event never
\* finds the run pending, whatever was replayed.
QuietBeforeStart ==
  \A r \in Run : state[r] \in {"none", "pending"} =>
    /\ gauges[r] = {} /\ r \notin started
    /\ \A a \in Agent : /\ done[r][a] = "none" /\ ~ Engine(a, r)
                        /\ ~ InFlight(a, r, {"started", "metrics", "ended"})

\* No agent generates load before every agent of its run has reported ready,
\* also when Start is replayed over a new session or latched while preparing.
StartsTogether ==
  \A r \in Run : \A a \in assigned[r] : Engine(a, r) => assigned[r] \subseteq ready[r]

\* A recorded preparation failure (or a stop of a pending run) and the start
\* commit exclude one another.
FailedNeverStarts ==
  \A r \in Run : failure[r] # "none" =>
    /\ r \notin started /\ state[r] \in {"pending", "aborted", "failed"}
    /\ \A a \in Agent : ~ Engine(a, r)

\* A started run holds the reservation of every agent whose result it waits
\* for, through reconnects, restarts, competing submissions and the releases of
\* other runs, so two started runs never wait for the same agent; and no run
\* holds one after it is settled.
ReservationExact ==
  /\ \A r \in started : state[r] \in Live =>
       \A a \in assigned[r] :
         \/ active_run[a] = r
         \/ done[r][a] # "none" \/ a \in lost[r]
         \/ todo[a] = Todo("terminate", r)
  /\ \A a \in Agent : active_run[a] # NoRun =>
       task[active_run[a]] = "reserved" \/ state[active_run[a]] \in Live

\* A run reported as finished has a successful result from some agent, and
\* lacks one only from agents it counted as lost at some time, although agents
\* may be lost, resume or report while its completion is being decided.
FinishedIsEarned ==
  \A r \in Run : state[r] = "finished" =>
    /\ \E a \in assigned[r] : done[r][a] = "finished"
    /\ \A a \in assigned[r] : done[r][a] = "finished" \/ a \in lost[r] \cup lost_ever[r]

\* Under the abort policy a started run never goes on without a lost agent: it
\* is settled, or the task that lost the agent is about to settle it.
LossAborts ==
  \A r \in Run :
    (on_agent_loss[r] = "abort" /\ state[r] \in {"running", "stopping"} /\ lost[r] # {}) =>
      \E x \in Agent \cup {Sweeper} :
        todo[x].run = r /\ todo[x].kind \in {"loss", "finalize"}

\* What the abort policy is documented to do, mark a run that lost an agent as
\* failed: one reported as finished has the result of every agent.
LossFails ==
  \A r \in Run : (on_agent_loss[r] = "abort" /\ state[r] = "finished") =>
    \A a \in assigned[r] : done[r][a] # "none"

\* A settled run keeps its verdict, although the barrier, the sweep, terminal
\* events and a stop command waiting for acknowledgements all race to set it.
VerdictStands ==
  [][\A r \in Run : state[r] \in Terminal => state'[r] = state[r]]_vars

\* Live gauges of an agent that is done, or that the sweep has counted as lost,
\* stay at zero, although its batches may still arrive.  An agent that restarts
\* is counted as lost too, but gives up its reservation instead: nothing zeroes
\* the gauges of its former process.
GaugesSettle ==
  /\ TypeOK
  /\ \A r \in Run : state[r] \in Live =>
       \A a \in gauges[r] :
         done[r][a] = "none" /\ (a \in lost[r] => active_run[a] # r)

\* What lost_ever is documented to record: every agent ever counted as lost.
LossRecorded == \A r \in Run : lost[r] \subseteq lost_ever[r]

\* A run is settled in the end, whatever preparation does, and although streams
\* break, Start messages are lost with them, agents restart and agents die.
RunConcludes ==
  \A r \in Run : (state[r] = "pending" \/ r \in started) ~> (state[r] \in Terminal)

\* What the agent says when it frees its slot on a stop: the controller settles
\* the run, so its agents are free again.
StopConcludes == \A r \in Run : (state[r] = "stopping") ~> (state[r] \in Terminal)

\* What kill_agent_run is there for: no agent stays armed for a settled run.
NoOrphan ==
  \A r \in Run : \A a \in Agent :
    (state[r] \in Terminal /\ slot[a] = [phase |-> "armed", run |-> r, latched |-> FALSE])
      ~> (slot[a].run # r)
=============================================================================

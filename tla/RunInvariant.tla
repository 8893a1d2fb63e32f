---------------------------- MODULE RunInvariant ----------------------------
(***************************************************************************)
(* The inductive invariant behind the theorems about RunCoordination: how   *)
(* the barrier, the run slots, the messages in flight and the reservations  *)
(* agree on what has been decided of a run.                                *)
(***************************************************************************)
EXTENDS RunCoordination

\* The messages of a channel.
Msgs(q) == {q[i] : i \in 1..Len(q)}

\* An idle slot is empty; an engine's end carries its outcome.
AgentForm(a) ==
  /\ slot[a].phase = "idle" => slot[a] = Idle
  /\ slot[a].phase # "idle" => slot[a].run \in Run
  /\ \A m \in Msgs(up[a]) : m.kind = "ended" => m.how \in Terminal

\* A task that has something left to do names a run, and has a verdict when it
\* is to finalize it.
FormInv ==
  /\ \A a \in Agent : AgentForm(a)
  /\ \A x \in Agent \cup {Sweeper} :
       /\ todo[x].kind # "none" => todo[x].run \in Run
       /\ todo[x].kind = "finalize" => todo[x].verdict \in Terminal
  /\ \A r \in Run : task[r] = "failing" => verdict[r] # "none"

\* Where the barrier of a run stands, and what that says of the run.
BarrierInv ==
  \A r \in Run :
    /\ task[r] \in {"none", "reserved"} <=> state[r] = "none"
    /\ task[r] = "starting" => r \in started
    /\ r \in started =>
         /\ task[r] \in {"starting", "over"}
         /\ state[r] \notin {"none", "pending"}
         /\ assigned[r] \subseteq ready[r]
    /\ r \notin started =>
         /\ state[r] \in {"none", "pending"} \cup Terminal
         /\ gauges[r] = {} /\ \A a \in Agent : done[r][a] = "none"
    /\ failure[r] # "none" => r \notin started /\ state[r] \in {"pending", "aborted", "failed"}
    /\ control[r] = "waiting" => state[r] \notin {"none", "pending"}
    /\ state[r] = "none" => ready[r] = {} /\ lost[r] = {} /\ r \notin unswept

\* Only a started run is found in a Start message, a slot that has been let go
\* or will be, or a message of an engine.
AgentEngine(a) ==
  /\ \A m \in Msgs(down[a]) : m.kind = "start" => m.run \in started
  /\ slot[a].latched \/ slot[a].phase \in {"fired", "running"} => slot[a].run \in started
  /\ \A m \in Msgs(up[a]) : m.kind \in {"started", "metrics", "ended"} => m.run \in started
EngineInv == \A a \in Agent : AgentEngine(a)

\* A loss is only acted upon, and a run only finalized, once it is known.
TodoInv ==
  \A x \in Agent \cup {Sweeper} :
    todo[x].kind \in {"loss", "finalize"} => state[todo[x].run] # "none"

\* Whatever names a run is about an agent assigned to it.
AgentAssigned(a) ==
  /\ slot[a].run # NoRun => a \in assigned[slot[a].run]
  /\ resume[a] # NoRun => a \in assigned[resume[a]]
  /\ \A t \in prep[a] : a \in assigned[t.run]
  /\ \A m \in Msgs(down[a]) : a \in assigned[m.run]
  /\ \A m \in Msgs(up[a]) : a \in assigned[m.run]
AssignedInv ==
  /\ \A a \in Agent :
       /\ AgentAssigned(a)
       /\ active_run[a] # NoRun => a \in assigned[active_run[a]]
       /\ todo[a].kind # "none" => a \in assigned[todo[a].run]
  /\ \A r \in Run :
       /\ task[r] = "none" => assigned[r] = {}
       /\ \A s \in senders[r] : s.agent \in assigned[r] /\ s.session <= session[s.agent]
       /\ lost[r] \subseteq assigned[r]
       /\ \A a \in Agent : done[r][a] # "none" => a \in assigned[r]

\* A process that the controller has not registered holds nothing, and nothing
\* is on its way to an agent without a stream.
AgentProcess(a) ==
  /\ known[a] <= incarnation[a]
  /\ link[a] # "on" => down[a] = <<>>
  /\ a \notin alive => link[a] = "off" /\ slot[a] = Idle /\ prep[a] = {}
  /\ known[a] # incarnation[a] =>
       /\ link[a] # "on" /\ slot[a] = Idle /\ prep[a] = {}
       /\ link[a] = "connecting" => resume[a] = NoRun
ProcessInv == \A a \in Agent : AgentProcess(a)

\* The agent will not hear of the run again.
Gone(a, r) ==
  /\ slot[a].run # r
  /\ \A t \in prep[a] : t.run # r
  /\ DownMsg("assignment", r) \notin Msgs(down[a])
  /\ \A m \in Msgs(up[a]) : m.kind = "ready" => m.run # r
  /\ link[a] = "connecting" => resume[a] # r
  /\ todo[a].kind \in {"resume", "replay"} => todo[a].run # r
  /\ \A s \in senders[r] : s.agent = a => s.session < session[a]

\* An agent keeps its reservation until the run is settled, unless it restarted:
\* then it is out of the run, and the run will fail, or has counted it as lost
\* or done, or is about to.
ReservedInv ==
  /\ \A r \in Run : state[r] \notin Terminal => \A a \in assigned[r] :
       active_run[a] # r =>
         /\ Gone(a, r)
         /\ r \notin started => \/ todo[a] = Todo("terminate", r)
                                \/ failure[r] # "none" \/ a \notin ready[r]
         /\ r \in started => \/ todo[a] = Todo("terminate", r)
                             \/ done[r][a] # "none" \/ a \in lost[r]
  /\ \A a \in Agent :
       /\ active_run[a] # NoRun =>
            task[active_run[a]] = "reserved" \/ state[active_run[a]] \in Live
       /\ todo[a].kind = "terminate" =>
            /\ todo[a] = Todo("terminate", todo[a].run)
            /\ active_run[a] # todo[a].run
  /\ \A r \in Run : state[r] \notin Terminal => \A a \in lost[r] :
       a \in lost_ever[r] \/ active_run[a] # r

\* No assignment behind the start of the same run; no two ends of one run.
Ordered(q) ==
  \A i, j \in 1..Len(q) :
    i < j => ~ (q[i].kind = "start" /\ q[j].kind = "assignment" /\ q[i].run = q[j].run)
Single(q) ==
  \A i, j \in 1..Len(q) :
    i < j => ~ (q[i].kind = "ended" /\ q[j].kind = "ended" /\ q[i].run = q[j].run)

\* The engine of the run has been let go, will be, or has ended.
Ended(a, r) == done[r][a] # "none" \/ \E m \in Msgs(up[a]) : m.kind = "ended" /\ m.run = r
LetGo(a, r) ==
  slot[a].run = r /\ (slot[a].latched \/ slot[a].phase \in {"fired", "running"})

\* An agent executes a run at most once.
AgentOnce(a) ==
  /\ Ordered(down[a]) /\ Single(up[a])
  /\ \A r \in Run :
       /\ LetGo(a, r) \/ Ended(a, r) => DownMsg("assignment", r) \notin Msgs(down[a])
       /\ Ended(a, r) => slot[a].run # r
       /\ done[r][a] # "none" => \A m \in Msgs(up[a]) : m.kind = "ended" => m.run # r
OnceInv == \A a \in Agent : AgentOnce(a)

\* An agent executes a run at most once: the agent that has reported its end, or
\* whose report is on its way, neither holds the run nor is sent it again, through
\* replays over new sessions, resumed streams and restarts.
ExecutesOnce ==
  \A a \in Agent, r \in Run : Ended(a, r) =>
    /\ slot[a].run # r /\ DownMsg("assignment", r) \notin Msgs(down[a])
    /\ done[r][a] # "none" => \A m \in Msgs(up[a]) : m.kind = "ended" => m.run # r

\* What a run that is to be finalized as finished has to show for it.
Earned(r) ==
  /\ \E a \in assigned[r] : done[r][a] = "finished"
  /\ \A a \in assigned[r] : done[r][a] = "finished" \/ a \in lost[r] \cup lost_ever[r]
EarnedInv ==
  /\ \A x \in Agent \cup {Sweeper} :
       todo[x].kind = "finalize" /\ todo[x].verdict = "finished" => Earned(todo[x].run)
  /\ \A r \in Run : state[r] = "finished" => Earned(r)

\* A loss the policy has not acted upon is about to be.
LossInv ==
  \A r \in Run : state[r] \in Live /\ lost[r] # {} =>
    /\ state[r] = "pending" => failure[r] # "none" \/ todo[Sweeper] = Todo("loss", r)
    /\ state[r] # "pending" /\ on_agent_loss[r] = "abort" =>
         \E x \in Agent \cup {Sweeper} :
           todo[x].run = r /\ todo[x].kind \in {"loss", "finalize"}

\* The inductive invariant of the life of a run.
RunInv ==
  /\ TypeOK /\ FormInv
  /\ BarrierInv /\ EngineInv /\ TodoInv
  /\ AssignedInv /\ ProcessInv /\ ReservedInv /\ GaugesSettle
  /\ OnceInv /\ EarnedInv /\ LossInv
=============================================================================

------------------------------ MODULE Fixtures ------------------------------
(* Service plugins over a local run: run_local and build_engine of             *)
(* crates/loadr-cli/src/commands/run.rs with the testcontainers service        *)
(* (plugins/loadr-plugin-testcontainers/src/lib.rs), which creates containers  *)
(* before the run and removes them after it.                                   *)
(*                                                                             *)
(* Docker is external: a request does what it asks, is refused, or does it     *)
(* while the answer is lost.  Of the plugins of a plan, only services of this  *)
(* kind; of the run, only how it ends.                                         *)
EXTENDS Naturals, Sequences

CONSTANTS
  Services,   \* services of the plan
  Each,       \* containers of each
  MaxPresses  \* bound: presses of Ctrl-C

Container == (1..Services) \X (1..Each)

FixturesAssumption == Services \in Nat \ {0} /\ Each \in Nat \ {0} /\ MaxPresses \in Nat

VARIABLES
  phase,     \* where run_local stands
  ui,        \* --ui
  service,   \* the service being started or stopped
  step,      \* where launch_one stands
  launched,  \* containers that bring_up has started
  started,   \* Testcontainers.started, of every service
  victims,   \* containers that are about to be removed
  handler,   \* the Ctrl-C task: not spawned, waiting for a press, or exiting
  woken,     \* Ctrl-C has reached run_local's own wait
  presses,   \* presses so far
  exists,    \* containers that Docker has
  ready,     \* history: containers that have met their wait condition
  refused,   \* history: containers whose removal failed
  unknown    \* history: containers whose creation was never confirmed

plugin == <<service, step, launched, started, victims>>
docker == <<exists, ready, refused, unknown>>
signals == <<handler, woken, presses>>
vars == <<phase, ui, plugin, docker, signals>>

Init ==
  /\ phase = "build" /\ ui \in BOOLEAN
  /\ service = 1 /\ step = "create" /\ launched = <<>>
  /\ started = [s \in 1..Services |-> <<>>] /\ victims = <<>>
  /\ handler = "none" /\ woken = FALSE /\ presses = 0
  /\ exists = {} /\ ready = {} /\ refused = {} /\ unknown = {}
-----------------------------------------------------------------------------
(* start() of a service, called by build_engine. *)

Current == <<service, Len(launched) + 1>>

\* Fault: the container at hand is left behind.
UndoPriors(created) == step' = "undo" /\ victims' = launched

\* launch_one removes its own container, bring_up those before it.
Undo(created) ==
  /\ step' = "undo"
  /\ victims' = (IF created THEN <<Current>> ELSE <<>>) \o launched

\* create: the container is there, is refused, or its answer is lost; or the
\* image is missing and is pulled before the only retry.
Create ==
  /\ phase = "build" /\ step \in {"create", "retry"}
  /\ \/ /\ exists' = exists \cup {Current} /\ step' = "bring_running"
        /\ UNCHANGED <<victims, unknown>>
     \/ /\ Undo(FALSE)
        /\ \/ UNCHANGED <<exists, unknown>>
           \/ exists' = exists \cup {Current} /\ unknown' = unknown \cup {Current}
     \/ /\ step = "create" /\ step' = "pull"
        /\ UNCHANGED <<victims, exists, unknown>>
  /\ UNCHANGED <<phase, ui, service, launched, started, ready, refused, signals>>

Pull ==
  /\ phase = "build" /\ step = "pull"
  /\ \/ step' = "retry" /\ UNCHANGED victims
     \/ Undo(FALSE)
  /\ UNCHANGED <<phase, ui, service, launched, started, docker, signals>>

\* Fault: a container that is not ready in time is taken as started.
BringRunningLate ==
  /\ phase = "build" /\ step = "bring_running"
  /\ ready' \in {ready, ready \cup {Current}}
  /\ launched' = Append(launched, Current)
  /\ step' = IF Len(launched') = Each THEN "started" ELSE "create"
  /\ UNCHANGED <<phase, ui, service, started, victims, exists, refused, unknown, signals>>

\* bring_running: started, inspected, mapped and ready before the deadline.
BringRunning ==
  /\ phase = "build" /\ step = "bring_running"
  /\ \/ /\ ready' = ready \cup {Current}
        /\ launched' = Append(launched, Current)
        /\ step' = IF Len(launched') = Each THEN "started" ELSE "create"
        /\ UNCHANGED victims
     \/ Undo(TRUE) /\ UNCHANGED <<launched, ready>>
  /\ UNCHANGED <<phase, ui, service, started, exists, refused, unknown, signals>>

\* start_with records the containers.  After the last service the Ctrl-C task
\* is spawned and the run begins, or what is still to be built fails.
Record ==
  /\ phase = "build" /\ step = "started"
  /\ started' = [started EXCEPT ![service] = launched]
  /\ launched' = <<>> /\ step' = "create"
  /\ IF service < Services
       THEN service' = service + 1 /\ UNCHANGED <<phase, handler>>
       ELSE /\ service' = 1
            /\ \/ phase' = "run" /\ handler' = "first"
               \/ phase' = "errored" /\ UNCHANGED handler
  /\ UNCHANGED <<ui, victims, docker, woken, presses>>

\* remove of the next container: it is gone, or Docker refuses.
Remove ==
  /\ (phase = "build" /\ step = "undo") \/ phase = "stop"
  /\ victims # <<>> /\ victims' = Tail(victims)
  /\ \/ exists' = exists \ {Head(victims)} /\ UNCHANGED refused
     \/ refused' = refused \cup {Head(victims)} /\ UNCHANGED exists
  /\ UNCHANGED <<phase, ui, service, step, launched, started, ready, unknown, signals>>

\* start() has failed: run_local returns the error, and drops the services it
\* has started without stopping them.
StartFails ==
  /\ phase = "build" /\ step = "undo" /\ victims = <<>>
  /\ phase' = "errored"
  /\ UNCHANGED <<ui, plugin, docker, signals>>
-----------------------------------------------------------------------------
(* run_local after build_engine. *)

\* The run ends, with a result or an error.
RunEnds ==
  /\ phase = "run" /\ phase' \in {"report", "errored"}
  /\ UNCHANGED <<ui, plugin, docker, signals>>

\* Fault: the last service is not stopped.
BeginStopFirst(s) ==
  IF s < Services \/ Services = 1 THEN phase' = "stop" /\ service' = s /\ victims' = started[s]
  ELSE phase' = "returned" /\ UNCHANGED <<service, victims>>

\* The loop over the services; stop() walks the containers it recorded.
BeginStop(s) ==
  IF s <= Services THEN phase' = "stop" /\ service' = s /\ victims' = started[s]
  ELSE phase' = "returned" /\ UNCHANGED <<service, victims>>

\* Summary and report files are written, or that fails; with --ui the results
\* are served until Ctrl-C.
Report ==
  /\ phase = "report"
  /\ \/ phase' = "errored" /\ UNCHANGED <<service, victims>>
     \/ ui /\ phase' = "serve" /\ UNCHANGED <<service, victims>>
     \/ ~ui /\ BeginStop(1)
  /\ UNCHANGED <<ui, step, launched, started, docker, signals>>

ServeEnds ==
  /\ phase = "serve" /\ woken
  /\ BeginStop(1)
  /\ UNCHANGED <<ui, step, launched, started, docker, signals>>

NextService ==
  /\ phase = "stop" /\ victims = <<>>
  /\ BeginStop(service + 1)
  /\ UNCHANGED <<ui, step, launched, started, docker, signals>>

Over == {"returned", "errored", "killed"}

\* Ctrl-C ends a process that does not wait for it; later it reaches the task,
\* and run_local if it serves results.
Press ==
  /\ presses < MaxPresses /\ phase \notin Over
  /\ presses' = presses + 1
  /\ phase' = IF handler = "none" THEN "killed" ELSE phase
  /\ handler' = CASE handler = "first" -> "second" [] handler = "second" -> "exiting"
                  [] OTHER -> handler
  /\ woken' = (woken \/ phase = "serve")
  /\ UNCHANGED <<ui, plugin, docker>>

\* The second press: exit(130), beside whatever run_local is doing.
Exit ==
  /\ handler = "exiting" /\ phase \notin Over
  /\ phase' = "killed"
  /\ UNCHANGED <<ui, plugin, docker, signals>>

Next ==
  \/ Create \/ Pull \/ BringRunning \/ Record \/ Remove \/ StartFails
  \/ RunEnds \/ Report \/ ServeEnds \/ NextService
  \/ Press \/ Exit

Spec == Init /\ [][Next]_vars
-----------------------------------------------------------------------------
(* Properties. *)

TypeOK ==
  /\ phase \in {"build", "run", "report", "serve", "stop"} \cup Over
  /\ step \in {"create", "pull", "retry", "bring_running", "started", "undo"}
  /\ handler \in {"none", "first", "second", "exiting"}
  /\ service \in 1..Services
  /\ exists \subseteq Container

\* The scenarios run with every container there and ready, also after a pull
\* and a retry.
FixturesUp ==
  /\ TypeOK
  /\ phase \in {"run", "report", "serve"} => exists = Container /\ ready = Container

\* A start that fails takes back what it created: of the service at hand only
\* containers remain that Docker would not remove or never confirmed.
StartUndone ==
  phase = "errored" /\ step = "undo" =>
    \A c \in exists : c[1] = service => c \in refused \cup unknown

\* When run_local returns a result, a container remains only if Docker would
\* not remove it.
StoppedClean == phase = "returned" => exists \subseteq refused
-----------------------------------------------------------------------------
(* What the documentation says, and the program does not do. *)

\* docs/src/plugins/testcontainers.md: stop() "removes containers by the IDs
\* `start()` recorded, so a second Ctrl-C or an early failure still cleans up".
AlwaysCleanedUp ==
  phase = "errored" \/ (phase = "killed" /\ handler = "exiting") =>
    exists \subseteq refused \cup unknown
=============================================================================

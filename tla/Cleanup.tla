------------------------------ MODULE Cleanup -------------------------------
(* The data-cleanup service (plugins/loadr-plugin-data-cleanup/src/lib.rs).    *)
(* VUs write the ids of the resources they create to an endpoint; a thread     *)
(* accepts connections, one thread per connection buffers the ids; stop()      *)
(* drains the buffer with a number of workers, one delete call per id.         *)
(*                                                                             *)
(* Each connection carries one id, and ids differ.  The socket and the target  *)
(* of the delete calls are external: an id that was written may be read late   *)
(* or, when its VU was interrupted, never waited for; a delete call succeeds   *)
(* or fails.                                                                   *)
EXTENDS Naturals, FiniteSets

CONSTANTS
  Resource,  \* ids, one connection each
  Worker     \* threads of run_cleanup

\* An id is not a program point of a worker.
CleanupAssumption ==
  /\ IsFiniteSet(Resource) /\ IsFiniteSet(Worker) /\ Worker # {}
  /\ Resource \cap {"check", "pop", "ended"} = {}

VARIABLES
  lenient,   \* continue_on_error
  line,      \* what the VU of each id has done: none, written, acked
  handler,   \* the connection's thread
  accepting, \* the accept loop: reading the flag, accepting, or ended
  shutdown,  \* the flag of all threads
  stop,      \* where stop() stands
  registry,  \* ids buffered
  queue,     \* ids taken for deletion
  worker,    \* each worker: checking, popping, ended, or the id it deletes
  abort,     \* a failure ends the work
  deleted, errors,  \* counters of run_cleanup
  settled,   \* history: ids acknowledged before stop() was called
  taken,     \* history: ids that stop() took from the registry
  tried      \* history: delete calls of each id

ingest == <<line, handler, accepting, registry>>
drain == <<queue, worker, abort, deleted, errors>>
history == <<settled, taken, tried>>
vars == <<lenient, ingest, shutdown, stop, drain, history>>

Ids(pc) == pc \notin {"check", "pop", "ended"}

Init ==
  /\ lenient \in BOOLEAN
  /\ line = [r \in Resource |-> "none"] /\ handler = [r \in Resource |-> "none"]
  /\ accepting = "flag" /\ shutdown = FALSE /\ stop = "idle" /\ registry = {}
  /\ queue = {} /\ worker = [w \in Worker |-> "ended"] /\ abort = FALSE
  /\ deleted = 0 /\ errors = 0
  /\ settled = {} /\ taken = {} /\ tried = [r \in Resource |-> 0]
-----------------------------------------------------------------------------
(* The endpoint. *)

\* A VU connects and writes its line.
Write(r) ==
  /\ line[r] = "none" /\ stop # "done"
  /\ line' = [line EXCEPT ![r] = "written"]
  /\ UNCHANGED <<lenient, handler, accepting, registry, shutdown, stop, drain, history>>

\* The accept loop, between two connections.
LoopFlag ==
  /\ accepting = "flag"
  /\ accepting' = IF shutdown THEN "ended" ELSE "accept"
  /\ UNCHANGED <<lenient, line, handler, registry, shutdown, stop, drain, history>>

\* Fault: the listener blocks until a connection arrives.
AcceptBlocking ==
  /\ accepting = "accept" /\ accepting' = "flag"
  /\ \E r \in Resource :
       /\ line[r] = "written" /\ handler[r] = "none"
       /\ handler' = [handler EXCEPT ![r] = "check"]
  /\ UNCHANGED <<lenient, line, registry, shutdown, stop, drain, history>>

\* It spawns a thread for a connection, finds none, or ends on an error.
Accept ==
  /\ accepting = "accept"
  /\ \/ \E r \in Resource :
          /\ line[r] = "written" /\ handler[r] = "none"
          /\ handler' = [handler EXCEPT ![r] = "check"]
          /\ accepting' = "flag"
     \/ accepting' \in {"flag", "ended"} /\ UNCHANGED handler
  /\ UNCHANGED <<lenient, line, registry, shutdown, stop, drain, history>>

\* handle_ingest, one round: the flag is read before the line.
CheckFlag(r) ==
  /\ handler[r] = "check"
  /\ handler' = [handler EXCEPT ![r] = IF shutdown THEN "ended" ELSE "read"]
  /\ UNCHANGED <<lenient, line, accepting, registry, shutdown, stop, drain, history>>

\* The line is read and buffered.
Push(r) ==
  /\ handler[r] = "read"
  /\ registry' = registry \cup {r}
  /\ handler' = [handler EXCEPT ![r] = "reply"]
  /\ UNCHANGED <<lenient, line, accepting, shutdown, stop, drain, history>>

Reply(r) ==
  /\ handler[r] = "reply"
  /\ line' = [line EXCEPT ![r] = "acked"]
  /\ handler' = [handler EXCEPT ![r] = "ended"]
  /\ UNCHANGED <<lenient, accepting, registry, shutdown, stop, drain, history>>
\* The VU has closed the connection, or it is broken.
Disconnected(r) ==
  /\ handler[r] \in {"read", "reply"}
  /\ handler' = [handler EXCEPT ![r] = "ended"]
  /\ UNCHANGED <<lenient, line, accepting, registry, shutdown, stop, drain, history>>
-----------------------------------------------------------------------------
(* stop(), after the run. *)

SetShutdown ==
  /\ stop = "idle" /\ stop' = "join" /\ shutdown' = TRUE
  /\ settled' = {r \in Resource : line[r] = "acked"}
  /\ UNCHANGED <<lenient, ingest, drain, taken, tried>>

\* The accept loop is joined, then the registry is taken and run_cleanup spawns
\* its workers, if there is anything to delete.
TakeRegistry ==
  /\ stop = "join" /\ accepting = "ended"
  /\ registry' = {} /\ queue' = registry /\ taken' = registry
  /\ stop' = "clean"
  /\ worker' = [w \in Worker |-> IF registry = {} THEN "ended" ELSE "check"]
  /\ UNCHANGED <<lenient, line, handler, accepting, shutdown, abort, deleted, errors,
                 settled, tried>>

Goto(w, pc) == worker' = [worker EXCEPT ![w] = pc]

CheckAbort(w) ==
  /\ worker[w] = "check"
  /\ Goto(w, IF abort THEN "ended" ELSE "pop")
  /\ UNCHANGED <<lenient, ingest, shutdown, stop, queue, abort, deleted, errors, history>>

\* Fault: the id leaves the queue only when it has been deleted.
PopPeek(w) ==
  /\ worker[w] = "pop"
  /\ \/ queue = {} /\ Goto(w, "ended") /\ UNCHANGED <<queue, tried>>
     \/ \E r \in queue :
          /\ Goto(w, r) /\ tried' = [tried EXCEPT ![r] = @ + 1]
          /\ queue' \in {queue, queue \ {r}}
  /\ UNCHANGED <<lenient, ingest, shutdown, stop, abort, deleted, errors, settled, taken>>

\* An id leaves the queue under its lock, and its delete call is made.
Pop(w) ==
  /\ worker[w] = "pop"
  /\ \/ queue = {} /\ Goto(w, "ended") /\ UNCHANGED <<queue, tried>>
     \/ \E r \in queue :
          /\ Goto(w, r) /\ tried' = [tried EXCEPT ![r] = @ + 1]
          /\ queue' = queue \ {r}
  /\ UNCHANGED <<lenient, ingest, shutdown, stop, abort, deleted, errors, settled, taken>>

\* Fault: a failure ends the work whatever continue_on_error says.
OutcomeStrict(w) ==
  /\ Ids(worker[w])
  /\ Goto(w, "check")
  /\ \/ deleted' = deleted + 1 /\ UNCHANGED <<errors, abort>>
     \/ errors' = errors + 1 /\ abort' = TRUE /\ UNCHANGED deleted
  /\ UNCHANGED <<lenient, ingest, shutdown, stop, queue, history>>

\* The call returns.
Outcome(w) ==
  /\ Ids(worker[w])
  /\ Goto(w, "check")
  /\ \/ deleted' = deleted + 1 /\ UNCHANGED <<errors, abort>>
     \/ errors' = errors + 1 /\ abort' = (abort \/ ~lenient) /\ UNCHANGED deleted
  /\ UNCHANGED <<lenient, ingest, shutdown, stop, queue, history>>

\* The workers are joined.
StopReturns ==
  /\ stop = "clean" /\ \A w \in Worker : worker[w] = "ended"
  /\ stop' = "done"
  /\ UNCHANGED <<lenient, ingest, shutdown, drain, history>>
-----------------------------------------------------------------------------

AcceptStep == LoopFlag \/ Accept
HandlerStep(r) == CheckFlag(r) \/ Push(r) \/ Reply(r) \/ Disconnected(r)
WorkerStep(w) == CheckAbort(w) \/ Pop(w) \/ Outcome(w)
StopStep == TakeRegistry \/ StopReturns

Next ==
  \/ \E r \in Resource : Write(r) \/ HandlerStep(r)
  \/ \E w \in Worker : WorkerStep(w)
  \/ AcceptStep \/ SetShutdown \/ StopStep

Spec == Init /\ [][Next]_vars

\* Threads are scheduled, delete calls have a timeout; neither a VU nor the
\* thread of its connection need do anything.
FairSpec ==
  /\ Spec /\ WF_vars(AcceptStep) /\ WF_vars(StopStep)
  /\ \A w \in Worker : WF_vars(WorkerStep(w))
-----------------------------------------------------------------------------
(* Properties. *)

TypeOK ==
  /\ line \in [Resource -> {"none", "written", "acked"}]
  /\ handler \in [Resource -> {"none", "check", "read", "reply", "ended"}]
  /\ stop \in {"idle", "join", "clean", "done"}
  /\ registry \cup queue \cup taken \cup settled \subseteq Resource

Calling == {w \in Worker : Ids(worker[w])}

\* No id is deleted twice, and the counters that stop() reports are those of
\* the calls that were made.
CountsExact ==
  /\ TypeOK
  /\ \A r \in Resource : tried[r] <= 1
  /\ deleted + errors + Cardinality(Calling) = Cardinality({r \in Resource : tried[r] > 0})

\* After stop() a resource whose id was acknowledged to its VU while the run
\* lasted has been tried, unless a failure was to end the work.
AcknowledgedTried ==
  stop = "done" =>
    \/ \A r \in settled : tried[r] = 1
    \/ ~lenient /\ errors > 0

\* stop() returns, whatever connections are still open.
CleanupEnds == shutdown ~> stop = "done"
-----------------------------------------------------------------------------
(* What a comment says, and the code does not do. *)

\* stop(): "join the accept loop so the registry is final".
RegistryFinal == stop \in {"clean", "done"} => registry = {}
=============================================================================

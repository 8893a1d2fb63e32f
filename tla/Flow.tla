-------------------------------- MODULE Flow --------------------------------
(* The iterations of a scenario's VUs: the step interpreter of                 *)
(* crates/loadr-core/src/flow.rs with the VU state it keeps in vu.rs.          *)
(*                                                                             *)
(* run_steps calls itself for every nested block.  Here each context (a VU, or *)
(* one branch of its parallel step) keeps the pending calls as a stack of      *)
(* frames.  Conditions, random picks and responses are free choices; templates,*)
(* scripts, tags and measured values are left out.                             *)
EXTENDS Integers, Sequences, FiniteSets, SequencesExt

CONSTANTS
  Vu,            \* the VUs
  Branches,      \* bound: branches of a parallel step
  Programs,      \* the flows that Init may choose
  Users,         \* VUs a rendezvous waits for
  MaxIterations  \* bound: iterations of all VUs

ASSUME SizeAssumption ==
  /\ IsFiniteSet(Vu) /\ Branches \in Nat
  /\ Users \in Nat \ {0} /\ MaxIterations \in Nat

\* Context <<v, 0>> is the VU itself, <<v, b>> branch b of its parallel step.
Context == Vu \X (0..Branches)
Main(v) == <<v, 0>>
Family(v) == {v} \X (0..Branches)
BranchesOf(v) == Family(v) \ {Main(v)}

-----------------------------------------------------------------------------
(* Programs.  A step is a record: op, and the blocks it holds.                 *)

Request == [op |-> "request"]
\* A request whose templates read a finite data source.
DataRequest == [op |-> "data_request"]
Rendezvous == [op |-> "rendezvous"]
Group(name, steps) == [op |-> "group", label |-> name, blocks |-> <<steps>>]
\* if and switch: one of several blocks.
Choice(blocks) == [op |-> "choice", blocks |-> blocks]
\* random: a choice that tags what it runs with the name of the branch.
Random(name, blocks) == [op |-> "random", label |-> name, blocks |-> blocks]
Repeat(times, steps) == [op |-> "repeat", times |-> times, blocks |-> <<steps>>]
\* while, during and foreach: a loop that may end before any round.
While(times, steps) == [op |-> "while", times |-> times, blocks |-> <<steps>>]
Retry(times, steps) == [op |-> "retry", times |-> times, blocks |-> <<steps>>]
\* retry with a condition of its own.
RetryUntil(times, steps) == [op |-> "until", times |-> times, blocks |-> <<steps>>]
Parallel(blocks) == [op |-> "parallel", blocks |-> blocks]

VARIABLES
  program,     \* the flow of the scenario
  at,          \* what a context does, or which await it is suspended in
  stack,       \* its pending run_steps calls, innermost first
  groups,      \* VuContext.groups
  failed,      \* VuContext.last_request_failed
  outcome,     \* how a branch ended
  iteration,   \* VuContext.iteration
  in_flight,   \* MetricsBus.requests_in_flight
  arrived,     \* tokio's Barrier: arrivals of the current generation
  base,        \* history: groups at the start of the iteration
  doomed       \* history: VUs of which a request asked to abort scenario or test

history == <<base, doomed>>
vars == <<program, at, stack, groups, failed, outcome, iteration, in_flight,
          arrived, history>>

\* idle between iterations; step runs synchronously; the rest are awaits: a
\* slot of the throttle or injected latency, the response, think time, the
\* pause between attempts, the rendezvous, join_all.
Awaits == {"slot", "send", "think", "backoff", "rendezvous", "released", "join"}
Places == {"idle", "step", "ended", "retired"} \cup Awaits
Outcomes == {"completed", "stop_vu", "abort_scenario", "abort_test"}
Aborts == {"abort_scenario", "abort_test"}

\* One run_steps call: the step that made it, the block it runs, the steps left
\* of the block and the rounds left of the step.
Frame(step, block, left) == [step |-> step, block |-> block, rest |-> block, left |-> left]

Init ==
  /\ program \in Programs
  /\ at = [c \in Context |-> IF c[2] = 0 THEN "idle" ELSE "ended"]
  /\ stack = [c \in Context |-> <<>>]
  /\ groups = [c \in Context |-> <<>>]
  /\ failed = [c \in Context |-> FALSE]
  /\ outcome = [c \in Context |-> "completed"]
  /\ iteration = [v \in Vu |-> 0]
  /\ in_flight = 0 /\ arrived = 0
  /\ base = [c \in Context |-> <<>>]
  /\ doomed = {}

-----------------------------------------------------------------------------
(* Moving through the stack.                                                   *)

Top(c) == Head(stack[c])
Step(c) == Head(Top(c).rest)
Running(c) == at[c] = "step" /\ stack[c] # <<>>
AtStep(c, ops) == Running(c) /\ Top(c).rest # <<>> /\ Step(c).op \in ops
AtEnd(c, ops) == Running(c) /\ Top(c).rest = <<>> /\ Top(c).step.op \in ops

\* The stack of c once the step at its head is behind it.
Advanced(c) == <<[Top(c) EXCEPT !.rest = Tail(@)]>> \o Tail(stack[c])
Advance(c) == stack' = [stack EXCEPT ![c] = Advanced(c)]
Return(c) == stack' = [stack EXCEPT ![c] = Tail(@)]
Again(c) == stack' = [stack EXCEPT ![c][1].rest = Top(c).block, ![c][1].left = @ - 1]

\* Blocks that push their name on the group stack.
Tagging == {"group", "random"}
Named(names, call) ==
  IF call.step.op \in Tagging THEN Append(names, call.step.label) ELSE names

\* The names that pending calls have pushed, outermost first.
Names(frames) ==
  LET calls == Reverse(frames)
      names[n \in 0..Len(calls)] == IF n = 0 THEN <<>> ELSE Named(names[n - 1], calls[n])
  IN names[Len(calls)]
Labels(c) == Names(stack[c])

\* Every pending call of c returns the same outcome; each pops what it pushed.
Unwound(c) == SubSeq(groups[c], 1, Len(groups[c]) - Len(Labels(c)))

\* run_one takes an outcome other than Completed: the VU stops iterating.  A
\* branch keeps its outcome for the join.
Unwind(c, o) ==
  /\ stack' = [stack EXCEPT ![c] = <<>>]
  /\ groups' = [groups EXCEPT ![c] = Unwound(c)]
  /\ at' = [at EXCEPT ![c] = IF c[2] = 0 THEN "retired" ELSE "ended"]
  /\ outcome' = [outcome EXCEPT ![c] = o]

-----------------------------------------------------------------------------
(* The iteration.                                                              *)

\* run_iteration begins: the counter moves on; the groups are left as they are.
BeginIteration(v) ==
  /\ at[Main(v)] = "idle"
  /\ SumFunction(iteration) < MaxIterations
  /\ iteration' = [iteration EXCEPT ![v] = @ + 1]
  /\ at' = [at EXCEPT ![Main(v)] = "step"]
  /\ stack' = [stack EXCEPT ![Main(v)] = <<Frame([op |-> "iteration"], program, 1)>>]
  /\ base' = [base EXCEPT ![Main(v)] = groups[Main(v)]]
  /\ UNCHANGED <<program, groups, failed, outcome, in_flight, arrived, doomed>>

\* run_iteration returns Completed: its metrics are emitted, the VU goes on.
CompleteIteration(v) ==
  /\ AtEnd(Main(v), {"iteration"})
  /\ at' = [at EXCEPT ![Main(v)] = "idle"]
  /\ Return(Main(v))
  /\ UNCHANGED <<program, groups, failed, outcome, iteration, in_flight, arrived, history>>

\* The executor lets the VU end between two iterations.
Retire(v) ==
  /\ at[Main(v)] = "idle"
  /\ at' = [at EXCEPT ![Main(v)] = "retired"]
  /\ UNCHANGED <<program, stack, groups, failed, outcome, iteration, in_flight, arrived,
                 history>>

\* Fault: the requests of the branches are forgotten.
InFlightOfMain(v) == {c \in {Main(v)} : at[c] = "send"}

\* The requests of VU v whose guards are still active.
InFlightOf(v) == {c \in Family(v) : at[c] = "send"}

\* The executor drops the iteration at an await, and with it the branches of its
\* parallel step: after a ramp-down the VU may iterate again, after a
\* cancellation it ends.  A request in flight is recorded as cancelled when its
\* guard drops.  The VU's groups stay; an arrival at a rendezvous stays counted.
Cancel(v, place) ==
  /\ at[Main(v)] \in Awaits
  /\ in_flight' = in_flight - Cardinality(InFlightOf(v))
  /\ at' = [c \in Context |-> CASE c = Main(v) -> place
                               [] c \in BranchesOf(v) -> "ended"
                               [] OTHER -> at[c]]
  /\ stack' = [c \in Context |-> IF c \in Family(v) THEN <<>> ELSE stack[c]]
  /\ groups' = [c \in Context |-> IF c \in BranchesOf(v) THEN <<>> ELSE groups[c]]
  /\ outcome' = [c \in Context |-> IF c \in Family(v) THEN "completed" ELSE outcome[c]]
  /\ doomed' = doomed \ {v}
  /\ UNCHANGED <<program, failed, iteration, arrived, base>>

-----------------------------------------------------------------------------
(* Requests: run_request.                                                      *)

\* The request waits for its slot (and for injected latency).
StartRequest(c) ==
  /\ AtStep(c, {"request", "data_request"})
  /\ at' = [at EXCEPT ![c] = "slot"]
  /\ UNCHANGED <<program, stack, groups, failed, outcome, iteration, in_flight, arrived,
                 history>>

\* prepare succeeds and a handler takes the request: its guard counts it.  A
\* request that fault injection drops before sending returns at once, failed.
Prepared(c) ==
  /\ at[c] = "slot"
  /\ at' = [at EXCEPT ![c] = "send"]
  /\ in_flight' = in_flight + 1
  /\ UNCHANGED <<program, stack, groups, failed, outcome, iteration, arrived, history>>

\* prepare fails, or no handler knows the protocol: a failed request is
\* recorded and the flow continues; last_request_failed keeps its value.
PrepareFails(c) ==
  /\ at[c] = "slot"
  /\ at' = [at EXCEPT ![c] = "think"]
  /\ Advance(c)
  /\ UNCHANGED <<program, groups, failed, outcome, iteration, in_flight, arrived, history>>

\* The data source of the request is exhausted: the VU stops.
DataExhausted(c) ==
  /\ at[c] = "slot" /\ Step(c).op = "data_request"
  /\ Unwind(c, "stop_vu")
  /\ UNCHANGED <<program, failed, iteration, in_flight, arrived, history>>

\* Response or transport error, then extraction, feedback, hooks, assertions and
\* checks.  A failed assertion or extraction marks the request failed and may
\* ask for more: abort_iteration ends the innermost run_steps with Completed,
\* the other two unwind the iteration.
Respond(c, bad, flow) ==
  /\ at[c] = "send"
  /\ bad \/ flow = "continue"
  /\ in_flight' = in_flight - 1
  /\ failed' = [failed EXCEPT ![c] = bad]
  /\ \/ /\ flow = "continue"
        /\ at' = [at EXCEPT ![c] = "think"]
        /\ Advance(c)
        /\ UNCHANGED <<groups, outcome, doomed>>
     \/ /\ flow = "abort_iteration"
        /\ at' = [at EXCEPT ![c] = "step"]
        /\ stack' = [stack EXCEPT ![c][1].rest = <<>>]
        /\ UNCHANGED <<groups, outcome, doomed>>
     \/ /\ flow \in Aborts
        /\ Unwind(c, flow)
        /\ doomed' = doomed \cup {c[1]}
  /\ UNCHANGED <<program, iteration, arrived, base>>

\* think_time, or the pause before the next attempt, is over.
Wake(c) ==
  /\ at[c] \in {"think", "released"}
  /\ at' = [at EXCEPT ![c] = "step"]
  /\ UNCHANGED <<program, stack, groups, failed, outcome, iteration, in_flight, arrived,
                 history>>

-----------------------------------------------------------------------------
(* Blocks: run_steps.                                                          *)

Loops == {"repeat", "while"}
Retries == {"retry", "until"}

\* A step calls run_steps on one of its blocks.  A tagging step pushes its name;
\* a retry begins its first attempt.
Enter(c, b) ==
  /\ AtStep(c, Tagging \cup Loops \cup Retries \cup {"choice"})
  /\ b \in DOMAIN Step(c).blocks
  /\ Step(c).op \in Loops => Step(c).times > 0
  /\ LET s == Step(c)
         rounds == CASE s.op \in Loops -> s.times
                     [] s.op \in Retries -> IF s.times > 1 THEN s.times ELSE 1
                     [] OTHER -> 1
     IN stack' = [stack EXCEPT ![c] = <<Frame(s, s.blocks[b], rounds)>> \o Advanced(c)]
  /\ groups' = IF Step(c).op \in Tagging
                 THEN [groups EXCEPT ![c] = Append(@, Step(c).label)] ELSE groups
  /\ failed' = IF Step(c).op \in Retries THEN [failed EXCEPT ![c] = FALSE] ELSE failed
  /\ UNCHANGED <<program, at, outcome, iteration, in_flight, arrived, history>>

\* A loop whose condition is false, or that has no round to run.
SkipLoop(c) ==
  /\ AtStep(c, Loops)
  /\ Step(c).op = "while" \/ Step(c).times = 0
  /\ Advance(c)
  /\ UNCHANGED <<program, at, groups, failed, outcome, iteration, in_flight, arrived,
                 history>>

\* Fault: random pushes and does not pop.
PopGroupOnly(c) ==
  groups' = IF Top(c).step.op = "group" THEN [groups EXCEPT ![c] = Front(@)] ELSE groups

\* A tagging step pops its name.
PopGroup(c) ==
  groups' = IF Top(c).step.op \in Tagging THEN [groups EXCEPT ![c] = Front(@)] ELSE groups

\* The block is over: the step that called it goes on.
LeaveBlock(c) ==
  /\ AtEnd(c, Tagging \cup {"choice"})
  /\ Return(c)
  /\ PopGroup(c)
  /\ UNCHANGED <<program, at, failed, outcome, iteration, in_flight, arrived, history>>

NextRound(c) ==
  /\ AtEnd(c, Loops)
  /\ \/ Top(c).left > 1 /\ Again(c)
     \/ (Top(c).left = 1 \/ Top(c).step.op = "while") /\ Return(c)
  /\ UNCHANGED <<program, at, groups, failed, outcome, iteration, in_flight, arrived,
                 history>>

\* An attempt is over.  Without a condition it was good if the last request of
\* the attempt was.
AttemptEnds(c, ok) ==
  /\ AtEnd(c, Retries)
  /\ Top(c).step.op = "retry" => ok = ~failed[c]
  /\ IF ok \/ Top(c).left = 1
       THEN Return(c) /\ UNCHANGED at
       ELSE at' = [at EXCEPT ![c] = "backoff"] /\ UNCHANGED stack
  /\ UNCHANGED <<program, groups, failed, outcome, iteration, in_flight, arrived, history>>

\* The pause is over and the next attempt begins.
NextAttempt(c) ==
  /\ at[c] = "backoff"
  /\ at' = [at EXCEPT ![c] = "step"]
  /\ Again(c)
  /\ failed' = [failed EXCEPT ![c] = FALSE]
  /\ UNCHANGED <<program, groups, outcome, iteration, in_flight, arrived, history>>

-----------------------------------------------------------------------------
(* Rendezvous.  Barrier::wait of tokio is external: it counts the arrival, and *)
(* the last one of a generation lets everybody go; a waiter that is dropped    *)
(* stays counted.                                                              *)

Waiting == {c \in Context : at[c] = "rendezvous"}

\* Fault: one arrival too many is awaited.
LastArrivalLate == arrived = Users

\* The arrival that completes a generation.
LastArrival == arrived + 1 = Users

Arrive(c) ==
  /\ AtStep(c, {"rendezvous"})
  /\ Advance(c)
  /\ IF LastArrival
       THEN /\ arrived' = 0
            /\ at' = [d \in Context |-> IF d \in Waiting THEN "released" ELSE at[d]]
       ELSE /\ arrived' = arrived + 1
            /\ at' = [at EXCEPT ![c] = "rendezvous"]
  /\ UNCHANGED <<program, groups, failed, outcome, iteration, in_flight, history>>

\* Fault: a rendezvous without its timeout.
GiveUpNever(c) == FALSE

\* The rendezvous times out for one VU, which continues.
GiveUp(c) ==
  /\ at[c] = "rendezvous"
  /\ at' = [at EXCEPT ![c] = "step"]
  /\ UNCHANGED <<program, stack, groups, failed, outcome, iteration, in_flight, arrived,
                 history>>

-----------------------------------------------------------------------------
(* Parallel branches: run_parallel.  A parallel step inside a branch is not    *)
(* modelled.                                                                   *)

\* The contexts that run the n blocks of a parallel step of VU v.
Children(v, n) == {v} \X (1..n)

\* child_context: every branch has a context of its own, with the groups of its
\* parent and no failed request.
Fork(v) ==
  /\ AtStep(Main(v), {"parallel"})
  /\ LET blocks == Step(Main(v)).blocks
         kids == Children(v, Len(blocks))
     IN /\ at' = [c \in Context |-> CASE c = Main(v) -> "join"
                                     [] c \in kids -> "step"
                                     [] OTHER -> at[c]]
        /\ stack' = [c \in Context |->
             CASE c = Main(v) -> Advanced(c)
               [] c \in kids -> <<Frame([op |-> "branch"], blocks[c[2]], 1)>>
               [] OTHER -> stack[c]]
        /\ groups' = [c \in Context |-> IF c \in kids THEN groups[Main(v)] ELSE groups[c]]
        /\ base' = [c \in Context |-> IF c \in kids THEN groups[Main(v)] ELSE base[c]]
        /\ failed' = [c \in Context |-> c \notin kids /\ failed[c]]
  /\ UNCHANGED <<program, outcome, iteration, in_flight, arrived, doomed>>

BranchEnds(c) ==
  /\ AtEnd(c, {"branch"})
  /\ at' = [at EXCEPT ![c] = "ended"]
  /\ Return(c)
  /\ UNCHANGED <<program, groups, failed, outcome, iteration, in_flight, arrived, history>>

\* Fault: the last branch hides the ones before it.
JoinedLast(outcomes) ==
  IF outcomes[Len(outcomes)] \in Aborts THEN outcomes[Len(outcomes)] ELSE "completed"

\* The outcome a parallel step passes on: the first abort in branch order.  A
\* branch that stopped its VU counts as completed.
JoinedOutcome(outcomes) ==
  IF \E b \in DOMAIN outcomes : outcomes[b] \in Aborts
    THEN outcomes[CHOOSE b \in DOMAIN outcomes :
                    /\ outcomes[b] \in Aborts
                    /\ \A d \in 1..(b - 1) : outcomes[d] \notin Aborts]
    ELSE "completed"

\* join_all returns once every branch has ended; the branches' contexts go away.
Join(v) ==
  /\ at[Main(v)] = "join"
  /\ \A c \in BranchesOf(v) : at[c] = "ended"
  /\ LET o == JoinedOutcome([b \in 1..Branches |-> outcome[<<v, b>>]])
         main == Main(v)
     IN /\ at' = [at EXCEPT ![main] = IF o = "completed" THEN "step" ELSE "retired"]
        /\ stack' = [stack EXCEPT ![main] = IF o = "completed" THEN @ ELSE <<>>]
        /\ groups' = [c \in Context |->
             CASE c = main -> IF o = "completed" THEN groups[c] ELSE Unwound(c)
               [] c \in BranchesOf(v) -> <<>>
               [] OTHER -> groups[c]]
        /\ failed' = [c \in Context |->
             CASE c = main -> \E d \in BranchesOf(v) : failed[d]
               [] c \in BranchesOf(v) -> FALSE
               [] OTHER -> failed[c]]
        /\ outcome' = [c \in Context |->
             CASE c = main -> o
               [] c \in BranchesOf(v) -> "completed"
               [] OTHER -> outcome[c]]
  /\ UNCHANGED <<program, iteration, in_flight, arrived, history>>

-----------------------------------------------------------------------------
\* What a context does on its own, once it is polled or its timer is due.
Progress(c) ==
  \/ StartRequest(c) \/ Prepared(c) \/ PrepareFails(c) \/ DataExhausted(c)
  \/ \E bad \in BOOLEAN, flow \in {"continue", "abort_iteration"} \cup Aborts :
       Respond(c, bad, flow)
  \/ Wake(c) \/ \E b \in 1..Branches : Enter(c, b)
  \/ SkipLoop(c) \/ LeaveBlock(c) \/ NextRound(c)
  \/ \E ok \in BOOLEAN : AttemptEnds(c, ok)
  \/ NextAttempt(c) \/ Arrive(c) \/ GiveUp(c) \/ BranchEnds(c)

VuProgress(v) ==
  CompleteIteration(v) \/ Fork(v) \/ Join(v) \/ \E c \in Family(v) : Progress(c)

\* Every VU has ended.
Ended == (\A v \in Vu : at[Main(v)] = "retired") /\ UNCHANGED vars

Next ==
  \/ \E v \in Vu : VuProgress(v) \/ BeginIteration(v) \/ Retire(v)
  \/ \E v \in Vu, place \in {"idle", "retired"} : Cancel(v, place)
  \/ Ended

Spec == Init /\ [][Next]_vars

\* A VU and its branches are one task: it is polled, its timers fire and its
\* requests have a timeout.  Nothing makes the executor begin, retire or cancel.
FairSpec == Spec /\ \A v \in Vu : WF_vars(VuProgress(v))

-----------------------------------------------------------------------------
(* Properties.                                                                 *)

TypeOK ==
  /\ program \in Programs
  /\ at \in [Context -> Places]
  /\ DOMAIN stack = Context /\ DOMAIN groups = Context
  /\ failed \in [Context -> BOOLEAN] /\ outcome \in [Context -> Outcomes]
  /\ iteration \in [Vu -> Nat]
  /\ in_flight \in Nat /\ arrived \in Nat

\* The requests_in_flight gauge counts exactly the requests that are out,
\* whatever mixture of responses, prepare failures, parallel branches and
\* cancelled iterations came before: RequestMetricsGuard counts down once on
\* every path, also when the executor drops the whole iteration.
InFlightExact ==
  TypeOK /\ in_flight = Cardinality({c \in Context : at[c] = "send"})

\* The group tag of a sample names exactly the group and random blocks around
\* it, on top of the groups the iteration (or the parallel branch) started with:
\* run_steps pops on every return, aborts out of nested blocks included.
GroupsNest ==
  \A c \in Context : at[c] \in Awaits \cup {"step"} => groups[c] = base[c] \o Labels(c)

\* An abort asked for in one branch of a parallel step is not lost behind the
\* outcome of another: unless the iteration is cancelled first, the VU runs
\* nothing after it but the branches that are already under way.
AbortsRetire == \A v \in doomed : at[Main(v)] \in {"join", "retired"}

\* Nobody waits at a rendezvous that has had all its arrivals: the barrier
\* counts at least the VUs that wait, timed out and cancelled ones beside them,
\* and never holds as many as it waits for.
RendezvousOpens == Cardinality(Waiting) <= arrived /\ arrived < Users

\* Every iteration ends, although VUs wait for each other at a rendezvous and
\* for branches at a join: run_steps bounds every loop and every wait.
IterationsEnd ==
  \A v \in Vu : at[Main(v)] \notin {"idle", "retired"} ~> at[Main(v)] \in {"idle", "retired"}

-----------------------------------------------------------------------------
(* What comments and docs say of the flow, and the code does not do.           *)

\* plan.rs on abort_iteration: "skip the rest of the iteration".  After a
\* request that asks for it, no step of any enclosing block is left to run.
\* (A request that returns without asking for anything goes to its think time.)
AbortIterationSkips ==
  [][\A c \in Context : at[c] = "send" /\ at'[c] = "step" =>
       \A i \in DOMAIN stack'[c] : stack'[c][i].rest = <<>>]_vars

\* plan.rs on retry: "an attempt succeeds if it produced no failed request".
\* Within an attempt a failed request is not forgotten over a later good one.
RetryRemembers ==
  [][\A c \in Context :
       /\ at[c] = "send" /\ failed[c]
       /\ \E i \in DOMAIN stack[c] : stack[c][i].step.op = "retry"
       => failed'[c]]_vars

\* plan.rs on rendezvous: "Release once this many VUs are waiting".  When the
\* barrier opens, all the VUs it counted are there.
RendezvousFull ==
  [][arrived > 0 /\ arrived' = 0 => Cardinality(Waiting) + 1 = Users]_vars

=============================================================================

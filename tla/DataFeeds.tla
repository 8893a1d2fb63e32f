------------------------------ MODULE DataFeeds ------------------------------
(* Rows that a plugin generates on demand, and whom they belong to: DataFeeds   *)
(* and VuFeedState of crates/loadr-core/src/data.rs, the row cache of VuContext *)
(* (vu.rs), and the calls the flow makes on them around a request (flow.rs), on *)
(* every agent of a run whose plan is divided by module Partition.              *)
(*                                                                              *)
(* A plugin derives a row from the VU, its place in the fleet and a sequence    *)
(* number; what the row says is not modelled, who may see it is.  The plugin    *)
(* wants the results of the requests that used its rows.                        *)
EXTENDS Partition

CONSTANTS
  Count,        \* agents of the run
  Plans,        \* plans that Init may choose: sequences of executors
  MaxId,        \* a VU id that no plan exceeds
  Branches,     \* branches of a parallel step
  MaxRows,      \* bound: rows pulled in the fleet, and failed pulls of a VU
  MaxRequests,  \* bound: requests begun in the fleet
  MaxIterations \* bound: iterations begun in the fleet

Index == 0..(Count - 1)

CountAssumption ==
  /\ Count \in Nat \ {0} /\ Plans \subseteq Seq(Executor)
  /\ Branches \in Nat /\ MaxRows \in Nat /\ MaxRequests \in Nat /\ MaxIterations \in Nat
  /\ MaxId \in Nat /\ \A p \in Plans, i \in Index : Share(p, i, Count) <= MaxId

VARIABLES
  plan,       \* the plan of the run
  vu_ids,     \* per agent: the last VU id given out
  workers,    \* per agent and scenario: VUs created
  sequence,   \* per VU: plugin_sequences, shared by the branches of the VU
  context,    \* per VU and branch (0 for the VU itself): VuContext
  iterations, \* iterations begun
  requests,   \* requests begun, which numbers them
  pulled,     \* history: rows in the order they were generated
  rendered,   \* history: which request rendered which row
  reported    \* history: the result of which request was reported for which row

pool == <<plan, vu_ids, workers>>
history == <<pulled, rendered, reported>>
vars == <<pool, sequence, context, iterations, requests, history>>

Ids == 1..MaxId
Context == Index \X Ids \X (0..Branches)
Main(c) == <<c[1], c[2], 0>>
BranchesOf(c) == {<<c[1], c[2], b>> : b \in 1..Branches}

\* A context without data: nothing cached, nothing waiting for a result.
Fresh(at) == [at |-> at, request |-> 0, row |-> 0, pending |-> {}]

Init ==
  /\ plan \in Plans
  /\ vu_ids = [i \in Index |-> 0]
  /\ workers = [i \in Index |-> [s \in DOMAIN plan |-> 0]]
  /\ sequence = [v \in Index \X Ids |-> 0]
  /\ context = [c \in Context |-> Fresh("none")]
  /\ iterations = 0 /\ requests = 0
  /\ pulled = <<>> /\ rendered = {} /\ reported = {}
-----------------------------------------------------------------------------
(* VUs. *)

\* new_worker: an executor takes the agent's next VU id for a slot of its pool;
\* an arrival rate starts with pre_allocated_vus and grows up to max_vus.
NewWorker(i, s) ==
  /\ \E k \in DOMAIN plan[s].vus :
       workers[i][s] < PartitionSpec(plan[s], i, Count).vus[k]
  /\ vu_ids' = [vu_ids EXCEPT ![i] = @ + 1]
  /\ workers' = [workers EXCEPT ![i][s] = @ + 1]
  /\ context' = [context EXCEPT ![<<i, vu_ids[i] + 1, 0>>] = Fresh("idle")]
  /\ UNCHANGED <<plan, sequence, iterations, requests, history>>

\* begin_iteration drops cached rows, and rows that wait for a result.
BeginIteration(c) ==
  /\ context[c].at = "idle" /\ iterations < MaxIterations
  /\ iterations' = iterations + 1
  /\ context' = [context EXCEPT ![c] = Fresh("steps")]
  /\ UNCHANGED <<pool, sequence, requests, history>>

\* An iteration ends, or is cut short wherever it is; the VU lives on.
EndIteration(c) ==
  /\ c[3] = 0 /\ context[c].at \notin {"none", "idle"}
  /\ context' = [d \in Context |->
       CASE d = c -> [context[c] EXCEPT !.at = "idle", !.request = 0]
         [] d \in BranchesOf(c) -> Fresh("none")
         [] OTHER -> context[d]]
  /\ UNCHANGED <<pool, sequence, iterations, requests, history>>

\* run_parallel: a branch has its own cache and nothing pending
\* (fork_for_parallel) but draws from the sequence of its VU.
Fork(c) ==
  /\ c[3] = 0 /\ context[c].at = "steps"
  /\ context' = [d \in Context |->
       CASE d = c -> [context[c] EXCEPT !.at = "forked"]
         [] d \in BranchesOf(c) -> Fresh("steps")
         [] OTHER -> context[d]]
  /\ UNCHANGED <<pool, sequence, iterations, requests, history>>

Join(c) ==
  /\ c[3] = 0 /\ context[c].at = "forked"
  /\ \A d \in BranchesOf(c) : context[d].at = "steps"
  /\ context' = [d \in Context |->
       CASE d = c -> [context[c] EXCEPT !.at = "steps"]
         [] d \in BranchesOf(c) -> Fresh("none")
         [] OTHER -> context[d]]
  /\ UNCHANGED <<pool, sequence, iterations, requests, history>>
-----------------------------------------------------------------------------
(* Requests and the rows they pull. *)

\* Fault: the row of an earlier request stays cached.
RequestingCached(x) == [x EXCEPT !.at = "prepare", !.request = requests + 1, !.pending = {}]

\* Fault: rows of a request that was never sent still wait for a result.
RequestingPending(x) == [x EXCEPT !.at = "prepare", !.request = requests + 1, !.row = 0]

\* begin_request: the cached row is evicted, rows left waiting are dropped.
Requesting(x) ==
  [x EXCEPT !.at = "prepare", !.request = requests + 1, !.row = 0, !.pending = {}]

BeginRequest(c) ==
  /\ context[c].at = "steps" /\ requests < MaxRequests
  /\ requests' = requests + 1
  /\ context' = [context EXCEPT ![c] = Requesting(@)]
  /\ UNCHANGED <<pool, sequence, iterations, history>>

\* begin_message: the next frame of a streamed request renders a row of its own.
BeginMessage(c) ==
  /\ context[c].at = "prepare" /\ context[c].row # 0
  /\ context' = [context EXCEPT ![c].row = 0]
  /\ UNCHANGED <<pool, sequence, iterations, requests, history>>

\* Where a context asks for a row: while a request is prepared, in a hook before
\* it is sent, and in steps and hooks of its script, which a branch has not.
Asks(c) ==
  \/ context[c].at = "prepare"
  \/ context[c].at \in {"prepared", "steps"} /\ c[3] = 0

\* next_plugin_seq: the VU's counter, whichever branch draws.
Draw(c) == sequence' = [sequence EXCEPT ![<<c[1], c[2]>>] = @ + 1]

\* A row rendered into the request that is being prepared.
Renders(c, n) == IF context[c].request = 0 THEN {} ELSE {<<context[c].request, n>>}

\* data_row, no row cached: draw a sequence number, generate, wait for a result.
Pull(c) ==
  LET n == Len(pulled) + 1
      row == [agent |-> c[1], vu |-> c[2], seq |-> sequence[<<c[1], c[2]>>],
              request |-> context[c].request]
  IN  /\ Asks(c) /\ context[c].row = 0 /\ Len(pulled) < MaxRows
      /\ Draw(c)
      /\ pulled' = Append(pulled, row)
      /\ context' = [context EXCEPT ![c].row = n, ![c].pending = @ \cup {n}]
      /\ rendered' = rendered \cup Renders(c, n)
      /\ UNCHANGED <<pool, iterations, requests, reported>>

\* data_row, from the cache.
Reuse(c) ==
  /\ Asks(c) /\ context[c].row # 0
  /\ rendered' = rendered \cup Renders(c, context[c].row)
  /\ UNCHANGED <<pool, sequence, context, iterations, requests, pulled, reported>>

\* The plugin is exhausted or fails after the number was drawn: the request is
\* not sent, and the rows it has pulled so far stay behind.
PullFails(c) ==
  /\ context[c].at = "prepare" /\ context[c].row = 0
  /\ sequence[<<c[1], c[2]>>] < MaxRows
  /\ Draw(c)
  /\ context' = [context EXCEPT ![c].at = "steps", ![c].request = 0]
  /\ UNCHANGED <<pool, iterations, requests, history>>

Prepared(c) ==
  /\ context[c].at = "prepare"
  /\ context' = [context EXCEPT ![c].at = "prepared"]
  /\ UNCHANGED <<pool, sequence, iterations, requests, history>>

\* No handler for the protocol: the request is given up.
NotSent(c) ==
  /\ context[c].at = "prepared"
  /\ context' = [context EXCEPT ![c].at = "steps", ![c].request = 0]
  /\ UNCHANGED <<pool, sequence, iterations, requests, history>>

\* The request completes: report_result, for every row that waits.
Respond(c) ==
  /\ context[c].at = "prepared"
  /\ reported' = reported \cup {<<context[c].request, n>> : n \in context[c].pending}
  /\ context' = [context EXCEPT ![c].at = "steps", ![c].request = 0, ![c].pending = {}]
  /\ UNCHANGED <<pool, sequence, iterations, requests, pulled, rendered>>
-----------------------------------------------------------------------------

Next ==
  \/ \E i \in Index : \E s \in DOMAIN plan : NewWorker(i, s)
  \/ \E c \in Context :
       \/ BeginIteration(c) \/ EndIteration(c) \/ Fork(c) \/ Join(c)
       \/ BeginRequest(c) \/ BeginMessage(c) \/ Pull(c) \/ Reuse(c) \/ PullFails(c)
       \/ Prepared(c) \/ NotSent(c) \/ Respond(c)

Spec == Init /\ [][Next]_vars
-----------------------------------------------------------------------------
(* Properties. *)

\* A plugin that adds its vu_offset to the VU of a call never sees a pair of VU
\* and sequence number twice in the whole fleet, although agents number their
\* VUs by themselves, scenarios share an agent's ids, pools grow, and the
\* branches of a VU draw in any order.
IdentityUnique ==
  \A m, n \in DOMAIN pulled : m # n =>
    <<VuOffset(plan, pulled[m].agent, Count) + pulled[m].vu, pulled[m].seq>> #
    <<VuOffset(plan, pulled[n].agent, Count) + pulled[n].vu, pulled[n].seq>>

TypeOK ==
  /\ plan \in Plans /\ vu_ids \in [Index -> {0} \cup Ids]
  /\ sequence \in [Index \X Ids -> Nat]
  /\ context \in [Context -> [at : {"none", "idle", "steps", "forked", "prepare", "prepared"},
                              request : 0..MaxRequests, row : 0..MaxRows,
                              pending : SUBSET (1..MaxRows)]]
  /\ iterations \in 0..MaxIterations /\ requests \in 0..MaxRequests

\* What a request renders was generated for it, never for an earlier request, a
\* step of the script or another branch, so nothing signed is sent twice; and
\* the result of a request is reported for rows generated for it and for no
\* other: not for rows of a request that was never sent or that was interrupted,
\* nor for rows that a script or hook pulled between requests.
RowsMatch ==
  /\ TypeOK
  /\ \A x \in rendered \cup reported : pulled[x[2]].request = x[1]
=============================================================================

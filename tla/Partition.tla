------------------------------ MODULE Partition ------------------------------
(* How a plan is divided among the agents of a run: partition_spec and          *)
(* vu_capacity of crates/loadr-core/src/executor.rs, vu_placement of            *)
(* crates/loadr-core/src/engine.rs.  Agents are numbered from 0 to count - 1;   *)
(* each computes its share, and those of the agents before it, by itself.       *)
(*                                                                              *)
(* An executor is a record of its kind, its VU numbers (the VUs; start_vus and  *)
(* the targets of the stages; pre_allocated_vus and max_vus) and its iteration  *)
(* budget.  Rates are divided as floating-point numbers and left out.           *)
EXTENDS Integers, Sequences, FiniteSetsExt, Functions

Executor == [kind : STRING, vus : Seq(Nat) \ {<<>>}, iterations : Nat]

\* One agent's part of n: the remainder goes to the lowest indices.
Split(n, index, count) == n \div count + (IF index < n % count THEN 1 ELSE 0)

\* The part of a pool that needs a VU on every agent.
SplitMin1(n, index, count) ==
  IF n > 0 /\ Split(n, index, count) = 0 THEN 1 ELSE Split(n, index, count)

\* Executors whose work arrives at every agent, whatever its share of the VUs.
EveryAgent == {"shared", "arrival", "external"}

PartitionSpec(spec, index, count) ==
  [kind |-> spec.kind,
   vus |-> [k \in DOMAIN spec.vus |->
              IF spec.kind \in EveryAgent THEN SplitMin1(spec.vus[k], index, count)
              ELSE Split(spec.vus[k], index, count)],
   iterations |-> IF spec.kind = "shared" THEN Split(spec.iterations, index, count)
                  ELSE spec.iterations]

\* Fault: only the last number counts, max_vus of an arrival rate.
VuCapacityLast(spec) == spec.vus[Len(spec.vus)]

\* Most VU ids one scenario allocates: its largest pool.
VuCapacity(spec) == Max(Range(spec.vus))

\* VU ids of all scenarios of a plan on one agent.
Share(plan, index, count) ==
  SumFunction([s \in DOMAIN plan |-> VuCapacity(PartitionSpec(plan[s], index, count))])

\* Where an agent's VU ids start among those of the fleet.
VuOffset(plan, index, count) ==
  SumFunction([i \in 0..(index - 1) |-> Share(plan, i, count)])
=============================================================================

------------------------------- MODULE MCParts -------------------------------
(* Small instances of the parts of a run (module Parts).                        *)
EXTENDS Parts

\* An arrival rate that grows; a ramp down beside a shared budget with fewer
\* VUs than agents.
MCPlans ==
  {<<[kind |-> "arrival", vus |-> <<1, 3>>, iterations |-> 0]>>,
   <<[kind |-> "ramping", vus |-> <<1, 0>>, iterations |-> 0],
     [kind |-> "shared", vus |-> <<1>>, iterations |-> 3]>>}
=============================================================================

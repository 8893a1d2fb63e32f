--------------------------- MODULE MCFleetControl ---------------------------
(* Commands for model checking FleetControl. *)
EXTENDS FleetControl

Order(op, total) == [op |-> op, total |-> total]

\* A command undone, one replaced, and two that do not concern one another.
MCScripts ==
  {<<Order("pause", 0), Order("resume", 0)>>,
   <<Order("scale", 3), Order("scale", 1)>>,
   <<Order("scale", 3), Order("pause", 0)>>}
=============================================================================

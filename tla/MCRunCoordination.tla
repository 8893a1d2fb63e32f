------------------------ MODULE MCRunCoordination ------------------------
(* RunCoordination for model checking, where all runs are treated alike. *)
EXTENDS RunCoordination, TLC

\* Runs are interchangeable in invariants when the user may stop all or none.
Symmetry == Permutations(Run)
=============================================================================

-------------------------- MODULE MCUplinkDelivery --------------------------
EXTENDS UplinkInvariant, TLC

\* Processes are interchangeable in the safety properties.
Symmetry == Permutations(Proc)
=============================================================================

------------------------- MODULE MCDatadogRotation -------------------------
(* A small instance of DatadogRotation for TLC. *)
EXTENDS DatadogRotation, TLC

CONSTANTS indexes, flex

TierSymmetry == Permutations({indexes, flex})
=============================================================================

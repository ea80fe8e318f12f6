------------------------ MODULE MCDurableRepository ------------------------
(* Small instances of DurableRepository for TLC. *)
EXTENDS DurableRepository, TLC

CONSTANTS owner, other, b1, b2

\* No definition tells one body from another.
BodySymmetry == Permutations({b1, b2})
=============================================================================

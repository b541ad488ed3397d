--------------------------- MODULE MCEmailOutbox ---------------------------
(* Instances of EmailOutbox for TLC. *)
EXTENDS EmailOutbox, TLC

CONSTANTS w1, w2, w3

Symmetry == Permutations(Worker)
=============================================================================

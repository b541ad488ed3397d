------------------------ MODULE MCRuntimeLeadership ------------------------
(* Instances of RuntimeLeadership for TLC, with the invariant of its proofs. *)
EXTENDS RuntimeLeadershipProofs, TLC

CONSTANTS r1, r2, r3

Symmetry == Permutations(Replica)
=============================================================================

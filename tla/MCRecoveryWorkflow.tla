------------------------- MODULE MCRecoveryWorkflow -------------------------
(* RecoveryWorkflow on small instances.                                    *)
EXTENDS RecoveryWorkflow, TLC

CONSTANTS p1, p2, a1, a2, v1, v2, m1, m2

Symmetry ==
  Permutations(Procs) \cup Permutations(Actions)
    \cup Permutations(Verifications) \cup Permutations(Messages)
=============================================================================

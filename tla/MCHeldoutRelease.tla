-------------------------- MODULE MCHeldoutRelease --------------------------
(* Instances of HeldoutRelease for TLC. *)
EXTENDS HeldoutRelease, TLC

\* Handled between the second and the third commit.
MCHandlings == {<<2, 3>>}

Alike == Permutations(Materials) \cup Permutations(Generators) \cup Permutations(Releasers)
=============================================================================

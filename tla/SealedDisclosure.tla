-------------------------- MODULE SealedDisclosure --------------------------
(***************************************************************************)
(* What the release of a Stage 2 evaluation promises, with files, locks,   *)
(* the container and crashes left out: outputs are sealed once, the oracle *)
(* is disclosed only over sealed outputs, the result is of the sealed      *)
(* outputs, and a run that is void never discloses the oracle.             *)
(* EvaluationRelease implements this specification.                        *)
(***************************************************************************)
CONSTANTS Outputs, Unsealed, Pending, Void

VARIABLES sealed, disclosed, result

vars == <<sealed, disclosed, result>>

Init ==
  /\ sealed = Unsealed
  /\ disclosed = FALSE
  /\ result = Pending

Seal ==
  /\ sealed = Unsealed
  /\ sealed' \in Outputs
  /\ UNCHANGED <<disclosed, result>>

Disclose ==
  /\ sealed # Unsealed
  /\ result = Pending
  /\ disclosed' = TRUE
  /\ UNCHANGED <<sealed, result>>

Conclude ==
  /\ disclosed
  /\ result = Pending
  /\ result' = sealed
  /\ UNCHANGED <<sealed, disclosed>>

Invalidate ==
  /\ sealed # Unsealed
  /\ ~disclosed
  /\ result = Pending
  /\ result' = Void
  /\ UNCHANGED <<sealed, disclosed>>

Next == Seal \/ Disclose \/ Conclude \/ Invalidate

Spec == Init /\ [][Next]_vars
=============================================================================

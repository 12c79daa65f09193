------------------------- MODULE MCEvaluationRelease -------------------------
(* Instances of EvaluationRelease for TLC. *)
EXTENDS EvaluationRelease

\* Two images with the pins of the pack, and one built from something else.
MCImages == {"image1", "image2", "stale"}
MCPinned == {"image1", "image2"}
=============================================================================

--------------------------- MODULE MCActionAdapter ---------------------------
(* Instances of ActionAdapter for TLC. *)
EXTENDS ActionAdapter

\* A refund and a replacement that are rival remedies of one order line, and
\* a refund of another line.
MCActions == {"refund", "reship", "other"}
MCOperation == [a \in MCActions |-> IF a = "reship" THEN "RESHIP" ELSE "REFUND"]
MCBusinessKey == [a \in MCActions |-> IF a = "other" THEN "line2" ELSE "line1"]

MCFaults == {"none", "before_mutation", "after_first_effect", "after_mutation_before_receipt"}

\* The actions of the run: the two rivals.
MCRivals == {"refund", "reship"}
=============================================================================

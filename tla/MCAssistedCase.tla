--------------------------- MODULE MCAssistedCase ---------------------------
(***************************************************************************)
(* Instances of AssistedCase for TLC: a sound case of two order lines, and *)
(* all cases that differ from it in one or two respects.                   *)
(***************************************************************************)
EXTENDS AssistedCase, TLC

MCLines == {"l1", "l2"}

\* l1: two ordered, one delivered; l2: one ordered, and delivered.
Sound(choice) ==
  [ordered |-> "l1" :> 2 @@ "l2" :> 1, shipped |-> "l1" :> 2 @@ "l2" :> 1,
   parcelled |-> "l1" :> 2 @@ "l2" :> 1, delivered |-> "l1" :> 1 @@ "l2" :> 1,
   unit |-> "l1" :> 1 @@ "l2" :> 2,
   order_value |-> 4, captured |-> 4, stock |-> 1,
   refunded_quantity |-> 0, refunded_cents |-> 0, reshipped |-> 0, pending |-> FALSE,
   choice |-> choice, signals |-> 1,
   risk |-> {}, stop_flags |-> {"suspected_fraud"}, chargeback |-> FALSE,
   eta |-> TRUE, age |-> [s \in Sources |-> 1], limit |-> [s \in Sources |-> 1],
   delegated |-> 1, owner_max |-> 2, finance_order |-> 4]

\* One respect each, as fields of a batch.
Deviations ==
  {[delivered |-> "l1" :> 0 @@ "l2" :> 1], [delivered |-> "l1" :> 1 @@ "l2" :> 0],
   [delivered |-> "l1" :> 2 @@ "l2" :> 1], [delivered |-> "l1" :> 3 @@ "l2" :> 1],
   [delivered |-> "l1" :> 0 @@ "l2" :> 0],
   [shipped |-> "l1" :> 1 @@ "l2" :> 1],
   [unit |-> "l1" :> 2 @@ "l2" :> 2], [unit |-> "l1" :> 3 @@ "l2" :> 2],
   [stock |-> 0], [stock |-> 3],
   [order_value |-> 5, captured |-> 5], [captured |-> 3],
   [refunded_quantity |-> 1, refunded_cents |-> 1], [reshipped |-> 1],
   [pending |-> TRUE], [signals |-> 2], [risk |-> {"suspected_fraud"}],
   [chargeback |-> TRUE], [stop_flags |-> {}], [eta |-> FALSE],
   [age |-> [s \in Sources |-> IF s = "CARRIER" THEN 2 ELSE 1]],
   [age |-> [s \in Sources |-> IF s = "INVENTORY" THEN 2 ELSE 1]],
   [age |-> [s \in Sources |-> IF s = "PAYMENT" THEN 2 ELSE 1]],
   [delegated |-> 2], [delegated |-> 2, owner_max |-> 3], [owner_max |-> 4],
   [finance_order |-> 2], [finance_order |-> 3]}

MCBatches ==
  LET bases == {Sound(choice) : choice \in CustomerChoices \cup {NoChoice}}
      twice == {Updated(Updated(b, d), e) : b \in {Sound("RESHIP"), Sound("REFUND")},
                                            d \in Deviations, e \in Deviations}
  IN  bases \cup {Updated(b, d) : b \in bases, d \in Deviations} \cup twice

\* What changes outside before a revision: nothing, the exposure, the choice,
\* the other line, a stop.
MCRevisions ==
  {[stock |-> 3], [unit |-> "l1" :> 3 @@ "l2" :> 2], [choice |-> "REFUND"],
   [delivered |-> "l1" :> 0 @@ "l2" :> 0, stock |-> 3], [chargeback |-> TRUE]}

MCCandidates ==
  {[rev |-> 1, action |-> "RESHIP", route |-> "DELEGATED_DECISION", facts |-> {"RESHIP_PROPOSED"}],
   [rev |-> 1, action |-> "REFUND", route |-> "FINANCE_APPROVAL", facts |-> {"REFUND_PROPOSED"}]}
=============================================================================

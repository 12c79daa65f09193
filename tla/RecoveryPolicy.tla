--------------------------- MODULE RecoveryPolicy ---------------------------
(***************************************************************************)
(* What the policy decides on the sources of a case, as pure operators:    *)
(* the check of a source batch and the facts derived from it               *)
(* (scripts/stage2_facts.py), and the first-match decision matrix and the  *)
(* comparison with a provider's proposal (scripts/recovery_policy.py).     *)
(* Digests and identifiers are exact by construction of a batch and are    *)
(* left out; quantities, cents and hours are small numbers.                *)
(***************************************************************************)
EXTENDS Integers, Sequences, FiniteSetsExt

CONSTANTS
  Lines,      \* order lines
  RiskFlags,  \* codes of risk signals
  NoChoice    \* the customer has not chosen

ASSUME LinesAssumption == IsFiniteSet(Lines)

Sources == {"OMS", "WMS", "CARRIER", "INVENTORY", "PAYMENT", "CRM", "POLICY"}
CustomerChoices == {"WAIT", "RESHIP", "REFUND"}

\* The records of the seven sources of one case revision.
Batch ==
  [ordered : [Lines -> Nat], shipped : [Lines -> Nat], parcelled : [Lines -> Nat],
   delivered : [Lines -> Nat], unit : [Lines -> Nat],
   order_value : Nat, captured : Nat, stock : Nat,
   refunded_quantity : Nat, refunded_cents : Nat, reshipped : Nat, pending : BOOLEAN,
   choice : CustomerChoices \cup {NoChoice}, signals : Nat,
   risk : SUBSET RiskFlags, stop_flags : SUBSET RiskFlags, chargeback : BOOLEAN,
   eta : BOOLEAN, age : [Sources -> Int], limit : [Sources -> Nat],
   delegated : Nat, owner_max : Nat, finance_order : Nat]

\* A batch is accepted: quantities that must be positive are, no record is
\* effective after the cut, a refund has both a quantity and an amount.
ValidBatch(b) ==
  /\ b \in Batch
  /\ \A l \in Lines : b.ordered[l] > 0 /\ b.unit[l] > 0
  /\ b.order_value > 0 /\ b.captured > 0 /\ b.signals > 0
  /\ (b.refunded_quantity > 0) = (b.refunded_cents > 0)
  /\ \A s \in Sources : b.age[s] >= 0 /\ b.limit[s] > 0
  /\ b.delegated > 0 /\ b.owner_max > 0 /\ b.finance_order > 0

-----------------------------------------------------------------------------
(* Facts.                                                                  *)

Undelivered(b, l) == IF b.ordered[l] > b.delivered[l] THEN b.ordered[l] - b.delivered[l] ELSE 0

Remaining(b) == SumFunction([l \in Lines |-> Undelivered(b, l)])
Affected(b)  == SumFunction([l \in Lines |-> Undelivered(b, l) * b.unit[l]])
Recovered(b) == b.reshipped + b.refunded_quantity

\* Facts can be derived: the prior remedies recover no more than is due.
Derivable(b) == b.refunded_cents <= Affected(b) /\ Recovered(b) <= Remaining(b)

Covered(b) == Remaining(b) > 0 /\ Recovered(b) >= Remaining(b)

Conflict(b) ==
  \/ b.captured # b.order_value
  \/ \E l \in Lines : \/ b.shipped[l] > b.ordered[l]
                      \/ b.delivered[l] > b.shipped[l]
                      \/ b.parcelled[l] # b.shipped[l]

Fresh(b, s) == b.age[s] <= b.limit[s]

StopFlags(b) == b.risk \cap b.stop_flags

Duplicate(b) == b.signals > 1

-----------------------------------------------------------------------------
(* Decisions.                                                              *)

RequiredSources(choice) ==
  CASE choice = "WAIT"   -> {"CARRIER", "CRM", "POLICY"}
    [] choice = "RESHIP" -> {"OMS", "WMS", "CARRIER", "INVENTORY", "CRM", "POLICY"}
    [] choice = "REFUND" -> {"OMS", "WMS", "CARRIER", "PAYMENT", "CRM", "POLICY"}
    [] OTHER             -> {}

Consistent(b) == b.delegated < b.owner_max /\ b.owner_max <= b.finance_order

\* Mutant: the delegated limit is looked at before the others.
MutApprovalRoute(b) ==
  IF Affected(b) > b.delegated /\ Affected(b) <= b.owner_max THEN "WORKFLOW_OWNER_APPROVAL"
  ELSE IF Affected(b) > b.owner_max \/ b.order_value > b.finance_order
  THEN "FINANCE_APPROVAL" ELSE "DELEGATED_DECISION"

\* Who may allow the exposure.
ApprovalRoute(b) ==
  IF Affected(b) > b.owner_max \/ b.order_value > b.finance_order THEN "FINANCE_APPROVAL"
  ELSE IF Affected(b) > b.delegated THEN "WORKFLOW_OWNER_APPROVAL"
  ELSE "DELEGATED_DECISION"

Decision(action, route, facts) == [action |-> action, route |-> route, facts |-> facts]

Blocked == Decision("EVIDENCE_BLOCKED", "EVIDENCE_REVIEW", {"EVIDENCE_UNRESOLVED"})
NoNewAction(fact) == Decision("NO_NEW_ACTION", "DIRECT_NO_ACTION", {fact})

Remedy(b) ==
  Decision(b.choice, ApprovalRoute(b),
           IF b.choice = "RESHIP" THEN {"RESHIP_PROPOSED"} ELSE {"REFUND_PROPOSED"})

\* The decision matrix: pairs of a condition and a decision, in the order in
\* which they are tried.  First, whatever the customer chose.
CaseRules(b) ==
  << <<b.chargeback \/ StopFlags(b) # {},
       Decision("CONTROL_STOP", "SPECIALIST_STOP", {"SPECIALIST_REVIEW_REQUIRED"})>>,
     <<Covered(b), NoNewAction("PRIOR_REMEDY_CONFIRMED")>>,
     <<b.pending,
       Decision("ACTION_RECOVERY", "RECOVERY_RECONCILIATION", {"ACTION_STATUS_UNRESOLVED"})>>,
     <<Conflict(b), Blocked>>,
     <<Duplicate(b), NoNewAction("DUPLICATE_SIGNAL_SUPPRESSED")>>,
     <<b.choice = NoChoice,
       Decision("AWAITING_CHOICE", "AWAITING_CHOICE", {"CUSTOMER_CHOICE_REQUIRED"})>>,
     <<\E s \in RequiredSources(b.choice) : ~Fresh(b, s), Blocked>> >>

WaitRules(b) ==
  << <<b.choice = "WAIT" /\ ~b.eta, Blocked>>,
     <<b.choice = "WAIT",
       Decision("WAIT_VERIFIED_ETA", "DIRECT_NO_ACTION", {"WAIT_ESTIMATE_QUALIFIED"})>> >>

\* Mutant: a case of which nothing remains gets a remedy.
MutRemedyRules(b) ==
  << <<b.choice = "RESHIP" /\ b.stock < Remaining(b), Blocked>>,
     <<TRUE, Remedy(b)>> >>

RemedyRules(b) ==
  << <<Remaining(b) = 0, NoNewAction("NO_ELIGIBLE_QUANTITY_REMAINS")>>,
     <<b.choice = "RESHIP" /\ b.stock < Remaining(b), Blocked>>,
     <<TRUE, Remedy(b)>> >>

Matrix(b) == CaseRules(b) \o WaitRules(b) \o RemedyRules(b)

\* The decision of the first rule that applies.
Decide(b) ==
  LET m == Matrix(b)
      first == CHOOSE i \in DOMAIN m : m[i][1] /\ \A j \in 1..(i - 1) : ~m[j][1]
  IN  m[first][2]

\* Routes on which something may be done to the sources.
ConsequentialRoutes == {"DELEGATED_DECISION", "WORKFLOW_OWNER_APPROVAL", "FINANCE_APPROVAL"}

\* A decision is reached: neither the facts nor, for a remedy, the limits of
\* the approvers raise an error.
Decidable(b) ==
  /\ ValidBatch(b)
  /\ Derivable(b)
  /\ Decide(b).route \in ConsequentialRoutes => Consistent(b)

Grants(b) == Decidable(b) /\ Decide(b).route \in ConsequentialRoutes

\* Mutant: a proposal with the right action is accepted on any route.
MutAccepts(decision, candidate) ==
  candidate.action = decision.action /\ candidate.facts \subseteq decision.facts

\* The provider's proposal is compared with the decision, which it never
\* changes.
Accepts(decision, candidate) ==
  /\ candidate.action = decision.action
  /\ candidate.route = decision.route
  /\ candidate.facts \subseteq decision.facts

-----------------------------------------------------------------------------
(* What each approver may allow (validate_authority_event knows the routes *)
(* only; this is what the routes stand for).                               *)

MayAllow(role, b, cents) ==
  CASE role = "SYNTHETIC_RECOVERY_SPECIALIST" ->
         cents <= b.delegated /\ b.order_value <= b.finance_order
    [] role = "SYNTHETIC_WORKFLOW_OWNER" ->
         cents <= b.owner_max /\ b.order_value <= b.finance_order
    [] role = "SYNTHETIC_FINANCE_APPROVER" -> TRUE

\* Evidence on which no remedy is started (requirement R21 of the plan).
Unsafe(b) ==
  \/ b.chargeback \/ StopFlags(b) # {} \/ b.pending \/ Conflict(b) \/ Duplicate(b)
  \/ \E s \in RequiredSources(b.choice) : ~Fresh(b, s)

Bump(f, x) == [f EXCEPT ![x] = @ + 1]

\* Evidence that is worse than b in one respect.  A number is made worse only
\* where that does not resolve a conflict or an error.
Worse(b) ==
  {[b EXCEPT !.age = Bump(@, s)] : s \in Sources} \cup
  {[b EXCEPT !.risk = @ \cup {f}] : f \in RiskFlags} \cup
  {[b EXCEPT !.chargeback = TRUE], [b EXCEPT !.pending = TRUE],
   [b EXCEPT !.signals = @ + 1], [b EXCEPT !.eta = FALSE]} \cup
  (IF b.stock > 0 THEN {[b EXCEPT !.stock = @ - 1]} ELSE {}) \cup
  (IF b.captured = b.order_value
   THEN {[b EXCEPT !.captured = @ + 1], [b EXCEPT !.captured = @ + 1, !.order_value = @ + 1]}
   ELSE {}) \cup
  {[b EXCEPT !.parcelled = Bump(@, l)] : l \in {k \in Lines : b.parcelled[k] = b.shipped[k]}} \cup
  (IF Derivable(b) THEN {[b EXCEPT !.unit = Bump(@, l)] : l \in Lines} ELSE {}) \cup
  (IF Consistent(b)
   THEN {[b EXCEPT !.delegated = @ - 1], [b EXCEPT !.owner_max = @ - 1],
         [b EXCEPT !.finance_order = @ - 1]}
   ELSE {})

Rank(route) ==
  CASE route = "DELEGATED_DECISION" -> 1
    [] route = "WORKFLOW_OWNER_APPROVAL" -> 2
    [] route = "FINANCE_APPROVAL" -> 3
=============================================================================

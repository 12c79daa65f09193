---------------------------- MODULE AssistedCase ----------------------------
(***************************************************************************)
(* One case from its evidence to its closure and its evaluation: what the  *)
(* policy decides, the contract and the authority made of it, the effects  *)
(* in the sources, verification, message, and how the evaluation judges    *)
(* the run (scripts/run_stage2_isolated.py, run_recovery_lab.py,           *)
(* recovery_recommender.py, recovery_actions.py, recovery_approval.py,     *)
(* recovery_verification.py, recovery_communication.py,                    *)
(* evaluate_recovery_workflow.py).                                         *)
(*                                                                         *)
(* A service call is one step here: RecoveryWorkflow has the steps of a    *)
(* call, RecoveryLedger the commands and heads it is bound to.  Evidence   *)
(* may be revised between any two calls.                                   *)
(***************************************************************************)
EXTENDS RecoveryPolicy, WorkflowStates

CONSTANTS
  Batches,     \* source batches a case may start from
  Revisions,   \* what may have happened outside before a revision
  Candidates,  \* proposals of the provider
  NoCandidate, \* an attempt without one: refused, timed out, rejected
  NoDecision, NoContract, NoReservation, NoClass,
  Instants,    \* bound: instants of the virtual clock, as numbers
  MaxRevision, \* bound: case revisions
  MaxRuns      \* bound: runs of the adapter per action

VARIABLES
  state,        \* the workflow state of the projection
  batches,      \* the source batch of every revision so far
  decision,     \* the decision of the recommendation in force
  proposal,     \* the provider's proposal recorded with it
  contract,     \* the action contract in force
  reservation,  \* per revision: the capability its contract was reserved with
  effects,      \* committed effects: a contract and a source
  class,        \* classification of the verification in force
  message,      \* fact codes of the message in force
  runs          \* runs of the adapter for the contract in force

evidence == batches[Len(batches)]
rev == Len(batches)

objects == <<decision, proposal, contract, class, message, runs>>
vars == <<state, batches, objects, reservation, effects>>

-----------------------------------------------------------------------------
(* Recommendation.                                                         *)

Actions ==
  {"WAIT_VERIFIED_ETA", "RESHIP", "REFUND", "NO_NEW_ACTION", "EVIDENCE_BLOCKED",
   "ACTION_RECOVERY", "CONTROL_STOP", "AWAITING_CHOICE"}

Routes ==
  ConsequentialRoutes \cup
  {"DIRECT_NO_ACTION", "EVIDENCE_REVIEW", "RECOVERY_RECONCILIATION", "SPECIALIST_STOP",
   "AWAITING_CHOICE"}

MessageFacts ==
  {"WAIT_ESTIMATE_QUALIFIED", "RESHIP_PROPOSED", "REFUND_PROPOSED", "PRIOR_REMEDY_CONFIRMED",
   "DUPLICATE_SIGNAL_SUPPRESSED", "NO_ELIGIBLE_QUANTITY_REMAINS", "EVIDENCE_UNRESOLVED",
   "ACTION_STATUS_UNRESOLVED", "SPECIALIST_REVIEW_REQUIRED", "CUSTOMER_CHOICE_REQUIRED"}

\* A proposal that gets through the provider boundary.
Candidate ==
  [rev : Nat \ {0}, action : Actions, route : Routes, facts : SUBSET MessageFacts \ {{}}]

ASSUME CaseAssumption ==
  /\ \A b \in Batches : ValidBatch(b)
  /\ Candidates \subseteq Candidate
  /\ MaxRevision \in Nat \ {0} /\ MaxRuns \in Nat /\ Instants \subseteq Nat

ForCase(c) == c.rev = rev

\* What an attempt comes to: the candidate recorded for this very request, or
\* none.
Proposals == {c \in Candidates : ForCase(c)} \cup {NoCandidate}

\* The context is derived, the proposal is fetched and compared.  The
\* decision is the policy's.
Recommend(c) ==
  /\ state = "CONTEXT_READY"
  /\ Decidable(evidence)
  /\ decision' = Decide(evidence)
  /\ proposal' = c
  /\ state' = "RECOMMENDATION_READY"
  /\ UNCHANGED <<batches, contract, class, message, runs, reservation, effects>>

RouteTarget(route) ==
  CASE route = "SPECIALIST_STOP" -> "CONTROL_STOPPED"
    [] route = "AWAITING_CHOICE" -> "AWAITING_CHOICE"
    [] route \in ConsequentialRoutes -> "AWAITING_APPROVAL"

Route ==
  /\ state = "RECOMMENDATION_READY"
  /\ decision.route \in ConsequentialRoutes \cup {"SPECIALIST_STOP", "AWAITING_CHOICE"}
  /\ state' = RouteTarget(decision.route)
  /\ UNCHANGED <<batches, objects, reservation, effects>>

-----------------------------------------------------------------------------
(* Contract and authority.                                                 *)

\* The contract is for all that remains and its value, on the decided route.
Contract ==
  [rev |-> rev, operation |-> decision.action, quantity |-> Remaining(evidence),
   amount |-> Affected(evidence), route |-> decision.route]

\* A contract that can be built: a remedy on a route that allows one, for a
\* positive quantity and amount.
ValidContract(c) ==
  /\ c.operation \in {"RESHIP", "REFUND"} /\ c.route \in ConsequentialRoutes
  /\ c.quantity > 0 /\ c.amount > 0

\* The preparation is announced first; if no contract can be built then, the
\* case stays prepared without one.
Prepare ==
  /\ state = "AWAITING_APPROVAL"
  /\ contract' = IF ValidContract(Contract) THEN Contract ELSE NoContract
  /\ runs' = 0
  /\ state' = "ACTION_PREPARED"
  /\ UNCHANGED <<batches, decision, proposal, class, message, reservation, effects>>

Role(route) ==
  CASE route = "DELEGATED_DECISION"      -> "SYNTHETIC_RECOVERY_SPECIALIST"
    [] route = "WORKFLOW_OWNER_APPROVAL" -> "SYNTHETIC_WORKFLOW_OWNER"
    [] route = "FINANCE_APPROVAL"        -> "SYNTHETIC_FINANCE_APPROVER"

Roles == {Role(route) : route \in ConsequentialRoutes}
Actor(role) == <<"S2-ACTOR", role>>
Provider == <<"S2-PROVIDER", "RECORDED_AI">>

\* Authority events that may be on file: for this contract, or for one of
\* another revision, route or amount.
AuthorityEvents ==
  [for : {contract} \cup {[contract EXCEPT !.rev = r] : r \in 1..MaxRevision}
         \cup {[contract EXCEPT !.route = route] : route \in ConsequentialRoutes}
         \cup {[contract EXCEPT !.amount = @ + 1]},
   role : Roles, issuer : {Actor(role) : role \in Roles} \cup {Provider},
   approved : BOOLEAN, spent : BOOLEAN,  \* revoked or consumed
   issued : Instants, expires : Instants]

\* Mutant: an expired capability is accepted.
MutCapability(e, now) ==
  /\ e.for = contract
  /\ e.role = Role(contract.route) /\ e.issuer = Actor(e.role) /\ e.issuer # Provider
  /\ e.approved /\ ~e.spent
  /\ e.issued <= now

\* validate_authority_event: exact contract, the route's role, issued by the
\* actor of that role, approved, in its window, unspent.
Capability(e, now) ==
  /\ e.for = contract
  /\ e.role = Role(contract.route) /\ e.issuer = Actor(e.role) /\ e.issuer # Provider
  /\ e.approved /\ ~e.spent
  /\ e.issued <= now /\ now < e.expires

\* All contracts are for the first order line, for which there is one
\* reservation per run.
Reserve ==
  /\ state = "ACTION_PREPARED"
  /\ contract # NoContract
  /\ \A r \in DOMAIN reservation : reservation[r] = NoReservation
  /\ \E e \in AuthorityEvents, now \in Instants :
       /\ Capability(e, now)
       /\ reservation' = [reservation EXCEPT ![rev] =
            [role |-> e.role, issuer |-> e.issuer, at |-> now, expires |-> e.expires]]
  /\ state' = "ACTION_RESERVED"
  /\ UNCHANGED <<batches, objects, effects>>

-----------------------------------------------------------------------------
(* Execution and verification.                                             *)

\* In the order in which the adapter commits them.
EffectSources(c) == IF c.operation = "REFUND" THEN <<"PAYMENT">> ELSE <<"OMS", "INVENTORY", "WMS">>

Committed(c) == {e \in effects : e.contract = c}
FirstEffects(c, n) == {[contract |-> c, source |-> EffectSources(c)[i]] : i \in 1..n}
AllEffects(c) == FirstEffects(c, Len(EffectSources(c)))

\* The adapter starts from nothing or finds everything done.
MayCommit(c) == Committed(c) \in {{}, AllEffects(c)}

\* The adapter is run.  All effects are there and a receipt comes back, or
\* the receipt is lost, or it fails before or between the effects.
ExecuteReturns ==
  /\ MayCommit(contract)
  /\ effects' = effects \cup AllEffects(contract)
  /\ state' \in {"VERIFYING", "ACTION_RECOVERY"}

ExecuteFails ==
  /\ IF Committed(contract) = {}
     THEN \E n \in 0..(Len(EffectSources(contract)) - 1) :
            effects' = effects \cup FirstEffects(contract, n)
     ELSE UNCHANGED effects
  /\ state' = "ACTION_RECOVERY"

Execute ==
  /\ state \in {"ACTION_RESERVED", "ACTION_RECOVERY"}
  /\ runs < MaxRuns
  /\ runs' = runs + 1
  /\ ExecuteReturns \/ ExecuteFails
  /\ UNCHANGED <<batches, decision, proposal, contract, class, message, reservation>>

\* The sources alone tell whether the remedy is there.
Verify ==
  /\ state = "VERIFYING"
  /\ class' = IF Committed(contract) = AllEffects(contract)
              THEN "VERIFIED_REMEDY" ELSE "VERIFICATION_FAILED"
  /\ state' = class'
  /\ UNCHANGED <<batches, decision, proposal, contract, message, runs, reservation, effects>>

\* The decision is made once more and compared with the recorded one.
Direct ==
  /\ Decide(evidence) = decision
  /\ decision.route = "DIRECT_NO_ACTION"

VerifyDirect ==
  /\ state = "RECOMMENDATION_READY"
  /\ Direct
  /\ class' = IF decision.action = "WAIT_VERIFIED_ETA"
              THEN "VERIFIED_WAIT_CONDITION" ELSE "VERIFIED_NO_NEW_ACTION"
  /\ state' = "COMMUNICATION_READY"
  /\ UNCHANGED <<batches, decision, proposal, contract, message, runs, reservation, effects>>

\* The fact a message may state about a verified condition.
Fact ==
  CASE class = "VERIFIED_REMEDY" /\ contract.operation = "REFUND" -> "REFUND_COMPLETED"
    [] class = "VERIFIED_REMEDY" -> "REPLACEMENT_OPERATIONAL_MILESTONE"
    [] class = "VERIFIED_WAIT_CONDITION" -> "ETA_ESTIMATE"
    [] class = "VERIFIED_NO_NEW_ACTION"  -> "NO_NEW_ACTION_REQUIRED"

Communicate ==
  /\ state \in {"VERIFIED_REMEDY", "COMMUNICATION_READY"}
  /\ message = {}
  /\ message' = {Fact}
  /\ state' = "COMMUNICATION_READY"
  /\ UNCHANGED <<batches, decision, proposal, contract, class, runs, reservation, effects>>

Close ==
  /\ state = "COMMUNICATION_READY"
  /\ message # {}
  /\ state' = "CLOSED"
  /\ UNCHANGED <<batches, objects, reservation, effects>>

-----------------------------------------------------------------------------
(* Revision.                                                               *)

Updated(b, change) == [f \in DOMAIN b |-> IF f \in DOMAIN change THEN change[f] ELSE b[f]]

\* What the case itself did under the revision in force: it shows in the
\* sources from then on.
Recovering(source) == {e.contract : e \in {x \in effects : x.source = source /\ x.contract.rev = rev}}

Reflected(b) ==
  LET refunds   == Recovering("PAYMENT")
      reships   == Recovering("OMS")
  IN  [b EXCEPT !.refunded_quantity = @ + MapThenSumSet(LAMBDA c : c.quantity, refunds),
                !.refunded_cents    = @ + MapThenSumSet(LAMBDA c : c.amount, refunds),
                !.reshipped         = @ + MapThenSumSet(LAMBDA c : c.quantity, reships)]

\* A source revision, or a reopen of a closed case: a valid batch with a
\* new revision, and nothing decided on the old one is in force any more.
Revise ==
  /\ rev < MaxRevision
  /\ state \in RevisionInvalidatableStates \cup {"CLOSED"}
  /\ \E change \in Revisions :
       LET b == Updated(Reflected(evidence), change) IN
       ValidBatch(b) /\ batches' = Append(batches, b)
  /\ state' = "EVIDENCE_BLOCKED"
  /\ decision' = NoDecision /\ proposal' = NoCandidate /\ contract' = NoContract
  /\ class' = NoClass /\ message' = {} /\ runs' = 0
  /\ UNCHANGED <<reservation, effects>>

Reassemble ==
  /\ state = "EVIDENCE_BLOCKED"
  /\ Derivable(evidence)
  /\ state' = "CONTEXT_READY"
  /\ UNCHANGED <<batches, objects, reservation, effects>>

-----------------------------------------------------------------------------
\* The context of the first batch is assembled (intake: RecoveryWorkflow).
Init ==
  /\ state = "CONTEXT_READY"
  /\ batches \in {<<b>> : b \in Batches}
  /\ decision = NoDecision /\ proposal = NoCandidate /\ contract = NoContract
  /\ class = NoClass /\ message = {} /\ runs = 0
  /\ reservation = [r \in 1..MaxRevision |-> NoReservation]
  /\ effects = {}

Next ==
  \/ \E c \in Proposals : Recommend(c)
  \/ Route \/ Prepare \/ Reserve
  \/ Execute \/ Verify \/ VerifyDirect
  \/ Communicate \/ Close
  \/ Revise \/ Reassemble

Spec == Init /\ [][Next]_vars

-----------------------------------------------------------------------------
(* The evaluation of a run that was frozen in this state.                  *)

\* The outcome code of a decision.
Outcome(d) ==
  CASE d.action = "NO_NEW_ACTION" -> "VERIFIED_NO_NEW_ACTION"
    [] d.action = "CONTROL_STOP" -> "CONTROL_STOPPED"
    [] d.action = "ACTION_RECOVERY" -> "ACTION_RECOVERY_REQUIRED"
    [] d.route = "DELEGATED_DECISION" -> "DELEGATED_ACTION_READY"
    [] d.route = "WORKFLOW_OWNER_APPROVAL" -> "WORKFLOW_OWNER_APPROVAL_REQUIRED"
    [] d.route = "FINANCE_APPROVAL" -> "FINANCE_APPROVAL_REQUIRED"
    [] OTHER -> d.action

\* The verification is done once more on the effects; without one the state
\* or the decision classifies the case.
JudgedClass ==
  IF class # NoClass
  THEN IF contract = NoContract THEN class
       ELSE IF Committed(contract) = AllEffects(contract)
       THEN "VERIFIED_REMEDY" ELSE "VERIFICATION_FAILED"
  ELSE IF state \in {"CONTROL_STOPPED", "ACTION_RECOVERY"} THEN state
  ELSE Outcome(decision)

LegalEnd(c) ==
  CASE c \in {"VERIFIED_REMEDY", "VERIFIED_WAIT_CONDITION", "VERIFIED_NO_NEW_ACTION"} -> "CLOSED"
    [] c = "EVIDENCE_BLOCKED" -> "RECOMMENDATION_READY"
    [] c \in {"CONTROL_STOPPED", "ACTION_RECOVERY"} -> c
    [] OTHER -> "NONE"

\* An accepted proposal stands for the recommendation.
JudgedRecommendation ==
  IF proposal # NoCandidate /\ Accepts(decision, proposal) THEN proposal ELSE decision

\* The evaluation replays one revision, with one recommendation.
Judgeable == rev = 1 /\ decision # NoDecision

ClosedLegally == state = LegalEnd(JudgedClass)

-----------------------------------------------------------------------------
(* Type.                                                                   *)

ContractType ==
  [rev : 1..MaxRevision, operation : {"RESHIP", "REFUND"}, quantity : Nat \ {0},
   amount : Nat \ {0}, route : ConsequentialRoutes]

ReservationType ==
  [role : Roles, issuer : {Actor(role) : role \in Roles}, at : Instants, expires : Instants]

Classes ==
  {"VERIFIED_REMEDY", "VERIFICATION_FAILED", "VERIFIED_WAIT_CONDITION", "VERIFIED_NO_NEW_ACTION"}

\* What is not there is no contract, no reservation and no class.
ASSUME AbsenceAssumption ==
  NoContract \notin ContractType /\ NoReservation \notin ReservationType /\ NoClass \notin Classes

\* The state has its shape, and a case in which an action is prepared or under
\* way has its contract: no granted remedy is one nobody can build.
TypeOK ==
  /\ state \in WorkflowState
  /\ batches # <<>> /\ \A r \in DOMAIN batches : ValidBatch(batches[r])
  /\ decision = NoDecision \/ DOMAIN decision = {"action", "route", "facts"}
  /\ proposal \in Candidates \cup {NoCandidate}
  /\ contract = NoContract \/ contract \in ContractType
  /\ reservation \in [1..MaxRevision -> ReservationType \cup {NoReservation}]
  /\ \A e \in effects :
       e.contract \in ContractType /\ e.source \in {"OMS", "INVENTORY", "WMS", "PAYMENT"}
  /\ class \in Classes \cup {NoClass}
  /\ Cardinality(message) <= 1
  /\ runs \in 0..MaxRuns
  /\ state \in {"ACTION_PREPARED", "ACTION_RESERVED", "ACTION_RECOVERY", "VERIFYING",
               "VERIFIED_REMEDY", "VERIFICATION_FAILED"} => contract # NoContract

-----------------------------------------------------------------------------
(* Safety.                                                                 *)

\* Whatever stands in a source was allowed by somebody who may allow that
\* much, in the window of the authority, and on evidence of that very revision
\* that calls for exactly this: the customer's choice, all that remains, no
\* stop, no conflict, nothing stale, stock for a replacement (decide_policy,
\* build_action_contract and validate_authority_event taken together).
AuthorityCoversExposure ==
  \A e \in effects :
    LET c == e.contract
        b == batches[c.rev]
        r == reservation[c.rev]
    IN  /\ ~Unsafe(b) /\ Derivable(b)
        /\ c.operation = b.choice
        /\ c.quantity = Remaining(b) /\ c.amount = Affected(b)
        /\ c.operation = "RESHIP" => b.stock >= c.quantity
        /\ r # NoReservation /\ MayAllow(r.role, b, c.amount)
        /\ r.issuer = Actor(r.role) /\ r.at < r.expires

\* Evidence that gets worse in any respect never opens the way to a remedy
\* that was closed, and never moves it to an approver with a lower limit: the
\* order of the rules and the limits agree at every boundary (decide_policy).
WorseNeverGrants ==
  state = "CONTEXT_READY" =>
    \A w \in Worse(evidence) :
      Grants(w) => /\ Grants(evidence)
                   /\ Rank(Decide(w).route) >= Rank(Decide(evidence).route)

\* The evaluation reports what happened: a remedy only if all its effects, and
\* no others, stand in the sources under a reserved authority; a legal end
\* without a remedy only if no source was touched; and as recommendation the
\* policy's own decision, whatever the provider proposed (_derive_assisted).
JudgedAsItHappened ==
  Judgeable =>
    /\ JudgedClass = "VERIFIED_REMEDY" =>
         effects = AllEffects(contract) /\ reservation[1] # NoReservation
    /\ ClosedLegally /\ JudgedClass \notin {"VERIFIED_REMEDY", "ACTION_RECOVERY"} => effects = {}
    /\ JudgedRecommendation.action = Decide(evidence).action
    /\ JudgedRecommendation.route = Decide(evidence).route

\* What a case recovers, counted with what was recovered before, is never more
\* than what remains undelivered (the plan: one to five lines reconcile
\* "without negative or over-recovered state").
NeverOverRecovers ==
  \A e \in effects :
    e.source \in {"PAYMENT", "OMS"} =>
      Recovered(batches[e.contract.rev]) + e.contract.quantity <= Remaining(batches[e.contract.rev])
=============================================================================

--------------------------- MODULE WorkflowStates ---------------------------
(***************************************************************************)
(* The workflow state machine of scripts/recovery_state.py, as pure        *)
(* operators: which state may follow which, and what one ledger event does *)
(* to the state.  Nothing here changes a variable.                         *)
(***************************************************************************)

\* The state before the first event (None in the code).
Start == "START"

WorkflowState ==
  {"RECEIVED", "DEDUPLICATED", "EVIDENCE_BLOCKED", "CONTEXT_READY",
   "RECOMMENDATION_READY", "CONTROL_STOPPED", "AWAITING_CHOICE",
   "AWAITING_APPROVAL", "ACTION_PREPARED", "ACTION_RESERVED",
   "ACTION_PENDING", "ACTION_RECOVERY", "VERIFYING", "VERIFICATION_FAILED",
   "VERIFIED_REMEDY", "COMMUNICATION_READY", "CLOSED", "REOPENED"}

\* _LEGAL as a relation.  CLOSED, REOPENED and CONTROL_STOPPED have no
\* successor: a closed case reopens only through a revision event.
Legal ==
  {<<Start, "RECEIVED">>,
   <<"RECEIVED", "DEDUPLICATED">>,
   <<"DEDUPLICATED", "EVIDENCE_BLOCKED">>,
   <<"DEDUPLICATED", "CONTEXT_READY">>,
   <<"EVIDENCE_BLOCKED", "CONTEXT_READY">>,
   <<"CONTEXT_READY", "RECOMMENDATION_READY">>,
   <<"RECOMMENDATION_READY", "CONTROL_STOPPED">>,
   <<"RECOMMENDATION_READY", "AWAITING_CHOICE">>,
   <<"RECOMMENDATION_READY", "AWAITING_APPROVAL">>,
   <<"RECOMMENDATION_READY", "ACTION_PREPARED">>,
   <<"RECOMMENDATION_READY", "COMMUNICATION_READY">>,
   <<"AWAITING_CHOICE", "RECOMMENDATION_READY">>,
   <<"AWAITING_CHOICE", "CONTROL_STOPPED">>,
   <<"AWAITING_APPROVAL", "ACTION_PREPARED">>,
   <<"AWAITING_APPROVAL", "CONTROL_STOPPED">>,
   <<"ACTION_PREPARED", "ACTION_RESERVED">>,
   <<"ACTION_RESERVED", "ACTION_PENDING">>,
   <<"ACTION_PENDING", "ACTION_RECOVERY">>,
   <<"ACTION_PENDING", "VERIFYING">>,
   <<"ACTION_RECOVERY", "VERIFYING">>,
   <<"VERIFYING", "VERIFICATION_FAILED">>,
   <<"VERIFYING", "VERIFIED_REMEDY">>,
   <<"VERIFICATION_FAILED", "ACTION_RECOVERY">>,
   <<"VERIFIED_REMEDY", "COMMUNICATION_READY">>,
   <<"COMMUNICATION_READY", "CLOSED">>}

DirectNoActionEvents == {"VERIFIED_WAIT_CONDITION", "VERIFIED_NO_NEW_ACTION"}

\* The types of NON_TRANSITION_EVENT_TYPES that the code ever writes
\* (WORKSPACE_CHECKPOINTED is declared and never appended).
RecoveryEventTypes == {"PARTIAL_TAIL_RECOVERED", "UNCOMMITTED_EVENT_RECOVERED"}
NonTransitionEventTypes == RecoveryEventTypes \cup {"COMMUNICATION_RECORDED"}

SourceRevised == "SOURCE_REVISION_CHANGED"
CaseReopened  == "CASE_REOPENED_WITH_SOURCE_REVISION"
RevisionEventTypes == {SourceRevised, CaseReopened}

RevisionInvalidatableStates ==
  WorkflowState \ {"RECEIVED", "CONTROL_STOPPED", "CLOSED", "REOPENED"}

\* transition_state: the move is declared, and the shortcut past the action
\* states needs a verified no-action event (every caller of the shortcut
\* passes action_count 0).
CanTransition(from, to, type) ==
  /\ <<from, to>> \in Legal
  /\ <<from, to>> = <<"RECOMMENDATION_READY", "COMMUNICATION_READY">>
       => type \in DirectNoActionEvents

\* apply_event_state: the event may be applied in state from, and the state
\* after it is its to_state.
CanApply(from, to, type) ==
  CASE type \in NonTransitionEventTypes -> to = from /\ from # Start
    [] type = SourceRevised -> /\ from \in RevisionInvalidatableStates
                               /\ to = "EVIDENCE_BLOCKED"
    [] type = CaseReopened  -> from = "CLOSED" /\ to = "EVIDENCE_BLOCKED"
    [] OTHER -> CanTransition(from, to, type)
=============================================================================

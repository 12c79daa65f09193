-------------------------- MODULE RecoveryWorkflow --------------------------
(***************************************************************************)
(* The application service (scripts/recovery_services.py) and the guarded  *)
(* orchestrator (scripts/recovery_orchestration.py) over one run.  Several *)
(* processes call them.  A call is a row of steps with nothing held in     *)
(* between: read the projection, run the adapter, write a record file,     *)
(* append an event.  An append re-reads the projection and is bound to its *)
(* head, so check and append are one step (RecoveryLedger implements the   *)
(* atomic DurableLog); so is a run of the adapter, which holds the lock    *)
(* (ActionAdapter implements SimulatedRemedy).                             *)
(***************************************************************************)
EXTENDS Integers, Sequences, FiniteSetsExt, WorkflowStates

CONSTANTS
  Procs,         \* processes that call the service on this run
  Actions,       \* action contracts, one for an eligible quantity
  Replacements,  \* those with effects in more than one source
  Routes,        \* what the policy decides on the evidence of a revision
  Verifications, \* names a caller may give a verification: a bound on them
  Messages,      \* names a caller may give a communication: a bound on them
  NoAction, NoId, NoJob, NoFile,
  MaxRevision,   \* bound: case revisions
  MaxCrashes     \* bound: crashes

ASSUME BoundsAssumption ==
  MaxRevision \in Nat \ {0} /\ MaxCrashes \in Nat

VARIABLES
  log,            \* the committed events
  route,          \* what the evidence of the revision in force decides
  effect,         \* per action: which of its effects are committed
  verifications,  \* verification/<id>.json
  messages,       \* communication/<id>.json
  closures,       \* closures/<id>.json
  frozen,         \* freeze.json is there
  job,            \* per process: the call it is in
  crashes

files == <<verifications, messages, closures>>
vars == <<log, route, effect, files, frozen, job, crashes>>

-----------------------------------------------------------------------------
(* Events and their projection.                                            *)

ApprovalRoutes == {"DELEGATED_DECISION", "WORKFLOW_OWNER_APPROVAL", "FINANCE_APPROVAL"}

IntakeEvent(from, to) ==
  CASE <<from, to>> = <<"RECEIVED", "DEDUPLICATED">>             -> "CASE_DEDUPLICATED"
    [] <<from, to>> = <<"DEDUPLICATED", "EVIDENCE_BLOCKED">>     -> "INTAKE_EVIDENCE_BLOCKED"
    [] <<from, to>> = <<"DEDUPLICATED", "CONTEXT_READY">>        -> "CONTEXT_ASSEMBLED"
    [] <<from, to>> = <<"EVIDENCE_BLOCKED", "CONTEXT_READY">>    -> "CONTEXT_REASSEMBLED"

IntakeSteps ==
  {<<"RECEIVED", "DEDUPLICATED">>, <<"DEDUPLICATED", "EVIDENCE_BLOCKED">>,
   <<"DEDUPLICATED", "CONTEXT_READY">>, <<"EVIDENCE_BLOCKED", "CONTEXT_READY">>}

\* Where a recommendation is routed; the other routes have no event here.
RouteTarget ==
  [r \in {"SPECIALIST_STOP", "AWAITING_CHOICE"} \cup ApprovalRoutes |->
     CASE r = "SPECIALIST_STOP" -> "CONTROL_STOPPED"
       [] r = "AWAITING_CHOICE" -> "AWAITING_CHOICE"
       [] OTHER                 -> "AWAITING_APPROVAL"]

State == log[Len(log)].to
Rev   == log[Len(log)].rev

\* active_object_ids: the last object of a kind that an event of the revision
\* in force links to.
Active(link, none) ==
  LET linked == {i \in DOMAIN log : log[i].rev = Rev /\ log[i][link] # none}
  IN  IF linked = {} THEN none ELSE log[Max(linked)][link]

ActiveAction       == Active("act", NoAction)
ActiveVerification == Active("ver", NoId)
ActiveMessage      == Active("msg", NoId)

\* A case revision per action: the one it was built and reserved for.
Reservations(a) == {i \in DOMAIN log : log[i].type = "ACTION_AUTHORITY_RESERVED" /\ log[i].act = a}
BuiltFor(a) == log[CHOOSE i \in Reservations(a) : TRUE].rev

Receipts(a) ==
  {i \in DOMAIN log :
     log[i].type = "ADAPTER_RECEIPT_RECORDED_AFTER_RECONCILIATION" /\ log[i].act = a}

Event(type, to) ==
  [type |-> type, to |-> to, rev |-> Rev, act |-> NoAction, ver |-> NoId, msg |-> NoId]

\* Append one event to a run that is not frozen.
Commit(e) ==
  /\ ~frozen
  /\ CanApply(State, e.to, e.type)
  /\ log' = Append(log, e)

-----------------------------------------------------------------------------
(* Intake, recommendation, authority.                                      *)

Advance ==
  /\ \E to \in {"DEDUPLICATED", "EVIDENCE_BLOCKED", "CONTEXT_READY"} :
       /\ <<State, to>> \in IntakeSteps
       /\ Commit(Event(IntakeEvent(State, to), to))
  /\ UNCHANGED <<route, effect, files, frozen, job, crashes>>

\* The recommendation is an event; its routing is a second one, bound to
\* the head that the first one left, if the caller asked for it.
Recommend(p) ==
  /\ job[p] = NoJob
  /\ State = "CONTEXT_READY"
  /\ Commit(Event("RECOMMENDATION_RECORDED", "RECOMMENDATION_READY"))
  /\ \/ UNCHANGED job
     \/ job' = [job EXCEPT ![p] = [op |-> "route", head |-> Len(log) + 1, route |-> route]]
  /\ UNCHANGED <<route, effect, files, frozen, crashes>>

In(p, op) == job[p] # NoJob /\ job[p].op = op

Return(p) == job' = [job EXCEPT ![p] = NoJob]

RouteEvent(r) ==
  CASE r = "SPECIALIST_STOP" -> "CONTROL_STOP_APPLIED"
    [] r = "AWAITING_CHOICE" -> "CUSTOMER_CHOICE_REQUIRED"
    [] OTHER                 -> "AUTHORITY_DECISION_REQUIRED"

RouteRecommendation(p) ==
  /\ In(p, "route")
  /\ job[p].head = Len(log)
  /\ job[p].route \in DOMAIN RouteTarget
  /\ Commit(Event(RouteEvent(job[p].route), RouteTarget[job[p].route]))
  /\ Return(p)
  /\ UNCHANGED <<route, effect, files, frozen, crashes>>

\* The operator starts preparing the exact action (no service call does).
PrepareAction ==
  /\ State = "AWAITING_APPROVAL"
  /\ Commit(Event("EXACT_ACTION_PREPARATION_STARTED", "ACTION_PREPARED"))
  /\ UNCHANGED <<route, effect, files, frozen, job, crashes>>

\* The contract is built for the projection in force and reserved, once for
\* its eligible quantity (RecoveryLedger has the details).
ReserveAction(a) ==
  /\ State = "ACTION_PREPARED"
  /\ Reservations(a) = {}
  /\ Commit([Event("ACTION_AUTHORITY_RESERVED", "ACTION_RESERVED") EXCEPT !.act = a])
  /\ UNCHANGED <<route, effect, files, frozen, job, crashes>>

-----------------------------------------------------------------------------
(* execute_active_action.                                                  *)

\* Mutant: the revision the contract was built for is not compared.
MutBound(a) == a = ActiveAction /\ a # NoAction

\* The active action, of this case revision.
Bound(a) == a = ActiveAction /\ a # NoAction /\ BuiltFor(a) = Rev

StartExecution(p) ==
  /\ job[p] = NoJob
  /\ State = "ACTION_RESERVED"
  /\ Bound(ActiveAction)
  /\ Commit([Event("ACTION_EFFECT_STARTED", "ACTION_PENDING") EXCEPT !.act = ActiveAction])
  /\ job' = [job EXCEPT ![p] = [op |-> "execute", act |-> ActiveAction]]
  /\ UNCHANGED <<route, effect, files, frozen, crashes>>

\* Mutant: without a recorded start.
MutRetryable == State \in {"ACTION_RESERVED", "ACTION_RECOVERY"}

Retryable == State = "ACTION_RECOVERY"

RetryExecution(p) ==
  /\ job[p] = NoJob
  /\ Retryable
  /\ Bound(ActiveAction)
  /\ job' = [job EXCEPT ![p] = [op |-> "execute", act |-> ActiveAction]]
  /\ UNCHANGED <<log, route, effect, files, frozen, crashes>>

\* The adapter returns a receipt: all effects are committed, by this run of
\* it or by an earlier one.
AdapterReturns(p) ==
  /\ In(p, "execute")
  /\ effect[job[p].act] # "some"
  /\ effect' = [effect EXCEPT ![job[p].act] = "all"]
  /\ job' = [job EXCEPT ![p] = [op |-> "receipt", act |-> job[p].act]]
  /\ UNCHANGED <<log, route, files, frozen, crashes>>

\* The adapter fails, before, between or after the effects.  It carries a
\* remedy that stopped half way no further.
AdapterFails(p) ==
  /\ In(p, "execute")
  /\ \E e \in {"none", "some", "all"} :
       /\ effect[job[p].act] # "none" => e = effect[job[p].act]
       /\ e = "some" => job[p].act \in Replacements
       /\ effect' = [effect EXCEPT ![job[p].act] = e]
  /\ job' = [job EXCEPT ![p] = [op |-> "unknown", act |-> job[p].act]]
  /\ UNCHANGED <<log, route, files, frozen, crashes>>

\* Mutant: not after a retry.
MutReceiptExpected == State = "ACTION_PENDING"

\* Both outcomes look only at the state of the latest projection.
ReceiptExpected == State \in {"ACTION_PENDING", "ACTION_RECOVERY"}

RecordReceipt(p) ==
  /\ In(p, "receipt")
  /\ ReceiptExpected
  /\ Commit([Event("ADAPTER_RECEIPT_RECORDED_AFTER_RECONCILIATION", "VERIFYING")
               EXCEPT !.act = job[p].act])
  /\ Return(p)
  /\ UNCHANGED <<route, effect, files, frozen, crashes>>

RecordUnknownOutcome(p) ==
  /\ In(p, "unknown")
  /\ State = "ACTION_PENDING"
  /\ Commit([Event("ACTION_EFFECT_OUTCOME_UNKNOWN", "ACTION_RECOVERY")
               EXCEPT !.act = job[p].act])
  /\ Return(p)
  /\ UNCHANGED <<route, effect, files, frozen, crashes>>

-----------------------------------------------------------------------------
(* verify_active_action and verify_direct_no_action.                       *)

\* The effect journals are read, and classified, before the record is
\* written and long before its event.
Verify(p, v) ==
  /\ job[p] = NoJob
  /\ Bound(ActiveAction)
  /\ Cardinality(Receipts(ActiveAction)) = 1
  /\ job' = [job EXCEPT ![p] =
       [op |-> "write_verification", ver |-> v,
        record |-> [act |-> ActiveAction, rev |-> Rev,
                    class |-> IF effect[ActiveAction] = "all"
                              THEN "VERIFIED_REMEDY" ELSE "VERIFICATION_FAILED"]]]
  /\ UNCHANGED <<log, route, effect, files, frozen, crashes>>

VerifyNoAction(p, v) ==
  /\ job[p] = NoJob
  /\ State = "RECOMMENDATION_READY"
  /\ route = "DIRECT_NO_ACTION"
  /\ job' = [job EXCEPT ![p] =
       [op |-> "write_verification", ver |-> v,
        record |-> [act |-> NoAction, rev |-> Rev, class |-> "VERIFIED_NO_NEW_ACTION"]]]
  /\ UNCHANGED <<log, route, effect, files, frozen, crashes>>

\* write_once, also on a run that was frozen in the meantime.
WriteVerification(p) ==
  /\ In(p, "write_verification")
  /\ verifications[job[p].ver] = NoFile
  /\ verifications' = [verifications EXCEPT ![job[p].ver] = job[p].record]
  /\ job' = [job EXCEPT ![p].op = "record_verification"]
  /\ UNCHANGED <<log, route, effect, messages, closures, frozen, crashes>>

RecordVerification(p) ==
  /\ In(p, "record_verification")
  /\ LET r == job[p].record IN
     /\ r.act # NoAction
     /\ State = "VERIFYING"
     /\ r.rev = Rev /\ r.act = ActiveAction
     /\ Commit([Event(IF r.class = "VERIFIED_REMEDY" THEN "AUTHORITATIVE_REMEDY_VERIFIED"
                      ELSE "AUTHORITATIVE_VERIFICATION_FAILED", r.class)
                  EXCEPT !.act = r.act, !.ver = job[p].ver])
  /\ Return(p)
  /\ UNCHANGED <<route, effect, files, frozen, crashes>>

RecordNoActionVerification(p) ==
  /\ In(p, "record_verification")
  /\ LET r == job[p].record IN
     /\ r.act = NoAction
     /\ State = "RECOMMENDATION_READY"
     /\ r.rev = Rev /\ ActiveAction = NoAction
     /\ Commit([Event(r.class, "COMMUNICATION_READY") EXCEPT !.ver = job[p].ver])
  /\ Return(p)
  /\ UNCHANGED <<route, effect, files, frozen, crashes>>

-----------------------------------------------------------------------------
(* communicate_active_verification and close.                              *)

Communicate(p, m) ==
  /\ job[p] = NoJob
  /\ ActiveVerification # NoId
  /\ verifications[ActiveVerification].class # "VERIFICATION_FAILED"
  /\ job' = [job EXCEPT ![p] =
       [op |-> "write_message", msg |-> m,
        record |-> [rev |-> Rev, cites |-> ActiveVerification]]]
  /\ UNCHANGED <<log, route, effect, files, frozen, crashes>>

WriteMessage(p) ==
  /\ In(p, "write_message")
  /\ messages[job[p].msg] = NoFile
  /\ messages' = [messages EXCEPT ![job[p].msg] = job[p].record]
  /\ job' = [job EXCEPT ![p].op = "record_message"]
  /\ UNCHANGED <<log, route, effect, verifications, closures, frozen, crashes>>

\* Mutant: the message is not compared with the verification in force.
MutDerived(r) == TRUE

\* A message derived from the verification in force.
Derived(r) == r.rev = Rev /\ r.cites = ActiveVerification

RecordMessage(p) ==
  /\ In(p, "record_message")
  /\ LET r == job[p].record IN
     /\ Derived(r)
     /\ \/ /\ State = "VERIFIED_REMEDY"
           /\ Commit([Event("VERIFIED_COMMUNICATION_CREATED", "COMMUNICATION_READY")
                        EXCEPT !.ver = r.cites, !.msg = job[p].msg])
        \/ /\ State = "COMMUNICATION_READY"
           /\ Commit([Event("COMMUNICATION_RECORDED", "COMMUNICATION_READY")
                        EXCEPT !.ver = r.cites, !.msg = job[p].msg])
  /\ Return(p)
  /\ UNCHANGED <<route, effect, files, frozen, crashes>>

\* Mutant: the evidence of the closure is not looked at.
MutEvidence == TRUE

\* The active message and the active verification belong together.
Evidence ==
  /\ ActiveMessage # NoId
  /\ messages[ActiveMessage] = [rev |-> Rev, cites |-> ActiveVerification]
  /\ verifications[ActiveVerification].rev = Rev

\* The event first, the closure record after it.
Close(p) ==
  /\ job[p] = NoJob
  /\ State = "COMMUNICATION_READY"
  /\ Evidence
  /\ Commit([Event("RECOVERY_WORKFLOW_CLOSED", "CLOSED")
               EXCEPT !.ver = ActiveVerification, !.msg = ActiveMessage])
  /\ job' = [job EXCEPT ![p] = [op |-> "write_closure", head |-> Len(log) + 1]]
  /\ UNCHANGED <<route, effect, files, frozen, crashes>>

WriteClosure(p) ==
  /\ In(p, "write_closure")
  /\ closures' = closures \cup {job[p].head}
  /\ Return(p)
  /\ UNCHANGED <<log, route, effect, verifications, messages, frozen, crashes>>

-----------------------------------------------------------------------------
(* Evidence, freeze, failures.                                             *)

\* Mutant: a revision is skipped.
MutNextRevision == Rev + 2

NextRevision == Rev + 1

\* A source revision, or a reopen of a closed case.
Revise ==
  /\ Rev < MaxRevision
  /\ \E type \in RevisionEventTypes :
       Commit([Event(type, "EVIDENCE_BLOCKED") EXCEPT !.rev = NextRevision])
  /\ route' \in Routes
  /\ UNCHANGED <<effect, files, frozen, job, crashes>>

Freeze ==
  /\ ~frozen
  /\ frozen' = TRUE
  /\ UNCHANGED <<log, route, effect, files, job, crashes>>

\* The next step of the call is refused: the projection is not, or no
\* longer, what it needs, the run is frozen, or the name is taken.
Refused(p) ==
  LET j == job[p] IN
  CASE j.op = "route" -> \/ frozen \/ j.head # Len(log)
                         \/ j.route \notin DOMAIN RouteTarget
    [] j.op = "receipt" -> frozen \/ ~ReceiptExpected
    [] j.op = "unknown" -> frozen \/ State # "ACTION_PENDING"
    [] j.op = "write_verification" -> verifications[j.ver] # NoFile
    [] j.op = "record_verification" ->
         \/ frozen \/ j.record.rev # Rev \/ j.record.act # ActiveAction
         \/ State # IF j.record.act = NoAction THEN "RECOMMENDATION_READY" ELSE "VERIFYING"
    [] j.op = "write_message" -> messages[j.msg] # NoFile
    [] j.op = "record_message" ->
         \/ frozen \/ ~Derived(j.record)
         \/ State \notin {"VERIFIED_REMEDY", "COMMUNICATION_READY"}
    [] OTHER -> FALSE

Refuse(p) ==
  /\ job[p] # NoJob
  /\ Refused(p)
  /\ Return(p)
  /\ UNCHANGED <<log, route, effect, files, frozen, crashes>>

\* The process is killed, or a read or write of it fails.
Crash(p) ==
  /\ job[p] # NoJob
  /\ crashes < MaxCrashes
  /\ crashes' = crashes + 1
  /\ Return(p)
  /\ UNCHANGED <<log, route, effect, files, frozen>>

-----------------------------------------------------------------------------
Init ==
  /\ log = <<[type |-> "CASE_RECEIVED", to |-> "RECEIVED", rev |-> 1,
              act |-> NoAction, ver |-> NoId, msg |-> NoId]>>
  /\ route \in Routes
  /\ effect = [a \in Actions |-> "none"]
  /\ verifications = [v \in Verifications |-> NoFile]
  /\ messages = [m \in Messages |-> NoFile]
  /\ closures = {}
  /\ frozen = FALSE
  /\ job = [p \in Procs |-> NoJob]
  /\ crashes = 0

Call(p) ==
  \/ Recommend(p)
  \/ StartExecution(p) \/ RetryExecution(p)
  \/ \E v \in Verifications : Verify(p, v) \/ VerifyNoAction(p, v)
  \/ \E m \in Messages : Communicate(p, m)
  \/ Close(p)

Continue(p) ==
  \/ RouteRecommendation(p)
  \/ AdapterReturns(p) \/ AdapterFails(p)
  \/ RecordReceipt(p) \/ RecordUnknownOutcome(p)
  \/ WriteVerification(p) \/ RecordVerification(p) \/ RecordNoActionVerification(p)
  \/ WriteMessage(p) \/ RecordMessage(p)
  \/ WriteClosure(p)
  \/ Refuse(p)

Next ==
  \/ Advance \/ PrepareAction \/ Revise \/ Freeze
  \/ \E a \in Actions : ReserveAction(a)
  \/ \E p \in Procs : Call(p) \/ Continue(p) \/ Crash(p)

Spec == Init /\ [][Next]_vars

-----------------------------------------------------------------------------
(* Type.                                                                   *)

EventType ==
  [type : {"CASE_RECEIVED", "CASE_DEDUPLICATED", "INTAKE_EVIDENCE_BLOCKED",
           "CONTEXT_ASSEMBLED", "CONTEXT_REASSEMBLED", "RECOMMENDATION_RECORDED",
           "CONTROL_STOP_APPLIED", "CUSTOMER_CHOICE_REQUIRED",
           "AUTHORITY_DECISION_REQUIRED", "EXACT_ACTION_PREPARATION_STARTED",
           "ACTION_AUTHORITY_RESERVED", "ACTION_EFFECT_STARTED",
           "ADAPTER_RECEIPT_RECORDED_AFTER_RECONCILIATION",
           "ACTION_EFFECT_OUTCOME_UNKNOWN", "AUTHORITATIVE_REMEDY_VERIFIED",
           "AUTHORITATIVE_VERIFICATION_FAILED", "VERIFIED_NO_NEW_ACTION",
           "VERIFIED_COMMUNICATION_CREATED", "COMMUNICATION_RECORDED",
           "RECOVERY_WORKFLOW_CLOSED"} \cup RevisionEventTypes,
   to : WorkflowState, rev : 1..MaxRevision,
   act : Actions \cup {NoAction}, ver : Verifications \cup {NoId}, msg : Messages \cup {NoId}]

VerificationType ==
  [act : Actions \cup {NoAction}, rev : 1..MaxRevision,
   class : {"VERIFIED_REMEDY", "VERIFICATION_FAILED", "VERIFIED_NO_NEW_ACTION"}]

MessageType == [rev : 1..MaxRevision, cites : Verifications]

\* What stands for nothing is none of the things.
ASSUME NothingAssumption ==
  /\ NoAction \notin Actions
  /\ NoId \notin Verifications \cup Messages
  /\ NoFile \notin VerificationType \cup MessageType

\* The state has its shape.
TypeOK ==
  /\ log \in Seq(EventType) /\ log # <<>>
  /\ route \in Routes
  /\ effect \in [Actions -> {"none", "some", "all"}]
  /\ verifications \in [Verifications -> VerificationType \cup {NoFile}]
  /\ messages \in [Messages -> MessageType \cup {NoFile}]
  /\ closures \subseteq 1..Len(log)
  /\ frozen \in BOOLEAN
  /\ DOMAIN job = Procs
  /\ crashes \in 0..MaxCrashes

-----------------------------------------------------------------------------
(* Safety.                                                                 *)

Before(i, type, rev) == {k \in 1..(i - 1) : log[k].type = type /\ log[k].rev = rev}

\* A case says that its remedy is verified only if every effect of the action
\* is committed in the sources, the action was reserved in the same case
\* revision, and the record file says so: whatever runs late, whoever crashed,
\* and although a late receipt may have moved the case on (verify_active_action).
VerifiedMeansDone ==
  \A i \in DOMAIN log : log[i].type = "AUTHORITATIVE_REMEDY_VERIFIED" =>
    /\ effect[log[i].act] = "all"
    /\ \E k \in Before(i, "ACTION_AUTHORITY_RESERVED", log[i].rev) : log[k].act = log[i].act
    /\ verifications[log[i].ver] =
         [act |-> log[i].act, rev |-> log[i].rev, class |-> "VERIFIED_REMEDY"]

\* A case is closed on a message about a verification, both committed before
\* in the same revision and both on disk; closed on a remedy, the remedy is
\* complete, and closed without one, no action was started in that revision.
ClosureIsBacked ==
  \A i \in DOMAIN log : log[i].type = "RECOVERY_WORKFLOW_CLOSED" =>
    LET e == log[i] IN
    /\ e.msg # NoId /\ messages[e.msg] = [rev |-> e.rev, cites |-> e.ver]
    /\ \E m \in 1..(i - 1) : log[m].msg = e.msg /\ log[m].rev = e.rev
    /\ \/ /\ \E k \in Before(i, "AUTHORITATIVE_REMEDY_VERIFIED", e.rev) :
              log[k].ver = e.ver /\ effect[log[k].act] = "all"
       \/ /\ \E k \in Before(i, "VERIFIED_NO_NEW_ACTION", e.rev) : log[k].ver = e.ver
          /\ Before(i, "ACTION_EFFECT_STARTED", e.rev) = {}

\* A message the case records cites a verification that the case recorded
\* before it, in the same revision: one derived before a revision came in is
\* not recorded after it (communicate_active_verification).
MessageCitesItsRevision ==
  \A i \in DOMAIN log :
    log[i].type \in {"VERIFIED_COMMUNICATION_CREATED", "COMMUNICATION_RECORDED"} =>
      /\ messages[log[i].msg].rev = log[i].rev
      /\ \E k \in 1..(i - 1) :
           /\ log[k].type \in {"AUTHORITATIVE_REMEDY_VERIFIED", "VERIFIED_NO_NEW_ACTION"}
           /\ log[k].rev = log[i].rev
           /\ log[k].ver = messages[log[i].msg].cites

\* A source shows an effect of an action only if the case had announced it and
\* had gone on to ACTION_PENDING before: what a crash leaves in the sources is
\* never unheard of in the ledger.
EffectIsAnnounced ==
  \A a \in Actions : effect[a] # "none" =>
    \E i \in DOMAIN log : log[i].type = "ACTION_EFFECT_STARTED" /\ log[i].act = a

\* A frozen run lies still: "Evaluated runs freeze under the same authority so
\* no writer or adapter mutation remains in flight" (KTD8 of the plan).  It
\* does not: freeze takes the lock and pins every file, but waits for no call,
\* and an adapter that runs and a record that is written look at no
\* freeze.json.
FrozenRunIsStill == [][frozen => UNCHANGED <<log, effect, files>>]_vars

-----------------------------------------------------------------------------
(* Progress.  Callers make the call that the state asks for, with an id not *)
(* used before, again and again; a process in a call goes on with it or     *)
(* crashes; an adapter that is tried again and again returns one time.      *)

Asked(p) ==
  \/ StartExecution(p)
  \/ RetryExecution(p)
  \/ \E v \in Verifications :
       /\ verifications[v] = NoFile
       /\ \/ State = "VERIFYING" /\ Verify(p, v)
          \/ VerifyNoAction(p, v)
  \/ \E m \in Messages :
       /\ messages[m] = NoFile
       /\ State = "VERIFIED_REMEDY" \/ ActiveMessage = NoId
       /\ Communicate(p, m)
  \/ Close(p)

Fairness ==
  /\ \A p \in Procs : WF_vars(Continue(p))
  /\ SF_vars(\E p \in Procs : Asked(p))
  /\ SF_vars(\E p \in Procs : AdapterReturns(p))

FairSpec == Spec /\ Fairness

\* A late outcome of an earlier revision's action has become the active one.
Superseded == ActiveAction # NoAction /\ ~Bound(ActiveAction)

\* A case on which the next call is up to the service, and which nothing has
\* spoiled, does not wait for ever: an action reserved, failed without half a
\* remedy, executed or verified, and a direct condition, get to their closure.
\* Two states are left out: a recommendation not yet routed and ACTION_PENDING.
ServedCaseMovesOn ==
  []<>( \/ frozen \/ Superseded
        \/ NoFile \notin {verifications[v] : v \in Verifications}
        \/ NoFile \notin {messages[m] : m \in Messages}
        \/ ~ \/ State \in {"ACTION_RESERVED", "VERIFYING", "VERIFIED_REMEDY",
                            "COMMUNICATION_READY"}
             \/ State = "ACTION_RECOVERY" /\ effect[ActiveAction] # "some"
             \/ State = "RECOMMENDATION_READY" /\ route = "DIRECT_NO_ACTION")

\* An action whose effects are all in the sources gets its receipt recorded,
\* by the process that ran it or by a retry after it was killed (acceptance
\* example AE10 of the plan).  It need not: ACTION_PENDING has no retry.
EffectIsReconciled ==
  \A a \in Actions : effect[a] = "all" ~> (frozen \/ Receipts(a) # {})
=============================================================================

----------------------- MODULE RecoveryWorkflowProofs -----------------------
(***************************************************************************)
(* Proofs about RecoveryWorkflow, for any processes, actions, routes,      *)
(* names and bounds.  WorkflowInv is shown inductive, action by action;    *)
(* the safety properties follow.                                           *)
(***************************************************************************)
EXTENDS RecoveryWorkflow, WellFoundedInduction, TLAPS

-----------------------------------------------------------------------------
(* The inductive invariant: what every event of the ledger rests on.       *)

\* An event names only an action that was reserved by then.
ReservedByThen(i) ==
  log[i].act # NoAction =>
    \E k \in 1..i : log[k].type = "ACTION_AUTHORITY_RESERVED" /\ log[k].act = log[i].act

\* A start and an unknown outcome name an action that was started by then.
StartedByThen(i) ==
  log[i].type \in {"ACTION_EFFECT_STARTED", "ACTION_EFFECT_OUTCOME_UNKNOWN"} =>
    /\ log[i].act # NoAction
    /\ \E k \in 1..i : log[k].type = "ACTION_EFFECT_STARTED" /\ log[k].act = log[i].act

\* Only an unknown outcome leads to a recovery.
RecoveryIsUnknown(i) ==
  log[i].to = "ACTION_RECOVERY" => log[i].type = "ACTION_EFFECT_OUTCOME_UNKNOWN"

OutcomeType(class) ==
  CASE class = "VERIFIED_REMEDY"     -> "AUTHORITATIVE_REMEDY_VERIFIED"
    [] class = "VERIFICATION_FAILED" -> "AUTHORITATIVE_VERIFICATION_FAILED"
    [] OTHER                         -> "VERIFIED_NO_NEW_ACTION"

\* The verification v is on disk, and one of the first n events has recorded
\* it, in the revision it was made in.
Recorded(v, rev, n) ==
  /\ v \in Verifications
  /\ verifications[v] \in VerificationType
  /\ verifications[v].rev = rev
  /\ \E k \in 1..n : /\ log[k].type = OutcomeType(verifications[v].class)
                     /\ log[k].rev = rev /\ log[k].ver = v

VerificationOnDisk(i) == log[i].ver # NoId => Recorded(log[i].ver, log[i].rev, i)

MessageOnDisk(i) ==
  /\ log[i].type \in {"VERIFIED_COMMUNICATION_CREATED", "COMMUNICATION_RECORDED",
                      "RECOVERY_WORKFLOW_CLOSED"} => log[i].msg # NoId
  /\ log[i].msg # NoId =>
       /\ log[i].ver # NoId
       /\ messages[log[i].msg] = [rev |-> log[i].rev, cites |-> log[i].ver]
       /\ verifications[log[i].ver].class # "VERIFICATION_FAILED"

RemedyIsDone(i) ==
  log[i].type = "AUTHORITATIVE_REMEDY_VERIFIED" =>
    /\ log[i].act # NoAction /\ log[i].ver # NoId
    /\ effect[log[i].act] = "all"
    /\ \E k \in Before(i, "ACTION_AUTHORITY_RESERVED", log[i].rev) : log[k].act = log[i].act
    /\ verifications[log[i].ver] =
         [act |-> log[i].act, rev |-> log[i].rev, class |-> "VERIFIED_REMEDY"]

MessageBeforeClosure(i) ==
  log[i].type = "RECOVERY_WORKFLOW_CLOSED" =>
    \E m \in 1..(i - 1) : log[m].msg = log[i].msg /\ log[m].rev = log[i].rev

EventOK(i) ==
  /\ ReservedByThen(i) /\ StartedByThen(i) /\ RecoveryIsUnknown(i)
  /\ VerificationOnDisk(i) /\ MessageOnDisk(i)
  /\ RemedyIsDone(i) /\ MessageBeforeClosure(i)

RevisionsInOrder == \A i \in 1..Len(log) : log[i].rev <= Rev

\* Once a revision has its no-action verification, the case only talks and
\* closes in it.
AfterNoAction ==
  (\E i \in 1..Len(log) : log[i].type = "VERIFIED_NO_NEW_ACTION" /\ log[i].rev = Rev)
    => State \in {"COMMUNICATION_READY", "CLOSED"}

\* No revision has both a no-action verification and an action started.
ActsOrNot ==
  \A i, k \in 1..Len(log) :
    log[i].type = "VERIFIED_NO_NEW_ACTION" /\ log[k].type = "ACTION_EFFECT_STARTED"
      => log[i].rev # log[k].rev

(* What a process in a call relies on, and nobody else may spoil.          *)

ActionJobOK(j) ==
  j.op \in {"execute", "receipt", "unknown"} =>
    /\ j.act \in Actions
    /\ \E k \in 1..Len(log) : log[k].type = "ACTION_EFFECT_STARTED" /\ log[k].act = j.act

VerificationOps == {"write_verification", "record_verification"}

VerificationJobOK(j) ==
  j.op \in VerificationOps =>
    /\ j \in [op : VerificationOps, ver : Verifications, record : VerificationType]
    /\ j.record.class = "VERIFIED_NO_NEW_ACTION" <=> j.record.act = NoAction
    /\ j.record.act # NoAction =>
         \E k \in 1..Len(log) : /\ log[k].type = "ACTION_AUTHORITY_RESERVED"
                                /\ log[k].act = j.record.act /\ log[k].rev = j.record.rev
    /\ j.record.class = "VERIFIED_REMEDY" => effect[j.record.act] = "all"
    /\ j.op = "record_verification" => verifications[j.ver] = j.record

MessageOps == {"write_message", "record_message"}

MessageJobOK(j) ==
  j.op \in MessageOps =>
    /\ j \in [op : MessageOps, msg : Messages, record : MessageType]
    /\ Recorded(j.record.cites, j.record.rev, Len(log))
    /\ verifications[j.record.cites].class # "VERIFICATION_FAILED"
    /\ j.op = "record_message" => messages[j.msg] = j.record

ClosureJobOK(j) == j.op = "write_closure" => j.head \in 1..Len(log)

JobOK(j) ==
  ActionJobOK(j) /\ VerificationJobOK(j) /\ MessageJobOK(j) /\ ClosureJobOK(j)

JobsOK == \A p \in Procs : job[p] # NoJob => JobOK(job[p])

WorkflowInv ==
  /\ TypeOK
  /\ RevisionsInOrder
  /\ \A i \in 1..Len(log) : EventOK(i)
  /\ AfterNoAction
  /\ ActsOrNot
  /\ JobsOK
  /\ EffectIsAnnounced

\* What no step takes back: events, committed effects and files.
Kept ==
  /\ Len(log') >= Len(log) /\ \A i \in 1..Len(log) : log'[i] = log[i]
  /\ \A a \in Actions : effect[a] = "all" => effect'[a] = "all"
  /\ \A v \in Verifications : verifications[v] # NoFile => verifications'[v] = verifications[v]
  /\ \A m \in Messages : messages[m] # NoFile => messages'[m] = messages[m]

-----------------------------------------------------------------------------
(* The greatest of a set of positions, and the objects in force.           *)

LEMMA GreatestExists ==
  ASSUME NEW n \in Nat, NEW T \in SUBSET (1..n), T # {}
  PROVE  \E x \in T : \A y \in T : x >= y
<1> DEFINE U == {k \in Nat : n - k \in T}
           R == OpToRel(<, Nat)
<1>1. U \subseteq Nat /\ U # {}
  <2>1. PICK t \in T : TRUE
    OBVIOUS
  <2>2. n - t \in Nat /\ n - (n - t) = t
    BY <2>1
  <2> QED BY <2>1, <2>2
<1>2. PICK k \in U : \A m \in U : ~(<<m, k>> \in R)
  <2>1. IsWellFoundedOn(R, Nat)
    BY NatLessThanWellFounded
  <2> HIDE DEF U, R
  <2> QED BY <1>1, <2>1, WFMin
<1>3. k \in Nat /\ n - k \in T
  BY <1>2
<1>4. \A m \in U : m >= k
  <2> SUFFICES ASSUME NEW m \in Nat, m \in U, m < k
               PROVE  FALSE
    BY <1>3
  <2>1. <<m, k>> \in R
    BY <1>3 DEF OpToRel
  <2> QED BY <1>2, <2>1
<1>5. \A y \in T : n - k >= y
  <2> TAKE y \in T
  <2>1. y \in Int /\ n - y \in U
    <3>1. y \in 1..n /\ n - (n - y) = y /\ n - y \in Nat
      OBVIOUS
    <3> QED BY <3>1
  <2>2. n - y >= k
    BY <1>4, <2>1
  <2> HIDE DEF U, R
  <2> QED BY <2>1, <2>2, <1>3
<1> QED BY <1>3, <1>5

LEMMA MaxIsThere ==
  ASSUME NEW n \in Nat, NEW T \in SUBSET (1..n), T # {}
  PROVE  Max(T) \in T /\ \A y \in T : Max(T) >= y
<1>1. \E x \in T : \A y \in T : x >= y
  BY GreatestExists
<1> QED BY <1>1 DEF Max

LEMMA MaxIsLast ==
  ASSUME NEW n \in Nat, NEW T \in SUBSET (1..n), n \in T
  PROVE  Max(T) = n
<1>1. Max(T) \in T /\ \A y \in T : Max(T) >= y
  BY MaxIsThere
<1>2. Max(T) \in 1..n /\ Max(T) >= n
  BY <1>1
<1> HIDE DEF Max
<1> QED BY <1>2

LEMMA LogType ==
  ASSUME TypeOK
  PROVE  /\ Len(log) \in Nat \ {0} /\ DOMAIN log = 1..Len(log)
         /\ \A i \in 1..Len(log) : log[i] \in EventType
         /\ Rev \in 1..MaxRevision
<1>1. log \in Seq(EventType) /\ log # <<>>
  BY DEF TypeOK
<1> HIDE DEF EventType
<1>2. Len(log) \in Nat \ {0} /\ DOMAIN log = 1..Len(log) /\ \A i \in 1..Len(log) : log[i] \in EventType
  BY <1>1
<1>3. log[Len(log)] \in EventType
  BY <1>2
<1> QED BY <1>2, <1>3 DEF EventType, Rev

\* An action in force is named by an event of the revision in force.
LEMMA ActionInForce ==
  ASSUME TypeOK
  PROVE  /\ ActiveAction # NoAction =>
              \E i \in 1..Len(log) : log[i].rev = Rev /\ log[i].act = ActiveAction
         /\ ActiveAction = NoAction =>
              \A i \in 1..Len(log) : log[i].rev = Rev => log[i].act = NoAction
         /\ log[Len(log)].act # NoAction => ActiveAction = log[Len(log)].act
<1> DEFINE T == {i \in 1..Len(log) : log[i].rev = Rev /\ log[i].act # NoAction}
<1>1. ActiveAction = IF T = {} THEN NoAction ELSE log[Max(T)].act
  BY LogType DEF ActiveAction, Active
<1>2. Len(log) \in Nat \ {0} /\ T \in SUBSET (1..Len(log))
  BY LogType
<1>3. T # {} => Max(T) \in T
  <2> HIDE DEF T
  <2> QED BY <1>2, MaxIsThere
<1>4. Len(log) \in T => Max(T) = Len(log)
  <2> HIDE DEF T
  <2> QED BY <1>2, MaxIsLast
<1>5. log[Len(log)].act # NoAction => Len(log) \in T
  BY <1>2 DEF Rev
<1> HIDE DEF Max
<1> QED BY <1>1, <1>2, <1>3, <1>4, <1>5

LEMMA VerificationInForce ==
  ASSUME TypeOK, ActiveVerification # NoId
  PROVE  \E i \in 1..Len(log) : log[i].rev = Rev /\ log[i].ver = ActiveVerification
<1> DEFINE T == {i \in 1..Len(log) : log[i].rev = Rev /\ log[i].ver # NoId}
<1>1. ActiveVerification = IF T = {} THEN NoId ELSE log[Max(T)].ver
  BY LogType DEF ActiveVerification, Active
<1>2. Len(log) \in Nat \ {0} /\ T \in SUBSET (1..Len(log))
  BY LogType
<1>3. T # {} => Max(T) \in T
  <2> HIDE DEF T
  <2> QED BY <1>2, MaxIsThere
<1> HIDE DEF Max
<1> QED BY <1>1, <1>3

LEMMA MessageInForce ==
  ASSUME TypeOK, ActiveMessage # NoId
  PROVE  \E i \in 1..Len(log) : log[i].rev = Rev /\ log[i].msg = ActiveMessage
<1> DEFINE T == {i \in 1..Len(log) : log[i].rev = Rev /\ log[i].msg # NoId}
<1>1. ActiveMessage = IF T = {} THEN NoId ELSE log[Max(T)].msg
  BY LogType DEF ActiveMessage, Active
<1>2. Len(log) \in Nat \ {0} /\ T \in SUBSET (1..Len(log))
  BY LogType
<1>3. T # {} => Max(T) \in T
  <2> HIDE DEF T
  <2> QED BY <1>2, MaxIsThere
<1> HIDE DEF Max
<1> QED BY <1>1, <1>3

-----------------------------------------------------------------------------
(* What an event or a process relies on is kept.                           *)

LEMMA RecordedStays ==
  ASSUME TypeOK, Kept, NEW n \in 1..Len(log), NEW v, NEW rev, Recorded(v, rev, n)
  PROVE  Recorded(v, rev, n)' /\ verifications'[v] = verifications[v]
<1>1. v \in Verifications /\ verifications[v] \in VerificationType
  BY DEF Recorded
<1>2. verifications'[v] = verifications[v]
  BY <1>1, NothingAssumption DEF Kept
<1>3. \A k \in 1..n : log'[k] = log[k]
  BY LogType DEF Kept
<1> HIDE DEF VerificationType, OutcomeType
<1> QED BY <1>1, <1>2, <1>3 DEF Recorded

LEMMA EventStays ==
  ASSUME TypeOK, Kept, NEW i \in 1..Len(log), EventOK(i)
  PROVE  EventOK(i)'
<1>1. /\ \A k \in 1..i : log'[k] = log[k] /\ log[k] \in EventType
      /\ log'[i] = log[i] /\ log[i] \in EventType /\ i \in Nat
  BY LogType DEF Kept
<1>2. /\ log[i].act \in Actions \cup {NoAction}
      /\ log[i].ver \in Verifications \cup {NoId}
      /\ log[i].msg \in Messages \cup {NoId}
      /\ log[i].rev \in 1..MaxRevision
  BY <1>1 DEF EventType
<1> HIDE DEF EventType
<1>3. ReservedByThen(i)' /\ StartedByThen(i)' /\ RecoveryIsUnknown(i)'
  BY <1>1 DEF EventOK, ReservedByThen, StartedByThen, RecoveryIsUnknown
<1>4. log[i].ver # NoId =>
        /\ Recorded(log[i].ver, log[i].rev, i) /\ Recorded(log[i].ver, log[i].rev, i)'
        /\ verifications'[log[i].ver] = verifications[log[i].ver]
  <2>1. log[i].ver # NoId => Recorded(log[i].ver, log[i].rev, i)
    BY DEF EventOK, VerificationOnDisk
  <2> QED BY <2>1, <1>1, RecordedStays
<1>5. VerificationOnDisk(i)'
  BY <1>1, <1>4 DEF VerificationOnDisk
<1>6. MessageOnDisk(i)'
  <2>1. ASSUME log[i].msg # NoId
        PROVE  messages'[log[i].msg] = messages[log[i].msg]
    <3>1. /\ log[i].ver # NoId
          /\ messages[log[i].msg] = [rev |-> log[i].rev, cites |-> log[i].ver]
      BY <2>1 DEF EventOK, MessageOnDisk
    <3>2. messages[log[i].msg] \in MessageType
      BY <3>1, <1>2 DEF MessageType
    <3> QED BY <3>2, <2>1, <1>2, NothingAssumption DEF Kept
  <2> QED BY <2>1, <1>1, <1>4 DEF EventOK, MessageOnDisk
<1>7. RemedyIsDone(i)'
  <2>1. SUFFICES ASSUME log[i].type = "AUTHORITATIVE_REMEDY_VERIFIED"
                 PROVE  RemedyIsDone(i)'
    BY <1>1 DEF RemedyIsDone
  <2>2. /\ log[i].act # NoAction /\ log[i].ver # NoId /\ effect[log[i].act] = "all"
        /\ \E k \in Before(i, "ACTION_AUTHORITY_RESERVED", log[i].rev) : log[k].act = log[i].act
        /\ verifications[log[i].ver] =
             [act |-> log[i].act, rev |-> log[i].rev, class |-> "VERIFIED_REMEDY"]
    BY <2>1 DEF EventOK, RemedyIsDone
  <2>3. effect'[log[i].act] = "all"
    BY <2>2, <1>2 DEF Kept
  <2>4. \E k \in Before(i, "ACTION_AUTHORITY_RESERVED", log[i].rev)' : log'[k].act = log[i].act
    BY <2>2, <1>1 DEF Before
  <2> QED BY <2>2, <2>3, <2>4, <1>1, <1>4 DEF RemedyIsDone
<1>8. MessageBeforeClosure(i)'
  BY <1>1 DEF EventOK, MessageBeforeClosure
<1> QED BY <1>3, <1>5, <1>6, <1>7, <1>8 DEF EventOK

LEMMA JobStays ==
  ASSUME TypeOK, Kept, Len(log') \in Nat, NEW j, JobOK(j)
  PROVE  JobOK(j)'
<1>1. \A k \in 1..Len(log) : k \in 1..Len(log') /\ log'[k] = log[k]
  BY LogType DEF Kept
<1>2. Len(log) \in 1..Len(log)
  BY LogType
<1>3. ActionJobOK(j)'
  BY <1>1 DEF JobOK, ActionJobOK
<1>4. VerificationJobOK(j)'
  <2>1. SUFFICES ASSUME j.op \in VerificationOps
                 PROVE  VerificationJobOK(j)'
    BY DEF VerificationJobOK
  <2>2. j \in [op : VerificationOps, ver : Verifications, record : VerificationType]
    BY <2>1 DEF JobOK, VerificationJobOK
  <2>3. j.ver \in Verifications /\ j.record \in VerificationType
    BY <2>2
  <2>4. j.record.act \in Actions \cup {NoAction}
    BY <2>3 DEF VerificationType
  <2>5. j.record.class = "VERIFIED_REMEDY" => effect'[j.record.act] = "all"
    BY <2>1, <2>4 DEF JobOK, VerificationJobOK, Kept
  <2>6. j.op = "record_verification" => verifications'[j.ver] = j.record
    BY <2>1, <2>3, NothingAssumption DEF JobOK, VerificationJobOK, Kept
  <2>7. j.record.act # NoAction =>
         \E k \in 1..Len(log') : /\ log'[k].type = "ACTION_AUTHORITY_RESERVED"
                                /\ log'[k].act = j.record.act /\ log'[k].rev = j.record.rev
    BY <2>1, <1>1 DEF JobOK, VerificationJobOK
  <2> QED BY <2>1, <2>2, <2>5, <2>6, <2>7 DEF JobOK, VerificationJobOK
<1>5. MessageJobOK(j)'
  <2>1. SUFFICES ASSUME j.op \in MessageOps
                 PROVE  MessageJobOK(j)'
    BY DEF MessageJobOK
  <2>2. /\ j \in [op : MessageOps, msg : Messages, record : MessageType]
        /\ Recorded(j.record.cites, j.record.rev, Len(log))
        /\ verifications[j.record.cites].class # "VERIFICATION_FAILED"
        /\ j.op = "record_message" => messages[j.msg] = j.record
    BY <2>1 DEF JobOK, MessageJobOK
  <2>3. j.msg \in Messages /\ j.record \in MessageType
    BY <2>2
  <2>4. /\ Recorded(j.record.cites, j.record.rev, Len(log))
        /\ verifications'[j.record.cites] = verifications[j.record.cites]
    BY <2>2, <1>2, RecordedStays
  <2>5. Recorded(j.record.cites, j.record.rev, Len(log))'
    BY <2>4, <1>1 DEF Recorded
  <2>6. j.op = "record_message" => messages'[j.msg] = j.record
    BY <2>2, <2>3, NothingAssumption DEF Kept
  <2> QED BY <2>2, <2>4, <2>5, <2>6 DEF MessageJobOK
<1>6. ClosureJobOK(j)'
  BY <1>1 DEF JobOK, ClosureJobOK
<1> QED BY <1>3, <1>4, <1>5, <1>6 DEF JobOK

-----------------------------------------------------------------------------
(* The two ways a step keeps the invariant.                                *)

\* The process goes on as it was, returns, or has what its next step needs.
JobsMoveOn ==
  \A p \in Procs : \/ job'[p] = job[p] \/ job'[p] = NoJob
                   \/ JobOK(job[p])'

LEMMA JobsStay ==
  ASSUME WorkflowInv, Kept, Len(log') \in Nat, JobsMoveOn
  PROVE  JobsOK'
<1> SUFFICES ASSUME NEW p \in Procs, job'[p] # NoJob
             PROVE  JobOK(job[p])'
  BY DEF JobsOK
<1>1. CASE job'[p] = job[p]
  <2>1. JobOK(job[p])
    BY <1>1 DEF WorkflowInv, JobsOK
  <2>2. ASSUME NEW j, j = job[p]
        PROVE  JobOK(j)'
    BY <2>1, <2>2, JobStays DEF WorkflowInv
  <2>3. PICK j : j = job[p]
    OBVIOUS
  <2>4. JobOK(j)'
    BY <2>2, <2>3
  <2>5. j = job'[p]
    BY <2>3, <1>1
  <2> QED BY <2>4, <2>5
<1>2. CASE job'[p] # job[p]
  BY <1>2 DEF JobsMoveOn
<1> QED BY <1>1, <1>2

\* A step that leaves the ledger alone.
LEMMA QuietStep ==
  ASSUME WorkflowInv, UNCHANGED log, TypeOK', Kept, EffectIsAnnounced', JobsMoveOn
  PROVE  WorkflowInv'
<1>1. \A i \in 1..Len(log') : EventOK(i)'
  BY EventStays DEF WorkflowInv
<1>2. JobsOK'
  BY JobsStay, LogType DEF WorkflowInv
<1>3. RevisionsInOrder' /\ AfterNoAction' /\ ActsOrNot'
  BY DEF WorkflowInv, RevisionsInOrder, AfterNoAction, ActsOrNot, Rev, State
<1> QED BY <1>1, <1>2, <1>3 DEF WorkflowInv

\* A step that appends the event e, which stays within its revision or opens
\* the next one.
LEMMA CommitStep ==
  ASSUME WorkflowInv, NEW e \in EventType,
         log' = Append(log, e), e.rev \in {Rev, Rev + 1},
         UNCHANGED <<effect, verifications, messages, closures, crashes>>,
         route' \in Routes, frozen' \in BOOLEAN, DOMAIN job' = Procs,
         EventOK(Len(log))',
         e.type = "ACTION_EFFECT_STARTED" => e.rev = Rev /\ State = "ACTION_RESERVED",
         e.type = "VERIFIED_NO_NEW_ACTION" =>
           e.rev = Rev /\ e.to = "COMMUNICATION_READY" /\ ActiveAction = NoAction,
         e.rev = Rev /\ State \in {"COMMUNICATION_READY", "CLOSED"}
           => e.to \in {"COMMUNICATION_READY", "CLOSED"},
         JobsMoveOn
  PROVE  WorkflowInv'
<1> DEFINE n == Len(log)
<1>1. /\ n \in Nat \ {0} /\ Len(log') = n + 1 /\ log'[n + 1] = e
      /\ \A i \in 1..n : log'[i] = log[i] /\ log[i] \in EventType
      /\ 1..Len(log') = 1..n \cup {n + 1}
      /\ log' \in Seq(EventType) /\ log' # <<>>
  <2>1. log \in Seq(EventType) /\ n \in Nat \ {0}
    BY LogType DEF WorkflowInv, TypeOK
  <2> HIDE DEF EventType
  <2> QED BY <2>1
<1>2. Rev \in 1..MaxRevision /\ Rev' = e.rev /\ State' = e.to
  BY <1>1, LogType DEF WorkflowInv, Rev, State
<1> HIDE DEF EventType
<1>3. Kept
  BY <1>1 DEF Kept
<1>4. TypeOK'
  BY <1>1 DEF WorkflowInv, TypeOK
<1>5. \A i \in 1..Len(log') : EventOK(i)'
  <2>1. \A i \in 1..n : EventOK(i)'
    BY <1>3, EventStays DEF WorkflowInv
  <2>2. ASSUME NEW i, i = Len(log')
        PROVE  EventOK(i)'
    BY <2>2
  <2> QED BY <1>1, <2>1, <2>2
<1>6. RevisionsInOrder'
  <2>1. \A i \in 1..n : log[i].rev <= Rev /\ log[i].rev \in Int
    BY <1>1 DEF WorkflowInv, RevisionsInOrder, EventType
  <2> QED BY <1>1, <1>2, <2>1 DEF RevisionsInOrder
<1>7. AfterNoAction'
  <2> SUFFICES ASSUME NEW i \in 1..Len(log'),
                      log'[i].type = "VERIFIED_NO_NEW_ACTION", log'[i].rev = Rev'
               PROVE  State' \in {"COMMUNICATION_READY", "CLOSED"}
    BY DEF AfterNoAction
  <2>1. CASE i = n + 1
    BY <2>1, <1>1, <1>2
  <2>2. CASE i \in 1..n
    <3>1. log[i].rev <= Rev
      BY <2>2 DEF WorkflowInv, RevisionsInOrder
    <3>2. e.rev = Rev /\ log[i].rev = Rev
      BY <3>1, <2>2, <1>1, <1>2
    <3>3. State \in {"COMMUNICATION_READY", "CLOSED"}
      BY <3>2, <2>2, <1>1 DEF WorkflowInv, AfterNoAction
    <3> QED BY <3>2, <3>3, <1>2
  <2> QED BY <2>1, <2>2, <1>1
<1>8. ActsOrNot'
  <2> SUFFICES ASSUME NEW i \in 1..Len(log'), NEW k \in 1..Len(log'),
                      log'[i].type = "VERIFIED_NO_NEW_ACTION",
                      log'[k].type = "ACTION_EFFECT_STARTED",
                      log'[i].rev = log'[k].rev
               PROVE  FALSE
    BY DEF ActsOrNot
  <2>1. CASE i \in 1..n /\ k \in 1..n
    BY <2>1, <1>1 DEF WorkflowInv, ActsOrNot
  <2>2. CASE i \in 1..n /\ k = n + 1
    <3>1. log[i].rev = Rev /\ State = "ACTION_RESERVED"
      BY <2>2, <1>1
    <3> QED BY <3>1, <2>2, <1>1 DEF WorkflowInv, AfterNoAction
  <2>3. CASE i = n + 1 /\ k \in 1..n
    <3>1. log[k].rev = Rev /\ log[k].act = NoAction
      BY <2>3, <1>1, ActionInForce DEF WorkflowInv
    <3> QED BY <3>1, <2>3, <1>1 DEF WorkflowInv, EventOK, StartedByThen
  <2>4. CASE i = n + 1 /\ k = n + 1
    BY <2>4, <1>1
  <2> QED BY <2>1, <2>2, <2>3, <2>4, <1>1
<1>9. JobsOK'
  BY <1>1, <1>3, JobsStay
<1>10. EffectIsAnnounced'
  <2> SUFFICES ASSUME NEW a \in Actions, effect'[a] # "none"
               PROVE  \E i \in DOMAIN log' : log'[i].type = "ACTION_EFFECT_STARTED" /\ log'[i].act = a
    BY DEF EffectIsAnnounced
  <2>1. PICK i \in 1..n : log[i].type = "ACTION_EFFECT_STARTED" /\ log[i].act = a
    BY LogType DEF WorkflowInv, EffectIsAnnounced
  <2>2. DOMAIN log' = 1..Len(log')
    BY <1>1
  <2> QED BY <2>1, <2>2, <1>1
<1> QED BY <1>4, <1>5, <1>6, <1>7, <1>8, <1>9, <1>10 DEF WorkflowInv

\* Events with nothing to say of an action, a verification or a message.
LEMMA PlainEvent ==
  ASSUME TypeOK, NEW e, log' = Append(log, e),
         e.act = NoAction, e.ver = NoId, e.msg = NoId, e.to # "ACTION_RECOVERY",
         e.type \notin {"ACTION_EFFECT_STARTED", "ACTION_EFFECT_OUTCOME_UNKNOWN",
                        "AUTHORITATIVE_REMEDY_VERIFIED", "VERIFIED_COMMUNICATION_CREATED",
                        "COMMUNICATION_RECORDED", "RECOVERY_WORKFLOW_CLOSED"}
  PROVE  EventOK(Len(log))'
<1>1. log'[Len(log')] = e
  BY LogType DEF TypeOK
<1> QED
  BY <1>1 DEF EventOK, ReservedByThen, StartedByThen, RecoveryIsUnknown, VerificationOnDisk,
              MessageOnDisk, RemedyIsDone, MessageBeforeClosure

LEMMA PlainCommit ==
  ASSUME WorkflowInv, NEW to \in WorkflowState \ {"ACTION_RECOVERY"},
         NEW type \in {"CASE_DEDUPLICATED", "INTAKE_EVIDENCE_BLOCKED", "CONTEXT_ASSEMBLED",
                       "CONTEXT_REASSEMBLED", "RECOMMENDATION_RECORDED", "CONTROL_STOP_APPLIED",
                       "CUSTOMER_CHOICE_REQUIRED", "AUTHORITY_DECISION_REQUIRED",
                       "EXACT_ACTION_PREPARATION_STARTED"},
         Commit(Event(type, to)), State \notin {"COMMUNICATION_READY", "CLOSED"},
         UNCHANGED <<route, effect, files, frozen, crashes>>,
         DOMAIN job' = Procs, JobsMoveOn
  PROVE  WorkflowInv'
<1> DEFINE e == Event(type, to)
<1>1. /\ e \in EventType /\ e.type = type /\ e.to = to /\ e.rev = Rev
      /\ e.act = NoAction /\ e.ver = NoId /\ e.msg = NoId
  BY LogType DEF WorkflowInv, Event, EventType
<1>2. log' = Append(log, e)
  BY DEF Commit
<1> HIDE DEF e
<1>3. EventOK(Len(log))'
  BY <1>1, <1>2, PlainEvent DEF WorkflowInv
<1>4. route' \in Routes /\ frozen' \in BOOLEAN
  BY DEF WorkflowInv, TypeOK
<1> QED BY <1>1, <1>2, <1>3, <1>4, CommitStep DEF files

-----------------------------------------------------------------------------
(* Every action keeps the invariant.                                       *)

LEMMA InitHolds == Init => WorkflowInv
<1> SUFFICES ASSUME Init
             PROVE  WorkflowInv
  OBVIOUS
<1> DEFINE e == [type |-> "CASE_RECEIVED", to |-> "RECEIVED", rev |-> 1,
                 act |-> NoAction, ver |-> NoId, msg |-> NoId]
<1>1. log = <<e>> /\ Len(log) = 1 /\ log[1] = e /\ DOMAIN log = {1} /\ 1..Len(log) = {1}
  BY DEF Init
<1>2. e \in EventType
  BY BoundsAssumption DEF EventType, WorkflowState
<1>3. TypeOK
  <2>1. log \in Seq(EventType) /\ log # <<>>
    BY <1>1, <1>2
  <2>2. /\ route \in Routes /\ effect \in [Actions -> {"none", "some", "all"}]
        /\ verifications \in [Verifications -> VerificationType \cup {NoFile}]
        /\ messages \in [Messages -> MessageType \cup {NoFile}]
    BY DEF Init
  <2>3. closures \subseteq 1..Len(log) /\ DOMAIN job = Procs
    BY DEF Init
  <2>4. crashes \in 0..MaxCrashes
    BY BoundsAssumption DEF Init
  <2>5. frozen \in BOOLEAN
    BY DEF Init
  <2> QED BY <2>1, <2>2, <2>3, <2>4, <2>5 DEF TypeOK
<1>4. EventOK(1)
  BY <1>1 DEF EventOK, ReservedByThen, StartedByThen, RecoveryIsUnknown, VerificationOnDisk,
              MessageOnDisk, RemedyIsDone, MessageBeforeClosure
<1>5. RevisionsInOrder /\ AfterNoAction /\ ActsOrNot
  BY <1>1 DEF RevisionsInOrder, AfterNoAction, ActsOrNot, Rev
<1>6. JobsOK /\ EffectIsAnnounced
  BY DEF Init, JobsOK, EffectIsAnnounced
<1> QED BY <1>1, <1>3, <1>4, <1>5, <1>6 DEF WorkflowInv

LEMMA AdvanceKeeps ==
  ASSUME WorkflowInv, Advance
  PROVE  WorkflowInv'
<1>1. PICK to \in {"DEDUPLICATED", "EVIDENCE_BLOCKED", "CONTEXT_READY"} :
        <<State, to>> \in IntakeSteps /\ Commit(Event(IntakeEvent(State, to), to))
  BY DEF Advance
<1>2. State \in {"RECEIVED", "DEDUPLICATED", "EVIDENCE_BLOCKED"}
  BY <1>1 DEF IntakeSteps
<1>3. IntakeEvent(State, to) \in {"CASE_DEDUPLICATED", "INTAKE_EVIDENCE_BLOCKED",
                                  "CONTEXT_ASSEMBLED", "CONTEXT_REASSEMBLED"}
  BY <1>1 DEF IntakeSteps, IntakeEvent
<1>4. /\ UNCHANGED <<route, effect, files, frozen, crashes>>
      /\ DOMAIN job' = Procs /\ JobsMoveOn
  BY DEF Advance, JobsMoveOn, WorkflowInv, TypeOK
<1>5. to \in WorkflowState \ {"ACTION_RECOVERY"}
  BY DEF WorkflowState
<1> QED BY <1>1, <1>2, <1>3, <1>4, <1>5, PlainCommit

LEMMA RecommendKeeps ==
  ASSUME WorkflowInv, NEW p \in Procs, Recommend(p)
  PROVE  WorkflowInv'
<1>1. /\ Commit(Event("RECOMMENDATION_RECORDED", "RECOMMENDATION_READY"))
      /\ State = "CONTEXT_READY"
      /\ UNCHANGED <<route, effect, files, frozen, crashes>>
  BY DEF Recommend
<1>2. DOMAIN job' = Procs /\ JobsMoveOn
  <2>1. CASE UNCHANGED job
    BY <2>1 DEF JobsMoveOn, WorkflowInv, TypeOK
  <2>2. CASE job' = [job EXCEPT ![p] = [op |-> "route", head |-> Len(log) + 1, route |-> route]]
    <3>1. DOMAIN job' = Procs /\ \A q \in Procs : job'[q] =
            IF q = p THEN [op |-> "route", head |-> Len(log) + 1, route |-> route] ELSE job[q]
      BY <2>2 DEF WorkflowInv, TypeOK
    <3>2. job'[p].op = "route"
      BY <3>1
    <3>3. JobOK(job[p])'
      BY <3>2 DEF JobOK, ActionJobOK, VerificationJobOK, VerificationOps, MessageJobOK,
                  MessageOps, ClosureJobOK
    <3> QED BY <3>1, <3>3 DEF JobsMoveOn
  <2> QED BY <2>1, <2>2 DEF Recommend
<1>3. "RECOMMENDATION_READY" \in WorkflowState \ {"ACTION_RECOVERY"}
  BY DEF WorkflowState
<1> QED BY <1>1, <1>2, <1>3, PlainCommit

\* A call that ends, or is given up.
LEMMA ReturnMovesOn ==
  ASSUME WorkflowInv, NEW p \in Procs, Return(p)
  PROVE  DOMAIN job' = Procs /\ JobsMoveOn
BY DEF Return, JobsMoveOn, WorkflowInv, TypeOK

LEMMA RouteKeeps ==
  ASSUME WorkflowInv, NEW p \in Procs, RouteRecommendation(p)
  PROVE  WorkflowInv'
<1> DEFINE r == job[p].route
<1>1. /\ r \in {"SPECIALIST_STOP", "AWAITING_CHOICE"} \cup ApprovalRoutes
      /\ Commit(Event(RouteEvent(r), RouteTarget[r]))
      /\ UNCHANGED <<route, effect, files, frozen, crashes>>
      /\ Return(p)
  BY DEF RouteRecommendation, RouteTarget
<1> HIDE DEF r
<1>2. /\ RouteEvent(r) \in {"CONTROL_STOP_APPLIED", "CUSTOMER_CHOICE_REQUIRED",
                            "AUTHORITY_DECISION_REQUIRED"}
      /\ RouteTarget[r] \in {"CONTROL_STOPPED", "AWAITING_CHOICE", "AWAITING_APPROVAL"}
  BY <1>1 DEF RouteEvent, RouteTarget
<1>3. RouteTarget[r] \in WorkflowState \ {"ACTION_RECOVERY"}
  BY <1>2 DEF WorkflowState
<1>4. State \notin {"COMMUNICATION_READY", "CLOSED"}
  <2>1. CanApply(State, RouteTarget[r], RouteEvent(r))
    <3>1. Event(RouteEvent(r), RouteTarget[r]).to = RouteTarget[r]
          /\ Event(RouteEvent(r), RouteTarget[r]).type = RouteEvent(r)
      BY DEF Event
    <3> QED BY <1>1, <3>1 DEF Commit
  <2>2. <<State, RouteTarget[r]>> \in Legal
    BY <2>1, <1>2 DEF CanApply, CanTransition, NonTransitionEventTypes, RecoveryEventTypes,
                      SourceRevised, CaseReopened
  <2> QED BY <2>2, <1>2 DEF Legal
<1>5. DOMAIN job' = Procs /\ JobsMoveOn
  BY <1>1, ReturnMovesOn
<1> QED BY <1>1, <1>2, <1>3, <1>4, <1>5, PlainCommit

LEMMA PrepareKeeps ==
  ASSUME WorkflowInv, PrepareAction
  PROVE  WorkflowInv'
<1>1. /\ Commit(Event("EXACT_ACTION_PREPARATION_STARTED", "ACTION_PREPARED"))
      /\ State = "AWAITING_APPROVAL"
      /\ UNCHANGED <<route, effect, files, frozen, crashes>>
      /\ DOMAIN job' = Procs /\ JobsMoveOn
  BY DEF PrepareAction, JobsMoveOn, WorkflowInv, TypeOK
<1>2. "ACTION_PREPARED" \in WorkflowState \ {"ACTION_RECOVERY"}
  BY DEF WorkflowState
<1> QED BY <1>1, <1>2, PlainCommit

LEMMA ReviseKeeps ==
  ASSUME WorkflowInv, Revise
  PROVE  WorkflowInv'
<1>1. PICK type \in RevisionEventTypes :
        Commit([Event(type, "EVIDENCE_BLOCKED") EXCEPT !.rev = NextRevision])
  BY DEF Revise
<1> DEFINE e == [Event(type, "EVIDENCE_BLOCKED") EXCEPT !.rev = NextRevision]
<1>2. /\ e \in EventType /\ e.type = type /\ e.to = "EVIDENCE_BLOCKED" /\ e.rev = Rev + 1
      /\ e.act = NoAction /\ e.ver = NoId /\ e.msg = NoId
  <2>1. Rev \in 1..MaxRevision /\ Rev + 1 \in 1..MaxRevision
    BY LogType, BoundsAssumption DEF WorkflowInv, Revise
  <2> QED BY <2>1 DEF Event, EventType, NextRevision, WorkflowState
<1>3. log' = Append(log, e)
  BY <1>1 DEF Commit
<1>4. type \in {"SOURCE_REVISION_CHANGED", "CASE_REOPENED_WITH_SOURCE_REVISION"}
  BY DEF RevisionEventTypes, SourceRevised, CaseReopened
<1> HIDE DEF e
<1>5. EventOK(Len(log))'
  BY <1>2, <1>3, <1>4, PlainEvent DEF WorkflowInv
<1>6. /\ route' \in Routes /\ frozen' \in BOOLEAN /\ DOMAIN job' = Procs /\ JobsMoveOn
      /\ UNCHANGED <<effect, verifications, messages, closures, crashes>>
  BY DEF Revise, JobsMoveOn, WorkflowInv, TypeOK, files
<1>7. Rev # Rev + 1
  BY LogType DEF WorkflowInv
<1> QED BY <1>2, <1>3, <1>4, <1>5, <1>6, <1>7, CommitStep

\* The event that an append leaves at the end.
LEMMA AppendedEvent ==
  ASSUME TypeOK, NEW e, log' = Append(log, e)
  PROVE  /\ Len(log) \in Nat \ {0} /\ Len(log') = Len(log) + 1 /\ log'[Len(log')] = e
         /\ \A i \in 1..Len(log) : log'[i] = log[i]
BY LogType DEF TypeOK

\* An action in force was reserved, and a bound one in the revision in force.
LEMMA ActionReserved ==
  ASSUME WorkflowInv, ActiveAction # NoAction
  PROVE  /\ ActiveAction \in Actions
         /\ \E k \in 1..Len(log) : /\ log[k].type = "ACTION_AUTHORITY_RESERVED"
                                   /\ log[k].act = ActiveAction
<1>1. PICK i \in 1..Len(log) : log[i].act = ActiveAction
  BY ActionInForce DEF WorkflowInv
<1>2. log[i] \in EventType /\ Len(log) \in Nat
  BY LogType DEF WorkflowInv
<1>3. ActiveAction \in Actions
  BY <1>1, <1>2 DEF EventType
<1>4. ReservedByThen(i)
  BY DEF WorkflowInv, EventOK
<1> QED BY <1>1, <1>2, <1>3, <1>4 DEF ReservedByThen

LEMMA BoundIsReserved ==
  ASSUME WorkflowInv, Bound(ActiveAction)
  PROVE  /\ ActiveAction \in Actions
         /\ \E k \in 1..Len(log) : /\ log[k].type = "ACTION_AUTHORITY_RESERVED"
                                   /\ log[k].act = ActiveAction /\ log[k].rev = Rev
<1>1. ActiveAction \in Actions /\ Reservations(ActiveAction) # {}
  BY ActionReserved, LogType DEF Bound, Reservations, WorkflowInv
<1> DEFINE k == CHOOSE i \in Reservations(ActiveAction) : TRUE
<1>2. k \in Reservations(ActiveAction) /\ log[k].rev = Rev
  BY <1>1 DEF Bound, BuiltFor
<1> HIDE DEF k
<1> QED BY <1>1, <1>2, LogType DEF Reservations, WorkflowInv

LEMMA ReserveKeeps ==
  ASSUME WorkflowInv, NEW a \in Actions, ReserveAction(a)
  PROVE  WorkflowInv'
<1> DEFINE e == [Event("ACTION_AUTHORITY_RESERVED", "ACTION_RESERVED") EXCEPT !.act = a]
<1>1. /\ e \in EventType /\ e.type = "ACTION_AUTHORITY_RESERVED" /\ e.to = "ACTION_RESERVED"
      /\ e.rev = Rev /\ e.act = a /\ e.ver = NoId /\ e.msg = NoId
  BY LogType DEF WorkflowInv, Event, EventType, WorkflowState
<1>2. log' = Append(log, e)
  BY DEF ReserveAction, Commit
<1> HIDE DEF e
<1>3. EventOK(Len(log))'
  <2>1. Len(log') \in 1..Len(log') /\ log'[Len(log')] = e
    BY <1>2, AppendedEvent DEF WorkflowInv
  <2> QED
    BY <1>1, <2>1 DEF EventOK, ReservedByThen, StartedByThen, RecoveryIsUnknown,
                      VerificationOnDisk, MessageOnDisk, RemedyIsDone, MessageBeforeClosure
<1>4. /\ State = "ACTION_PREPARED"
      /\ route' \in Routes /\ frozen' \in BOOLEAN /\ DOMAIN job' = Procs /\ JobsMoveOn
      /\ UNCHANGED <<effect, verifications, messages, closures, crashes>>
  BY DEF ReserveAction, JobsMoveOn, WorkflowInv, TypeOK, files
<1> QED BY <1>1, <1>2, <1>3, <1>4, CommitStep

-----------------------------------------------------------------------------
(* Execution.                                                              *)

\* A process takes up, or goes on to, the job r.
LEMMA JobTaken ==
  ASSUME WorkflowInv, NEW p \in Procs, NEW r, job' = [job EXCEPT ![p] = r], JobOK(r)'
  PROVE  DOMAIN job' = Procs /\ JobsMoveOn
<1>1. DOMAIN job' = Procs /\ \A q \in Procs : job'[q] = IF q = p THEN r ELSE job[q]
  BY DEF WorkflowInv, TypeOK
<1>2. JobOK(job[p])'
  BY <1>1
<1> QED BY <1>1, <1>2 DEF JobsMoveOn

\* A step that changes nothing but what a process is at.
LEMMA JobStep ==
  ASSUME WorkflowInv, DOMAIN job' = Procs, JobsMoveOn,
         UNCHANGED <<log, route, effect, files>>,
         frozen' \in BOOLEAN, crashes' \in 0..MaxCrashes
  PROVE  WorkflowInv'
<1>1. TypeOK'
  BY DEF WorkflowInv, TypeOK, files
<1>2. Kept /\ EffectIsAnnounced'
  BY LogType DEF WorkflowInv, Kept, EffectIsAnnounced, files
<1> QED BY <1>1, <1>2, QuietStep

\* A step of the adapter on an action that was started.
LEMMA EffectStep ==
  ASSUME WorkflowInv, NEW a \in Actions, NEW s \in {"none", "some", "all"},
         \E k \in 1..Len(log) : log[k].type = "ACTION_EFFECT_STARTED" /\ log[k].act = a,
         effect' = [effect EXCEPT ![a] = s], effect[a] = "all" => s = "all",
         DOMAIN job' = Procs, JobsMoveOn,
         UNCHANGED <<log, route, files, frozen, crashes>>
  PROVE  WorkflowInv'
<1>1. /\ effect \in [Actions -> {"none", "some", "all"}]
      /\ effect' \in [Actions -> {"none", "some", "all"}]
      /\ \A b \in Actions : effect'[b] = IF b = a THEN s ELSE effect[b]
  BY DEF WorkflowInv, TypeOK
<1>2. TypeOK'
  BY <1>1 DEF WorkflowInv, TypeOK, files
<1>3. Kept
  BY <1>1, LogType DEF WorkflowInv, Kept, files
<1>4. EffectIsAnnounced'
  BY <1>1, LogType DEF WorkflowInv, EffectIsAnnounced
<1> QED BY <1>2, <1>3, <1>4, QuietStep

LEMMA StartKeeps ==
  ASSUME WorkflowInv, NEW p \in Procs, StartExecution(p)
  PROVE  WorkflowInv'
<1> DEFINE e == [Event("ACTION_EFFECT_STARTED", "ACTION_PENDING") EXCEPT !.act = ActiveAction]
<1>1. ActiveAction # NoAction /\ ActiveAction \in Actions
  BY BoundIsReserved DEF StartExecution, Bound
<1>2. /\ e \in EventType /\ e.type = "ACTION_EFFECT_STARTED" /\ e.to = "ACTION_PENDING"
      /\ e.rev = Rev /\ e.act = ActiveAction /\ e.ver = NoId /\ e.msg = NoId
  BY <1>1, LogType DEF WorkflowInv, Event, EventType, WorkflowState
<1>3. log' = Append(log, e)
  BY DEF StartExecution, Commit
<1> HIDE DEF e
<1>4. /\ Len(log) \in Nat \ {0} /\ Len(log') = Len(log) + 1 /\ log'[Len(log')] = e
      /\ \A i \in 1..Len(log) : log'[i] = log[i]
  BY <1>3, AppendedEvent DEF WorkflowInv
<1>5. EventOK(Len(log))'
  <2>1. PICK k \in 1..Len(log) : /\ log[k].type = "ACTION_AUTHORITY_RESERVED"
                                 /\ log[k].act = ActiveAction
    BY <1>1, ActionReserved
  <2>2. k \in 1..Len(log') /\ log'[k] = log[k] /\ Len(log') \in 1..Len(log')
    BY <1>4
  <2> QED
    BY <1>1, <1>2, <1>4, <2>1, <2>2
    DEF EventOK, ReservedByThen, StartedByThen, RecoveryIsUnknown, VerificationOnDisk,
        MessageOnDisk, RemedyIsDone, MessageBeforeClosure
<1>6. PICK r : r = [op |-> "execute", act |-> ActiveAction]
  OBVIOUS
<1>7. JobOK(r)'
  <2>1. r.op = "execute" /\ r.act = ActiveAction /\ Len(log') \in 1..Len(log')
    BY <1>4, <1>6
  <2> QED
    BY <1>1, <1>2, <1>4, <2>1 DEF JobOK, ActionJobOK, VerificationJobOK, VerificationOps,
                                  MessageJobOK, MessageOps, ClosureJobOK
<1>8. DOMAIN job' = Procs /\ JobsMoveOn
  BY <1>6, <1>7, JobTaken DEF StartExecution
<1>9. /\ State = "ACTION_RESERVED" /\ route' \in Routes /\ frozen' \in BOOLEAN
      /\ UNCHANGED <<effect, verifications, messages, closures, crashes>>
  BY DEF StartExecution, WorkflowInv, TypeOK, files
<1> QED BY <1>2, <1>3, <1>5, <1>8, <1>9, CommitStep

LEMMA RetryKeeps ==
  ASSUME WorkflowInv, NEW p \in Procs, RetryExecution(p)
  PROVE  WorkflowInv'
<1>1. PICK r : r = [op |-> "execute", act |-> ActiveAction]
  OBVIOUS
<1>2. ActiveAction \in Actions
  BY BoundIsReserved DEF RetryExecution
<1>3. Len(log) \in 1..Len(log) /\ log[Len(log)].to = "ACTION_RECOVERY"
  BY LogType DEF WorkflowInv, RetryExecution, Retryable, State
<1>4. RecoveryIsUnknown(Len(log)) /\ StartedByThen(Len(log))
  BY <1>3 DEF WorkflowInv, EventOK
<1>5. /\ log[Len(log)].act # NoAction
      /\ \E k \in 1..Len(log) : /\ log[k].type = "ACTION_EFFECT_STARTED"
                                /\ log[k].act = log[Len(log)].act
  BY <1>3, <1>4 DEF RecoveryIsUnknown, StartedByThen
<1>6. ActiveAction = log[Len(log)].act
  BY <1>5, ActionInForce DEF WorkflowInv
<1>7. UNCHANGED <<log, route, effect, files, frozen, crashes>>
  BY DEF RetryExecution
<1>8. JobOK(r)'
  <2>1. r.op = "execute" /\ r.act = ActiveAction
    BY <1>1
  <2> QED
    BY <1>2, <1>5, <1>6, <1>7, <2>1 DEF JobOK, ActionJobOK, VerificationJobOK, VerificationOps,
                                  MessageJobOK, MessageOps, ClosureJobOK
<1>9. DOMAIN job' = Procs /\ JobsMoveOn
  BY <1>1, <1>8, JobTaken DEF RetryExecution
<1>10. frozen' \in BOOLEAN /\ crashes' \in 0..MaxCrashes
  BY <1>7 DEF WorkflowInv, TypeOK
<1> QED BY <1>7, <1>9, <1>10, JobStep

\* What a process that executes, or has executed, relies on.
LEMMA ActionAtHand ==
  ASSUME WorkflowInv, NEW p \in Procs, job[p] # NoJob,
         job[p].op \in {"execute", "receipt", "unknown"}
  PROVE  /\ job[p].act \in Actions
         /\ \E k \in 1..Len(log) : /\ log[k].type = "ACTION_EFFECT_STARTED"
                                   /\ log[k].act = job[p].act
BY DEF WorkflowInv, JobsOK, JobOK, ActionJobOK

LEMMA ReturnsKeeps ==
  ASSUME WorkflowInv, NEW p \in Procs, AdapterReturns(p)
  PROVE  WorkflowInv'
<1>1. PICK a \in Actions : a = job[p].act
  BY ActionAtHand DEF AdapterReturns, In
<1>2. \E k \in 1..Len(log) : log[k].type = "ACTION_EFFECT_STARTED" /\ log[k].act = a
  BY <1>1, ActionAtHand DEF AdapterReturns, In
<1>3. PICK r : r = [op |-> "receipt", act |-> a]
  OBVIOUS
<1>4. /\ UNCHANGED <<log, route, files, frozen, crashes>>
      /\ effect' = [effect EXCEPT ![a] = "all"]
      /\ job' = [job EXCEPT ![p] = r]
  BY <1>1, <1>3 DEF AdapterReturns
<1>5. JobOK(r)'
  <2>1. r.op = "receipt" /\ r.act = a
    BY <1>3
  <2> QED
    BY <1>2, <1>4, <2>1 DEF JobOK, ActionJobOK, VerificationJobOK, VerificationOps,
                            MessageJobOK, MessageOps, ClosureJobOK
<1>6. DOMAIN job' = Procs /\ JobsMoveOn
  BY <1>4, <1>5, JobTaken
<1> QED BY <1>2, <1>4, <1>6, EffectStep

LEMMA FailsKeeps ==
  ASSUME WorkflowInv, NEW p \in Procs, AdapterFails(p)
  PROVE  WorkflowInv'
<1>1. PICK a \in Actions : a = job[p].act
  BY ActionAtHand DEF AdapterFails, In
<1>2. \E k \in 1..Len(log) : log[k].type = "ACTION_EFFECT_STARTED" /\ log[k].act = a
  BY <1>1, ActionAtHand DEF AdapterFails, In
<1>3. PICK r : r = [op |-> "unknown", act |-> a]
  OBVIOUS
<1>4. PICK s \in {"none", "some", "all"} :
        /\ effect[a] # "none" => s = effect[a]
        /\ effect' = [effect EXCEPT ![a] = s]
  BY <1>1 DEF AdapterFails
<1>5. UNCHANGED <<log, route, files, frozen, crashes>> /\ job' = [job EXCEPT ![p] = r]
  BY <1>1, <1>3 DEF AdapterFails
<1>6. JobOK(r)'
  <2>1. r.op = "unknown" /\ r.act = a
    BY <1>3
  <2> QED
    BY <1>2, <1>5, <2>1 DEF JobOK, ActionJobOK, VerificationJobOK, VerificationOps,
                            MessageJobOK, MessageOps, ClosureJobOK
<1>7. DOMAIN job' = Procs /\ JobsMoveOn
  BY <1>5, <1>6, JobTaken
<1>8. effect[a] = "all" => s = "all"
  BY <1>4
<1> QED BY <1>2, <1>4, <1>5, <1>7, <1>8, EffectStep

\* An event that names an action started before, and only that.
LEMMA OutcomeKeeps ==
  ASSUME WorkflowInv, NEW p \in Procs, NEW a \in Actions,
         NEW type \in {"ADAPTER_RECEIPT_RECORDED_AFTER_RECONCILIATION",
                       "ACTION_EFFECT_OUTCOME_UNKNOWN"},
         NEW to \in {"VERIFYING", "ACTION_RECOVERY"},
         to = "ACTION_RECOVERY" => type = "ACTION_EFFECT_OUTCOME_UNKNOWN",
         \E k \in 1..Len(log) : log[k].type = "ACTION_EFFECT_STARTED" /\ log[k].act = a,
         State \in {"ACTION_PENDING", "ACTION_RECOVERY"},
         Commit([Event(type, to) EXCEPT !.act = a]),
         Return(p), UNCHANGED <<route, effect, files, frozen, crashes>>
  PROVE  WorkflowInv'
<1> DEFINE e == [Event(type, to) EXCEPT !.act = a]
<1>1. /\ e \in EventType /\ e.type = type /\ e.to = to
      /\ e.rev = Rev /\ e.act = a /\ e.ver = NoId /\ e.msg = NoId
  BY LogType DEF WorkflowInv, Event, EventType, WorkflowState
<1>2. log' = Append(log, e)
  BY DEF Commit
<1> HIDE DEF e
<1>3. /\ Len(log) \in Nat \ {0} /\ Len(log') = Len(log) + 1 /\ log'[Len(log')] = e
      /\ \A i \in 1..Len(log) : log'[i] = log[i]
  BY <1>2, AppendedEvent DEF WorkflowInv
<1>4. EventOK(Len(log))'
  <2>1. PICK s \in 1..Len(log) : log[s].type = "ACTION_EFFECT_STARTED" /\ log[s].act = a
    OBVIOUS
  <2>2. ReservedByThen(s)
    BY <2>1 DEF WorkflowInv, EventOK
  <2>3. PICK k \in 1..Len(log) : log[k].type = "ACTION_AUTHORITY_RESERVED" /\ log[k].act = a
    BY <2>1, <2>2, <1>3, NothingAssumption DEF ReservedByThen
  <2>4. k \in 1..Len(log') /\ log'[k] = log[k] /\ s \in 1..Len(log') /\ log'[s] = log[s]
    BY <1>3
  <2>5. a # NoAction
    BY NothingAssumption
  <2> QED
    BY <1>1, <1>3, <2>1, <2>3, <2>4, <2>5
    DEF EventOK, ReservedByThen, StartedByThen, RecoveryIsUnknown, VerificationOnDisk,
        MessageOnDisk, RemedyIsDone, MessageBeforeClosure
<1>5. DOMAIN job' = Procs /\ JobsMoveOn
  BY ReturnMovesOn
<1>6. /\ route' \in Routes /\ frozen' \in BOOLEAN
      /\ UNCHANGED <<effect, verifications, messages, closures, crashes>>
  BY DEF WorkflowInv, TypeOK, files
<1> QED BY <1>1, <1>2, <1>4, <1>5, <1>6, CommitStep

LEMMA ReceiptKeeps ==
  ASSUME WorkflowInv, NEW p \in Procs, RecordReceipt(p)
  PROVE  WorkflowInv'
<1>1. PICK a \in Actions : a = job[p].act
  BY ActionAtHand DEF RecordReceipt, In
<1>2. \E k \in 1..Len(log) : log[k].type = "ACTION_EFFECT_STARTED" /\ log[k].act = a
  BY <1>1, ActionAtHand DEF RecordReceipt, In
<1>3. /\ State \in {"ACTION_PENDING", "ACTION_RECOVERY"} /\ Return(p)
      /\ Commit([Event("ADAPTER_RECEIPT_RECORDED_AFTER_RECONCILIATION", "VERIFYING")
                   EXCEPT !.act = a])
      /\ UNCHANGED <<route, effect, files, frozen, crashes>>
  BY <1>1 DEF RecordReceipt, ReceiptExpected
<1> QED BY <1>2, <1>3, OutcomeKeeps

LEMMA UnknownKeeps ==
  ASSUME WorkflowInv, NEW p \in Procs, RecordUnknownOutcome(p)
  PROVE  WorkflowInv'
<1>1. PICK a \in Actions : a = job[p].act
  BY ActionAtHand DEF RecordUnknownOutcome, In
<1>2. \E k \in 1..Len(log) : log[k].type = "ACTION_EFFECT_STARTED" /\ log[k].act = a
  BY <1>1, ActionAtHand DEF RecordUnknownOutcome, In
<1>3. /\ State \in {"ACTION_PENDING", "ACTION_RECOVERY"} /\ Return(p)
      /\ Commit([Event("ACTION_EFFECT_OUTCOME_UNKNOWN", "ACTION_RECOVERY") EXCEPT !.act = a])
      /\ UNCHANGED <<route, effect, files, frozen, crashes>>
  BY <1>1 DEF RecordUnknownOutcome
<1> QED BY <1>2, <1>3, OutcomeKeeps

-----------------------------------------------------------------------------
(* Verification.                                                           *)

LEMMA VerifyKeeps ==
  ASSUME WorkflowInv, NEW p \in Procs, NEW v \in Verifications, Verify(p, v)
  PROVE  WorkflowInv'
<1>1. PICK c : c = [act |-> ActiveAction, rev |-> Rev,
                    class |-> IF effect[ActiveAction] = "all"
                              THEN "VERIFIED_REMEDY" ELSE "VERIFICATION_FAILED"]
  OBVIOUS
<1>2. PICK r : r = [op |-> "write_verification", ver |-> v, record |-> c]
  OBVIOUS
<1>3. /\ UNCHANGED <<log, route, effect, files, frozen, crashes>>
      /\ job' = [job EXCEPT ![p] = r]
  BY <1>1, <1>2 DEF Verify
<1>4. /\ ActiveAction \in Actions
      /\ \E k \in 1..Len(log) : /\ log[k].type = "ACTION_AUTHORITY_RESERVED"
                                /\ log[k].act = ActiveAction /\ log[k].rev = Rev
  BY BoundIsReserved DEF Verify
<1>5. /\ c \in VerificationType /\ c.act = ActiveAction /\ c.act # NoAction /\ c.rev = Rev
      /\ c.class # "VERIFIED_NO_NEW_ACTION"
      /\ c.class = "VERIFIED_REMEDY" => effect[c.act] = "all"
  BY <1>1, <1>4, LogType, NothingAssumption DEF WorkflowInv, VerificationType
<1>6. JobOK(r)'
  <2>1. /\ r \in [op : VerificationOps, ver : Verifications, record : VerificationType]
        /\ r.op = "write_verification" /\ r.record = c
    BY <1>2, <1>5 DEF VerificationOps
  <2> QED
    BY <1>3, <1>4, <1>5, <2>1 DEF JobOK, ActionJobOK, VerificationJobOK,
                                  MessageJobOK, MessageOps, ClosureJobOK
<1>7. DOMAIN job' = Procs /\ JobsMoveOn
  BY <1>3, <1>6, JobTaken
<1>8. frozen' \in BOOLEAN /\ crashes' \in 0..MaxCrashes
  BY <1>3 DEF WorkflowInv, TypeOK
<1> QED BY <1>3, <1>7, <1>8, JobStep

LEMMA VerifyNoActionKeeps ==
  ASSUME WorkflowInv, NEW p \in Procs, NEW v \in Verifications, VerifyNoAction(p, v)
  PROVE  WorkflowInv'
<1>1. PICK c : c = [act |-> NoAction, rev |-> Rev, class |-> "VERIFIED_NO_NEW_ACTION"]
  OBVIOUS
<1>2. PICK r : r = [op |-> "write_verification", ver |-> v, record |-> c]
  OBVIOUS
<1>3. /\ UNCHANGED <<log, route, effect, files, frozen, crashes>>
      /\ job' = [job EXCEPT ![p] = r]
  BY <1>1, <1>2 DEF VerifyNoAction
<1>4. c \in VerificationType /\ c.act = NoAction /\ c.class = "VERIFIED_NO_NEW_ACTION"
  BY <1>1, LogType DEF WorkflowInv, VerificationType
<1>5. JobOK(r)'
  <2>1. /\ r \in [op : VerificationOps, ver : Verifications, record : VerificationType]
        /\ r.op = "write_verification" /\ r.record = c
    BY <1>2, <1>4 DEF VerificationOps
  <2> QED
    BY <1>3, <1>4, <2>1 DEF JobOK, ActionJobOK, VerificationJobOK,
                            MessageJobOK, MessageOps, ClosureJobOK
<1>6. DOMAIN job' = Procs /\ JobsMoveOn
  BY <1>3, <1>5, JobTaken
<1>7. frozen' \in BOOLEAN /\ crashes' \in 0..MaxCrashes
  BY <1>3 DEF WorkflowInv, TypeOK
<1> QED BY <1>3, <1>6, <1>7, JobStep

\* What a process that verifies relies on.
LEMMA VerificationAtHand ==
  ASSUME WorkflowInv, NEW p \in Procs, job[p] # NoJob, job[p].op \in VerificationOps
  PROVE  /\ VerificationJobOK(job[p])
         /\ job[p] \in [op : VerificationOps, ver : Verifications, record : VerificationType]
         /\ job[p].ver \in Verifications /\ job[p].record \in VerificationType
BY DEF WorkflowInv, JobsOK, JobOK, VerificationJobOK

LEMMA WriteVerificationKeeps ==
  ASSUME WorkflowInv, NEW p \in Procs, WriteVerification(p)
  PROVE  WorkflowInv'
<1>1. job[p] # NoJob /\ job[p].op = "write_verification" /\ job[p].op \in VerificationOps
  BY DEF WriteVerification, In, VerificationOps
<1>2. PICK j : j = job[p]
  OBVIOUS
<1>3. /\ VerificationJobOK(j)
      /\ j \in [op : VerificationOps, ver : Verifications, record : VerificationType]
      /\ j.ver \in Verifications /\ j.record \in VerificationType
  BY <1>1, <1>2, VerificationAtHand
<1>4. PICK r : r = [j EXCEPT !.op = "record_verification"]
  OBVIOUS
<1>5. /\ r \in [op : VerificationOps, ver : Verifications, record : VerificationType]
      /\ r.op = "record_verification" /\ r.ver = j.ver /\ r.record = j.record
  BY <1>3, <1>4 DEF VerificationOps
<1>6. /\ UNCHANGED <<log, route, effect, messages, closures, frozen, crashes>>
      /\ verifications[j.ver] = NoFile
      /\ verifications' = [verifications EXCEPT ![j.ver] = j.record]
      /\ job' = [job EXCEPT ![p] = r]
  BY <1>2, <1>4 DEF WriteVerification
<1>7. /\ verifications' \in [Verifications -> VerificationType \cup {NoFile}]
      /\ \A v \in Verifications :
           verifications'[v] = IF v = j.ver THEN j.record ELSE verifications[v]
  <2> HIDE DEF VerificationType
  <2> QED BY <1>3, <1>6 DEF WorkflowInv, TypeOK
<1>8. JobOK(r)'
  <2>1. verifications'[r.ver] = r.record
    BY <1>3, <1>5, <1>7
  <2>2. /\ j.record.class = "VERIFIED_NO_NEW_ACTION" <=> j.record.act = NoAction
        /\ j.record.act # NoAction =>
             \E k \in 1..Len(log) : /\ log[k].type = "ACTION_AUTHORITY_RESERVED"
                                    /\ log[k].act = j.record.act /\ log[k].rev = j.record.rev
        /\ j.record.class = "VERIFIED_REMEDY" => effect[j.record.act] = "all"
    BY <1>1, <1>2, <1>3 DEF VerificationJobOK
  <2> QED
    BY <1>5, <1>6, <2>1, <2>2 DEF JobOK, ActionJobOK, VerificationJobOK,
                                  MessageJobOK, MessageOps, ClosureJobOK
<1>9. DOMAIN job' = Procs /\ JobsMoveOn
  BY <1>6, <1>8, JobTaken
<1>10. TypeOK'
  BY <1>6, <1>7, <1>9 DEF WorkflowInv, TypeOK
<1>11. Kept
  BY <1>6, <1>7, LogType DEF WorkflowInv, Kept
<1>12. EffectIsAnnounced'
  BY <1>6 DEF WorkflowInv, EffectIsAnnounced
<1> QED BY <1>6, <1>9, <1>10, <1>11, <1>12, QuietStep

LEMMA RecordVerificationKeeps ==
  ASSUME WorkflowInv, NEW p \in Procs, RecordVerification(p)
  PROVE  WorkflowInv'
<1>1. job[p] # NoJob /\ job[p].op = "record_verification" /\ job[p].op \in VerificationOps
  BY DEF RecordVerification, In, VerificationOps
<1>2. PICK j : j = job[p]
  OBVIOUS
<1>3. /\ VerificationJobOK(j) /\ j.op = "record_verification" /\ j.op \in VerificationOps
      /\ j.ver \in Verifications /\ j.record \in VerificationType
  BY <1>1, <1>2, VerificationAtHand
<1>4. PICK r : r = j.record
  OBVIOUS
<1>5. /\ r \in VerificationType /\ verifications[j.ver] = r
      /\ r.class = "VERIFIED_NO_NEW_ACTION" <=> r.act = NoAction
      /\ r.act # NoAction =>
           \E k \in 1..Len(log) : /\ log[k].type = "ACTION_AUTHORITY_RESERVED"
                                  /\ log[k].act = r.act /\ log[k].rev = r.rev
      /\ r.class = "VERIFIED_REMEDY" => effect[r.act] = "all"
  BY <1>3, <1>4 DEF VerificationJobOK
<1> DEFINE type == IF r.class = "VERIFIED_REMEDY" THEN "AUTHORITATIVE_REMEDY_VERIFIED"
                   ELSE "AUTHORITATIVE_VERIFICATION_FAILED"
           e == [Event(type, r.class) EXCEPT !.act = r.act, !.ver = j.ver]
<1>6. /\ r.act # NoAction /\ State = "VERIFYING" /\ r.rev = Rev
      /\ Commit(e) /\ Return(p)
      /\ UNCHANGED <<route, effect, files, frozen, crashes>>
  BY <1>2, <1>4 DEF RecordVerification
<1>7. /\ r.act \in Actions /\ r.class \in {"VERIFIED_REMEDY", "VERIFICATION_FAILED"}
      /\ r = [act |-> r.act, rev |-> r.rev, class |-> r.class]
  BY <1>5, <1>6 DEF VerificationType
<1>8. /\ e \in EventType /\ e.type = type /\ e.to = r.class
      /\ e.rev = Rev /\ e.act = r.act /\ e.ver = j.ver /\ e.msg = NoId
  BY <1>3, <1>7, LogType DEF WorkflowInv, Event, EventType, WorkflowState
<1>9. log' = Append(log, e)
  BY <1>6 DEF Commit
<1>10. type = OutcomeType(r.class)
  BY <1>7 DEF OutcomeType
<1>11. /\ type \in {"AUTHORITATIVE_REMEDY_VERIFIED", "AUTHORITATIVE_VERIFICATION_FAILED"}
       /\ type = "AUTHORITATIVE_REMEDY_VERIFIED" => r.class = "VERIFIED_REMEDY"
  BY <1>7
<1> HIDE DEF e, type
<1>12. /\ Len(log) \in Nat \ {0} /\ Len(log') = Len(log) + 1 /\ log'[Len(log')] = e
       /\ \A i \in 1..Len(log) : log'[i] = log[i]
  BY <1>9, AppendedEvent DEF WorkflowInv
<1>13. UNCHANGED <<effect, verifications, messages, closures, crashes>>
  BY <1>6 DEF files
<1>14. EventOK(Len(log))'
  <2>1. PICK k \in 1..Len(log) : /\ log[k].type = "ACTION_AUTHORITY_RESERVED"
                                 /\ log[k].act = r.act /\ log[k].rev = r.rev
    BY <1>5, <1>6
  <2>2. /\ k \in 1..Len(log') /\ k \in 1..(Len(log') - 1) /\ log'[k] = log[k]
        /\ Len(log') \in 1..Len(log')
    BY <1>12
  <2>3. ReservedByThen(Len(log))' /\ StartedByThen(Len(log))' /\ RecoveryIsUnknown(Len(log))'
    BY <1>7, <1>8, <1>11, <1>12, <2>1, <2>2
    DEF ReservedByThen, StartedByThen, RecoveryIsUnknown
  <2>4. MessageOnDisk(Len(log))' /\ MessageBeforeClosure(Len(log))'
    BY <1>8, <1>11, <1>12 DEF MessageOnDisk, MessageBeforeClosure
  <2>5. Recorded(j.ver, Rev, Len(log))'
    <3>1. verifications'[j.ver] = r /\ r.rev = Rev' /\ Rev' = Rev
      BY <1>5, <1>6, <1>8, <1>12, <1>13 DEF Rev
    <3>2. /\ Len(log') \in 1..Len(log') /\ log'[Len(log')].type = OutcomeType(r.class)
          /\ log'[Len(log')].rev = Rev' /\ log'[Len(log')].ver = j.ver
      BY <1>8, <1>10, <1>12, <2>2, <3>1
    <3> HIDE DEF VerificationType, OutcomeType
    <3> QED BY <1>3, <1>5, <3>1, <3>2 DEF Recorded
  <2>6. VerificationOnDisk(Len(log))'
    <3>1. log'[Len(log')].ver = j.ver /\ log'[Len(log')].rev = Rev'
      BY <1>8, <1>12 DEF Rev
    <3> QED BY <2>5, <3>1 DEF VerificationOnDisk
  <2>7. RemedyIsDone(Len(log))'
    <3>1. SUFFICES ASSUME type = "AUTHORITATIVE_REMEDY_VERIFIED"
                   PROVE  RemedyIsDone(Len(log))'
      BY <1>8, <1>12 DEF RemedyIsDone
    <3>2. /\ effect'[e.act] = "all" /\ e.act # NoAction /\ e.ver # NoId
          /\ verifications'[e.ver] = [act |-> e.act, rev |-> e.rev, class |-> "VERIFIED_REMEDY"]
      BY <1>3, <1>5, <1>6, <1>7, <1>8, <1>11, <1>13, <3>1, NothingAssumption
    <3>3. \E i \in Before(Len(log), "ACTION_AUTHORITY_RESERVED", log[Len(log)].rev)' :
             log'[i].act = e.act
      BY <1>6, <1>8, <1>12, <2>1, <2>2 DEF Before
    <3> QED BY <1>12, <3>2, <3>3 DEF RemedyIsDone
  <2> QED BY <2>3, <2>4, <2>6, <2>7 DEF EventOK
<1>15. DOMAIN job' = Procs /\ JobsMoveOn
  BY <1>6, ReturnMovesOn
<1>16. route' \in Routes /\ frozen' \in BOOLEAN
  BY <1>6 DEF WorkflowInv, TypeOK
<1> QED BY <1>6, <1>8, <1>9, <1>11, <1>13, <1>14, <1>15, <1>16, CommitStep

LEMMA RecordNoActionKeeps ==
  ASSUME WorkflowInv, NEW p \in Procs, RecordNoActionVerification(p)
  PROVE  WorkflowInv'
<1>1. job[p] # NoJob /\ job[p].op = "record_verification" /\ job[p].op \in VerificationOps
  BY DEF RecordNoActionVerification, In, VerificationOps
<1>2. PICK j : j = job[p]
  OBVIOUS
<1>3. /\ VerificationJobOK(j) /\ j.op = "record_verification" /\ j.op \in VerificationOps
      /\ j.ver \in Verifications /\ j.record \in VerificationType
  BY <1>1, <1>2, VerificationAtHand
<1>4. PICK r : r = j.record
  OBVIOUS
<1> DEFINE e == [Event(r.class, "COMMUNICATION_READY") EXCEPT !.ver = j.ver]
<1>5. /\ r.act = NoAction /\ State = "RECOMMENDATION_READY" /\ r.rev = Rev
      /\ ActiveAction = NoAction /\ Commit(e) /\ Return(p)
      /\ UNCHANGED <<route, effect, files, frozen, crashes>>
  BY <1>2, <1>4 DEF RecordNoActionVerification
<1>6. /\ r \in VerificationType /\ verifications[j.ver] = r
      /\ r.class = "VERIFIED_NO_NEW_ACTION"
  BY <1>3, <1>4, <1>5 DEF VerificationJobOK
<1>7. /\ e \in EventType /\ e.type = "VERIFIED_NO_NEW_ACTION" /\ e.to = "COMMUNICATION_READY"
      /\ e.rev = Rev /\ e.act = NoAction /\ e.ver = j.ver /\ e.msg = NoId
  BY <1>3, <1>6, LogType DEF WorkflowInv, Event, EventType, WorkflowState
<1>8. log' = Append(log, e)
  BY <1>5 DEF Commit
<1> HIDE DEF e
<1>9. /\ Len(log) \in Nat \ {0} /\ Len(log') = Len(log) + 1 /\ log'[Len(log')] = e
  BY <1>8, AppendedEvent DEF WorkflowInv
<1>10. UNCHANGED <<effect, verifications, messages, closures, crashes>>
  BY <1>5 DEF files
<1>11. EventOK(Len(log))'
  <2>1. Recorded(j.ver, Rev, Len(log))'
    <3>1. verifications'[j.ver] = r /\ r.rev = Rev' /\ Rev' = Rev
      BY <1>5, <1>6, <1>7, <1>9, <1>10 DEF Rev
    <3>2. /\ Len(log') \in 1..Len(log') /\ log'[Len(log')].type = OutcomeType(r.class)
          /\ log'[Len(log')].rev = Rev' /\ log'[Len(log')].ver = j.ver
      BY <1>6, <1>7, <1>9, <3>1 DEF OutcomeType
    <3> HIDE DEF VerificationType, OutcomeType
    <3> QED BY <1>3, <1>6, <3>1, <3>2 DEF Recorded
  <2>2. VerificationOnDisk(Len(log))'
    <3>1. log'[Len(log')].ver = j.ver /\ log'[Len(log')].rev = Rev'
      BY <1>7, <1>9 DEF Rev
    <3> QED BY <2>1, <3>1 DEF VerificationOnDisk
  <2> QED
    BY <1>7, <1>9, <2>2 DEF EventOK, ReservedByThen, StartedByThen, RecoveryIsUnknown,
                            MessageOnDisk, RemedyIsDone, MessageBeforeClosure
<1>12. DOMAIN job' = Procs /\ JobsMoveOn
  BY <1>5, ReturnMovesOn
<1>13. route' \in Routes /\ frozen' \in BOOLEAN
  BY <1>5 DEF WorkflowInv, TypeOK
<1> QED BY <1>5, <1>7, <1>8, <1>10, <1>11, <1>12, <1>13, CommitStep

-----------------------------------------------------------------------------
(* Communication and closure.                                              *)

\* A verification in force is on disk, and recorded in the revision in force.
LEMMA VerificationRecorded ==
  ASSUME WorkflowInv, ActiveVerification # NoId
  PROVE  Recorded(ActiveVerification, Rev, Len(log))
<1>1. PICK i \in 1..Len(log) : log[i].rev = Rev /\ log[i].ver = ActiveVerification
  BY VerificationInForce DEF WorkflowInv
<1>2. Recorded(ActiveVerification, Rev, i)
  BY <1>1 DEF WorkflowInv, EventOK, VerificationOnDisk
<1>3. \A k \in 1..i : k \in 1..Len(log)
  BY LogType DEF WorkflowInv
<1> QED BY <1>2, <1>3 DEF Recorded

LEMMA CommunicateKeeps ==
  ASSUME WorkflowInv, NEW p \in Procs, NEW m \in Messages, Communicate(p, m)
  PROVE  WorkflowInv'
<1>1. PICK c : c = [rev |-> Rev, cites |-> ActiveVerification]
  OBVIOUS
<1>2. PICK r : r = [op |-> "write_message", msg |-> m, record |-> c]
  OBVIOUS
<1>3. /\ UNCHANGED <<log, route, effect, files, frozen, crashes>>
      /\ job' = [job EXCEPT ![p] = r]
      /\ verifications[ActiveVerification].class # "VERIFICATION_FAILED"
  BY <1>1, <1>2 DEF Communicate
<1>4. Recorded(ActiveVerification, Rev, Len(log))
  BY VerificationRecorded DEF Communicate
<1>5. /\ c \in MessageType /\ c.rev = Rev /\ c.cites = ActiveVerification
  BY <1>1, <1>4, LogType DEF WorkflowInv, MessageType, Recorded
<1>6. JobOK(r)'
  <2>1. /\ r \in [op : MessageOps, msg : Messages, record : MessageType]
        /\ r.op = "write_message" /\ r.record = c
    BY <1>2, <1>5 DEF MessageOps
  <2>2. /\ Recorded(c.cites, c.rev, Len(log))'
        /\ verifications'[c.cites].class # "VERIFICATION_FAILED"
    BY <1>3, <1>4, <1>5 DEF Recorded, files
  <2> QED
    BY <2>1, <2>2 DEF JobOK, ActionJobOK, VerificationJobOK, VerificationOps,
                      MessageJobOK, ClosureJobOK
<1>7. DOMAIN job' = Procs /\ JobsMoveOn
  BY <1>3, <1>6, JobTaken
<1>8. frozen' \in BOOLEAN /\ crashes' \in 0..MaxCrashes
  BY <1>3 DEF WorkflowInv, TypeOK
<1> QED BY <1>3, <1>7, <1>8, JobStep

\* What a process that communicates relies on.
LEMMA MessageAtHand ==
  ASSUME WorkflowInv, NEW p \in Procs, job[p] # NoJob, job[p].op \in MessageOps
  PROVE  /\ MessageJobOK(job[p])
         /\ job[p] \in [op : MessageOps, msg : Messages, record : MessageType]
         /\ job[p].msg \in Messages /\ job[p].record \in MessageType
BY DEF WorkflowInv, JobsOK, JobOK, MessageJobOK

LEMMA WriteMessageKeeps ==
  ASSUME WorkflowInv, NEW p \in Procs, WriteMessage(p)
  PROVE  WorkflowInv'
<1>1. job[p] # NoJob /\ job[p].op = "write_message" /\ job[p].op \in MessageOps
  BY DEF WriteMessage, In, MessageOps
<1>2. PICK j : j = job[p]
  OBVIOUS
<1>3. /\ MessageJobOK(j) /\ j.op \in MessageOps
      /\ j \in [op : MessageOps, msg : Messages, record : MessageType]
      /\ j.msg \in Messages /\ j.record \in MessageType
  BY <1>1, <1>2, MessageAtHand
<1>4. PICK r : r = [j EXCEPT !.op = "record_message"]
  OBVIOUS
<1>5. /\ r \in [op : MessageOps, msg : Messages, record : MessageType]
      /\ r.op = "record_message" /\ r.msg = j.msg /\ r.record = j.record
  BY <1>3, <1>4 DEF MessageOps
<1>6. /\ UNCHANGED <<log, route, effect, verifications, closures, frozen, crashes>>
      /\ messages[j.msg] = NoFile
      /\ messages' = [messages EXCEPT ![j.msg] = j.record]
      /\ job' = [job EXCEPT ![p] = r]
  BY <1>2, <1>4 DEF WriteMessage
<1>7. /\ messages' \in [Messages -> MessageType \cup {NoFile}]
      /\ \A m \in Messages : messages'[m] = IF m = j.msg THEN j.record ELSE messages[m]
  <2> HIDE DEF MessageType
  <2> QED BY <1>3, <1>6 DEF WorkflowInv, TypeOK
<1>8. JobOK(r)'
  <2>1. messages'[r.msg] = r.record
    BY <1>3, <1>5, <1>7
  <2>2. /\ Recorded(r.record.cites, r.record.rev, Len(log))'
        /\ verifications'[r.record.cites].class # "VERIFICATION_FAILED"
    BY <1>3, <1>5, <1>6 DEF MessageJobOK, Recorded
  <2> QED
    BY <1>5, <2>1, <2>2 DEF JobOK, ActionJobOK, VerificationJobOK, VerificationOps,
                            MessageJobOK, ClosureJobOK
<1>9. DOMAIN job' = Procs /\ JobsMoveOn
  BY <1>6, <1>8, JobTaken
<1>10. TypeOK'
  BY <1>6, <1>7, <1>9 DEF WorkflowInv, TypeOK
<1>11. Kept
  BY <1>6, <1>7, LogType DEF WorkflowInv, Kept
<1>12. EffectIsAnnounced'
  BY <1>6 DEF WorkflowInv, EffectIsAnnounced
<1> QED BY <1>6, <1>9, <1>10, <1>11, <1>12, QuietStep

LEMMA RecordMessageKeeps ==
  ASSUME WorkflowInv, NEW p \in Procs, RecordMessage(p)
  PROVE  WorkflowInv'
<1>1. job[p] # NoJob /\ job[p].op = "record_message" /\ job[p].op \in MessageOps
  BY DEF RecordMessage, In, MessageOps
<1>2. PICK j : j = job[p]
  OBVIOUS
<1>3. /\ MessageJobOK(j) /\ j.op = "record_message" /\ j.op \in MessageOps
      /\ j.msg \in Messages /\ j.record \in MessageType
  BY <1>1, <1>2, MessageAtHand
<1>4. PICK r : r = j.record
  OBVIOUS
<1>5. PICK type \in {"VERIFIED_COMMUNICATION_CREATED", "COMMUNICATION_RECORDED"} :
        Commit([Event(type, "COMMUNICATION_READY") EXCEPT !.ver = r.cites, !.msg = j.msg])
  BY <1>2, <1>4 DEF RecordMessage
<1> DEFINE e == [Event(type, "COMMUNICATION_READY") EXCEPT !.ver = r.cites, !.msg = j.msg]
<1>6. /\ r.rev = Rev /\ Return(p) /\ UNCHANGED <<route, effect, files, frozen, crashes>>
  BY <1>2, <1>4 DEF RecordMessage, Derived
<1>7. /\ r \in MessageType /\ messages[j.msg] = r /\ r = [rev |-> Rev, cites |-> r.cites]
      /\ Recorded(r.cites, Rev, Len(log)) /\ verifications[r.cites].class # "VERIFICATION_FAILED"
  BY <1>3, <1>4, <1>6 DEF MessageJobOK, MessageType
<1>8. /\ e \in EventType /\ e.type = type /\ e.to = "COMMUNICATION_READY"
      /\ e.rev = Rev /\ e.act = NoAction /\ e.ver = r.cites /\ e.msg = j.msg
  BY <1>3, <1>7, LogType DEF WorkflowInv, MessageType, Event, EventType, WorkflowState
<1>9. log' = Append(log, e)
  BY <1>5 DEF Commit
<1> HIDE DEF e
<1>10. /\ Len(log) \in Nat \ {0} /\ Len(log') = Len(log) + 1 /\ log'[Len(log')] = e
       /\ \A i \in 1..Len(log) : log'[i] = log[i]
  BY <1>9, AppendedEvent DEF WorkflowInv
<1>11. UNCHANGED <<effect, verifications, messages, closures, crashes>>
  BY <1>6 DEF files
<1>12. EventOK(Len(log))'
  <2>1. /\ log'[Len(log')].ver = r.cites /\ log'[Len(log')].msg = j.msg
        /\ log'[Len(log')].rev = Rev /\ log'[Len(log')].act = NoAction
        /\ log'[Len(log')].type = type /\ log'[Len(log')].to = "COMMUNICATION_READY"
    BY <1>8, <1>10
  <2>2. \A k \in 1..Len(log) : k \in 1..Len(log') /\ log'[k] = log[k]
    BY <1>10
  <2>3. VerificationOnDisk(Len(log))'
    BY <1>7, <1>11, <2>1, <2>2 DEF VerificationOnDisk, Recorded
  <2>4. MessageOnDisk(Len(log))'
    BY <1>3, <1>7, <1>11, <2>1, NothingAssumption DEF MessageOnDisk, Recorded
  <2> QED
    BY <2>1, <2>3, <2>4 DEF EventOK, ReservedByThen, StartedByThen, RecoveryIsUnknown,
                            RemedyIsDone, MessageBeforeClosure
<1>13. DOMAIN job' = Procs /\ JobsMoveOn
  BY <1>6, ReturnMovesOn
<1>14. route' \in Routes /\ frozen' \in BOOLEAN
  BY <1>6 DEF WorkflowInv, TypeOK
<1> QED BY <1>8, <1>9, <1>11, <1>12, <1>13, <1>14, CommitStep

LEMMA CloseKeeps ==
  ASSUME WorkflowInv, NEW p \in Procs, Close(p)
  PROVE  WorkflowInv'
<1> DEFINE e == [Event("RECOVERY_WORKFLOW_CLOSED", "CLOSED")
                   EXCEPT !.ver = ActiveVerification, !.msg = ActiveMessage]
<1>1. /\ State = "COMMUNICATION_READY" /\ Commit(e)
      /\ job' = [job EXCEPT ![p] = [op |-> "write_closure", head |-> Len(log) + 1]]
      /\ UNCHANGED <<route, effect, files, frozen, crashes>>
  BY DEF Close
<1>2. /\ ActiveMessage # NoId
      /\ messages[ActiveMessage] = [rev |-> Rev, cites |-> ActiveVerification]
  BY DEF Close, Evidence
<1>3. PICK i \in 1..Len(log) : log[i].rev = Rev /\ log[i].msg = ActiveMessage
  BY <1>2, MessageInForce DEF WorkflowInv
<1>4. /\ log[i].ver # NoId /\ log[i].ver = ActiveVerification
      /\ verifications[ActiveVerification].class # "VERIFICATION_FAILED"
  <2>1. MessageOnDisk(i)
    BY DEF WorkflowInv, EventOK
  <2> QED BY <1>2, <1>3, <2>1 DEF MessageOnDisk
<1>5. Recorded(ActiveVerification, Rev, Len(log))
  BY <1>4, VerificationRecorded
<1>6. ActiveVerification \in Verifications /\ ActiveMessage \in Messages
  <2>1. log[i] \in EventType
    BY LogType DEF WorkflowInv
  <2> QED BY <1>2, <1>3, <1>5, <2>1 DEF EventType, Recorded
<1>7. /\ e \in EventType /\ e.type = "RECOVERY_WORKFLOW_CLOSED" /\ e.to = "CLOSED"
      /\ e.rev = Rev /\ e.act = NoAction /\ e.ver = ActiveVerification /\ e.msg = ActiveMessage
  BY <1>6, LogType DEF WorkflowInv, Event, EventType, WorkflowState
<1>8. log' = Append(log, e)
  BY <1>1 DEF Commit
<1> HIDE DEF e
<1>9. /\ Len(log) \in Nat \ {0} /\ Len(log') = Len(log) + 1 /\ log'[Len(log')] = e
      /\ \A k \in 1..Len(log) : log'[k] = log[k]
  BY <1>8, AppendedEvent DEF WorkflowInv
<1>10. UNCHANGED <<effect, verifications, messages, closures, crashes>>
  BY <1>1 DEF files
<1>11. EventOK(Len(log))'
  <2>1. /\ log'[Len(log')].ver = ActiveVerification /\ log'[Len(log')].msg = ActiveMessage
        /\ log'[Len(log')].rev = Rev /\ log'[Len(log')].act = NoAction
        /\ log'[Len(log')].type = "RECOVERY_WORKFLOW_CLOSED" /\ log'[Len(log')].to = "CLOSED"
    BY <1>7, <1>9
  <2>2. \A k \in 1..Len(log) : k \in 1..Len(log') /\ k \in 1..(Len(log') - 1) /\ log'[k] = log[k]
    BY <1>9
  <2>3. VerificationOnDisk(Len(log))'
    BY <1>5, <1>10, <2>1, <2>2 DEF VerificationOnDisk, Recorded
  <2>4. MessageOnDisk(Len(log))'
    BY <1>2, <1>4, <1>10, <2>1 DEF MessageOnDisk
  <2>5. MessageBeforeClosure(Len(log))'
    BY <1>3, <2>1, <2>2 DEF MessageBeforeClosure
  <2> QED
    BY <2>1, <2>3, <2>4, <2>5 DEF EventOK, ReservedByThen, StartedByThen, RecoveryIsUnknown,
                                  RemedyIsDone
<1>12. PICK r : r = [op |-> "write_closure", head |-> Len(log) + 1]
  OBVIOUS
<1>13. JobOK(r)'
  <2>1. r.op = "write_closure" /\ r.head \in 1..Len(log')
    BY <1>9, <1>12
  <2> QED BY <2>1 DEF JobOK, ActionJobOK, VerificationJobOK, VerificationOps,
                      MessageJobOK, MessageOps, ClosureJobOK
<1>14. DOMAIN job' = Procs /\ JobsMoveOn
  BY <1>1, <1>12, <1>13, JobTaken
<1>15. route' \in Routes /\ frozen' \in BOOLEAN
  BY <1>1 DEF WorkflowInv, TypeOK
<1> QED BY <1>7, <1>8, <1>10, <1>11, <1>14, <1>15, CommitStep

LEMMA WriteClosureKeeps ==
  ASSUME WorkflowInv, NEW p \in Procs, WriteClosure(p)
  PROVE  WorkflowInv'
<1>1. /\ UNCHANGED <<log, route, effect, verifications, messages, frozen, crashes>>
      /\ closures' = closures \cup {job[p].head} /\ Return(p)
      /\ job[p] # NoJob /\ job[p].op = "write_closure"
  BY DEF WriteClosure, In
<1>2. job[p].head \in 1..Len(log)
  BY <1>1 DEF WorkflowInv, JobsOK, JobOK, ClosureJobOK
<1>3. DOMAIN job' = Procs /\ JobsMoveOn
  BY <1>1, ReturnMovesOn
<1>4. TypeOK'
  BY <1>1, <1>2, <1>3 DEF WorkflowInv, TypeOK
<1>5. Kept /\ EffectIsAnnounced'
  BY <1>1, LogType DEF WorkflowInv, Kept, EffectIsAnnounced
<1> QED BY <1>1, <1>3, <1>4, <1>5, QuietStep

-----------------------------------------------------------------------------
(* Freeze, failures, and the whole of Next.                                *)

LEMMA FreezeKeeps ==
  ASSUME WorkflowInv, Freeze
  PROVE  WorkflowInv'
<1>1. /\ UNCHANGED <<log, route, effect, files, job, crashes>>
      /\ frozen' \in BOOLEAN /\ crashes' \in 0..MaxCrashes
      /\ DOMAIN job' = Procs /\ JobsMoveOn
  BY DEF Freeze, JobsMoveOn, WorkflowInv, TypeOK
<1> QED BY <1>1, JobStep

LEMMA RefuseKeeps ==
  ASSUME WorkflowInv, NEW p \in Procs, Refuse(p)
  PROVE  WorkflowInv'
<1>1. UNCHANGED <<log, route, effect, files, frozen, crashes>> /\ Return(p)
  BY DEF Refuse
<1>2. DOMAIN job' = Procs /\ JobsMoveOn
  BY <1>1, ReturnMovesOn
<1>3. frozen' \in BOOLEAN /\ crashes' \in 0..MaxCrashes
  BY <1>1 DEF WorkflowInv, TypeOK
<1> QED BY <1>1, <1>2, <1>3, JobStep

LEMMA CrashKeeps ==
  ASSUME WorkflowInv, NEW p \in Procs, Crash(p)
  PROVE  WorkflowInv'
<1>1. /\ UNCHANGED <<log, route, effect, files, frozen>> /\ Return(p)
      /\ crashes < MaxCrashes /\ crashes' = crashes + 1
  BY DEF Crash
<1>2. DOMAIN job' = Procs /\ JobsMoveOn
  BY <1>1, ReturnMovesOn
<1>3. frozen' \in BOOLEAN /\ crashes' \in 0..MaxCrashes
  BY <1>1, BoundsAssumption DEF WorkflowInv, TypeOK
<1> QED BY <1>1, <1>2, <1>3, JobStep

LEMMA CallKeeps ==
  ASSUME WorkflowInv, NEW p \in Procs, Call(p)
  PROVE  WorkflowInv'
<1>1. CASE Recommend(p)
  BY <1>1, RecommendKeeps
<1>2. CASE StartExecution(p)
  BY <1>2, StartKeeps
<1>3. CASE RetryExecution(p)
  BY <1>3, RetryKeeps
<1>4. ASSUME NEW v \in Verifications, Verify(p, v)
      PROVE  WorkflowInv'
  BY <1>4, VerifyKeeps
<1>5. ASSUME NEW v \in Verifications, VerifyNoAction(p, v)
      PROVE  WorkflowInv'
  BY <1>5, VerifyNoActionKeeps
<1>6. ASSUME NEW m \in Messages, Communicate(p, m)
      PROVE  WorkflowInv'
  BY <1>6, CommunicateKeeps
<1>7. CASE Close(p)
  BY <1>7, CloseKeeps
<1> QED BY <1>1, <1>2, <1>3, <1>4, <1>5, <1>6, <1>7 DEF Call

LEMMA ContinueKeeps ==
  ASSUME WorkflowInv, NEW p \in Procs, Continue(p)
  PROVE  WorkflowInv'
<1>1. CASE RouteRecommendation(p)
  BY <1>1, RouteKeeps
<1>2. CASE AdapterReturns(p)
  BY <1>2, ReturnsKeeps
<1>3. CASE AdapterFails(p)
  BY <1>3, FailsKeeps
<1>4. CASE RecordReceipt(p)
  BY <1>4, ReceiptKeeps
<1>5. CASE RecordUnknownOutcome(p)
  BY <1>5, UnknownKeeps
<1>6. CASE WriteVerification(p)
  BY <1>6, WriteVerificationKeeps
<1>7. CASE RecordVerification(p)
  BY <1>7, RecordVerificationKeeps
<1>8. CASE RecordNoActionVerification(p)
  BY <1>8, RecordNoActionKeeps
<1>9. CASE WriteMessage(p)
  BY <1>9, WriteMessageKeeps
<1>10. CASE RecordMessage(p)
  BY <1>10, RecordMessageKeeps
<1>11. CASE WriteClosure(p)
  BY <1>11, WriteClosureKeeps
<1>12. CASE Refuse(p)
  BY <1>12, RefuseKeeps
<1> QED BY <1>1, <1>2, <1>3, <1>4, <1>5, <1>6, <1>7, <1>8, <1>9, <1>10, <1>11, <1>12 DEF Continue

LEMMA NextKeeps == WorkflowInv /\ [Next]_vars => WorkflowInv'
<1> SUFFICES ASSUME WorkflowInv, [Next]_vars
             PROVE  WorkflowInv'
  OBVIOUS
<1>1. CASE Advance
  BY <1>1, AdvanceKeeps
<1>2. CASE PrepareAction
  BY <1>2, PrepareKeeps
<1>3. CASE Revise
  BY <1>3, ReviseKeeps
<1>4. CASE Freeze
  BY <1>4, FreezeKeeps
<1>5. ASSUME NEW a \in Actions, ReserveAction(a)
      PROVE  WorkflowInv'
  BY <1>5, ReserveKeeps
<1>6. ASSUME NEW p \in Procs, Call(p)
      PROVE  WorkflowInv'
  BY <1>6, CallKeeps
<1>7. ASSUME NEW p \in Procs, Continue(p)
      PROVE  WorkflowInv'
  BY <1>7, ContinueKeeps
<1>8. ASSUME NEW p \in Procs, Crash(p)
      PROVE  WorkflowInv'
  BY <1>8, CrashKeeps
<1>9. CASE UNCHANGED vars
  <2>1. /\ UNCHANGED <<log, route, effect, files>> /\ frozen' \in BOOLEAN
        /\ crashes' \in 0..MaxCrashes /\ DOMAIN job' = Procs /\ JobsMoveOn
    BY <1>9 DEF vars, JobsMoveOn, WorkflowInv, TypeOK
  <2> QED BY <2>1, JobStep
<1> QED BY <1>1, <1>2, <1>3, <1>4, <1>5, <1>6, <1>7, <1>8, <1>9 DEF Next

-----------------------------------------------------------------------------
(* The theorems.                                                           *)

\* Every event of the ledger rests on what it says was done before it, and so
\* does every process in the middle of a call (recovery_services.py,
\* recovery_orchestration.py).
THEOREM WorkflowInvariant == Spec => []WorkflowInv
<1>1. WorkflowInv /\ [Next]_vars => WorkflowInv'
  BY NextKeeps
<1> QED BY InitHolds, <1>1, PTL DEF Spec

\* The state keeps its shape through every call, crash and revision.
THEOREM WorkflowTyping == Spec => []TypeOK
<1>1. WorkflowInv => TypeOK
  BY DEF WorkflowInv
<1> QED BY WorkflowInvariant, <1>1, PTL

\* A case that says its remedy is verified has all its effects in the sources,
\* reserved in the same revision, and its record on disk: whatever runs late
\* and whoever crashes (verify_active_action).
THEOREM VerifiedRemedyIsDone == Spec => []VerifiedMeansDone
<1>1. WorkflowInv => VerifiedMeansDone
  BY LogType DEF WorkflowInv, VerifiedMeansDone, EventOK, RemedyIsDone
<1> QED BY WorkflowInvariant, <1>1, PTL

\* A message the case records cites a verification recorded before it in the
\* same revision (communicate_active_verification).
THEOREM MessagesCiteTheirRevision == Spec => []MessageCitesItsRevision
<1>1. ASSUME WorkflowInv, NEW i \in 1..Len(log),
             log[i].type \in {"VERIFIED_COMMUNICATION_CREATED", "COMMUNICATION_RECORDED"}
      PROVE  /\ messages[log[i].msg].rev = log[i].rev
             /\ \E k \in 1..(i - 1) :
                  /\ log[k].type \in {"AUTHORITATIVE_REMEDY_VERIFIED", "VERIFIED_NO_NEW_ACTION"}
                  /\ log[k].rev = log[i].rev
                  /\ log[k].ver = messages[log[i].msg].cites
  <2>1. /\ log[i].msg # NoId /\ log[i].ver # NoId
        /\ messages[log[i].msg] = [rev |-> log[i].rev, cites |-> log[i].ver]
        /\ verifications[log[i].ver].class # "VERIFICATION_FAILED"
    BY <1>1 DEF WorkflowInv, EventOK, MessageOnDisk
  <2>2. Recorded(log[i].ver, log[i].rev, i)
    BY <1>1, <2>1 DEF WorkflowInv, EventOK, VerificationOnDisk
  <2>3. PICK k \in 1..i : /\ log[k].type = OutcomeType(verifications[log[i].ver].class)
                          /\ log[k].rev = log[i].rev /\ log[k].ver = log[i].ver
    BY <2>2 DEF Recorded
  <2>4. log[k].type \in {"AUTHORITATIVE_REMEDY_VERIFIED", "VERIFIED_NO_NEW_ACTION"}
    BY <2>1, <2>3 DEF OutcomeType
  <2>5. k \in 1..(i - 1)
    BY <1>1, <2>4, LogType DEF WorkflowInv
  <2> QED BY <2>1, <2>3, <2>4, <2>5
<1>2. WorkflowInv => MessageCitesItsRevision
  BY <1>1, LogType DEF WorkflowInv, MessageCitesItsRevision
<1> QED BY WorkflowInvariant, <1>2, PTL

\* A case is closed on a message about a verification of its revision, both on
\* disk; on a remedy that is complete, or on none in a revision in which no
\* action was started (close).
THEOREM ClosuresAreBacked == Spec => []ClosureIsBacked
<1>1. ASSUME WorkflowInv, NEW i \in 1..Len(log), log[i].type = "RECOVERY_WORKFLOW_CLOSED"
      PROVE  /\ log[i].msg # NoId
             /\ messages[log[i].msg] = [rev |-> log[i].rev, cites |-> log[i].ver]
             /\ \E m \in 1..(i - 1) : log[m].msg = log[i].msg /\ log[m].rev = log[i].rev
             /\ \/ /\ \E k \in Before(i, "AUTHORITATIVE_REMEDY_VERIFIED", log[i].rev) :
                        log[k].ver = log[i].ver /\ effect[log[k].act] = "all"
                \/ /\ \E k \in Before(i, "VERIFIED_NO_NEW_ACTION", log[i].rev) :
                        log[k].ver = log[i].ver
                   /\ Before(i, "ACTION_EFFECT_STARTED", log[i].rev) = {}
  <2>1. /\ log[i].msg # NoId /\ log[i].ver # NoId
        /\ messages[log[i].msg] = [rev |-> log[i].rev, cites |-> log[i].ver]
        /\ verifications[log[i].ver].class # "VERIFICATION_FAILED"
    BY <1>1 DEF WorkflowInv, EventOK, MessageOnDisk
  <2>2. \E m \in 1..(i - 1) : log[m].msg = log[i].msg /\ log[m].rev = log[i].rev
    BY <1>1 DEF WorkflowInv, EventOK, MessageBeforeClosure
  <2>3. Recorded(log[i].ver, log[i].rev, i)
    BY <1>1, <2>1 DEF WorkflowInv, EventOK, VerificationOnDisk
  <2>4. PICK k \in 1..i : /\ log[k].type = OutcomeType(verifications[log[i].ver].class)
                          /\ log[k].rev = log[i].rev /\ log[k].ver = log[i].ver
    BY <2>3 DEF Recorded
  <2>5. log[k].type \in {"AUTHORITATIVE_REMEDY_VERIFIED", "VERIFIED_NO_NEW_ACTION"}
    BY <2>1, <2>4 DEF OutcomeType
  <2>6. k \in 1..(i - 1) /\ k \in 1..Len(log)
    BY <1>1, <2>5, LogType DEF WorkflowInv
  <2>7. CASE log[k].type = "AUTHORITATIVE_REMEDY_VERIFIED"
    <3>1. effect[log[k].act] = "all"
      BY <1>1, <2>6, <2>7 DEF WorkflowInv, EventOK, RemedyIsDone
    <3>2. k \in Before(i, "AUTHORITATIVE_REMEDY_VERIFIED", log[i].rev)
      BY <2>4, <2>6, <2>7 DEF Before
    <3> QED BY <2>1, <2>2, <2>4, <3>1, <3>2
  <2>8. CASE log[k].type = "VERIFIED_NO_NEW_ACTION"
    <3>1. k \in Before(i, "VERIFIED_NO_NEW_ACTION", log[i].rev)
      BY <2>4, <2>6, <2>8 DEF Before
    <3>2. Before(i, "ACTION_EFFECT_STARTED", log[i].rev) = {}
      <4>1. \A s \in 1..(i - 1) : s \in 1..Len(log)
        BY <1>1, LogType DEF WorkflowInv
      <4> QED BY <2>4, <2>6, <2>8, <4>1, <1>1 DEF WorkflowInv, ActsOrNot, Before
    <3> QED BY <2>1, <2>2, <2>4, <3>1, <3>2
  <2> QED BY <2>5, <2>7, <2>8
<1>2. WorkflowInv => ClosureIsBacked
  BY <1>1, LogType DEF WorkflowInv, ClosureIsBacked
<1> QED BY WorkflowInvariant, <1>2, PTL

\* No source shows an effect of an action that the ledger had not announced
\* (execute_active_action).
THEOREM EffectsAreAnnounced == Spec => []EffectIsAnnounced
<1>1. WorkflowInv => EffectIsAnnounced
  BY DEF WorkflowInv
<1> QED BY WorkflowInvariant, <1>1, PTL
=============================================================================

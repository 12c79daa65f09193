------------------------ MODULE RecoveryLedgerProofs ------------------------
(***************************************************************************)
(* Proofs about RecoveryLedger, for any number of processes, commands,     *)
(* events and crashes, whether or not a crash tears write-once files and   *)
(* callers reuse command ids.  LedgerInv is shown inductive, action by     *)
(* action; the safety properties follow from it.                           *)
(***************************************************************************)
EXTENDS RecoveryLedger, FiniteSetTheorems, TLAPS

-----------------------------------------------------------------------------
(* The projection of a ledger is typed.                                    *)

\* The revision of a well-typed ledger is a revision.
LEMMA RevOfType ==
  ASSUME NEW l \in Seq(Event)
  PROVE  RevOf(l) \in 1..MaxRevision
<1>1. MaxRevision \in Nat \ {0}
  BY ConstantsAssumption
<1>2. CASE l = <<>>
  BY <1>1, <1>2 DEF RevOf
<1>3. CASE l # <<>>
  <2>1. l[Len(l)] \in Event
    BY <1>3
  <2> QED
    BY <1>3, <2>1 DEF RevOf, Event
<1> QED
  BY <1>2, <1>3

\* The state of a ledger that is not empty is a workflow state.
LEMMA StateOfType ==
  ASSUME NEW l \in Seq(Event), l # <<>>
  PROVE  StateOf(l) \in WorkflowState
<1>1. l[Len(l)] \in Event
  OBVIOUS
<1> QED
  BY <1>1 DEF StateOf, Event

\* Every event type the module writes is an event type of the log.
LEMMA EventTypesListed ==
  /\ RevisionEventTypes \subseteq EventTypes
  /\ RecoveryEventTypes \subseteq EventTypes
  /\ {"PARTIAL_TAIL_RECOVERED", "UNCOMMITTED_EVENT_RECOVERED",
      "ACTION_AUTHORITY_RESERVED", SourceRevised, CaseReopened}
       \subseteq EventTypes
BY DEF EventTypes, RevisionEventTypes, RecoveryEventTypes,
       NonTransitionEventTypes, SourceRevised, CaseReopened

\* A request built from the present ledger is a request.
LEMMA ObservedType ==
  ASSUME ledger \in Seq(Event),
         NEW op \in {"advance", "reserve", "revise", "reopen", "recover", "freeze"},
         NEW c \in Int, NEW type \in EventTypes, NEW to \in WorkflowState,
         NEW a \in Actions \cup {NoAction}
  PROVE  Observed(op, c, type, to, a) \in Request
BY RevOfType DEF Observed, Request

\* The event an accepted request appends is an event.
LEMMA EventForType ==
  ASSUME ledger \in Seq(Event), NEW r \in Request, Room(r), Accepts(r)
  PROVE  EventFor(r) \in Event
<1>1. RevOf(ledger) \in 1..MaxRevision /\ MaxRevision \in Nat
  BY RevOfType, ConstantsAssumption
<1>2. Len(r.head) \in Nat
  BY DEF Request
<1>3. r.op \in {"revise", "reopen"} => RevOf(ledger) + 1 \in 1..MaxRevision
  BY <1>1 DEF Room
<1> QED
  BY <1>1, <1>2, <1>3 DEF EventFor, Event, Request

-----------------------------------------------------------------------------
(* Initial states.                                                         *)

LEMMA InitInv == Init => LedgerInv
<1> SUFFICES ASSUME Init PROVE LedgerInv
  OBVIOUS
<1>1. ledger \in Seq(Event) /\ Len(ledger) \in 1..MaxEvents
  BY SeedsAssumption DEF Init
<1>2. TypeOK
  <2>1. checkpoints \in [1..MaxEvents -> Seq(Event) \cup {NoFile, TornFile}]
    <3>1. \A i \in 1..MaxEvents : i <= Len(ledger) => SubSeq(ledger, 1, i) \in Seq(Event)
      BY <1>1
    <3> QED
      BY <3>1 DEF Init
  <2>2. snapshots \in [1..MaxRevision -> Seq(Event) \cup {NoFile, TornFile}]
    <3> SUFFICES ASSUME NEW r \in 1..MaxRevision
                 PROVE  SnapshotsOf(ledger)[r] \in Seq(Event) \cup {NoFile, TornFile}
      BY DEF Init, SnapshotsOf
    <3> DEFINE w == CHOOSE i \in DOMAIN ledger : Revises(ledger, i, r)
    <3>1. ASSUME \E i \in DOMAIN ledger : Revises(ledger, i, r)
          PROVE  SubSeq(ledger, 1, w - 1) \in Seq(Event)
      <4>1. w \in DOMAIN ledger
        BY <3>1
      <4> HIDE DEF w
      <4> QED
        BY <1>1, <4>1
    <3>2. <<>> \in Seq(Event)
      OBVIOUS
    <3> QED
      BY <3>1, <3>2 DEF SnapshotsOf
  <2>3. IsFiniteSet({})
    BY FS_EmptySet
  <2> QED
    BY <1>1, <2>1, <2>2, <2>3, ConstantsAssumption DEF Init, TypeOK, DiskTypeOK, Step
<1>3. LockOK /\ WriterOK
  BY ConstantsAssumption DEF Init, LockOK, WriterOK, FilesAt, Writing, Step
<1>4. FilesOK
  BY <1>1 DEF Init, FilesOK, OneUnmarkedSuffix, Marked
<1> QED
  BY <1>2, <1>3, <1>4 DEF LedgerInv

-----------------------------------------------------------------------------
(* How the processes move between steps.                                   *)

\* A process at a write holds the lock, and the others are not at a write.
LEMMA HolderAlone ==
  ASSUME LedgerInv, NEW p \in Procs, pc[p] \in Writing
  PROVE  /\ lock = p /\ lock # NoProc
         /\ freeze = NoFile /\ plan \in Event
         /\ req[p] \in Request
         /\ \A q \in Procs : q # p => pc[q] \in {"idle", "want"}
BY ConstantsAssumption DEF LedgerInv, LockOK, TypeOK, Writing

\* A caller moves, and no file changes.
LEMMA CallerInv ==
  ASSUME LedgerInv, NEW p \in Procs, pc[p] \in {"idle", "want"},
         NEW s \in {"idle", "want"}, pc' = [pc EXCEPT ![p] = s],
         NEW r \in Request \cup {NoRequest}, req' = [req EXCEPT ![p] = r],
         s = "want" => r \in Request,
         UNCHANGED <<disk, lock, plan, crashes>>,
         acked' \in SUBSET [cmd : Int, at : Nat]
  PROVE  LedgerInv'
<1> USE DEF LedgerInv
<1>1. TypeOK'
  BY DEF TypeOK, DiskTypeOK, disk, Step
<1>2. LockOK'
  <2>1. \A q \in Procs : pc'[q] \in Writing <=> lock' = q
    BY DEF LockOK, TypeOK, Writing, Step
  <2>2. \A q \in Procs : pc'[q] # "idle" => req'[q] \in Request
    BY DEF LockOK, TypeOK
  <2> QED
    BY <2>1, <2>2 DEF LockOK, disk
<1>3. FilesOK'
  BY DEF FilesOK, OneUnmarkedSuffix, Marked, disk
<1>4. WriterOK'
  <2> SUFFICES ASSUME NEW q \in Procs PROVE FilesAt(pc[q])'
    BY DEF WriterOK
  <2>1. CASE q = p
    BY <2>1 DEF TypeOK, FilesAt
  <2>2. CASE q # p
    <3>1. pc'[q] = pc[q] /\ FilesAt(pc[q])
      BY <2>2 DEF TypeOK, WriterOK
    <3> QED
      BY <3>1 DEF FilesAt, AllMarked, LastUnmarked, Marked, Unmarked, disk
  <2> QED
    BY <2>1, <2>2
<1> QED
  BY <1>1, <1>2, <1>3, <1>4

\* The lock holder goes from one write to the next.
LEMMA GotoInv ==
  ASSUME LedgerInv, NEW p \in Procs, lock' = p, plan' \in Event,
         \A q \in Procs : q # p => pc[q] \in {"idle", "want"},
         NEW s \in Writing, pc' = [pc EXCEPT ![p] = s],
         req[p] \in Request, freeze' = NoFile, UNCHANGED <<req, crashes>>,
         acked' \in SUBSET [cmd : Int, at : Nat],
         DiskTypeOK', FilesOK', FilesAt(s)'
  PROVE  LedgerInv'
<1> USE DEF LedgerInv
<1>1. TypeOK'
  BY DEF TypeOK, Writing
<1>2. \A q \in Procs : pc'[q] = IF q = p THEN s ELSE pc[q]
  BY DEF TypeOK
<1>3. LockOK'
  BY <1>2 DEF LockOK, Writing
<1>4. WriterOK'
  <2> SUFFICES ASSUME NEW q \in Procs PROVE FilesAt(pc[q])'
    BY DEF WriterOK
  <2>1. CASE q = p
    BY <1>2, <2>1
  <2>2. CASE q # p
    <3>1. pc'[q] \in {"idle", "want"}
      BY <1>2, <2>2
    <3> QED
      BY <3>1 DEF FilesAt
  <2> QED
    BY <2>1, <2>2
<1> QED
  BY <1>1, <1>3, <1>4

\* The lock holder leaves, after its last write, an error or a crash.
LEMMA LeaveInv ==
  ASSUME LedgerInv, NEW p \in Procs, pc[p] \in Writing, Leave(p),
         UNCHANGED req, crashes' \in 0..MaxCrashes,
         acked' \in SUBSET [cmd : Int, at : Nat],
         DiskTypeOK', FilesOK'
  PROVE  LedgerInv'
<1> USE DEF LedgerInv, Leave
<1>1. TypeOK'
  BY DEF TypeOK, Step
<1>2. \A q \in Procs : pc'[q] \in {"idle", "want"} /\ (pc'[q] # "idle" => pc[q] = pc'[q])
  BY HolderAlone DEF TypeOK
<1>3. LockOK'
  BY <1>2, ConstantsAssumption DEF LockOK, Writing
<1>4. WriterOK'
  <2> SUFFICES ASSUME NEW q \in Procs PROVE FilesAt(pc[q])'
    BY DEF WriterOK
  <2> QED
    BY <1>2 DEF FilesAt
<1> QED
  BY <1>1, <1>3, <1>4

-----------------------------------------------------------------------------
(* The callers' steps.                                                     *)

LEMMA AskInv ==
  ASSUME LedgerInv, NEW p \in Procs, NEW r \in Request, Ask(p, r)
  PROVE  LedgerInv'
BY CallerInv DEF Ask, LedgerInv, TypeOK

LEMMA SubmitInv ==
  ASSUME LedgerInv, NEW p \in Procs, Submit(p)
  PROVE  LedgerInv'
<1>1. ledger \in Seq(Event) /\ CommandIds \subseteq Int /\ 0 \in Int
  BY ConstantsAssumption DEF LedgerInv, TypeOK, DiskTypeOK
<1>2. "RECEIVED" \in WorkflowState /\ "EVIDENCE_BLOCKED" \in WorkflowState
      /\ "ACTION_RESERVED" \in WorkflowState
  BY DEF WorkflowState
<1>3. CASE RequestAdvance(p)
  <2>1. PICK c \in CommandIds, k \in AdvanceKinds :
          Ask(p, Observed("advance", c, k[1], k[2], NoAction))
    BY <1>3 DEF RequestAdvance
  <2>2. k[1] \in EventTypes /\ k[2] \in WorkflowState
    BY KindsAssumption
  <2> QED
    BY <1>1, <2>1, <2>2, ObservedType, AskInv
<1>4. CASE RequestReserve(p)
  <2>1. PICK c \in CommandIds, a \in Actions :
          Ask(p, Observed("reserve", c, "ACTION_AUTHORITY_RESERVED", "ACTION_RESERVED", a))
    BY <1>4 DEF RequestReserve
  <2> QED
    BY <1>1, <1>2, <2>1, EventTypesListed, ObservedType, AskInv
<1>5. CASE RequestRevise(p)
  <2>1. PICK c \in CommandIds :
          Ask(p, Observed("revise", c, SourceRevised, "EVIDENCE_BLOCKED", NoAction))
    BY <1>5 DEF RequestRevise, RequestRevision
  <2> QED
    BY <1>1, <1>2, <2>1, EventTypesListed, ObservedType, AskInv
<1>6. CASE RequestReopen(p)
  <2>1. PICK c \in CommandIds :
          Ask(p, Observed("reopen", c, CaseReopened, "EVIDENCE_BLOCKED", NoAction))
    BY <1>6 DEF RequestReopen, RequestRevision
  <2> QED
    BY <1>1, <1>2, <2>1, EventTypesListed, ObservedType, AskInv
<1>7. \A op \in {"recover", "freeze"} :
        [Observed(op, 0, "PARTIAL_TAIL_RECOVERED", "RECEIVED", NoAction)
           EXCEPT !.head = <<>>] \in Request
  <2> SUFFICES ASSUME NEW op \in {"recover", "freeze"}
               PROVE  [Observed(op, 0, "PARTIAL_TAIL_RECOVERED", "RECEIVED", NoAction)
                         EXCEPT !.head = <<>>] \in Request
    OBVIOUS
  <2>1. Observed(op, 0, "PARTIAL_TAIL_RECOVERED", "RECEIVED", NoAction) \in Request
    BY <1>1, <1>2, EventTypesListed, ObservedType
  <2>2. ASSUME NEW r \in Request
        PROVE  [r EXCEPT !.head = <<>>] \in Request
    <3>1. <<>> \in Seq(Event)
      OBVIOUS
    <3>2. ASSUME NEW s, s \in Seq(Event)
          PROVE  [r EXCEPT !.head = s] \in Request
      BY <3>2 DEF Request
    <3> QED
      BY <3>1, <3>2
  <2> QED
    BY <2>1, <2>2
<1>8. CASE RequestRecover(p)
  BY <1>7, <1>8, AskInv DEF RequestRecover
<1>9. CASE RequestFreeze(p)
  BY <1>7, <1>9, AskInv DEF RequestFreeze
<1>10. CASE Retry(p)
  BY <1>10, CallerInv DEF Retry, LedgerInv, TypeOK
<1> QED
  BY <1>3, <1>4, <1>5, <1>6, <1>8, <1>9, <1>10 DEF Submit

-----------------------------------------------------------------------------
(* Taking the lock.                                                        *)

\* Reading the whole ledger means that every event has its whole marker.
LEMMA ReplaysMarked ==
  ASSUME LedgerInv, Replays
  PROVE  tail = NoTail /\ AllMarked
BY DEF Replays, AllMarked, Marked, LedgerInv, TypeOK, DiskTypeOK

LEMMA BeginInv ==
  ASSUME LedgerInv, NEW p \in Procs, Begin(p)
  PROVE  LedgerInv'
<1> USE DEF LedgerInv
<1>1. req[p] \in Request /\ Accepts(req[p]) /\ Room(req[p]) /\ lock = NoProc
  BY DEF Begin, LockOK
<1>2. freeze = NoFile
  BY <1>1 DEF Accepts, AcceptsAdvance, AcceptsReserve, AcceptsRevise,
              AcceptsReopen, Request
<1>3. plan' \in Event
  BY <1>1, EventForType DEF Begin, TypeOK, DiskTypeOK
<1>4. FirstStep(req[p].op) \in Writing
  BY <1>1 DEF FirstStep, Request, Writing, Step
<1>5. FilesAt(FirstStep(req[p].op))
  <2>1. CASE req[p].op # "recover"
    <3>1. Replays
      BY <1>1, <2>1 DEF Accepts, AcceptsAdvance, AcceptsReserve, AcceptsRevise,
                        AcceptsReopen, Request
    <3>2. FirstStep(req[p].op) \in {"append", "snapshot", "seal"}
      BY <1>1, <2>1 DEF FirstStep, Request
    <3> QED
      BY <3>1, <3>2, ReplaysMarked DEF FilesAt
  <2>2. CASE req[p].op = "recover"
    <3>1. Recoverable
      BY <1>1, <2>2 DEF Accepts
    <3>2. FirstStep(req[p].op) = "quarantine"
      BY <2>2 DEF FirstStep
    <3>3. ledger \in Seq(Event)
      BY DEF TypeOK, DiskTypeOK
    <3>4. CASE tail # NoTail
      BY <3>1, <3>2, <3>3, <3>4 DEF Recoverable, FilesAt, AllMarked, Marked
    <3>5. CASE tail = NoTail
      <4>1. Len(ledger) >= 2 /\ markers = SubSeq(ledger, 1, Len(ledger) - 1)
        BY <3>1, <3>5 DEF Recoverable
      <4>2. LastUnmarked
        BY <3>3, <4>1 DEF LastUnmarked, Marked
      <4> QED
        BY <3>2, <3>5, <4>1, <4>2 DEF FilesAt
    <3> QED
      BY <3>4, <3>5
  <2> QED
    BY <2>1, <2>2
<1>6. FilesAt(FirstStep(req[p].op))'
  <2>1. FirstStep(req[p].op) \in {"append", "snapshot", "seal", "quarantine"}
    BY <1>1 DEF FirstStep, Request
  <2>2. UNCHANGED <<disk, req>>
    BY DEF Begin
  <2> QED
    BY <1>5, <2>1, <2>2 DEF FilesAt, AllMarked, LastUnmarked, Marked, disk, FirstStep
<1>7. \A q \in Procs : q # p => pc[q] \in {"idle", "want"}
  BY <1>1, ConstantsAssumption DEF LockOK, Writing, TypeOK
<1>8. DiskTypeOK' /\ FilesOK'
  BY DEF Begin, TypeOK, DiskTypeOK, FilesOK, OneUnmarkedSuffix, Marked, disk
<1> QED
  BY <1>1, <1>2, <1>3, <1>4, <1>6, <1>7, <1>8, GotoInv DEF Begin, disk, TypeOK

LEMMA AnswerInv ==
  ASSUME LedgerInv, NEW p \in Procs, Answer(p)
  PROVE  LedgerInv'
<1>1. CASE Begin(p)
  BY <1>1, BeginInv
<1>2. CASE Repeat(p)
  <2>1. ledger \in Seq(Event) /\ acked \in SUBSET [cmd : Int, at : Nat]
        /\ req \in [Procs -> Request \cup {NoRequest}]
    BY DEF LedgerInv, TypeOK, DiskTypeOK
  <2>2. ASSUME NEW i \in DOMAIN ledger
        PROVE  [cmd |-> ledger[i].cmd, at |-> i] \in [cmd : Int, at : Nat]
    <3>1. i \in Nat /\ ledger[i] \in Event
      BY <2>1
    <3>2. ledger[i].cmd \in Int
      BY <3>1 DEF Event
    <3> QED
      BY <3>1, <3>2
  <2>3. acked' \in SUBSET [cmd : Int, at : Nat]
    BY <1>2, <2>1, <2>2 DEF Repeat
  <2>4. req' = [req EXCEPT ![p] = req[p]] /\ req[p] \in Request \cup {NoRequest}
    BY <1>2, <2>1 DEF Repeat
  <2> QED
    BY <1>2, <2>3, <2>4, CallerInv DEF Repeat
<1>3. CASE Reject(p) \/ LockTimeout(p)
  BY <1>3, CallerInv DEF Reject, LockTimeout, LedgerInv, TypeOK
<1> QED
  BY <1>1, <1>2, <1>3 DEF Answer

-----------------------------------------------------------------------------
(* The writes of the lock holder.                                          *)

\* The parts of the invariant on the files, as the writes use them.
LEMMA DiskFacts ==
  ASSUME LedgerInv
  PROVE  /\ ledger \in Seq(Event) /\ Len(ledger) \in Nat /\ Len(ledger) >= 1
         /\ markers \in Seq(Event \cup {TornFile}) /\ Len(markers) \in Nat
         /\ DiskTypeOK /\ FilesOK
         /\ crashes \in 0..MaxCrashes /\ acked \in SUBSET [cmd : Int, at : Nat]
         /\ \A p \in Procs : FilesAt(pc[p])
<1>1. /\ DiskTypeOK /\ FilesOK
      /\ crashes \in 0..MaxCrashes /\ acked \in SUBSET [cmd : Int, at : Nat]
      /\ \A p \in Procs : FilesAt(pc[p])
  BY DEF LedgerInv, TypeOK, WriterOK
<1>2. ledger \in Seq(Event) /\ markers \in Seq(Event \cup {TornFile})
  BY <1>1 DEF DiskTypeOK
<1>3. Len(ledger) \in Nat /\ Len(ledger) >= 1 /\ Len(markers) \in Nat
  BY <1>1, <1>2 DEF FilesOK
<1> QED
  BY <1>1, <1>2, <1>3

LEMMA SnapshotStepsInv ==
  ASSUME LedgerInv, NEW p \in Procs, WriteSnapshot(p) \/ SnapshotExists(p)
  PROVE  LedgerInv'
<1> USE DiskFacts
<1>1. pc[p] = "snapshot" /\ pc[p] \in Writing /\ FilesAt("snapshot")
  BY DEF WriteSnapshot, SnapshotExists, Writing, Step
<1>2. /\ lock = p /\ freeze = NoFile /\ plan \in Event /\ req[p] \in Request
      /\ \A q \in Procs : q # p => pc[q] \in {"idle", "want"}
  BY <1>1, HolderAlone
<1>3. CASE WriteSnapshot(p)
  <2>1. req[p].head \in Seq(Event)
    BY <1>2 DEF Request
  <2>2. DiskTypeOK'
    BY <1>3, <2>1 DEF WriteSnapshot, DiskTypeOK
  <2>3. FilesOK'
    BY <1>3 DEF WriteSnapshot, FilesOK, OneUnmarkedSuffix, Marked
  <2>4. FilesAt("append")'
    BY <1>1, <1>3 DEF WriteSnapshot, FilesAt, AllMarked, Marked
  <2>5. "append" \in Writing
    BY DEF Writing, Step
  <2> QED
    BY <1>2, <1>3, <2>2, <2>3, <2>4, <2>5, GotoInv DEF WriteSnapshot, Goto
<1>4. CASE SnapshotExists(p)
  <2>1. DiskTypeOK' /\ FilesOK'
    BY <1>4 DEF SnapshotExists, disk, DiskTypeOK, FilesOK, OneUnmarkedSuffix, Marked
  <2> QED
    BY <1>1, <1>4, <2>1, LeaveInv DEF SnapshotExists
<1> QED
  BY <1>3, <1>4

LEMMA AppendEventInv ==
  ASSUME LedgerInv, NEW p \in Procs, AppendEvent(p)
  PROVE  LedgerInv'
<1> USE DiskFacts
<1>1. pc[p] = "append" /\ pc[p] \in Writing /\ FilesAt("append")
  BY DEF AppendEvent, Writing, Step
<1>2. /\ lock = p /\ freeze = NoFile /\ plan \in Event /\ req[p] \in Request
      /\ \A q \in Procs : q # p => pc[q] \in {"idle", "want"}
  BY <1>1, HolderAlone
<1>3. tail = NoTail /\ AllMarked
  BY <1>1 DEF FilesAt
<1>4. /\ ledger' \in Seq(Event) /\ Len(ledger') = Len(ledger) + 1
      /\ ledger'[Len(ledger')] = plan
      /\ \A i \in 1..Len(ledger) : ledger'[i] = ledger[i]
  BY <1>2 DEF AppendEvent
<1>5. LastUnmarked'
  BY <1>3, <1>4 DEF AppendEvent, LastUnmarked, AllMarked, Marked
<1>6. FilesOK'
  BY <1>3, <1>4, <1>5 DEF AppendEvent, FilesOK, OneUnmarkedSuffix, LastUnmarked, Marked
<1>7. DiskTypeOK'
  BY <1>4 DEF AppendEvent, DiskTypeOK
<1>8. FilesAt("mark")'
  BY <1>3, <1>4, <1>5 DEF AppendEvent, FilesAt
<1>9. "mark" \in Writing
  BY DEF Writing, Step
<1> QED
  BY <1>2, <1>6, <1>7, <1>8, <1>9, GotoInv DEF AppendEvent, Goto

LEMMA WriteMarkerInv ==
  ASSUME LedgerInv, NEW p \in Procs, WriteMarker(p)
  PROVE  LedgerInv'
<1> USE DiskFacts
<1>1. pc[p] = "mark" /\ pc[p] \in Writing /\ FilesAt("mark")
  BY DEF WriteMarker, Writing, Step
<1>2. /\ lock = p /\ freeze = NoFile /\ plan \in Event /\ req[p] \in Request
      /\ \A q \in Procs : q # p => pc[q] \in {"idle", "want"}
  BY <1>1, HolderAlone
<1>3. tail = NoTail /\ LastUnmarked /\ ledger[Len(ledger)] = plan
  BY <1>1 DEF FilesAt
<1>4. /\ markers' \in Seq(Event \cup {TornFile}) /\ Len(markers') = Len(markers) + 1
      /\ markers'[Len(markers')] = plan
      /\ \A i \in 1..Len(markers) : markers'[i] = markers[i]
  BY <1>2 DEF WriteMarker
<1>5. AllMarked'
  BY <1>3, <1>4 DEF WriteMarker, LastUnmarked, AllMarked, Marked
<1>6. FilesOK'
  BY <1>3, <1>4, <1>5 DEF WriteMarker, FilesOK, OneUnmarkedSuffix, AllMarked, Marked
<1>7. DiskTypeOK'
  BY <1>4 DEF WriteMarker, DiskTypeOK
<1>8. FilesAt("checkpoint")'
  BY <1>3, <1>5 DEF WriteMarker, FilesAt
<1>9. "checkpoint" \in Writing
  BY DEF Writing, Step
<1> QED
  BY <1>2, <1>6, <1>7, <1>8, <1>9, GotoInv DEF WriteMarker, Goto

LEMMA CheckpointStepsInv ==
  ASSUME LedgerInv, NEW p \in Procs, WriteCheckpoint(p) \/ ProjectionFails(p)
  PROVE  LedgerInv'
<1> USE DiskFacts
<1>1. pc[p] \in Writing /\ plan \in Event
  BY HolderAlone DEF WriteCheckpoint, ProjectionFails, Writing, Step
<1>2. CASE WriteCheckpoint(p)
  <2>1. DiskTypeOK' /\ FilesOK'
    BY <1>2 DEF WriteCheckpoint, DiskTypeOK, FilesOK, OneUnmarkedSuffix, Marked
  <2>2. [cmd |-> plan.cmd, at |-> Len(ledger)] \in [cmd : Int, at : Nat]
    BY <1>1 DEF Event
  <2>3. acked' \in SUBSET [cmd : Int, at : Nat]
    BY <1>2, <2>2 DEF WriteCheckpoint
  <2> QED
    BY <1>1, <1>2, <2>1, <2>3, LeaveInv DEF WriteCheckpoint
<1>3. CASE ProjectionFails(p)
  <2>1. DiskTypeOK' /\ FilesOK'
    BY <1>3 DEF ProjectionFails, disk, DiskTypeOK, FilesOK, OneUnmarkedSuffix, Marked
  <2> QED
    BY <1>1, <1>3, <2>1, LeaveInv DEF ProjectionFails
<1> QED
  BY <1>2, <1>3

\* The bytes recover_partial_tail cuts off are a tail.
LEMMA UnmarkedType ==
  ASSUME LedgerInv
  PROVE  \A w \in BOOLEAN : [tail |-> Unmarked, whole |-> w] \in Quarantined
BY DEF LedgerInv, TypeOK, DiskTypeOK, Unmarked, Quarantined, TailBytes, NoTail

LEMMA QuarantineStepsInv ==
  ASSUME LedgerInv, NEW p \in Procs, WriteQuarantine(p) \/ QuarantineExists(p)
  PROVE  LedgerInv'
<1> USE DiskFacts
<1>1. pc[p] = "quarantine" /\ pc[p] \in Writing /\ FilesAt("quarantine")
  BY DEF WriteQuarantine, QuarantineExists, Writing, Step
<1>2. /\ lock = p /\ freeze = NoFile /\ plan \in Event /\ req[p] \in Request
      /\ \A q \in Procs : q # p => pc[q] \in {"idle", "want"}
  BY <1>1, HolderAlone
<1>3. CASE WriteQuarantine(p)
  <2>1. quarantine' \in SUBSET Quarantined /\ IsFiniteSet(quarantine')
    BY <1>3, UnmarkedType, FS_AddElement DEF WriteQuarantine, DiskTypeOK
  <2>2. DiskTypeOK'
    BY <1>3, <2>1 DEF WriteQuarantine, DiskTypeOK
  <2>3. FilesOK'
    BY <1>3 DEF WriteQuarantine, FilesOK, OneUnmarkedSuffix, Marked
  <2>4. FilesAt("truncate")'
    BY <1>1, <1>3 DEF WriteQuarantine, FilesAt, AllMarked, LastUnmarked, Marked, Unmarked
  <2>5. "truncate" \in Writing
    BY DEF Writing, Step
  <2> QED
    BY <1>2, <1>3, <2>2, <2>3, <2>4, <2>5, GotoInv DEF WriteQuarantine, Goto
<1>4. CASE QuarantineExists(p)
  <2>1. DiskTypeOK' /\ FilesOK'
    BY <1>4 DEF QuarantineExists, disk, DiskTypeOK, FilesOK, OneUnmarkedSuffix, Marked
  <2> QED
    BY <1>1, <1>4, <2>1, LeaveInv DEF QuarantineExists
<1> QED
  BY <1>3, <1>4

\* The trace of a recovery is an event.
LEMMA RecoveryEventType ==
  ASSUME LedgerInv, NEW l \in Seq(Event), l # <<>>
  PROVE  RecoveryEvent(l) \in Event
<1>1. Cardinality(quarantine) \in Nat
  BY FS_CardinalityType DEF LedgerInv, TypeOK, DiskTypeOK
<1>2. StateOf(l) \in WorkflowState /\ RevOf(l) \in 1..MaxRevision
  BY StateOfType, RevOfType
<1> QED
  BY <1>1, <1>2, EventTypesListed DEF RecoveryEvent, Event

LEMMA TruncateTailInv ==
  ASSUME LedgerInv, NEW p \in Procs, TruncateTail(p)
  PROVE  LedgerInv'
<1> USE DiskFacts
<1>1. pc[p] = "truncate" /\ pc[p] \in Writing /\ FilesAt("truncate")
  BY DEF TruncateTail, Writing, Step
<1>2. /\ lock = p /\ freeze = NoFile /\ req[p] \in Request
      /\ \A q \in Procs : q # p => pc[q] \in {"idle", "want"}
  BY <1>1, HolderAlone
<1>3. tail' = NoTail /\ markers' = markers
  BY DEF TruncateTail
<1>4. ledger' \in Seq(Event) /\ ledger' # <<>> /\ AllMarked' /\ Len(ledger') >= 1
  <2>1. CASE tail # NoTail
    BY <1>1, <1>3, <2>1 DEF TruncateTail, FilesAt, AllMarked, Marked
  <2>2. CASE tail = NoTail
    <3>1. Len(ledger) >= 2 /\ LastUnmarked /\ ledger' = SubSeq(ledger, 1, Len(ledger) - 1)
      BY <1>1, <2>2 DEF TruncateTail, FilesAt
    <3>2. /\ ledger' \in Seq(Event) /\ Len(ledger') = Len(ledger) - 1
          /\ \A i \in 1..Len(ledger) - 1 : ledger'[i] = ledger[i]
      BY <3>1
    <3> QED
      BY <1>3, <3>1, <3>2 DEF LastUnmarked, AllMarked, Marked
  <2> QED
    BY <2>1, <2>2
<1>5. plan' \in Event
  BY <1>4, RecoveryEventType DEF TruncateTail
<1>6. DiskTypeOK'
  BY <1>3, <1>4 DEF TruncateTail, DiskTypeOK
<1>7. FilesOK'
  BY <1>3, <1>4 DEF FilesOK, OneUnmarkedSuffix, AllMarked, Marked
<1>8. FilesAt("append")' /\ "append" \in Writing
  BY <1>3, <1>4 DEF FilesAt, Writing, Step
<1> QED
  BY <1>2, <1>5, <1>6, <1>7, <1>8, GotoInv DEF TruncateTail, Goto

LEMMA WriteFreezeInv ==
  ASSUME LedgerInv, NEW p \in Procs, WriteFreeze(p)
  PROVE  LedgerInv'
<1> USE DiskFacts
<1>1. pc[p] \in Writing
  BY DEF WriteFreeze, Writing, Step
<1>2. DiskTypeOK' /\ FilesOK'
  BY DEF WriteFreeze, DiskTypeOK, FilesOK, OneUnmarkedSuffix, Marked
<1> QED
  BY <1>1, <1>2, LeaveInv DEF WriteFreeze

-----------------------------------------------------------------------------
(* Crashes.                                                                *)

LEMMA CrashFacts ==
  ASSUME LedgerInv, NEW p \in Procs, Crash(p)
  PROVE  /\ pc[p] \in Writing /\ plan \in Event
         /\ crashes' \in 0..MaxCrashes
         /\ acked' \in SUBSET [cmd : Int, at : Nat]
<1>1. pc[p] \in Writing /\ plan \in Event
  BY ConstantsAssumption DEF Crash, LedgerInv, LockOK
<1> QED
  BY <1>1, ConstantsAssumption DEF Crash, LedgerInv, TypeOK

LEMMA CrashInAppendInv ==
  ASSUME LedgerInv, NEW p \in Procs, CrashInAppend(p)
  PROVE  LedgerInv'
<1> USE DiskFacts
<1>1. Crash(p) /\ FilesAt("append")
  BY DEF CrashInAppend
<1>2. pc[p] \in Writing /\ plan \in Event
  BY <1>1, CrashFacts
<1>3. tail' \in TailBytes
  <2>1. Append(ledger, plan) \in Seq(Event) /\ <<>> \in Seq(Event)
    BY <1>2
  <2>2. \A f \in {"short", "long"}, l \in Seq(Event) : [form |-> f, log |-> l] \in TailBytes
    BY DEF TailBytes
  <2>3. tail' = [form |-> "short", log |-> <<>>]
        \/ tail' = [form |-> "long", log |-> Append(ledger, plan)]
    BY DEF CrashInAppend
  <2> QED
    BY <2>1, <2>2, <2>3
<1>4. DiskTypeOK'
  BY <1>3 DEF CrashInAppend, DiskTypeOK
<1>5. FilesOK'
  BY <1>1 DEF CrashInAppend, FilesOK, FilesAt, AllMarked, OneUnmarkedSuffix, Marked
<1> QED
  BY <1>1, <1>2, <1>4, <1>5, CrashFacts, LeaveInv DEF Crash

LEMMA CrashInWriteOnceInv ==
  ASSUME LedgerInv, NEW p \in Procs, CrashInWriteOnce(p)
  PROVE  LedgerInv'
<1> USE DiskFacts
<1>1. Crash(p) /\ UNCHANGED <<ledger, tail, artifacts>>
  BY DEF CrashInWriteOnce
<1>2. DiskTypeOK' /\ FilesOK'
  <2>1. CASE /\ pc[p] = "mark"
             /\ markers' = Append(markers, TornFile)
             /\ UNCHANGED <<checkpoints, snapshots, quarantine, freeze>>
    <3>1. tail = NoTail /\ LastUnmarked
      BY <2>1 DEF FilesAt
    <3>2. /\ markers' \in Seq(Event \cup {TornFile}) /\ Len(markers') = Len(markers) + 1
          /\ markers'[Len(markers')] = TornFile
          /\ \A i \in 1..Len(markers) : markers'[i] = markers[i]
      BY <2>1
    <3>3. FilesOK'
      BY <1>1, <3>1, <3>2 DEF FilesOK, LastUnmarked, OneUnmarkedSuffix, Marked
    <3> QED
      BY <1>1, <2>1, <3>2, <3>3 DEF DiskTypeOK
  <2>2. CASE /\ pc[p] = "checkpoint"
             /\ checkpoints' = [checkpoints EXCEPT ![Len(ledger)] = TornFile]
             /\ UNCHANGED <<markers, snapshots, quarantine, freeze>>
    BY <1>1, <2>2 DEF DiskTypeOK, FilesOK, OneUnmarkedSuffix, Marked
  <2>3. CASE /\ pc[p] = "snapshot"
             /\ snapshots' = [snapshots EXCEPT ![plan.rev] = TornFile]
             /\ UNCHANGED <<markers, checkpoints, quarantine, freeze>>
    BY <1>1, <2>3 DEF DiskTypeOK, FilesOK, OneUnmarkedSuffix, Marked
  <2>4. CASE /\ pc[p] = "quarantine"
             /\ quarantine' = quarantine \cup {[tail |-> Unmarked, whole |-> FALSE]}
             /\ UNCHANGED <<markers, checkpoints, snapshots, freeze>>
    <3>1. quarantine' \in SUBSET Quarantined /\ IsFiniteSet(quarantine')
      BY <2>4, UnmarkedType, FS_AddElement DEF DiskTypeOK
    <3> QED
      BY <1>1, <2>4, <3>1 DEF DiskTypeOK, FilesOK, OneUnmarkedSuffix, Marked
  <2>5. CASE /\ pc[p] = "seal"
             /\ UNCHANGED <<markers, checkpoints, snapshots, quarantine>>
    BY <1>1, <2>5 DEF DiskTypeOK, FilesOK, OneUnmarkedSuffix, Marked
  <2> QED
    BY <2>1, <2>2, <2>3, <2>4, <2>5 DEF CrashInWriteOnce
<1> QED
  BY <1>1, <1>2, CrashFacts, LeaveInv DEF Crash

LEMMA FailInv ==
  ASSUME LedgerInv, NEW p \in Procs, Fail(p)
  PROVE  LedgerInv'
<1>1. CASE CrashBetweenWrites(p)
  <2>1. DiskTypeOK' /\ FilesOK'
    BY <1>1, DiskFacts
       DEF CrashBetweenWrites, disk, DiskTypeOK, FilesOK, OneUnmarkedSuffix, Marked
  <2> QED
    BY <1>1, <2>1, CrashFacts, LeaveInv DEF CrashBetweenWrites, Crash
<1> QED
  BY <1>1, CrashInAppendInv, CrashInWriteOnceInv DEF Fail

-----------------------------------------------------------------------------
(* The inductive invariant.                                                *)

LEMMA WriteInv ==
  ASSUME LedgerInv, NEW p \in Procs, Write(p)
  PROVE  LedgerInv'
BY SnapshotStepsInv, AppendEventInv, WriteMarkerInv, CheckpointStepsInv,
   QuarantineStepsInv, TruncateTailInv, WriteFreezeInv DEF Write

LEMMA StutterInv ==
  ASSUME LedgerInv, UNCHANGED vars
  PROVE  LedgerInv'
<1> USE DEF LedgerInv, vars, disk
<1>1. TypeOK'
  BY DEF TypeOK, DiskTypeOK
<1>2. LockOK' /\ FilesOK'
  BY DEF LockOK, FilesOK, OneUnmarkedSuffix, Marked
<1>3. WriterOK'
  BY DEF WriterOK, FilesAt, AllMarked, LastUnmarked, Marked, Unmarked
<1> QED
  BY <1>1, <1>2, <1>3

\* A file of the adapter or the orchestrator is none of the ledger's.
LEMMA ArtifactInv ==
  ASSUME LedgerInv, WriteArtifact
  PROVE  LedgerInv'
<1> USE DEF LedgerInv, WriteArtifact
<1>1. TypeOK'
  BY ConstantsAssumption DEF TypeOK, DiskTypeOK
<1>2. LockOK' /\ FilesOK'
  BY DEF LockOK, FilesOK, OneUnmarkedSuffix, Marked
<1>3. WriterOK'
  BY DEF WriterOK, FilesAt, AllMarked, LastUnmarked, Marked, Unmarked
<1> QED
  BY <1>1, <1>2, <1>3

LEMMA NextInv == LedgerInv /\ [Next]_vars => LedgerInv'
<1> SUFFICES ASSUME LedgerInv, [Next]_vars PROVE LedgerInv'
  OBVIOUS
<1> QED
  BY SubmitInv, AnswerInv, WriteInv, FailInv, ArtifactInv, StutterInv DEF Next

\* LedgerInv holds in every reachable state: the variables are typed, the
\* process at a write holds the lock on a run not frozen, and the files are
\* as the write finds them, whatever was interrupted before.
THEOREM LedgerInvariant == Spec => []LedgerInv
BY InitInv, NextInv, PTL DEF Spec

\* Every variable has its type in every reachable state.
THEOREM Typing == Spec => []TypeOK
<1>1. LedgerInv => TypeOK
  BY DEF LedgerInv
<1> QED
  BY <1>1, LedgerInvariant, PTL

\* Crashes and recoveries never leave more than one event, or the bytes of
\* one, without its commit marker.
THEOREM SuffixIsOne == Spec => []OneUnmarkedSuffix
<1>1. LedgerInv => OneUnmarkedSuffix
  BY DEF LedgerInv, FilesOK
<1> QED
  BY <1>1, LedgerInvariant, PTL

-----------------------------------------------------------------------------
(* The committed log.                                                      *)

\* How much is committed: all that has a whole marker.
CommittedOK ==
  /\ ledger \in Seq(Event) /\ CommittedLength \in 0..Len(ledger)
  /\ Committed \in Seq(Event) /\ Len(Committed) = CommittedLength
  /\ \A i \in 1..CommittedLength : Committed[i] = ledger[i]

\* A marker that binds its event is a whole file.
LEMMA MarkedIsWhole ==
  ASSUME LedgerInv, NEW i \in 1..Len(markers), Marked(i)
  PROVE  markers[i] # TornFile
<1>1. ledger[i] \in Event
  BY DiskFacts DEF FilesOK, OneUnmarkedSuffix
<1> QED
  BY <1>1, FilesAssumption DEF Marked

LEMMA CommittedFacts == LedgerInv => CommittedOK
<1> SUFFICES ASSUME LedgerInv PROVE CommittedOK
  OBVIOUS
<1>1. ledger \in Seq(Event) /\ Len(markers) \in Nat /\ Len(ledger) \in Nat
      /\ markers \in Seq(Event \cup {TornFile})
  BY DiskFacts
<1>2. Len(markers) <= Len(ledger)
  BY <1>1, DiskFacts DEF FilesOK, OneUnmarkedSuffix
<1>3. CommittedLength \in 0..Len(ledger)
  BY <1>1, <1>2 DEF CommittedLength
<1> QED
  BY <1>1, <1>3 DEF Committed, CommittedOK

\* Growth of the committed part, when the ledger file keeps that part.
LEMMA PrefixGrows ==
  ASSUME LedgerInv, LedgerInv', CommittedLength <= CommittedLength',
         \A i \in 1..CommittedLength : ledger'[i] = ledger[i]
  PROVE  /\ Len(Committed) <= Len(Committed')
         /\ SubSeq(Committed', 1, Len(Committed)) = Committed
<1>1. CommittedOK
  BY CommittedFacts
<1>2. (LedgerInv => CommittedOK)'
  BY CommittedFacts, PTL
<1>3. CommittedOK'
  BY <1>2
<1>4. /\ Len(Committed) \in Nat /\ Len(Committed') \in Nat
      /\ Len(Committed) <= Len(Committed')
  BY <1>1, <1>3 DEF CommittedOK
<1>5. \A i \in 1..Len(Committed) : Committed'[i] = Committed[i]
  BY <1>1, <1>3, <1>4 DEF CommittedOK
<1>6. Committed \in Seq(Event) /\ Committed' \in Seq(Event)
  BY <1>1, <1>3 DEF CommittedOK
<1>7. ASSUME NEW s \in Seq(Event), NEW t \in Seq(Event), Len(s) <= Len(t),
             \A i \in 1..Len(s) : t[i] = s[i]
      PROVE  SubSeq(t, 1, Len(s)) = s
  BY <1>7
<1> QED
  BY <1>4, <1>5, <1>6, <1>7

\* The steps that change the ledger or its markers.
LEMMA LedgerSteps ==
  ASSUME Next
  PROVE  \/ UNCHANGED <<ledger, markers>>
         \/ \E p \in Procs :
              \/ AppendEvent(p) \/ WriteMarker(p) \/ TruncateTail(p)
              \/ /\ pc[p] = "mark" /\ UNCHANGED ledger
                 /\ markers' = Append(markers, TornFile)
<1>0. CASE WriteArtifact
  BY <1>0 DEF WriteArtifact
<1> SUFFICES ASSUME NEW p \in Procs, Submit(p) \/ Answer(p) \/ Write(p) \/ Fail(p)
             PROVE  \/ UNCHANGED <<ledger, markers>>
                    \/ AppendEvent(p) \/ WriteMarker(p) \/ TruncateTail(p)
                    \/ /\ pc[p] = "mark" /\ UNCHANGED ledger
                       /\ markers' = Append(markers, TornFile)
  BY <1>0 DEF Next
<1>2. CASE Submit(p) \/ Answer(p)
  BY <1>2 DEF Submit, RequestAdvance, RequestReserve, RequestRevise, RequestReopen,
              RequestRevision, RequestRecover, RequestFreeze, Retry, Ask,
              Answer, Begin, Repeat, Reject, LockTimeout, disk
<1>3. CASE Write(p)
  BY <1>3 DEF Write, WriteSnapshot, SnapshotExists, WriteCheckpoint, ProjectionFails,
              WriteQuarantine, QuarantineExists, WriteFreeze, disk
<1>4. CASE Fail(p)
  BY <1>4 DEF Fail, CrashBetweenWrites, CrashInAppend, CrashInWriteOnce, disk
<1> QED
  BY <1>2, <1>3, <1>4

\* No step takes back a committed event.
LEMMA GrowthStep ==
  ASSUME LedgerInv, LedgerInv', [Next]_vars
  PROVE  /\ Len(Committed) <= Len(Committed')
         /\ SubSeq(Committed', 1, Len(Committed)) = Committed
<1> USE DiskFacts
<1>1. CommittedLength \in Nat /\ CommittedLength <= Len(markers)
      /\ CommittedLength <= Len(ledger)
  BY CommittedFacts DEF CommittedLength, CommittedOK
<1>2. CASE UNCHANGED <<ledger, markers>>
  BY <1>1, <1>2, PrefixGrows DEF CommittedLength
<1>3. ASSUME NEW p \in Procs, AppendEvent(p)
      PROVE  /\ CommittedLength' = CommittedLength
             /\ \A i \in 1..CommittedLength : ledger'[i] = ledger[i]
  <2>1. plan \in Event
    BY <1>3, HolderAlone DEF AppendEvent, Writing, Step
  <2> QED
    BY <1>1, <1>3, <2>1 DEF AppendEvent, CommittedLength
<1>4. ASSUME NEW p \in Procs, pc[p] = "mark", UNCHANGED ledger,
             NEW m \in Event \cup {TornFile}, markers' = Append(markers, m)
      PROVE  CommittedLength <= CommittedLength'
  <2>1. LastUnmarked
    BY <1>4 DEF FilesAt
  <2>2. Len(markers') = Len(markers) + 1
    BY <1>4
  <2>3. CommittedLength' >= Len(markers)
    BY <2>2 DEF CommittedLength
  <2> QED
    BY <1>1, <2>3 DEF CommittedLength
<1>5. ASSUME NEW p \in Procs, WriteMarker(p)
      PROVE  CommittedLength <= CommittedLength'
  <2>1. plan \in Event /\ pc[p] = "mark"
    BY <1>5, HolderAlone DEF WriteMarker, Writing, Step
  <2> QED
    BY <1>4, <1>5, <2>1 DEF WriteMarker
<1>6. ASSUME NEW p \in Procs, TruncateTail(p)
      PROVE  /\ CommittedLength' = CommittedLength
             /\ \A i \in 1..CommittedLength : ledger'[i] = ledger[i]
  <2>1. CommittedLength' = CommittedLength
    BY <1>6 DEF TruncateTail, CommittedLength
  <2>2. CASE tail # NoTail
    BY <1>6, <2>1, <2>2 DEF TruncateTail
  <2>3. CASE tail = NoTail
    <3>1. Len(ledger) = Len(markers) + 1
      BY <1>6, <2>3 DEF TruncateTail, FilesAt, LastUnmarked
    <3>2. CommittedLength <= Len(ledger) - 1
      BY <1>1, <3>1
    <3> QED
      BY <1>1, <1>6, <2>1, <2>3, <3>2 DEF TruncateTail
  <2> QED
    BY <2>2, <2>3
<1>7. CASE Next /\ ~UNCHANGED <<ledger, markers>>
  <2>1. PICK p \in Procs :
           \/ AppendEvent(p) \/ WriteMarker(p) \/ TruncateTail(p)
           \/ /\ pc[p] = "mark" /\ UNCHANGED ledger
              /\ markers' = Append(markers, TornFile)
    BY <1>7, LedgerSteps
  <2>2. CASE AppendEvent(p) \/ TruncateTail(p)
    BY <1>1, <1>3, <1>6, <2>2, PrefixGrows
  <2>3. CASE WriteMarker(p)
    BY <1>5, <2>3, PrefixGrows DEF WriteMarker
  <2>4. CASE /\ pc[p] = "mark" /\ UNCHANGED ledger
             /\ markers' = Append(markers, TornFile)
    BY <1>4, <2>4, PrefixGrows
  <2> QED
    BY <2>1, <2>2, <2>3, <2>4
<1>8. CASE UNCHANGED vars
  BY <1>2, <1>8 DEF vars, disk
<1> QED
  BY <1>2, <1>7, <1>8

\* A committed event is never removed, changed or reordered: not by another
\* writer, nor by a crash, nor by the truncation of a recovery.
THEOREM CommittedOnlyGrows == Spec => CommittedGrows
<1>1. LedgerInv /\ LedgerInv' /\ [Next]_vars
        => [ /\ Len(Committed) <= Len(Committed')
             /\ SubSeq(Committed', 1, Len(Committed)) = Committed ]_vars
  BY GrowthStep
<1> QED
  BY <1>1, LedgerInvariant, PTL DEF Spec, CommittedGrows

-----------------------------------------------------------------------------
(* Acknowledgements.                                                       *)

\* A step acknowledges nothing new, or an event that is committed.
LEMMA NewAcknowledgement ==
  ASSUME LedgerInv, [Next]_vars
  PROVE  \/ acked' = acked
         \/ \E i \in 1..Len(ledger) :
              /\ AllMarked /\ UNCHANGED <<ledger, markers>>
              /\ acked' = acked \cup {[cmd |-> ledger[i].cmd, at |-> i]}
<1> USE DiskFacts
<1>1. CASE UNCHANGED vars \/ WriteArtifact
  BY <1>1 DEF vars, WriteArtifact
<1>2. CASE Next /\ ~WriteArtifact
  <2>1. PICK p \in Procs : Submit(p) \/ Answer(p) \/ Write(p) \/ Fail(p)
    BY <1>2 DEF Next
  <2>2. CASE Repeat(p)
    <3>1. PICK i \in DOMAIN ledger :
            /\ Repeats(req[p], i)
            /\ acked' = acked \cup {[cmd |-> ledger[i].cmd, at |-> i]}
      BY <2>2 DEF Repeat
    <3>2. Replays
      BY <3>1 DEF Repeats, RepeatsAdvance, RepeatsReserve
    <3> QED
      BY <2>2, <3>1, <3>2, ReplaysMarked DEF Repeat, disk
  <2>3. CASE WriteCheckpoint(p)
    <3>1. FilesAt("checkpoint") /\ UNCHANGED <<ledger, markers>>
          /\ acked' = acked \cup {[cmd |-> plan.cmd, at |-> Len(ledger)]}
      BY <2>3 DEF WriteCheckpoint
    <3>2. AllMarked /\ ledger[Len(ledger)] = plan
      BY <3>1 DEF FilesAt
    <3> QED
      BY <3>1, <3>2
  <2>4. CASE Submit(p)
    BY <2>4 DEF Submit, RequestAdvance, RequestReserve, RequestRevise, RequestReopen,
                RequestRevision, RequestRecover, RequestFreeze, Retry, Ask
  <2>5. CASE Begin(p) \/ Reject(p) \/ LockTimeout(p) \/ Fail(p)
    BY <2>5 DEF Begin, Reject, LockTimeout, Fail, Crash, CrashBetweenWrites,
                CrashInAppend, CrashInWriteOnce
  <2>6. CASE Write(p) /\ ~WriteCheckpoint(p)
    BY <2>6 DEF Write, WriteSnapshot, SnapshotExists, AppendEvent, WriteMarker,
                ProjectionFails, WriteQuarantine, QuarantineExists, TruncateTail,
                WriteFreeze
  <2> QED
    BY <2>1, <2>2, <2>3, <2>4, <2>5, <2>6 DEF Answer
<1> QED
  BY <1>1, <1>2

\* What the acknowledgements name is committed.
LEMMA AcknowledgedStep ==
  ASSUME LedgerInv, LedgerInv', AcknowledgedIsCommitted, [Next]_vars
  PROVE  AcknowledgedIsCommitted'
<1>1. CommittedOK
  BY CommittedFacts
<1>2. (LedgerInv => CommittedOK)'
  BY CommittedFacts, PTL
<1>3. CommittedOK'
  BY <1>2
<1>4. Len(Committed) <= Len(Committed') /\ SubSeq(Committed', 1, Len(Committed)) = Committed
  BY GrowthStep
<1>5. Len(Committed) \in Nat /\ Len(Committed') \in Nat /\ Committed' \in Seq(Event)
  BY <1>1, <1>3 DEF CommittedOK
<1>6. \A i \in 1..Len(Committed) : Committed'[i] = Committed[i]
  <2>1. ASSUME NEW t \in Seq(Event), NEW n \in Nat, n <= Len(t), NEW i \in 1..n
        PROVE  SubSeq(t, 1, n)[i] = t[i]
    BY <2>1
  <2> QED
    BY <1>4, <1>5, <2>1
<1>7. ASSUME NEW a \in acked
      PROVE  a.at \in DOMAIN Committed' /\ Committed'[a.at].cmd = a.cmd
  <2>1. a.at \in DOMAIN Committed /\ Committed[a.at].cmd = a.cmd
    BY DEF AcknowledgedIsCommitted
  <2>2. a.at \in 1..Len(Committed)
    BY <1>1, <2>1 DEF CommittedOK
  <2>3. a.at \in DOMAIN Committed'
    BY <1>4, <1>5, <2>2
  <2> QED
    BY <1>6, <2>1, <2>2, <2>3
<1>8. CASE acked' = acked
  BY <1>7, <1>8 DEF AcknowledgedIsCommitted
<1>9. ASSUME NEW i \in 1..Len(ledger), AllMarked, UNCHANGED <<ledger, markers>>,
             acked' = acked \cup {[cmd |-> ledger[i].cmd, at |-> i]}
      PROVE  AcknowledgedIsCommitted'
  <2>1. markers # <<>> => markers[Len(markers)] # TornFile
    BY <1>9, MarkedIsWhole, DiskFacts DEF AllMarked
  <2>2. CommittedLength' = Len(ledger) /\ Len(ledger) \in Nat
    BY <1>9, <2>1, DiskFacts DEF AllMarked, CommittedLength
  <2>3. i \in DOMAIN Committed' /\ Committed'[i].cmd = ledger[i].cmd
    BY <1>3, <1>9, <2>2 DEF CommittedOK
  <2> QED
    BY <1>7, <1>9, <2>3 DEF AcknowledgedIsCommitted
<1> QED
  BY <1>8, <1>9, NewAcknowledgement

\* What a caller was told is committed is in the committed ledger at the
\* place it was told, for ever after.
THEOREM AcknowledgedSafe == Spec => []AcknowledgedIsCommitted
<1>1. Init => AcknowledgedIsCommitted
  BY DEF Init, AcknowledgedIsCommitted
<1>2. LedgerInv /\ LedgerInv' /\ AcknowledgedIsCommitted /\ [Next]_vars
        => AcknowledgedIsCommitted'
  BY AcknowledgedStep
<1> QED
  BY <1>1, <1>2, LedgerInvariant, PTL DEF Spec

-----------------------------------------------------------------------------
(* Recovery and freeze.                                                    *)

\* A step that cuts bytes off the ledger file is the truncation of a
\* recovery, which follows its quarantine.
LEMMA CutStep ==
  ASSUME LedgerInv, [Next]_vars,
         (tail # NoTail /\ tail' # tail) \/ Len(ledger') < Len(ledger)
  PROVE  [tail |-> Unmarked, whole |-> TRUE] \in quarantine
<1> USE DiskFacts
<1>1. CASE UNCHANGED vars \/ WriteArtifact
  BY <1>1 DEF vars, disk, WriteArtifact
<1>2. CASE Next /\ ~WriteArtifact
  <2>1. PICK p \in Procs : Submit(p) \/ Answer(p) \/ Write(p) \/ Fail(p)
    BY <1>2 DEF Next
  <2>2. CASE Submit(p) \/ Answer(p)
    BY <2>2 DEF Submit, RequestAdvance, RequestReserve, RequestRevise, RequestReopen,
                RequestRevision, RequestRecover, RequestFreeze, Retry, Ask,
                Answer, Begin, Repeat, Reject, LockTimeout, disk
  <2>3. CASE AppendEvent(p)
    <3>1. plan \in Event
      BY <2>3, HolderAlone DEF AppendEvent, Writing, Step
    <3> QED
      BY <2>3, <3>1 DEF AppendEvent
  <2>4. CASE TruncateTail(p)
    BY <2>4 DEF TruncateTail, FilesAt
  <2>5. CASE Write(p) /\ ~AppendEvent(p) /\ ~TruncateTail(p)
    BY <2>5 DEF Write, WriteSnapshot, SnapshotExists, WriteMarker, WriteCheckpoint,
                ProjectionFails, WriteQuarantine, QuarantineExists, WriteFreeze, disk
  <2>6. CASE CrashInAppend(p)
    BY <2>6 DEF CrashInAppend, FilesAt
  <2>7. CASE CrashBetweenWrites(p) \/ CrashInWriteOnce(p)
    BY <2>7 DEF CrashBetweenWrites, CrashInWriteOnce, disk
  <2> QED
    BY <2>1, <2>2, <2>3, <2>4, <2>5, <2>6, <2>7 DEF Fail
<1> QED
  BY <1>1, <1>2

\* Nothing is cut off the ledger file that is not, whole, in the quarantine.
THEOREM CutsAreQuarantined == Spec => CutIsQuarantined
<1>1. LedgerInv /\ [Next]_vars
        => [ (tail # NoTail /\ tail' # tail) \/ Len(ledger') < Len(ledger)
               => [tail |-> Unmarked, whole |-> TRUE] \in quarantine ]_vars
  BY CutStep
<1> QED
  BY <1>1, LedgerInvariant, PTL DEF Spec, CutIsQuarantined

\* A step changes no file of the workspace in a frozen run.
LEMMA FrozenStep ==
  ASSUME LedgerInv, FrozenLedgerHolds, [Next]_vars
  PROVE  FrozenLedgerHolds'
<1> USE DEF FrozenLedgerHolds
<1>1. CASE UNCHANGED disk
  BY <1>1 DEF disk, Inventory
<1>2. CASE UNCHANGED vars
  BY <1>1, <1>2 DEF vars
<1>3. CASE WriteArtifact
  BY <1>3 DEF WriteArtifact, Inventory
<1>4. CASE Next /\ ~WriteArtifact
  <2>1. PICK p \in Procs : Submit(p) \/ Answer(p) \/ Write(p) \/ Fail(p)
    BY <1>4 DEF Next
  <2>2. CASE Submit(p) \/ Answer(p)
    <3>1. UNCHANGED disk
      BY <2>2 DEF Submit, RequestAdvance, RequestReserve, RequestRevise, RequestReopen,
                  RequestRevision, RequestRecover, RequestFreeze, Retry, Ask,
                  Answer, Begin, Repeat, Reject, LockTimeout
    <3> QED
      BY <1>1, <3>1
  <2>3. CASE Write(p)
    <3>1. freeze = NoFile
      BY <2>3, HolderAlone
         DEF Write, WriteSnapshot, SnapshotExists, AppendEvent, WriteMarker,
             WriteCheckpoint, ProjectionFails, WriteQuarantine, QuarantineExists,
             TruncateTail, WriteFreeze, Writing, Step
    <3>2. CASE WriteFreeze(p)
      BY <3>2 DEF WriteFreeze, Inventory
    <3>3. CASE ~WriteFreeze(p)
      BY <2>3, <3>1, <3>3
         DEF Write, WriteSnapshot, SnapshotExists, AppendEvent, WriteMarker,
             WriteCheckpoint, ProjectionFails, WriteQuarantine, QuarantineExists,
             TruncateTail, disk
    <3> QED
      BY <3>2, <3>3
  <2>4. CASE Fail(p)
    <3>1. Crash(p)
      BY <2>4 DEF Fail, CrashBetweenWrites, CrashInAppend, CrashInWriteOnce
    <3>2. freeze = NoFile
      BY <3>1, CrashFacts, HolderAlone
    <3>3. freeze' \in {NoFile, TornFile}
      BY <2>4, <3>2 DEF Fail, CrashBetweenWrites, CrashInAppend, CrashInWriteOnce, disk
    <3> QED
      BY <3>3
  <2> QED
    BY <2>1, <2>2, <2>3, <2>4
<1> QED
  BY <1>2, <1>3, <1>4

\* The part of the inventory in freeze.json that the workspace writes stays
\* what the run holds: an operation that read the run before the freeze
\* changes no ledger line, marker, checkpoint, snapshot or quarantine after it.
THEOREM FreezeIsFinal == Spec => []FrozenLedgerHolds
<1>1. Init => FrozenLedgerHolds
  BY DEF Init, FrozenLedgerHolds
<1>2. LedgerInv /\ FrozenLedgerHolds /\ [Next]_vars => FrozenLedgerHolds'
  BY FrozenStep
<1> QED
  BY <1>1, <1>2, LedgerInvariant, PTL DEF Spec
=============================================================================

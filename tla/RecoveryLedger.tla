--------------------------- MODULE RecoveryLedger ---------------------------
(***************************************************************************)
(* The durable ledger of one recovery run (scripts/recovery_workspace.py): *)
(* callers read a projection without the lock, ask for an operation bound  *)
(* to what they read, and one of them at a time holds the flock and writes *)
(* files step by step.  A process can be killed, or a write can fail, at   *)
(* every step; what it left on disk stays.                                 *)
(*                                                                         *)
(* Under the lock only the holder writes, so the reads and checks at the   *)
(* start of an operation are one step (its Begin action) and every file    *)
(* write after it is a step of its own.                                    *)
(***************************************************************************)
EXTENDS WorkflowEvents, FiniteSets

CONSTANTS
  Procs,           \* processes working on the run
  NoProc,          \* the free lock
  CommandIds,      \* caller-chosen command ids
  IdempotencyKey,  \* [Actions -> keys]
  BusinessKey,     \* [Actions -> eligible business keys]
  Authority,       \* [Actions -> authority capabilities]
  Ops,             \* the operations the callers of this instance use
  AdvanceKinds,    \* the <<event type, target>> pairs append_transition is asked
  Seeds,           \* ledgers a run may already have when the model starts
  NoRequest, NoEvent, NoFile, TornFile,
  MaxEvents,       \* bound: ledger length
  MaxCrashes,      \* bound: crashes and failed writes
  MaxArtifacts,    \* bound: writes of others after the freeze
  TearFiles,       \* may a crash leave a write-once file half written?
  ReuseIds         \* may a revision reuse a command id already committed?

ASSUME ConstantsAssumption ==
  /\ NoProc \notin Procs
  /\ CommandIds \subseteq Nat \ {0}
  /\ MaxEvents \in Nat
  /\ MaxRevision \in Nat \ {0}
  /\ MaxCrashes \in Nat
  /\ MaxArtifacts \in Nat
  /\ {TearFiles, ReuseIds} \subseteq BOOLEAN

VARIABLES
  ledger,       \* events/workflow.jsonl: the complete lines
  tail,         \* ... and the bytes after the last LF
  markers,      \* commits/NNNNNN.json: the event each one binds
  checkpoints,  \* checkpoints/NNNNNN.json: the ledger each one projects
  snapshots,    \* source-snapshots/revision-NNNN.json: the head each one binds
  quarantine,   \* quarantine/partial-tail-<digest>.bin
  freeze,       \* freeze.json: the inventory it pins
  artifacts,    \* the files of others: how often written after the freeze
  lock,         \* .writer.lock
  pc, req,      \* per process: its step, and its request
  plan,         \* the event the lock holder is writing
  crashes,
  acked         \* history: the events callers were told are committed

disk == <<ledger, tail, markers, checkpoints, snapshots, quarantine, freeze,
          artifacts>>
vars == <<disk, lock, pc, req, plan, crashes, acked>>

-----------------------------------------------------------------------------
(* The log the files stand for, and its abstract specification.            *)

\* Events are committed up to the last marker that is a whole file.
CommittedLength ==
  IF markers # <<>> /\ markers[Len(markers)] = TornFile
  THEN Len(markers) - 1 ELSE Len(markers)

Committed == SubSeq(ledger, 1, CommittedLength)

Log == INSTANCE DurableLog WITH log <- Committed, sealed <- freeze # NoFile

\* A torn tail: "short" bytes are common to every event, "long" ones name
\* the event; an unmarked "line" is quarantined whole.
TailBytes == [form : {"short", "long", "line"}, log : Seq(Event)]
NoTail == [form |-> "none", log |-> <<>>]

\* What callers ask append_transition for never is a revision, a recovery
\* trace or a reservation: those have operations of their own.
ASSUME KindsAssumption ==
  AdvanceKinds \subseteq
    (EventTypes \ (RevisionEventTypes \cup RecoveryEventTypes
                        \cup {"ACTION_AUTHORITY_RESERVED"})) \X WorkflowState

\* A half-written file holds no event, and an absent one is not half-written
\* and holds no ledger.
ASSUME FilesAssumption ==
  TornFile \notin Event /\ TornFile # NoFile /\ NoFile \notin Seq(Event)

ASSUME SeedsAssumption ==
  \A l \in Seeds : l \in Seq(Event) /\ Len(l) \in 1..MaxEvents

Quarantined == [tail : TailBytes, whole : BOOLEAN]

Request ==
  [op   : {"advance", "reserve", "revise", "reopen", "recover", "freeze"},
   cmd  : Int,
   type : EventTypes,
   to   : WorkflowState,
   rev  : 1..MaxRevision,    \* expected_case_revision
   head : Seq(Event),        \* expected_ledger_head
   act  : Actions \cup {NoAction}]

\* Every file of the run but the lock and freeze.json.
Inventory ==
  [ledger |-> ledger, tail |-> tail, markers |-> markers,
   checkpoints |-> checkpoints, snapshots |-> snapshots,
   quarantine |-> quarantine, artifacts |-> artifacts]

-----------------------------------------------------------------------------
(* Reading: _project, replay, verify.                                      *)

\* Every event of l is a legal next one, under a command id of its own.
LegalHistory(l) == \A i \in DOMAIN l : Extends(SubSeq(l, 1, i - 1), l[i])
UsedOnce(l) == \A i, j \in DOMAIN l : l[i].cmd = l[j].cmd => i = j

\* The snapshots ss hold the head before every revision of l.
SnapshotsBind(l, ss) ==
  \A i \in DOMAIN l :
    l[i].type \in RevisionEventTypes => ss[l[i].rev] = SubSeq(l, 1, i - 1)

\* _project accepts the events of l.
Projects(l) ==
  /\ l # <<>>
  /\ snapshots[1] = <<>>
  /\ UsedOnce(l)
  /\ LegalHistory(l)
  /\ SnapshotsBind(l, snapshots)

\* read_events and _project succeed: no torn tail, one whole marker for
\* every event, and a legal history.
Replays == tail = NoTail /\ markers = ledger /\ Projects(ledger)

\* resume and verify read every checkpoint as well, and verify the freeze.
CheckpointValid(i) ==
  \/ checkpoints[i] = NoFile
  \/ i <= Len(ledger) /\ checkpoints[i] = SubSeq(ledger, 1, i)
Resumes  == Replays /\ \A i \in 1..MaxEvents : CheckpointValid(i)
Verifies == Resumes /\ freeze \in {NoFile, Inventory}

\* The unmarked part of the ledger file, as recover_partial_tail finds it.
Unmarked ==
  IF tail # NoTail THEN tail ELSE [form |-> "line", log |-> ledger]

\* Mutant: only a torn line is recovered, not a complete unmarked event.
MutRecoverable == tail # NoTail /\ markers = ledger /\ Projects(ledger)

\* What recover_partial_tail requires before it touches a file: a whole
\* marker for every event before the unmarked part, which must project; an
\* unmarked complete event must project too and not be the first.
Recoverable ==
  \/ /\ tail # NoTail
     /\ markers = ledger
     /\ Projects(ledger)
  \/ /\ tail = NoTail
     /\ Len(ledger) >= 2
     /\ markers = SubSeq(ledger, 1, Len(ledger) - 1)
     /\ Projects(ledger)

-----------------------------------------------------------------------------
(* Callers.  A request is bound to a projection read without the lock; it  *)
(* is kept after the answer, so that a caller can send it again.           *)

Ask(p, r) ==
  /\ r.op \in Ops
  /\ pc[p] = "idle"
  /\ req' = [req EXCEPT ![p] = r]
  /\ pc' = [pc EXCEPT ![p] = "want"]
  /\ UNCHANGED <<disk, lock, plan, crashes, acked>>

\* A request for op on the projection of the present ledger.
Observed(op, c, type, to, a) ==
  [op |-> op, cmd |-> c, type |-> type, to |-> to,
   rev |-> RevOf(ledger), head |-> ledger, act |-> a]

RequestAdvance(p) ==
  /\ Replays
  /\ \E c \in CommandIds, k \in AdvanceKinds :
       Ask(p, Observed("advance", c, k[1], k[2], NoAction))

\* The action contract is built for the observed head.
RequestReserve(p) ==
  /\ Replays
  /\ \E c \in CommandIds, a \in Actions :
       Ask(p, Observed("reserve", c, "ACTION_AUTHORITY_RESERVED", "ACTION_RESERVED", a))

\* Mutant: earlier commands are not looked up.
MutUnused(c) == TRUE

\* Callers of a revision pick a command id that is not in the history they
\* read, unless ReuseIds.
Unused(c) == \A i \in DOMAIN ledger : ledger[i].cmd # c

RequestRevision(p, op, type) ==
  /\ Replays
  /\ \E c \in CommandIds :
       /\ ReuseIds \/ Unused(c)
       /\ Ask(p, Observed(op, c, type, "EVIDENCE_BLOCKED", NoAction))

RequestRevise(p) == RequestRevision(p, "revise", SourceRevised)
RequestReopen(p) == RequestRevision(p, "reopen", CaseReopened)

\* An operator asks for recovery when the run can no longer be read.
RequestRecover(p) ==
  /\ ~Replays
  /\ Ask(p, [Observed("recover", 0, "PARTIAL_TAIL_RECOVERED", "RECEIVED", NoAction)
               EXCEPT !.head = <<>>])

RequestFreeze(p) ==
  Ask(p, [Observed("freeze", 0, "PARTIAL_TAIL_RECOVERED", "RECEIVED", NoAction)
            EXCEPT !.head = <<>>])

Retry(p) ==
  /\ pc[p] = "idle" /\ req[p] # NoRequest
  /\ pc' = [pc EXCEPT ![p] = "want"]
  /\ UNCHANGED <<disk, lock, req, plan, crashes, acked>>

\* The flock stays held by another process for the ten seconds of _RunWriter.
LockTimeout(p) ==
  /\ pc[p] = "want" /\ lock # NoProc
  /\ pc' = [pc EXCEPT ![p] = "idle"]
  /\ UNCHANGED <<disk, lock, req, plan, crashes, acked>>

-----------------------------------------------------------------------------
(* What each operation checks under the lock.                              *)

\* The last event is the trace of a tail recovery.
AfterRecovery ==
  /\ ledger # <<>>
  /\ ledger[Len(ledger)].type \in RecoveryEventTypes

\* The event an accepted request appends.
EventFor(r) ==
  [cmd |-> r.cmd, type |-> r.type, to |-> r.to,
   rev |-> IF r.op \in {"revise", "reopen"} THEN RevOf(ledger) + 1 ELSE RevOf(ledger),
   act |-> r.act,
   at |-> IF r.op = "reserve" THEN Len(r.head) ELSE 0]

\* Mutant: the expected ledger head is not checked.
MutCurrent(r) == r.rev = RevOf(ledger)

Current(r) == r.rev = RevOf(ledger) /\ r.head = ledger

\* Mutant: the freeze is checked before the lock is taken only.
MutAcceptsAdvance(r) ==
  /\ Unused(r.cmd)
  /\ Current(r)
  /\ CanApply(StateOf(ledger), r.to, r.type)
  /\ Replays

AcceptsAdvance(r) ==
  /\ freeze = NoFile
  /\ Unused(r.cmd)
  /\ Current(r)
  /\ CanApply(StateOf(ledger), r.to, r.type)
  /\ Replays

\* The very command, bound to the same head, is in the ledger already.
RepeatsAdvance(r, i) ==
  /\ freeze = NoFile
  /\ ledger[i].cmd = r.cmd
  /\ ledger[i].type = r.type /\ ledger[i].to = r.to
  /\ r.head = SubSeq(ledger, 1, i - 1)
  /\ Replays

Reservations ==
  {i \in DOMAIN ledger : ledger[i].type = "ACTION_AUTHORITY_RESERVED"}

\* Mutant: two remedies for the same eligible quantity do not conflict.
MutConflicts(i, r) ==
  \/ IdempotencyKey[ledger[i].act] = IdempotencyKey[r.act]
  \/ Authority[ledger[i].act] = Authority[r.act]

\* Reservation i already owns the idempotency key, the business key or the
\* authority of r.
Conflicts(i, r) ==
  \/ IdempotencyKey[ledger[i].act] = IdempotencyKey[r.act]
  \/ BusinessKey[ledger[i].act] = BusinessKey[r.act]
  \/ Authority[ledger[i].act] = Authority[r.act]

\* Mutant: the head of the contract is not compared.
MutBindsHead(r) == TRUE

\* The contract may be bound to the head before one recovery trace.
BindsHead(r) ==
  \/ r.head = ledger
  \/ AfterRecovery /\ r.head = SubSeq(ledger, 1, Len(ledger) - 1)

AcceptsReserve(r) ==
  /\ freeze = NoFile
  /\ StateOf(ledger) = "ACTION_PREPARED"
  /\ \A i \in Reservations : ~Conflicts(i, r)
  /\ r.rev = RevOf(ledger)
  /\ BindsHead(r)
  /\ Unused(r.cmd)
  /\ Replays

\* The same contract and authority own the idempotency key: reserve_action
\* scans the reservations in order and stops at the first conflict.  It
\* answers whatever the command id, and on a frozen run too.
RepeatsReserve(r, i) ==
  /\ i \in Reservations
  /\ \A j \in Reservations : j < i => ~Conflicts(j, r)
  /\ ledger[i].act = r.act /\ ledger[i].at = Len(r.head)
  /\ Replays

\* revise_source looks at no earlier command id.
AcceptsRevise(r) ==
  /\ freeze = NoFile
  /\ Replays
  /\ Current(r)
  /\ StateOf(ledger) \in RevisionInvalidatableStates

\* Mutant: any case may be reopened, closed or not.
MutAcceptsReopen(r) == freeze = NoFile /\ Replays /\ Current(r)

AcceptsReopen(r) ==
  /\ freeze = NoFile
  /\ Replays
  /\ StateOf(ledger) = "CLOSED"
  /\ Current(r)

Accepts(r) ==
  CASE r.op = "advance" -> AcceptsAdvance(r)
    [] r.op = "reserve" -> AcceptsReserve(r)
    [] r.op = "revise"  -> AcceptsRevise(r)
    [] r.op = "reopen"  -> AcceptsReopen(r)
    [] r.op = "recover" -> freeze = NoFile /\ Recoverable
    [] r.op = "freeze"  -> freeze = NoFile /\ Replays

Repeats(r, i) ==
  CASE r.op = "advance" -> RepeatsAdvance(r, i)
    [] r.op = "reserve" -> RepeatsReserve(r, i)
    [] OTHER -> FALSE

-----------------------------------------------------------------------------
(* Taking the lock: the request is accepted, already done, or refused.     *)

\* Mutant: the unmarked bytes are cut off without a copy in the quarantine.
MutFirstStep(op) ==
  CASE op \in {"advance", "reserve"} -> "append"
    [] op \in {"revise", "reopen"} -> "snapshot"
    [] op = "recover" -> "truncate"
    [] op = "freeze" -> "seal"

FirstStep(op) ==
  CASE op \in {"advance", "reserve"} -> "append"
    [] op \in {"revise", "reopen"} -> "snapshot"
    [] op = "recover" -> "quarantine"
    [] op = "freeze" -> "seal"

\* Bounds: no new event once the ledger holds MaxEvents, no new revision
\* once the case is at MaxRevision.
Room(r) ==
  \/ r.op \in {"recover", "freeze"}
  \/ /\ Len(ledger) < MaxEvents
     /\ r.op \in {"revise", "reopen"} => RevOf(ledger) < MaxRevision

Begin(p) ==
  /\ pc[p] = "want" /\ lock = NoProc
  /\ Accepts(req[p]) /\ Room(req[p])
  /\ lock' = p
  /\ pc' = [pc EXCEPT ![p] = FirstStep(req[p].op)]
  /\ plan' = EventFor(req[p])
  /\ UNCHANGED <<disk, req, crashes, acked>>

\* The caller is told again that event i is committed.
Repeat(p) ==
  /\ pc[p] = "want" /\ lock = NoProc
  /\ \E i \in DOMAIN ledger :
       /\ Repeats(req[p], i)
       /\ acked' = acked \cup {[cmd |-> ledger[i].cmd, at |-> i]}
  /\ pc' = [pc EXCEPT ![p] = "idle"]
  /\ UNCHANGED <<disk, lock, req, plan, crashes>>

\* An exception before any write.  A recovery with nothing to recover
\* returns here too.
Reject(p) ==
  /\ pc[p] = "want" /\ lock = NoProc
  /\ ~(Accepts(req[p]) /\ Room(req[p]))
  /\ \A i \in DOMAIN ledger : ~Repeats(req[p], i)
  /\ pc' = [pc EXCEPT ![p] = "idle"]
  /\ UNCHANGED <<disk, lock, req, plan, crashes, acked>>

-----------------------------------------------------------------------------
(* The writes of the lock holder, in the order of the code.                *)

Goto(p, step) ==
  /\ pc' = [pc EXCEPT ![p] = step]
  /\ UNCHANGED lock

\* The with-block of _RunWriter is left.
Leave(p) ==
  /\ pc' = [pc EXCEPT ![p] = "idle"]
  /\ lock' = NoProc
  /\ plan' = NoEvent

WriteSnapshot(p) ==
  /\ pc[p] = "snapshot"
  /\ snapshots[plan.rev] = NoFile
  /\ snapshots' = [snapshots EXCEPT ![plan.rev] = req[p].head]
  /\ Goto(p, "append")
  /\ UNCHANGED <<ledger, tail, markers, checkpoints, quarantine, freeze,
                 artifacts, req, plan, crashes, acked>>

\* write_once refuses the name of an existing file.
SnapshotExists(p) ==
  /\ pc[p] = "snapshot"
  /\ snapshots[plan.rev] # NoFile
  /\ Leave(p)
  /\ UNCHANGED <<disk, req, crashes, acked>>

\* Mutant: the caller is answered before the commit marker is written.
MutAppendEventAnswers(p) ==
  /\ pc[p] = "append"
  /\ ledger' = Append(ledger, plan)
  /\ Goto(p, "mark")
  /\ acked' = acked \cup {[cmd |-> plan.cmd, at |-> Len(ledger')]}
  /\ UNCHANGED <<tail, markers, checkpoints, snapshots, quarantine, freeze,
                 artifacts, req, plan, crashes>>

\* Mutant: the checkpoint is written before the commit marker.
MutAppendEventCheckpoints(p) ==
  /\ pc[p] = "append"
  /\ ledger' = Append(ledger, plan)
  /\ checkpoints' = [checkpoints EXCEPT ![Len(ledger')] = ledger']
  /\ Goto(p, "mark")
  /\ UNCHANGED <<tail, markers, snapshots, quarantine, freeze,
                 artifacts, req, plan, crashes, acked>>

AppendEvent(p) ==
  /\ pc[p] = "append"
  /\ ledger' = Append(ledger, plan)
  /\ Goto(p, "mark")
  /\ UNCHANGED <<tail, markers, checkpoints, snapshots, quarantine, freeze,
                 artifacts, req, plan, crashes, acked>>

WriteMarker(p) ==
  /\ pc[p] = "mark"
  /\ markers' = Append(markers, plan)
  /\ Goto(p, "checkpoint")
  /\ UNCHANGED <<ledger, tail, checkpoints, snapshots, quarantine, freeze,
                 artifacts, req, plan, crashes, acked>>

\* The projection is checkpointed, the lock released, the caller answered.
WriteCheckpoint(p) ==
  /\ pc[p] = "checkpoint"
  /\ Projects(ledger)
  /\ checkpoints' = [checkpoints EXCEPT ![Len(ledger)] = ledger]
  /\ acked' = acked \cup {[cmd |-> plan.cmd, at |-> Len(ledger)]}
  /\ Leave(p)
  /\ UNCHANGED <<ledger, tail, markers, snapshots, quarantine, freeze,
                 artifacts, req, crashes>>

\* The event is committed, but the ledger with it no longer projects.
ProjectionFails(p) ==
  /\ pc[p] = "checkpoint"
  /\ ~Projects(ledger)
  /\ Leave(p)
  /\ UNCHANGED <<disk, req, crashes, acked>>

WriteQuarantine(p) ==
  /\ pc[p] = "quarantine"
  /\ \A q \in quarantine : q.tail # Unmarked
  /\ quarantine' = quarantine \cup {[tail |-> Unmarked, whole |-> TRUE]}
  /\ Goto(p, "truncate")
  /\ UNCHANGED <<ledger, tail, markers, checkpoints, snapshots, freeze,
                 artifacts, req, plan, crashes, acked>>

\* The file is named by the digest of the bytes: the same bytes twice.
QuarantineExists(p) ==
  /\ pc[p] = "quarantine"
  /\ \E q \in quarantine : q.tail = Unmarked
  /\ Leave(p)
  /\ UNCHANGED <<disk, req, crashes, acked>>

\* Mutant: the trace names the first state instead of the present one.
MutRecoveryEvent(l) ==
  [cmd |-> 0 - Cardinality(quarantine),
   type |-> IF tail # NoTail THEN "PARTIAL_TAIL_RECOVERED"
                             ELSE "UNCOMMITTED_EVENT_RECOVERED",
   to |-> "RECEIVED", rev |-> RevOf(l), act |-> NoAction, at |-> 0]

\* The trace of the recovery.  Its command id is the digest of the tail:
\* quarantine never holds two equal tails, so its size stands for it.
RecoveryEvent(l) ==
  [cmd |-> 0 - Cardinality(quarantine),
   type |-> IF tail # NoTail THEN "PARTIAL_TAIL_RECOVERED"
                             ELSE "UNCOMMITTED_EVENT_RECOVERED",
   to |-> StateOf(l), rev |-> RevOf(l), act |-> NoAction, at |-> 0]

\* Mutant: the last line and its marker are removed, torn tail or not.
MutTruncateTail(p) ==
  /\ pc[p] = "truncate"
  /\ tail' = NoTail
  /\ ledger' = SubSeq(ledger, 1, Len(ledger) - 1)
  /\ markers' = IF Len(markers) > Len(ledger') THEN ledger' ELSE markers
  /\ plan' = RecoveryEvent(ledger')
  /\ Goto(p, "append")
  /\ UNCHANGED <<checkpoints, snapshots, quarantine, freeze, artifacts,
                 req, crashes, acked>>

TruncateTail(p) ==
  /\ pc[p] = "truncate"
  /\ tail' = NoTail
  /\ ledger' = IF tail # NoTail THEN ledger ELSE SubSeq(ledger, 1, Len(ledger) - 1)
  /\ plan' = RecoveryEvent(ledger')
  /\ Goto(p, "append")
  /\ UNCHANGED <<markers, checkpoints, snapshots, quarantine, freeze,
                 artifacts, req, crashes, acked>>

WriteFreeze(p) ==
  /\ pc[p] = "seal"
  /\ freeze' = Inventory
  /\ Leave(p)
  /\ UNCHANGED <<ledger, tail, markers, checkpoints, snapshots, quarantine,
                 artifacts, req, crashes, acked>>

\* The adapter writes its journals and receipts, and the orchestrator its
\* record files, in the directory of the run; neither looks at freeze.json
\* (RecoveryWorkflow has the calls these writes belong to).  Before a freeze
\* no step here tells one from none; one that comes between the inventory of
\* a freeze and its file is as if it came after both.
WriteArtifact ==
  /\ freeze # NoFile
  /\ artifacts < MaxArtifacts
  /\ artifacts' = artifacts + 1
  /\ UNCHANGED <<ledger, tail, markers, checkpoints, snapshots, quarantine, freeze,
                 lock, pc, req, plan, crashes, acked>>

-----------------------------------------------------------------------------
(* A crash, or an OSError, in the middle of a write: the lock is free      *)
(* again, the caller has no answer, and the file being written is          *)
(* untouched or partly written.                                            *)

\* Mutant: the lock is a file that outlives its process, not a flock.
MutCrash(p) ==
  /\ lock = p
  /\ crashes < MaxCrashes
  /\ crashes' = crashes + 1
  /\ Goto(p, "idle")
  /\ plan' = NoEvent
  /\ UNCHANGED <<req, acked>>

Crash(p) ==
  /\ lock = p
  /\ crashes < MaxCrashes
  /\ crashes' = crashes + 1
  /\ Leave(p)
  /\ UNCHANGED <<req, acked>>

CrashBetweenWrites(p) == Crash(p) /\ UNCHANGED disk

\* append_durable wrote a proper prefix of the line.
CrashInAppend(p) ==
  /\ pc[p] = "append"
  /\ tail' \in {[form |-> "short", log |-> <<>>],
                [form |-> "long", log |-> Append(ledger, plan)]}
  /\ Crash(p)
  /\ UNCHANGED <<ledger, markers, checkpoints, snapshots, quarantine, freeze, artifacts>>

\* write_once created the file and did not finish it.
CrashInWriteOnce(p) ==
  /\ TearFiles
  /\ Crash(p)
  /\ UNCHANGED <<ledger, tail, artifacts>>
  /\ \/ /\ pc[p] = "mark"
        /\ markers' = Append(markers, TornFile)
        /\ UNCHANGED <<checkpoints, snapshots, quarantine, freeze>>
     \/ /\ pc[p] = "checkpoint"
        /\ Projects(ledger)
        /\ checkpoints' = [checkpoints EXCEPT ![Len(ledger)] = TornFile]
        /\ UNCHANGED <<markers, snapshots, quarantine, freeze>>
     \/ /\ pc[p] = "snapshot"
        /\ snapshots[plan.rev] = NoFile
        /\ snapshots' = [snapshots EXCEPT ![plan.rev] = TornFile]
        /\ UNCHANGED <<markers, checkpoints, quarantine, freeze>>
     \/ /\ pc[p] = "quarantine"
        /\ \A q \in quarantine : q.tail # Unmarked
        /\ quarantine' = quarantine \cup {[tail |-> Unmarked, whole |-> FALSE]}
        /\ UNCHANGED <<markers, checkpoints, snapshots, freeze>>
     \/ /\ pc[p] = "seal"
        /\ freeze' = TornFile
        /\ UNCHANGED <<markers, checkpoints, snapshots, quarantine>>

-----------------------------------------------------------------------------
\* Event i of l starts revision r.
Revises(l, i, r) == l[i].rev = r /\ l[i].type \in RevisionEventTypes

\* The snapshots a run with the history l has: each bound to its prior head.
SnapshotsOf(l) ==
  [r \in 1..MaxRevision |->
     IF r = 1 THEN <<>>
     ELSE IF \E i \in DOMAIN l : Revises(l, i, r)
          THEN SubSeq(l, 1, (CHOOSE i \in DOMAIN l : Revises(l, i, r)) - 1)
          ELSE NoFile]

ReservedAt(l, i) == l[i].type = "ACTION_AUTHORITY_RESERVED"

\* No two reservations of l consume one key or one capability.
ReservesOnce(l) ==
  \A i, j \in DOMAIN l :
    ReservedAt(l, i) /\ ReservedAt(l, j) /\ i # j =>
      /\ IdempotencyKey[l[i].act] # IdempotencyKey[l[j].act]
      /\ BusinessKey[l[i].act] # BusinessKey[l[j].act]
      /\ Authority[l[i].act] # Authority[l[j].act]

\* Every reservation of l binds a prepared action of its own revision, with
\* nothing but recovery traces after it.
ReservesPrepared(l) ==
  \A i \in DOMAIN l : ReservedAt(l, i) =>
    /\ l[i].at \in 1..i-1
    /\ l[l[i].at].to = "ACTION_PREPARED"
    /\ l[l[i].at].rev = l[i].rev
    /\ \A j \in l[i].at + 1 .. i - 1 : l[j].type \in RecoveryEventTypes

\* The workspace itself wrote the history a run starts from, and recovered
\* no tail in it: the quarantine is empty, and no command id is negative.
ASSUME HistoriesAssumption ==
  \A l \in Seeds :
    /\ LegalHistory(l) /\ UsedOnce(l)
    /\ ReservesOnce(l) /\ ReservesPrepared(l)
    /\ \A i \in DOMAIN l : l[i].cmd >= 0

\* A prepared run (prepare appended CASE_RECEIVED through the same steps),
\* or one that has gone through the history of a seed since.
Init ==
  /\ ledger \in Seeds
  /\ tail = NoTail
  /\ markers = ledger
  /\ checkpoints = [i \in 1..MaxEvents |->
                      IF i <= Len(ledger) THEN SubSeq(ledger, 1, i) ELSE NoFile]
  /\ snapshots = SnapshotsOf(ledger)
  /\ quarantine = {}
  /\ freeze = NoFile
  /\ artifacts = 0
  /\ lock = NoProc
  /\ pc = [p \in Procs |-> "idle"]
  /\ req = [p \in Procs |-> NoRequest]
  /\ plan = NoEvent
  /\ crashes = 0
  /\ acked = {}

Submit(p) ==
  /\ pc[p] = "idle"
  /\ \/ RequestAdvance(p) \/ RequestReserve(p) \/ RequestRevise(p)
     \/ RequestReopen(p)  \/ RequestRecover(p) \/ RequestFreeze(p)
     \/ Retry(p)

Write(p) ==
  \/ WriteSnapshot(p)   \/ SnapshotExists(p)
  \/ AppendEvent(p)     \/ WriteMarker(p)
  \/ WriteCheckpoint(p) \/ ProjectionFails(p)
  \/ WriteQuarantine(p) \/ QuarantineExists(p) \/ TruncateTail(p)
  \/ WriteFreeze(p)

Answer(p) == Begin(p) \/ Repeat(p) \/ Reject(p) \/ LockTimeout(p)

Fail(p) == CrashBetweenWrites(p) \/ CrashInAppend(p) \/ CrashInWriteOnce(p)

Next ==
  \/ \E p \in Procs : Submit(p) \/ Answer(p) \/ Write(p) \/ Fail(p)
  \/ WriteArtifact

Spec == Init /\ [][Next]_vars

\* A caller waiting for the lock polls it every ten milliseconds, and the
\* holder runs to the end of its with-block unless it crashes.
Fairness == \A p \in Procs : WF_vars(Answer(p)) /\ WF_vars(Write(p))

FairSpec == Spec /\ Fairness

\* An operator who finds the run unreadable asks for recovery again.
RecoverySpec ==
  FairSpec /\ SF_vars(\E p \in Procs : RequestRecover(p))

-----------------------------------------------------------------------------
(* Types.                                                                  *)

Step == {"idle", "want", "snapshot", "append", "mark", "checkpoint",
         "quarantine", "truncate", "seal"}

DiskTypeOK ==
  /\ ledger \in Seq(Event)
  /\ tail \in TailBytes \cup {NoTail}
  /\ markers \in Seq(Event \cup {TornFile})
  /\ checkpoints \in [1..MaxEvents -> Seq(Event) \cup {NoFile, TornFile}]
  /\ snapshots \in [1..MaxRevision -> Seq(Event) \cup {NoFile, TornFile}]
  /\ quarantine \in SUBSET Quarantined /\ IsFiniteSet(quarantine)
  /\ artifacts \in 0..MaxArtifacts

\* Every variable has its type (freeze is NoFile, TornFile or an Inventory).
TypeOK ==
  /\ DiskTypeOK
  /\ lock \in Procs \cup {NoProc}
  /\ pc \in [Procs -> Step]
  /\ req \in [Procs -> Request \cup {NoRequest}]
  /\ plan \in Event \cup {NoEvent}
  /\ crashes \in 0..MaxCrashes
  /\ acked \in SUBSET [cmd : Int, at : Nat]

-----------------------------------------------------------------------------
(* Safety.                                                                 *)

\* "Every acknowledged event is a complete fsync'd canonical line": what a
\* caller was told is committed stays committed, at the place it was told,
\* through later writers, crashes and tail recoveries.
AcknowledgedIsCommitted ==
  \A a \in acked : a.at \in DOMAIN Committed /\ Committed[a.at].cmd = a.cmd

\* The committed history always replays: whatever two writers, a crash and
\* a recovery did, no reader ever finds a committed event that _project
\* refuses (a second use of a command id, an illegal transition, a revision
\* without the snapshot it binds).
CommittedHistoryProjects == Projects(Committed)

\* One command, sent again after a lost answer or by two processes at once,
\* commits at most one event.
CommandCommitsOnce == UsedOnce(Committed)

\* No idempotency key, eligible business key or authority capability is
\* consumed by two reservations of the run, revisions included.
ReservedOnce == ReservesOnce(Committed)

\* A reservation consumes a contract built on the evidence still in force:
\* bound to a head in ACTION_PREPARED of the same revision, with nothing but
\* recovery traces committed in between.
ReservationBindsPreparedHead == ReservesPrepared(Committed)

\* A freeze is final for what the workspace itself writes: once freeze.json
\* pins them, the ledger, markers, checkpoints, snapshots and quarantine stay
\* as they are, also under an operation that had read the run before.  It
\* does not hold for the rest of the inventory (FrozenRunIsStill of
\* RecoveryWorkflow).
FrozenLedgerHolds ==
  freeze \notin {NoFile, TornFile} =>
    freeze = [Inventory EXCEPT !.artifacts = freeze.artifacts]

\* A checkpoint is a cache of the ledger: each one is the projection of the
\* committed events up to its sequence, also after tails were cut off.
CheckpointsAgree ==
  \A i \in 1..MaxEvents :
    checkpoints[i] \notin {NoFile, TornFile} =>
      i <= Len(Committed) /\ checkpoints[i] = SubSeq(Committed, 1, i)

\* A write of the ledger was interrupted and not recovered yet.
Interrupted ==
  lock = NoProc /\ (tail # NoTail \/ Len(ledger) # Len(markers))

\* At most one write is ever incomplete, and it is at the end of the ledger
\* file: everything before it has its marker.
OneUnmarkedSuffix ==
  /\ Len(ledger) - Len(markers) \in {0, 1}
  /\ tail # NoTail => Len(ledger) = Len(markers)

\* The adapter or the orchestrator wrote a file after the freeze.
WrittenAfterFreeze == artifacts # 0

\* verify passes on every run that nobody is writing and whose last write was
\* not interrupted, unless a revision has used a command id a second time or
\* another file was written after the freeze.
QuietRunVerifies ==
  /\ lock = NoProc /\ tail = NoTail /\ Len(markers) = Len(ledger)
  /\ UsedOnce(ledger) /\ ~WrittenAfterFreeze
  => Verifies

-----------------------------------------------------------------------------
(* What makes the safety properties inductive.                             *)

Writing == Step \ {"idle", "want"}

\* The process at a write is the one that holds the lock, with an event to
\* write, on a run that is not frozen.
LockOK ==
  /\ \A p \in Procs : pc[p] \in Writing <=> lock = p
  /\ \A p \in Procs : pc[p] # "idle" => req[p] \in Request
  /\ lock # NoProc => plan \in Event /\ freeze = NoFile

\* Marker i is a whole file, and binds event i.
Marked(i) == markers[i] = ledger[i]

\* The files between any two steps: only the last marker may be torn, and
\* only one event, or the bytes of one, may lack its marker.
FilesOK ==
  /\ Len(ledger) >= 1
  /\ OneUnmarkedSuffix
  /\ \A i \in 1..Len(markers) :
       Marked(i) \/ (i = Len(markers) /\ markers[i] = TornFile)

AllMarked == Len(markers) = Len(ledger) /\ \A i \in 1..Len(markers) : Marked(i)

LastUnmarked ==
  /\ Len(ledger) = Len(markers) + 1
  /\ \A i \in 1..Len(markers) : Marked(i)

\* The files as the lock holder finds them at a step.
FilesAt(step) ==
  /\ step \in {"snapshot", "append", "seal"} => tail = NoTail /\ AllMarked
  /\ step = "mark" => tail = NoTail /\ LastUnmarked /\ ledger[Len(ledger)] = plan
  /\ step = "checkpoint" => tail = NoTail /\ AllMarked /\ ledger[Len(ledger)] = plan
  /\ step \in {"quarantine", "truncate"} =>
       IF tail # NoTail THEN AllMarked ELSE Len(ledger) >= 2 /\ LastUnmarked
  /\ step = "truncate" => [tail |-> Unmarked, whole |-> TRUE] \in quarantine

WriterOK == \A p \in Procs : FilesAt(pc[p])

\* The inductive invariant.
LedgerInv == TypeOK /\ LockOK /\ FilesOK /\ WriterOK

-----------------------------------------------------------------------------
(* Action properties.                                                      *)

\* A committed event is never removed, changed or reordered.
CommittedGrows ==
  [][ /\ Len(Committed) <= Len(Committed')
      /\ SubSeq(Committed', 1, Len(Committed)) = Committed ]_vars

\* Bytes are cut off the ledger file only after they are, whole, in the
\* quarantine.
CutIsQuarantined ==
  [][ (tail # NoTail /\ tail' # tail) \/ Len(ledger') < Len(ledger)
        => [tail |-> Unmarked, whole |-> TRUE] \in quarantine ]_vars

\* No update is lost: an event is committed only on the very history its
\* caller had read when it decided to send it, whatever other writers,
\* crashes and recoveries did while it waited for the lock.
DecidedOnThisHistory ==
  [][ \A p \in Procs :
        /\ lock = p /\ Len(markers') > Len(markers)
        /\ req[p].op \in {"advance", "revise", "reopen"}
        => ledger = Append(req[p].head, plan) ]_vars

\* The ledger implements the atomic log.
ImplementsDurableLog == Log!Spec

-----------------------------------------------------------------------------
(* Liveness.                                                               *)

\* Every request is answered, refused or given up, and its process lets go
\* of the lock, also when it crashes holding it: nobody is locked out of the
\* run for good.
RequestsAnswered ==
  \A p \in Procs : pc[p] # "idle" ~> (pc[p] = "idle" /\ lock # p)

\* The same bytes are in the quarantine already, so recover_partial_tail
\* fails at write_once each time it is called: a crash between quarantine and
\* truncation, or the same bytes torn twice, leave the run unreadable.
QuarantineCollides == \E q \in quarantine : q.tail = Unmarked

\* An interrupted write does not make the run unreadable for good: with an
\* operator who asks for recovery it replays again, unless the quarantine
\* already holds its bytes or a revision has used a command id a second time.
InterruptedIsRecovered ==
  Interrupted ~>
    Replays \/ (Interrupted /\ (QuarantineCollides \/ ~UsedOnce(ledger)))

=============================================================================

---------------------------- MODULE ActionAdapter ----------------------------
(***************************************************************************)
(* The local action adapter (scripts/recovery_adapters.py).  execute runs  *)
(* under the lock of the run from its first read to its last write, so one *)
(* execution is in progress at a time; it can be killed, or a write of it  *)
(* can fail, at every step, and a caller can always call again.            *)
(*                                                                         *)
(* Five append-only journals, the attempts and one per source, each with a *)
(* marker file per committed line; receipts; and the quarantine.           *)
(***************************************************************************)
EXTENDS Integers, Sequences, FiniteSets

CONSTANTS
  Actions,       \* exact action contracts
  Operation,     \* [Actions -> {"REFUND", "RESHIP"}]
  BusinessKey,   \* [Actions -> eligible business keys]
  Faults,        \* the injected faults callers of this instance ask for
  NoAction, NoJob, NoTail, NoFile, WholeFile, TornFile,
  MaxAttempts,   \* bound: lines of the attempt journal
  MaxCrashes,    \* bound: crashes and failed writes
  TearFiles      \* may a crash leave a write-once file half written?

VARIABLES
  reserved,      \* the actions with a reservation in the ledger
  journal,       \* per journal: its complete lines, torn tail and markers
  receipts,      \* receipts/<action id>.json
  quarantine,    \* quarantine/*-tail-<digest>.bin: the bytes of each file
  job,           \* the execution that holds the lock
  answered,      \* history: the actions callers were given a receipt for
  crashes

vars == <<reserved, journal, receipts, quarantine, job, answered, crashes>>

-----------------------------------------------------------------------------
(* Journals.                                                               *)

SourceByOperation(op) ==
  IF op = "REFUND" THEN <<"PAYMENT">> ELSE <<"OMS", "INVENTORY", "WMS">>

\* The order in which execute looks for uncommitted suffixes.
RecoveryOrder == <<"ATTEMPTS", "PAYMENT", "OMS", "INVENTORY", "WMS">>
Journals == {RecoveryOrder[i] : i \in DOMAIN RecoveryOrder}
Sources  == Journals \ {"ATTEMPTS"}

Statuses ==
  {"EFFECT_STARTED", "FAILED_BEFORE_MUTATION", "EFFECT_UNKNOWN",
   "PARTIAL_EFFECT_REQUIRES_RECOVERY", "RECONCILED_COMMITTED_EFFECT",
   "SIMULATED_EFFECT_COMMITTED"}

\* A line: an attempt with its status, or an effect.  Its sequence number is
\* its place.
Entry == [act : Actions, status : Statuses \cup {"EFFECT"}, reconciled : BOOLEAN]

Line(a, s, r) == [act |-> a, status |-> s, reconciled |-> r]

\* Bytes after the last LF: a prefix all lines share, or one that names its line.
TornTail == [form : {"short"}] \cup [form : {"long"}, entry : Entry]

\* The marker of a line holds its digest.  The journal can be read when
\* every marker is whole and binds the line at its place, and a source has
\* one line for an action.
Readable(j) ==
  /\ Len(journal[j].markers) <= Len(journal[j].lines)
  /\ \A i \in DOMAIN journal[j].markers : journal[j].markers[i] = journal[j].lines[i]
  /\ j \in Sources => \A i, k \in DOMAIN journal[j].lines :
       journal[j].lines[i].act = journal[j].lines[k].act => i = k

\* Mutant: only a torn line is a suffix, not a complete line without marker.
MutHasSuffix(j) == journal[j].tail # NoTail

HasSuffix(j) ==
  journal[j].tail # NoTail \/ Len(journal[j].lines) > Len(journal[j].markers)

\* The bytes after the committed prefix.
Suffix(j) ==
  LET n == Len(journal[j].lines)
      t == journal[j].tail
  IN  IF t = NoTail
      THEN [journal |-> j, form |-> "line", entry |-> journal[j].lines[n], at |-> n]
      ELSE IF t.form = "short"
      THEN [journal |-> j, form |-> "short"]
      ELSE [journal |-> j, form |-> "long", entry |-> t.entry, at |-> n + 1]

\* The lines that are evidence: those with a whole marker.
Committed(j) ==
  LET WholeMarkers == {i \in DOMAIN journal[j].markers : journal[j].markers[i] # TornFile}
  IN  SubSeq(journal[j].lines, 1, Cardinality(WholeMarkers))

EffectIn(a, s) == \E i \in DOMAIN Committed(s) : Committed(s)[i].act = a

Required(a) == SourceByOperation(Operation[a])
RequiredSources(a) == {Required(a)[i] : i \in DOMAIN Required(a)}

Present(a)  == {s \in RequiredSources(a) : EffectIn(a, s)}
Partial(a)  == Present(a) # {} /\ Present(a) # RequiredSources(a)
Complete(a) == Present(a) = RequiredSources(a)

\* Mutant: earlier attempts are not looked up.
MutAttempted(a) == Present(a) # {}

Attempted(a) ==
  \E i \in DOMAIN Committed("ATTEMPTS") : Committed("ATTEMPTS")[i].act = a

\* Another remedy of the same eligible quantity has a committed effect.
Covered(a) ==
  \E b \in Actions \ {a}, s \in Sources : BusinessKey[b] = BusinessKey[a] /\ EffectIn(b, s)

-----------------------------------------------------------------------------
(* The ledger reserves an action, once for an eligible quantity.           *)

Reservable(a) == \A b \in reserved : BusinessKey[b] # BusinessKey[a]

Reserve(a) ==
  /\ job = NoJob
  /\ Reservable(a)
  /\ reserved' = reserved \cup {a}
  /\ UNCHANGED <<journal, receipts, quarantine, job, answered, crashes>>

-----------------------------------------------------------------------------
(* execute, step by step.                                                  *)

\* Bound: no execution without room for the two attempts it may append.
Room == Len(journal["ATTEMPTS"].lines) + 2 <= MaxAttempts

\* A call takes the lock of the run.
Execute(a, f) ==
  /\ job = NoJob
  /\ Room
  /\ job' = [act |-> a, fault |-> f, step |-> "recover",
             status |-> "EFFECT_STARTED", reconciled |-> FALSE]
  /\ UNCHANGED <<reserved, journal, receipts, quarantine, answered, crashes>>

At(step) == job # NoJob /\ job.step = step

Goto(step) == job' = [job EXCEPT !.step = step]

\* Go on to append an attempt.
Log(status, reconciled) ==
  job' = [job EXCEPT !.step = "log", !.status = status, !.reconciled = reconciled]

Leave == job' = NoJob

\* The quarantine file is named by the journal and the digest of the bytes.
NameTaken(j) == \E q \in quarantine : q.bytes = Suffix(j)

\* Journal j is the first one that cannot be used as it is.
FirstUnclean(j) ==
  \E n \in DOMAIN RecoveryOrder :
    /\ RecoveryOrder[n] = j
    /\ ~Readable(j) \/ HasSuffix(j)
    /\ \A m \in 1..n-1 : Readable(RecoveryOrder[m]) /\ ~HasSuffix(RecoveryOrder[m])

Clean == \A j \in Journals : Readable(j) /\ ~HasSuffix(j)

\* Mutant: the suffix is truncated without a copy.
MutQuarantineSuffix ==
  /\ At("recover")
  /\ \E j \in Journals : FirstUnclean(j) /\ Readable(j)
  /\ Goto("truncate")
  /\ UNCHANGED <<reserved, journal, receipts, quarantine, answered, crashes>>

QuarantineSuffix ==
  /\ At("recover")
  /\ \E j \in Journals :
       /\ FirstUnclean(j) /\ Readable(j) /\ ~NameTaken(j)
       /\ quarantine' = quarantine \cup {[bytes |-> Suffix(j), whole |-> TRUE]}
  /\ Goto("truncate")
  /\ UNCHANGED <<reserved, journal, receipts, answered, crashes>>

\* Mutant: the committed prefix ends before the last whole line.
MutTruncateSuffix ==
  /\ At("truncate")
  /\ \E j \in Journals :
       /\ FirstUnclean(j)
       /\ journal' = [journal EXCEPT ![j] =
            [lines |-> SubSeq(@.lines, 1, Len(@.lines) - 1), tail |-> NoTail,
             markers |-> SubSeq(@.markers, 1, Len(@.lines) - 1)]]
  /\ Goto("recover")
  /\ UNCHANGED <<reserved, receipts, quarantine, answered, crashes>>

TruncateSuffix ==
  /\ At("truncate")
  /\ \E j \in Journals :
       /\ FirstUnclean(j)
       /\ journal' = [journal EXCEPT ![j].lines = SubSeq(@, 1, Len(journal[j].markers)),
                                     ![j].tail = NoTail]
  /\ Goto("recover")
  /\ UNCHANGED <<reserved, receipts, quarantine, answered, crashes>>

\* The same repair of one source, called on its own.  Interrupted, it leaves
\* what an execution interrupted in its repair leaves.
RecoverSourceEffectTail(s) ==
  /\ job = NoJob
  /\ Readable(s) /\ HasSuffix(s) /\ ~NameTaken(s)
  /\ quarantine' = quarantine \cup {[bytes |-> Suffix(s), whole |-> TRUE]}
  /\ journal' = [journal EXCEPT ![s].lines = SubSeq(@, 1, Len(journal[s].markers)),
                                ![s].tail = NoTail]
  /\ UNCHANGED <<reserved, receipts, job, answered, crashes>>

\* A journal that cannot be read, or a suffix whose bytes the quarantine
\* holds already: execute raises.
RecoveryFails ==
  /\ At("recover")
  /\ \E j \in Journals : FirstUnclean(j) /\ (~Readable(j) \/ NameTaken(j))
  /\ Leave
  /\ UNCHANGED <<reserved, journal, receipts, quarantine, answered, crashes>>

\* What execute refuses once the journals are clean.  (An idempotency key
\* has one owner among the reserved actions, see RecoveryLedger.)
Refused(a) ==
  \/ a \notin reserved
  \/ receipts[a] = TornFile
  \/ receipts[a] = NoFile /\ Covered(a)

Refuse ==
  /\ At("recover") /\ Clean
  /\ Refused(job.act)
  /\ Leave
  /\ UNCHANGED <<reserved, journal, receipts, quarantine, answered, crashes>>

ReturnReceipt ==
  /\ At("recover") /\ Clean
  /\ ~Refused(job.act)
  /\ receipts[job.act] = WholeFile
  /\ answered' = answered \cup {job.act}
  /\ Leave
  /\ UNCHANGED <<reserved, journal, receipts, quarantine, crashes>>

\* Mutant: an execution that stopped half way is carried on.
MutDecide ==
  /\ At("recover") /\ Clean
  /\ ~Refused(job.act)
  /\ receipts[job.act] = NoFile
  /\ IF Complete(job.act)
     THEN job' = [job EXCEPT !.step = "receipt", !.reconciled = TRUE,
                             !.status = "RECONCILED_COMMITTED_EFFECT"]
     ELSE Log("EFFECT_STARTED", Attempted(job.act))
  /\ UNCHANGED <<reserved, journal, receipts, quarantine, answered, crashes>>

\* Mutant: a complete effect without its receipt is not recognised.
MutDecideForgets ==
  /\ At("recover") /\ Clean
  /\ ~Refused(job.act)
  /\ receipts[job.act] = NoFile
  /\ \/ /\ Partial(job.act)
        /\ Log("PARTIAL_EFFECT_REQUIRES_RECOVERY", TRUE)
     \/ /\ Present(job.act) = {}
        /\ Log("EFFECT_STARTED", Attempted(job.act))
  /\ UNCHANGED <<reserved, journal, receipts, quarantine, answered, crashes>>

\* No receipt yet: the committed effects decide what may be done.
Decide ==
  /\ At("recover") /\ Clean
  /\ ~Refused(job.act)
  /\ receipts[job.act] = NoFile
  /\ \/ /\ Partial(job.act)
        /\ Log("PARTIAL_EFFECT_REQUIRES_RECOVERY", TRUE)
     \/ /\ Complete(job.act)
        /\ job' = [job EXCEPT !.step = "receipt", !.reconciled = TRUE,
                              !.status = "RECONCILED_COMMITTED_EFFECT"]
     \/ /\ Present(job.act) = {}
        /\ Log("EFFECT_STARTED", Attempted(job.act))
  /\ UNCHANGED <<reserved, journal, receipts, quarantine, answered, crashes>>

\* The line the execution appends next, and the journal it goes to.
NextSource(a) ==
  Required(a)[CHOOSE i \in DOMAIN Required(a) :
                /\ Required(a)[i] \notin Present(a)
                /\ \A k \in 1..i-1 : Required(a)[k] \in Present(a)]

Target == IF job.step \in {"log", "log_mark"} THEN "ATTEMPTS" ELSE NextSource(job.act)

NextLine ==
  IF job.step \in {"log", "log_mark"}
  THEN Line(job.act, job.status, job.reconciled)
  ELSE Line(job.act, "EFFECT", FALSE)

AppendLine ==
  /\ At("log") \/ At("effect")
  /\ journal' = [journal EXCEPT ![Target].lines = Append(@, NextLine)]
  /\ Goto(IF job.step = "log" THEN "log_mark" ELSE "effect_mark")
  /\ UNCHANGED <<reserved, receipts, quarantine, answered, crashes>>

WriteMarker ==
  journal' = [journal EXCEPT ![Target].markers = Append(@, NextLine)]

\* What follows a committed attempt.
MarkAttempt ==
  /\ At("log_mark")
  /\ WriteMarker
  /\ \/ /\ job.status = "EFFECT_STARTED" /\ job.fault # "before_mutation"
        /\ Goto("effect")
        /\ UNCHANGED answered
     \/ /\ job.status = "EFFECT_STARTED" /\ job.fault = "before_mutation"
        /\ Log("FAILED_BEFORE_MUTATION", FALSE)
        /\ UNCHANGED answered
     \/ /\ job.status \in {"SIMULATED_EFFECT_COMMITTED", "RECONCILED_COMMITTED_EFFECT"}
        /\ answered' = answered \cup {job.act}
        /\ Leave
     \/ /\ job.status \in {"FAILED_BEFORE_MUTATION", "EFFECT_UNKNOWN",
                           "PARTIAL_EFFECT_REQUIRES_RECOVERY"}
        /\ Leave
        /\ UNCHANGED answered
  /\ UNCHANGED <<reserved, receipts, quarantine, crashes>>

\* Mutant: off by one, the last effect is taken for done.
MutLastEffect == Cardinality(Present(job.act)) + 2 >= Len(Required(job.act))

LastEffect  == Cardinality(Present(job.act)) + 1 = Len(Required(job.act))
FirstEffect == Present(job.act) = {}

\* What follows a committed effect.
MarkEffect ==
  /\ At("effect_mark")
  /\ WriteMarker
  /\ \/ /\ job.fault = "after_first_effect" /\ FirstEffect
        /\ Log("EFFECT_UNKNOWN", FALSE)
     \/ /\ ~(job.fault = "after_first_effect" /\ FirstEffect)
        /\ ~LastEffect
        /\ Goto("effect")
     \/ /\ LastEffect /\ job.fault = "after_mutation_before_receipt"
        /\ Log("EFFECT_UNKNOWN", FALSE)
     \/ /\ LastEffect /\ job.fault = "none"
        /\ job' = [job EXCEPT !.step = "receipt", !.status = "SIMULATED_EFFECT_COMMITTED"]
  /\ UNCHANGED <<reserved, receipts, quarantine, answered, crashes>>

\* Mutant: the execution is answered before its last attempt is logged.
MutWriteReceipt ==
  /\ At("receipt")
  /\ receipts' = [receipts EXCEPT ![job.act] = WholeFile]
  /\ Goto("answer")
  /\ UNCHANGED <<reserved, journal, quarantine, answered, crashes>>

WriteReceipt ==
  /\ At("receipt")
  /\ receipts' = [receipts EXCEPT ![job.act] = WholeFile]
  /\ Goto("log")
  /\ UNCHANGED <<reserved, journal, quarantine, answered, crashes>>

-----------------------------------------------------------------------------
(* A crash, or a write that raises OSError: the execution is gone, and the *)
(* file it was writing is untouched or partly written.                     *)

Crash ==
  /\ job # NoJob
  /\ crashes < MaxCrashes
  /\ crashes' = crashes + 1
  /\ Leave
  /\ UNCHANGED <<reserved, answered>>

CrashBetweenWrites == Crash /\ UNCHANGED <<journal, receipts, quarantine>>

CrashInAppend ==
  /\ At("log") \/ At("effect")
  /\ \E t \in {[form |-> "short"], [form |-> "long", entry |-> NextLine]} :
       journal' = [journal EXCEPT ![Target].tail = t]
  /\ Crash
  /\ UNCHANGED <<receipts, quarantine>>

CrashInWriteOnce ==
  /\ TearFiles
  /\ Crash
  /\ \/ /\ At("log_mark") \/ At("effect_mark")
        /\ journal' = [journal EXCEPT ![Target].markers = Append(@, TornFile)]
        /\ UNCHANGED <<receipts, quarantine>>
     \/ /\ At("receipt")
        /\ receipts' = [receipts EXCEPT ![job.act] = TornFile]
        /\ UNCHANGED <<journal, quarantine>>
     \/ /\ At("recover")
        /\ \E j \in Journals :
             /\ FirstUnclean(j) /\ Readable(j) /\ ~NameTaken(j)
             /\ quarantine' = quarantine \cup {[bytes |-> Suffix(j), whole |-> FALSE]}
        /\ UNCHANGED <<journal, receipts>>

-----------------------------------------------------------------------------
Init ==
  /\ reserved = {}
  /\ journal = [j \in Journals |-> [lines |-> <<>>, tail |-> NoTail, markers |-> <<>>]]
  /\ receipts = [a \in Actions |-> NoFile]
  /\ quarantine = {}
  /\ job = NoJob
  /\ answered = {}
  /\ crashes = 0

\* The lock holder's next step.
Run ==
  \/ QuarantineSuffix \/ TruncateSuffix \/ RecoveryFails
  \/ Refuse \/ ReturnReceipt \/ Decide
  \/ AppendLine \/ MarkAttempt \/ MarkEffect \/ WriteReceipt

Fail == CrashBetweenWrites \/ CrashInAppend \/ CrashInWriteOnce

Next ==
  \/ \E a \in Actions : Reserve(a) \/ \E f \in Faults : Execute(a, f)
  \/ \E s \in Sources : RecoverSourceEffectTail(s)
  \/ Run
  \/ Fail

Spec == Init /\ [][Next]_vars

\* The holder of the lock runs on unless it crashes, and a caller without a
\* receipt for a reserved action keeps calling, without faults.
RetrySpec ==
  /\ Spec
  /\ WF_vars(Run)
  /\ \A a \in Actions : SF_vars(a \in reserved /\ a \notin answered /\ Execute(a, "none"))

-----------------------------------------------------------------------------
Bytes ==
  [journal : Journals, form : {"line", "long"}, entry : Entry, at : Nat \ {0}]
    \cup [journal : Journals, form : {"short"}]

Steps == {"recover", "truncate", "log", "log_mark", "effect", "effect_mark", "receipt"}

Job == [act : Actions, fault : Faults, step : Steps, status : Statuses, reconciled : BOOLEAN]

\* An action is a refund or a reship, a crash bound is a number, and what
\* stands for nothing is none of the things.
ASSUME AdapterAssumption ==
  /\ \A a \in Actions : Operation[a] \in {"REFUND", "RESHIP"}
  /\ MaxCrashes \in Nat
  /\ NoAction \notin Actions /\ NoJob \notin Job
  /\ NoTail \notin TornTail /\ TornFile \notin Entry
  /\ WholeFile \notin {NoFile, TornFile} /\ NoFile # TornFile

\* Every variable has its type.
TypeOK ==
  /\ reserved \in SUBSET Actions
  /\ journal \in [Journals -> [lines   : Seq(Entry),
                               tail    : TornTail \cup {NoTail},
                               markers : Seq(Entry \cup {TornFile})]]
  /\ receipts \in [Actions -> {NoFile, WholeFile, TornFile}]
  /\ quarantine \in SUBSET [bytes : Bytes, whole : BOOLEAN]
  /\ job \in Job \cup {NoJob}
  /\ answered \in SUBSET Actions
  /\ crashes \in 0..MaxCrashes

-----------------------------------------------------------------------------
(* Safety.                                                                 *)

\* A receipt is never ahead of the sources: whoever holds one, on disk or as
\* an answer, finds every effect of the action committed, whatever was
\* interrupted, recovered and retried before.
ReceiptMeansEffects ==
  \A a \in Actions : receipts[a] = WholeFile \/ a \in answered => Complete(a)

\* Intent first: an effect, even one whose marker was never written, is
\* only in a source after an EFFECT_STARTED attempt of its action was
\* committed; so a retry can always tell that something may have happened.
IntentBeforeEffect ==
  \A s \in Sources : \A i \in DOMAIN journal[s].lines :
    LET a == journal[s].lines[i].act IN
    \E k \in DOMAIN Committed("ATTEMPTS") :
      Committed("ATTEMPTS")[k] \in {Line(a, "EFFECT_STARTED", r) : r \in BOOLEAN}

\* No remedy twice: one eligible quantity has at most one line in a source,
\* over all actions, crashes and retries.
OneRemedyPerQuantity ==
  \A s \in Sources : \A i, k \in DOMAIN journal[s].lines :
    BusinessKey[journal[s].lines[i].act] = BusinessKey[journal[s].lines[k].act] => i = k

\* "Execute or reconcile one reserved action without blind retry": only the
\* first attempt of an action is logged as not reconciled.
NoBlindRetry ==
  \A i, k \in DOMAIN Committed("ATTEMPTS") :
    LET e == Committed("ATTEMPTS")[k] IN
    i < k /\ Committed("ATTEMPTS")[i].act = e.act /\ e.status = "EFFECT_STARTED"
      => e.reconciled

\* No bytes leave a journal unless the quarantine holds them, whole.
CutIsQuarantined ==
  [][ \A j \in Journals :
        HasSuffix(j) /\ Len(journal[j].lines) >= Len(journal'[j].lines)
                     /\ [journal'[j] EXCEPT !.markers = <<>>]
                          # [journal[j] EXCEPT !.markers = <<>>]
          => [bytes |-> Suffix(j), whole |-> TRUE] \in quarantine' ]_vars

\* The adapter implements the abstract remedy: among others, a remedy that
\* stopped half way stays partial, and is never carried on by a retry.
Opened ==
  IF At("effect") \/ At("effect_mark") THEN job.act ELSE NoAction

Remedy == INSTANCE SimulatedRemedy
            WITH Required <- RequiredSources,
                 done <- [a \in Actions |-> Present(a)],
                 open <- Opened

ImplementsRemedy == Remedy!Spec

-----------------------------------------------------------------------------
(* Liveness.                                                               *)

\* No execution can go on: a journal cannot be read, or its suffix cannot
\* be quarantined.
Wedged == \E j \in Journals : FirstUnclean(j) /\ (~Readable(j) \/ NameTaken(j))

\* A reserved action whose caller keeps calling is answered with a receipt,
\* unless it stopped half way, or the files are wedged, or a receipt is torn.
\* The exceptions are real: recovery_adapters.py:380 says of an interrupted
\* suffix "recover it before any read", and a suffix interrupted again
\* between its copy and its truncation cannot be.
RetriedIsAnswered ==
  \A a \in Actions :
    a \in reserved ~> \/ a \in answered \/ Partial(a) \/ receipts[a] = TornFile
                      \/ Wedged \/ ~Room

=============================================================================

-------------------------- MODULE EvaluationRelease --------------------------
(***************************************************************************)
(* The release of one Stage 2 evaluation run: the release controller       *)
(* (scripts/stage2_evaluation_release.py), the launcher of the isolated    *)
(* container (scripts/run_stage2_isolated.py) and the stand-alone scorer   *)
(* (scripts/evaluate_recovery_workflow.py).  Operators call the controller *)
(* under a kernel lock on the run; the launcher and the scorer write into  *)
(* the same run and take no lock.  An artefact is written before the state *)
(* record that stands for it, and any process may die in between.  A       *)
(* digest is the value it digests, and a tree is two parts: the assisted   *)
(* trees, and the rest, which is materialized after them.                  *)
(***************************************************************************)
EXTENDS Integers, Sequences

CONSTANTS
  Operators,      \* processes that call the release controller
  Launchers,      \* runs of the launcher, each with one container
  Scorers,        \* runs of the stand-alone scorer
  Privileged,     \* those that may open a read-only file for writing
  Images,         \* image identities an operator may name
  Pinned,         \* those whose labels are the pins of the frozen pack
  Flawed,         \* container runs whose raw outputs break an exact-zero control
  NoOne, NoFile, TornFile, Altered, NoData,
  TearFiles,      \* may a write that is cut leave a torn file behind?
  MaxCrashes,     \* bound: deaths of a process, and failed writes
  MaxAlterations  \* bound: changes of the run's files by anyone else

ASSUME ReleaseAssumption ==
  /\ Pinned \subseteq Images
  /\ Flawed \subseteq Launchers
  /\ Privileged \subseteq Scorers
  /\ NoOne \notin Operators
  /\ {NoFile, TornFile, Altered} \cap Launchers = {}
  /\ NoFile # TornFile /\ NoFile # Altered /\ TornFile # Altered
  /\ TearFiles \in BOOLEAN
  /\ MaxCrashes \in Nat /\ MaxAlterations \in Nat

VARIABLES
  pack,           \* the input pack: as it was frozen, or altered since
  output,         \* output/: who wrote each part
  files,          \* the write-once artefacts of the run
  states,         \* release-states/: the chain of state records
  lock,           \* who holds .release-writer.lock
  job,            \* per operator: the command it is in
  launch,         \* per run of the launcher: how far it is
  scorer,         \* per run of the scorer: how far it is, and its report
  writable,       \* a scorer created score.json, which its owner may write
  disclosed,      \* history: bytes of the oracle have been in the run
  overwrites,     \* history: the scorers that truncated the score of another
  crashes, alterations

standAlone == <<scorer, writable, overwrites>>
vars == <<pack, output, files, states, lock, job, launch, standAlone, disclosed,
          crashes, alterations>>

-----------------------------------------------------------------------------
(* Values.                                                                 *)

Parts == {"assisted", "rest"}
Content == Launchers \cup {NoFile, TornFile, Altered}
Inventory == [Parts -> Content]
Packs == {"frozen", "altered"}

\* A part that is there and whole.
Whole(c) == c \notin {NoFile, TornFile}

Artefacts == {"preparation", "seal", "oracle", "disclosure", "score", "regression"}

Preparation == [image : Pinned, pack : Packs]
Attestation == [image : Pinned, pack : Packs, inventory : Inventory]
Score == [output : Inventory, pack : Packs]
Regression == [of : Score \cup {TornFile}]
OracleBytes == "oracle"

Written(a) ==
  CASE a = "preparation" -> Preparation
    [] a = "seal" -> Inventory
    [] a \in {"oracle", "disclosure"} -> {OracleBytes}
    [] a = "score" -> Score
    [] a = "regression" -> Regression
    [] a = "attestation" -> Attestation

\* What is not a whole file is told from every file.
ASSUME FilesAreTold ==
  \A a \in Artefacts \cup {"attestation"} :
    NoFile \notin Written(a) /\ TornFile \notin Written(a)

Empty == [p \in Parts |-> NoFile]

-----------------------------------------------------------------------------
(* The chain of state records.                                             *)

StateOrder == <<"running", "freeze-prepared", "output-frozen",
                "eligibility-verified", "oracle-released", "scored">>

State == IF states = <<>> THEN "not-started" ELSE states[Len(states)].state

\* What _append_state accepts as the next record of the chain.
Allowed ==
  {StateOrder[i] : i \in {Len(states) + 1} \cap DOMAIN StateOrder}
    \cup (IF Len(states) = 3 THEN {"invalidated"} ELSE {})

Reached(n) == Len(states) >= n
Sealed == states[3].bound

-----------------------------------------------------------------------------
(* The checks every command starts with.                                   *)

Commands == {"prepare", "prepare-freeze", "freeze", "verify-eligibility",
             "release-oracle", "score", "regression"}

Needs ==
  [c \in Commands |->
     CASE c = "prepare" -> "not-started"
       [] c = "prepare-freeze" -> "running"
       [] c = "freeze" -> "freeze-prepared"
       [] c = "verify-eligibility" -> "output-frozen"
       [] c = "release-oracle" -> "eligibility-verified"
       [] c = "score" -> "oracle-released"
       [] c = "regression" -> "scored"]

\* The preparation is the one the first record binds, and the pack still is
\* the one it binds.
PackBound ==
  /\ files["preparation"] \in Preparation
  /\ Reached(1)
  /\ states[1].bound = files["preparation"]
  /\ pack = files["preparation"].pack

\* The seal is the one its record binds, and the output still is what it lists.
SealHolds ==
  /\ files["seal"] \in Inventory
  /\ Reached(3)
  /\ Sealed = files["seal"]
  /\ output = Sealed

Continues(c) ==
  /\ State = Needs[c]
  /\ c # "prepare" => PackBound
  /\ c \in {"verify-eligibility", "release-oracle", "score", "regression"} => SealHolds

\* The launcher's attestation is of the prepared image, pack and seal.
AttestationProves ==
  /\ files["attestation"] \in Attestation
  /\ files["attestation"].image = files["preparation"].image
  /\ files["attestation"].pack = files["preparation"].pack
  /\ files["attestation"].inventory = files["seal"]

\* What verify-materialized proves again, without the lock and changing nothing.
Materialized ==
  /\ State \in {"output-frozen", "eligibility-verified", "oracle-released", "scored"}
  /\ PackBound
  /\ SealHolds
  /\ AttestationProves

\* What the replay of the raw outputs may find.  It raises over a part that
\* is missing or torn, and what it makes of bytes someone altered is open.
Verdicts(o) ==
  IF \E p \in Parts : ~Whole(o[p]) THEN {}
  ELSE IF \E p \in Parts : o[p] = Altered THEN {"clean", "flawed"}
  ELSE IF o["assisted"] \in Flawed THEN {"flawed"} ELSE {"clean"}

-----------------------------------------------------------------------------
(* Commands of the controller.  Each holds the lock from its checks to its *)
(* last write.  An operator whose lock is refused, or whose checks fail,   *)
(* changes nothing.                                                        *)

Idle == [cmd |-> "none", step |-> "none", data |-> NoData]

\* The lock is taken without waiting, the chain and the bindings are checked.
Start(p, c) ==
  /\ lock = NoOne
  /\ job[p] = Idle
  /\ Continues(c)
  /\ lock' = p
  /\ job' = [job EXCEPT ![p] = [cmd |-> c, step |-> "work", data |-> NoData]]
  /\ UNCHANGED <<pack, output, files, states, launch, standAlone, disclosed, crashes, alterations>>

Finish(p) ==
  /\ lock' = NoOne
  /\ job' = [job EXCEPT ![p] = Idle]

(* What a command may be about to bind, read off the files after its first *)
(* checks: nothing, and it is refused there.                               *)

\* Mutant: the image receipt is not opened against the pins of the pack.
PreparationOfAnyImage == {v \in [image : Images, pack : Packs] : v.pack = pack /\ pack = "frozen"}

\* The pack verifies only as it was frozen, the image only with its pins.
PreparationRead == {v \in Preparation : v.pack = pack /\ pack = "frozen"}

CandidateRead == {output} \ {Empty}

\* All assisted trees are there; the rest is not counted here.
SealRead == {o \in {output} : o = states[2].bound /\ Whole(o["assisted"])}

\* The replay reads the output directory itself, after the seal was checked.
VerdictRead == {v \in Verdicts(output) : AttestationProves /\ files["disclosure"] = NoFile}

\* The private oracle and nonce open the commitment of the pack.
OracleRead == {OracleBytes}

\* Mutant: what is scored is the output directory, without a look at the seal.
ScoreReadLive ==
  {v \in {[output |-> output, pack |-> pack]} :
     /\ files["oracle"] = OracleBytes /\ files["disclosure"] = OracleBytes
     /\ Verdicts(v.output) # {}}

\* Outputs are snapshot against the seal; the pack is snapshot as it is now.
ScoreRead ==
  {v \in {[output |-> files["seal"], pack |-> pack]} :
     /\ files["oracle"] = OracleBytes /\ files["disclosure"] = OracleBytes
     /\ \A q \in Parts : v.output[q] # NoFile => output[q] = v.output[q]
     /\ Verdicts(v.output) # {}}

\* The bytes of the score are only digested.
RegressionRead == {[of |-> s] : s \in {files["score"]} \ {NoFile}}

Read(c) ==
  CASE c = "prepare" -> PreparationRead
    [] c = "prepare-freeze" -> CandidateRead
    [] c = "freeze" -> SealRead
    [] c = "verify-eligibility" -> VerdictRead
    [] c = "release-oracle" -> OracleRead
    [] c = "score" -> ScoreRead
    [] c = "regression" -> RegressionRead

FirstWrite ==
  [c \in Commands |->
     CASE c = "prepare" -> "preparation"
       [] c = "freeze" -> "seal"
       [] c = "release-oracle" -> "oracle"
       [] c \in {"score", "regression"} -> c
       [] c \in {"prepare-freeze", "verify-eligibility"} -> "append"]

\* The command goes on to its first write.
Observe(p, c) ==
  /\ job[p].cmd = c
  /\ job[p].step = "work"
  /\ \E d \in Read(c) : job' = [job EXCEPT ![p].data = d, ![p].step = FirstWrite[c]]
  /\ UNCHANGED <<pack, output, files, states, lock, launch, standAlone, disclosed,
                 crashes, alterations>>

\* Mutant: a file that is there already is refused, whatever it holds.
CanWriteOnlyNew(a, v) == files[a] = NoFile

\* The write-once file takes the bytes, or holds exactly these already.  A
\* regression result has the digest of its bytes for a name.
CanWrite(a, v) ==
  \/ files[a] = NoFile \/ files[a] = v
  \/ a = "regression" /\ files[a] # TornFile

\* The command raises and leaves the lock.
Refuse(p) ==
  /\ \/ job[p].step = "work" /\ Read(job[p].cmd) = {}
     \/ job[p].step \in Artefacts /\ ~CanWrite(job[p].step, job[p].data)
  /\ Finish(p)
  /\ UNCHANGED <<pack, output, files, states, launch, standAlone, disclosed, crashes, alterations>>

\* _write_once.  The disclosure follows the oracle, a regression result ends
\* its command, and every other artefact is followed by its state record.
WriteArtefact(p) ==
  LET a == job[p].step IN
    /\ a \in Artefacts
    /\ CanWrite(a, job[p].data)
    /\ files' = [files EXCEPT ![a] = job[p].data]
    /\ disclosed' = (disclosed \/ a = "oracle")
    /\ \/ /\ a = "regression"
          /\ Finish(p)
       \/ /\ a # "regression"
          /\ job' = [job EXCEPT ![p].step = IF a = "oracle" THEN "disclosure" ELSE "append"]
          /\ UNCHANGED lock
    /\ UNCHANGED <<pack, output, states, launch, standAlone, crashes, alterations>>

\* flush, fsync or close fails when the bytes can be read already.
WriteFails(p) ==
  LET a == job[p].step IN
    /\ crashes < MaxCrashes
    /\ crashes' = crashes + 1
    /\ a \in Artefacts
    /\ files[a] = NoFile
    /\ files' = [files EXCEPT ![a] = job[p].data]
    /\ disclosed' = (disclosed \/ a = "oracle")
    /\ job' = [job EXCEPT ![p].step = "withdraw", ![p].data = a]
    /\ UNCHANGED <<pack, output, states, lock, launch, standAlone, alterations>>

\* The file is removed and the command raises.  A scorer that has the score
\* open writes into the removed file.
Withdraw(p) ==
  LET a == job[p].data IN
    /\ job[p].step = "withdraw"
    /\ files' = [files EXCEPT ![a] = NoFile]
    /\ Finish(p)
    /\ IF a = "score"
       THEN /\ scorer' = [s \in Scorers |->
                 IF scorer[s].step = "write" THEN [scorer[s] EXCEPT !.step = "gone"]
                                             ELSE scorer[s]]
            /\ overwrites' = {}
            /\ UNCHANGED writable
       ELSE UNCHANGED standAlone
    /\ UNCHANGED <<pack, output, states, launch, disclosed, crashes, alterations>>

\* The state a command reaches, which its record binds to what it wrote or saw.
Target(c, d) ==
  CASE c = "prepare" -> "running"
    [] c = "prepare-freeze" -> "freeze-prepared"
    [] c = "freeze" -> "output-frozen"
    [] c = "verify-eligibility" ->
         IF d = "flawed" THEN "invalidated" ELSE "eligibility-verified"
    [] c = "release-oracle" -> "oracle-released"
    [] c = "score" -> "scored"

\* The record is written aside and renamed: it appears whole or not at all.
AppendState(p) ==
  LET target == Target(job[p].cmd, job[p].data) IN
    /\ job[p].step = "append"
    /\ target \in Allowed
    /\ states' = Append(states, [state |-> target, bound |-> job[p].data])
    /\ Finish(p)
    /\ UNCHANGED <<pack, output, files, launch, standAlone, disclosed, crashes, alterations>>

\* The process dies: the kernel drops its lock, and a file it was writing may
\* stay behind torn.
OperatorDies(p) ==
  /\ crashes < MaxCrashes
  /\ job[p] # Idle
  /\ crashes' = crashes + 1
  /\ Finish(p)
  /\ \/ UNCHANGED <<files, disclosed>>
     \/ /\ TearFiles
        /\ job[p].step \in Artefacts
        /\ files[job[p].step] = NoFile
        /\ files' = [files EXCEPT ![job[p].step] = TornFile]
        /\ disclosed' = (disclosed \/ job[p].step = "oracle")
  /\ UNCHANGED <<pack, output, states, launch, standAlone, alterations>>

-----------------------------------------------------------------------------
(* The launcher.  It takes no lock.                                        *)

Launched == [phase : {"ready", "running", "assisted", "rest", "attest", "done", "gone"},
             image : Pinned \cup {NoData}]

Enter(l, phase) == launch' = [launch EXCEPT ![l].phase = phase]

\* The mounted pack and the image are checked, the image against the
\* preparation, which need not have its state record yet.
LaunchContainer(l, image) ==
  /\ launch[l].phase = "ready"
  /\ pack = "frozen"
  /\ image \in Pinned
  /\ files["preparation"] \in Preparation
  /\ files["preparation"].image = image
  /\ launch' = [launch EXCEPT ![l] = [phase |-> "running", image |-> image]]
  /\ UNCHANGED <<pack, output, files, states, lock, job, standAlone, disclosed,
                 crashes, alterations>>

\* The container has ended and its bundle parses; the output must be empty.
OpenOutput(l) ==
  /\ launch[l].phase = "running"
  /\ Enter(l, IF output = Empty THEN "assisted" ELSE "gone")
  /\ UNCHANGED <<pack, output, files, states, lock, job, standAlone, disclosed,
                 crashes, alterations>>

\* Mutant: a part that is there already is written over.
MaterializeOver(l, part) ==
  /\ launch[l].phase = part
  /\ output' = [output EXCEPT ![part] = l]
  /\ Enter(l, IF part = "assisted" THEN "rest" ELSE "attest")
  /\ UNCHANGED <<pack, files, states, lock, job, standAlone, disclosed, crashes, alterations>>

\* Parts are created exclusively, in order of their names.
MaterializePart(l, part) ==
  /\ launch[l].phase = part
  /\ \/ /\ output[part] = NoFile
        /\ output' = [output EXCEPT ![part] = l]
        /\ Enter(l, IF part = "assisted" THEN "rest" ELSE "attest")
     \/ /\ output[part] # NoFile
        /\ Enter(l, "gone")
        /\ UNCHANGED output
  /\ UNCHANGED <<pack, files, states, lock, job, standAlone, disclosed, crashes, alterations>>

\* The attestation is of the output directory as it is now; it is created
\* exclusively, and nothing follows it.
Attest(l) ==
  /\ launch[l].phase = "attest"
  /\ \/ /\ files["attestation"] = NoFile
        /\ files' = [files EXCEPT !["attestation"] =
             [image |-> launch[l].image, pack |-> pack, inventory |-> output]]
        /\ Enter(l, "done")
     \/ /\ files["attestation"] # NoFile
        /\ Enter(l, "gone")
        /\ UNCHANGED files
  /\ UNCHANGED <<pack, output, states, lock, job, standAlone, disclosed, crashes, alterations>>

\* The container fails or times out, or the launcher dies where it is.
LauncherDies(l) ==
  /\ crashes < MaxCrashes
  /\ launch[l].phase \notin {"ready", "done", "gone"}
  /\ crashes' = crashes + 1
  /\ Enter(l, "gone")
  /\ \/ UNCHANGED <<output, files>>
     \/ /\ TearFiles
        /\ launch[l].phase \in Parts
        /\ output[launch[l].phase] = NoFile
        /\ output' = [output EXCEPT ![launch[l].phase] = TornFile]
        /\ UNCHANGED files
     \/ /\ TearFiles
        /\ launch[l].phase = "attest"
        /\ files["attestation"] = NoFile
        /\ files' = [files EXCEPT !["attestation"] = TornFile]
        /\ UNCHANGED output
  /\ UNCHANGED <<pack, states, lock, job, standAlone, disclosed, alterations>>

-----------------------------------------------------------------------------
(* The stand-alone scorer: no lock, no state, no seal.  score.json is       *)
(* looked for, then opened for a plain write, which empties it.             *)

Scoring ==
  [step : {"ready"}, report : {NoData}]
    \cup [step : {"check", "open", "write", "done", "gone"}, report : Score]

Reach(s, step) == scorer' = [scorer EXCEPT ![s].step = step]

\* The live output and the pack are evaluated against the released oracle.
ScorerEvaluates(s) ==
  /\ scorer[s].step = "ready"
  /\ files["oracle"] = OracleBytes /\ files["disclosure"] = OracleBytes
  /\ files["preparation"] \in Preparation
  /\ Verdicts(output) # {}
  /\ scorer' = [scorer EXCEPT ![s] =
                  [step |-> "check", report |-> [output |-> output, pack |-> pack]]]
  /\ UNCHANGED <<pack, output, files, states, lock, job, launch, writable, overwrites,
                 disclosed, crashes, alterations>>

\* An existing score is not to be replaced.
ScorerChecks(s) ==
  /\ scorer[s].step = "check"
  /\ Reach(s, IF files["score"] = NoFile THEN "open" ELSE "gone")
  /\ UNCHANGED <<pack, output, files, states, lock, job, launch, writable, overwrites,
                 disclosed, crashes, alterations>>

\* Mutant: the controller's file is left writable.
MutMayOpen(s) == TRUE

\* What the controller has created is read-only.
MayOpen(s) == files["score"] = NoFile \/ writable \/ s \in Privileged

\* The score is created, or emptied if someone has made one since the check.
ScorerOpens(s) ==
  /\ scorer[s].step = "open"
  /\ MayOpen(s)
  /\ files' = [files EXCEPT !["score"] = TornFile]
  /\ writable' = (writable \/ files["score"] = NoFile)
  /\ overwrites' = IF files["score"] = NoFile THEN overwrites ELSE overwrites \cup {s}
  /\ Reach(s, "write")
  /\ UNCHANGED <<pack, output, states, lock, job, launch, disclosed, crashes, alterations>>

\* Another run has written, or is writing, other bytes: a mixture is possible.
Mixed(s) ==
  \E t \in Scorers \ {s} :
    scorer[t].step \in {"write", "done"} /\ scorer[t].report # scorer[s].report

ScorerWrites(s) ==
  /\ scorer[s].step = "write"
  /\ \/ files' = [files EXCEPT !["score"] = scorer[s].report]
     \/ Mixed(s) /\ files' = [files EXCEPT !["score"] = TornFile]
  /\ Reach(s, "done")
  /\ UNCHANGED <<pack, output, states, lock, job, launch, writable, overwrites,
                 disclosed, crashes, alterations>>

\* The write is cut; the file stays as it is.
ScorerDies(s) ==
  /\ TearFiles
  /\ crashes < MaxCrashes
  /\ crashes' = crashes + 1
  /\ scorer[s].step = "write"
  /\ Reach(s, "done")
  /\ UNCHANGED <<pack, output, files, states, lock, job, launch, writable, overwrites,
                 disclosed, alterations>>

-----------------------------------------------------------------------------
(* Anyone else.                                                            *)

\* Someone changes a file of the output, or of the pack.
Alter ==
  /\ alterations < MaxAlterations
  /\ alterations' = alterations + 1
  /\ \/ /\ \E q \in Parts :
             /\ Whole(output[q])
             /\ output' = [output EXCEPT ![q] = Altered]
        /\ UNCHANGED pack
     \/ /\ pack' = "altered"
        /\ UNCHANGED output
  /\ UNCHANGED <<files, states, lock, job, launch, standAlone, disclosed, crashes>>

-----------------------------------------------------------------------------
Init ==
  /\ pack = "frozen"
  /\ output = Empty
  /\ files = [a \in Artefacts \cup {"attestation"} |-> NoFile]
  /\ states = <<>>
  /\ lock = NoOne
  /\ job = [p \in Operators |-> Idle]
  /\ launch = [l \in Launchers |-> [phase |-> "ready", image |-> NoData]]
  /\ scorer = [s \in Scorers |-> [step |-> "ready", report |-> NoData]]
  /\ writable = FALSE
  /\ disclosed = FALSE
  /\ overwrites = {}
  /\ crashes = 0
  /\ alterations = 0

Advance(p) ==
  \/ \E c \in Commands : Observe(p, c)
  \/ Refuse(p)
  \/ WriteArtefact(p)
  \/ Withdraw(p)
  \/ AppendState(p)

Operate(p) ==
  \/ \E c \in Commands : Start(p, c)
  \/ Advance(p)
  \/ WriteFails(p)
  \/ OperatorDies(p)

Isolate(l) ==
  \/ \E image \in Images : LaunchContainer(l, image)
  \/ OpenOutput(l)
  \/ \E part \in Parts : MaterializePart(l, part)
  \/ Attest(l)
  \/ LauncherDies(l)

Rate(s) ==
  \/ ScorerEvaluates(s)
  \/ ScorerChecks(s)
  \/ ScorerOpens(s)
  \/ ScorerWrites(s)
  \/ ScorerDies(s)

Next ==
  \/ \E p \in Operators : Operate(p)
  \/ \E l \in Launchers : Isolate(l)
  \/ \E s \in Scorers : Rate(s)
  \/ Alter

Spec == Init /\ [][Next]_vars

\* A command that holds the lock is carried through, and the operators keep
\* issuing the next command of the release sequence; a scorer that has the
\* score open writes it or dies.  Nothing more is assumed of the scorer, the
\* launcher or the commands that need a choice of theirs.
Fairness ==
  /\ \A p \in Operators : WF_vars(Advance(p))
  /\ \A s \in Scorers : WF_vars(ScorerWrites(s) \/ ScorerDies(s))
  /\ \A c \in Commands : WF_vars(\E p \in Operators : Start(p, c))

FairSpec == Spec /\ Fairness

-----------------------------------------------------------------------------
(* Properties.                                                             *)

\* What a command binds, and the steps that write it.
Bound(c) ==
  CASE c = "prepare" -> Preparation
    [] c \in {"prepare-freeze", "freeze"} -> Inventory
    [] c = "verify-eligibility" -> {"clean", "flawed"}
    [] c = "release-oracle" -> {OracleBytes}
    [] c = "score" -> Score
    [] c = "regression" -> Regression

Steps(c) ==
  {FirstWrite[c]} \cup (IF c = "release-oracle" THEN {"disclosure"} ELSE {})
                  \cup (IF c = "regression" THEN {} ELSE {"append"})

\* The command whose record is the i-th of the chain.
Recorder == <<"prepare", "prepare-freeze", "freeze", "verify-eligibility", "release-oracle", "score">>

IsSequence(s) == s \in Seq({s[i] : i \in DOMAIN s})

JobOK(j) ==
  \/ j = Idle
  \/ /\ DOMAIN j = {"cmd", "step", "data"}
     /\ j.cmd \in Commands
     /\ \/ j.step = "work" /\ j.data = NoData
        \/ j.step = "withdraw" /\ j.data \in Steps(j.cmd) \cap Artefacts
        \/ j.step \in Steps(j.cmd) /\ j.data \in Bound(j.cmd)

\* Every variable has its type, and the chain of records is in order: what
\* _states accepts (stage2_evaluation_release.py:489).
TypeOK ==
  /\ pack \in Packs
  /\ output \in Inventory
  /\ DOMAIN files = Artefacts \cup {"attestation"}
  /\ \A a \in DOMAIN files : files[a] \in {NoFile, TornFile} \/ files[a] \in Written(a)
  /\ IsSequence(states)
  /\ Len(states) <= 6
  /\ \A i \in DOMAIN states :
       /\ states[i].bound \in Bound(Recorder[i])
       /\ states[i].state = Target(Recorder[i], states[i].bound)
  /\ State = "invalidated" => Len(states) = 4
  /\ lock \in Operators \cup {NoOne}
  /\ DOMAIN job = Operators /\ \A p \in Operators : JobOK(job[p])
  /\ launch \in [Launchers -> Launched]
  /\ scorer \in [Scorers -> Scoring]
  /\ writable \in BOOLEAN /\ disclosed \in BOOLEAN
  /\ overwrites \subseteq Scorers
  /\ crashes \in 0..MaxCrashes
  /\ alterations \in 0..MaxAlterations

\* A scorer that had found no score emptied the one that was there by the time
\* it opened it: one that another scorer had made, or, if it is privileged,
\* the controller's own.
Overtaken == overwrites # {} /\ (writable \/ overwrites \subseteq Privileged)

\* A state record is backed, whatever died and whenever: the artefact it
\* stands for is there, whole and with the bytes it binds (the write-once
\* files at stage2_evaluation_release.py:694, :729, :838, :840 and :879, each
\* before its record).  The one exception is a score that a scorer overtook
\* (evaluate_recovery_workflow.py:772-774), which the record does not protect.
RecordsAreBacked ==
  /\ Reached(1) => files["preparation"] = states[1].bound
  /\ Reached(3) => files["seal"] = states[3].bound
  /\ Reached(5) => files["oracle"] = OracleBytes /\ files["disclosure"] = OracleBytes
  /\ Reached(6) => files["score"] = states[6].bound \/ Overtaken

\* Who is in a command holds the lock, and the chain has stood still since.
CommandsHoldTheLock ==
  \A p \in Operators : job[p] # Idle => lock = p /\ State = Needs[job[p].cmd]

\* A record is due for what is written already, unless it is a score that was
\* overtaken, and a result is of the seal.
RecordsAreDue ==
  \A p \in Operators : LET j == job[p] IN
    /\ j.cmd = "prepare" /\ j.step = "append" => files["preparation"] = j.data
    /\ j.cmd = "freeze" /\ j.step = "append" => files["seal"] = j.data
    /\ j.step = "disclosure" => files["oracle"] = OracleBytes
    /\ j.cmd = "release-oracle" /\ j.step = "append" =>
         files["oracle"] = OracleBytes /\ files["disclosure"] = OracleBytes
    /\ j.cmd = "score" /\ j.step = "append" => files["score"] = j.data \/ Overtaken
    /\ j.cmd = "score" /\ j.step \in {"score", "append"} => j.data.output = Sealed

\* The score is writable only as the file a scorer created.  A scorer that has
\* it open is alone and has emptied it, unless it was overtaken, and what the
\* controller is about to remove is its own.
ScoreIsWhose ==
  /\ writable => files["score"] # NoFile
  /\ overwrites # {} => Overtaken
  /\ \A s \in Scorers : scorer[s].step = "write" =>
       \/ overwrites # {}
       \/ files["score"] = TornFile /\ \A t \in Scorers \ {s} : scorer[t].step # "write"
  /\ \A p \in Operators : job[p].step = "withdraw" /\ job[p].data = "score" =>
       ~writable /\ files["score"] # NoFile

\* The oracle is in the run only after the outputs were found eligible.
DisclosedIsEligible ==
  /\ files["oracle"] # NoFile => disclosed
  /\ disclosed => Reached(4) /\ states[4].state = "eligibility-verified"

\* A container that was launched has an image with the pins of the pack.
LaunchedIsPinned ==
  \A l \in Launchers : launch[l].phase # "ready" => launch[l].image \in Pinned

\* The inductive invariant.
ReleaseInv ==
  /\ TypeOK
  /\ RecordsAreBacked
  /\ CommandsHoldTheLock
  /\ RecordsAreDue
  /\ ScoreIsWhose
  /\ DisclosedIsEligible
  /\ LaunchedIsPinned

\* Unless someone else changed the files of the run: what is found eligible
\* and all that follows is the whole output of one container, which found no
\* control broken, in the image that was prepared; and verify-materialized
\* proves it again at any later time (stage2_evaluation_release.py:752,
\* run_stage2_isolated.py:747).
EligibleIsOneContainer ==
  alterations = 0 /\ Reached(4) =>
    /\ \E l \in Launchers : Sealed = [q \in Parts |-> l] /\ (l \in Flawed <=> State = "invalidated")
    /\ State # "invalidated" => Materialized

\* The stages of a release are those of SealedDisclosure: no oracle before a
\* seal or over a void run, and no result but of what was sealed.
Promise == INSTANCE SealedDisclosure WITH
  Outputs <- Inventory,
  Unsealed <- NoFile,
  Pending <- NoData,
  Void <- "void",
  sealed <- IF Reached(3) THEN Sealed ELSE NoFile,
  result <- IF Reached(6) THEN states[6].bound.output
            ELSE IF State = "invalidated" THEN "void" ELSE NoData

ImplementsPromise == Promise!Spec

BeingWritten(a) == a = "score" /\ \E s \in Scorers : scorer[s].step = "write"

\* Once the frozen candidate is the output that the launcher attested in the
\* image now prepared, the release comes to its end however often an operator
\* dies on the way: only a file left torn or a change by someone else can keep
\* it from there (stage2_evaluation_release.py:704-881).
AttestedRunConcludes ==
  ( /\ Len(states) = 2
    /\ files["attestation"] \in Attestation
    /\ files["attestation"].inventory = states[2].bound
    /\ files["attestation"].image = states[1].bound.image )
  ~> \/ State \in {"scored", "invalidated"}
     \/ alterations > 0
     \/ \E a \in DOMAIN files : files[a] = TornFile /\ ~BeingWritten(a)
=============================================================================

# Verification of the commerce recovery workflow

TLA+ models, TLC runs and TLAPS proofs for three protocols of this repository
(all of it Python under `src/scripts`):

* the **recovery workflow** of Stage 2 (`recovery_*.py`). It handles one customer
  case per *run*: evidence comes in, a remedy is decided by a policy, approved,
  reserved, executed against simulated sources, verified, communicated and closed;
* the **release of a sealed evaluation** of Stage 2
  (`stage2_evaluation_release.py`, `run_stage2_isolated.py`,
  `evaluate_recovery_workflow.py`): outputs of an isolated container are sealed
  before the oracle that scores them is disclosed;
* the **held-out protocol** of Stage 1 (`stage1_heldout*.py`,
  `score_stage1_heldout_manual.py`): a person's decisions are frozen by a commit
  before the oracle is released, and only what was frozen is scored.

In each of them several processes work on the same files, and any of them may be
killed between two writes; the repository's claims are about what survives that.

## 1. Inventory

| Component | State it keeps | Operations | Interacts with |
|---|---|---|---|
| **Workflow state machine** `recovery_state.py` | none | `transition_state`, `apply_event_state` | called for every event the ledger projects or appends |
| **Recovery workspace** `recovery_workspace.py` | `events/workflow.jsonl`, `commits/`, `checkpoints/`, `source-snapshots/`, `quarantine/`, `freeze.json`, `.writer.lock` | `prepare`, `append_transition`, `reserve_action`, `revise_source`, `reopen_with_revision`, `recover_partial_tail`, `freeze`, `replay`, `resume`, `verify` | every other recovery component stores through it |
| **Application service** `recovery_services.py` | none of its own | `recommend`, `advance`, `reserve_action`, `record_*`, `close`, revisions | reads a projection without the lock, then asks the workspace for one event bound to it |
| **Action adapter** `recovery_adapters.py` | `action-attempts/` and `source-effects/` journals with commit markers, `receipts/` | `execute`, `recover_source_effect_tail` | takes the lock of the run; reads the reservation from the ledger |
| **Guarded orchestration** `recovery_orchestration.py` | artefact files (verification, communication, closure) | execute, verify, communicate, close | service + adapter, several locks one after the other |
| **Action contracts, approvals** `recovery_actions.py`, `recovery_approval.py` | none | build, validate, reserve atomically | inputs of `reserve_action` |
| **Verification, communication** `recovery_verification.py`, `recovery_communication.py` | none | compare effects with the action; derive one message | inputs of the service |
| **Policy, facts** `recovery_policy.py`, `stage2_facts.py` | none | check a source batch, derive facts, decide by an ordered rule matrix, compare a provider's proposal | inputs of `recommend` and of the contract |
| **Recommenders** `recovery_recommender.py` | none | fetch a proposal through a recorded or a live provider, validate it | input of `recommend`; never changes the decision |
| **Case evaluation** `run_stage2_isolated.py`, `evaluate_recovery_workflow.py` | output trees | carry one case through the workflow, judge what its run left behind | reads ledger, effects and records of a frozen run |
| **Evaluation release** `stage2_evaluation_release.py` | `release-states/*.json` (a chain), preparation, seal, oracle, disclosure, score, a lock | prepare, prepare-freeze, freeze, verify-eligibility, release-oracle, score, record-regression | the launcher and the stand-alone scorer write into the same run without its lock |
| **Launcher** `run_stage2_isolated.py` | `output/`, attestation | run one container, materialize its bundle, attest it | checks the preparation, then only writes |
| **Held-out protocol** `stage1_heldout.py`, `stage1_heldout_release.py` | pack (public and private), run directories, release pair, git commits | generate, prepare, freeze by commit, release | generators, operator, releasers and the scorer share a working tree, no lock |
| **Held-out scoring** `score_stage1_heldout_manual.py`, `score_stage1_manual.py` | a summary | read snapshots, compare, load the freeze again, score | reads what everyone else writes |
| Case generators, comparators, packs, publication checks, explorer | files they build | single-shot programs | none at run time |

What is hard here:

* **Crashes.** An event is three writes (line, marker, checkpoint), a revision
  four, a recovery five; each can be the last one of its process. A write-once
  file is created under its final name before it is filled.
* **Concurrency.** Projections are read without the lock and used under it
  later; optimistic checks (`expected_ledger_head`, `expected_case_revision`)
  have to catch whatever happened in between.
* **Retries.** A caller that lost its answer sends the command again.
* **Authority.** An approval, an idempotency key and an eligible quantity may be
  consumed once per run, across revisions of the evidence.
* **Recovery of a recovery.** Quarantine, truncation and the recovery event are
  themselves interruptible.
* **Limits of files as a protocol.** `freeze.json` pins an inventory while other
  processes wait for the lock.
* **Order of disclosure.** An oracle may be read once something else is sealed;
  the seal, the check and the disclosure are different programs, some without a
  lock, and each may be killed and started again.
* **Files read twice.** The held-out release and scorer read a manifest, check it,
  and read it again; people edit, generate and commit in between.
* **Boundaries of the policy.** Rules, limits and quantities meet at equality, and
  the order of the rules decides.

`PROJECT.json` lists each such hazard with its line and the properties that
would catch it going wrong.

What makes each component correct: the *ledger* is an append-only log of legal
events in which an acknowledged event stays, a command commits once, and a crash
costs at most the write it interrupted; the *adapter* makes each effect of a
reserved action happen at most once and reports none that is missing; the
*service and orchestration* never act on evidence that is out of force; the
*evaluation release* discloses the oracle only for outputs already sealed and
scores those; the *held-out protocol* scores only what was decided blind; the
*policy* never grants more on worse evidence, and nobody allows more than their
role may.

## 2. Modules

| Module | Models |
|---|---|
| `WorkflowStates` | the state machine as pure operators: `Legal`, `CanApply` |
| `WorkflowEvents` | the ledger line (`Event`) and which line may follow a history (`Extends`) |
| `DurableLog` | abstract: one atomic, growing, sealable log with acknowledgements |
| `RecoveryLedger` | the workspace: files, lock, operations write by write, crashes |
| `MCRecoveryLedger` | histories, contracts and request kinds for TLC |
| `RecoveryLedgerProofs` | theorems about the files of `RecoveryLedger` |
| `LedgerHistoryProofs` | theorems about the history in those files, the refinement of `DurableLog` among them |
| `SimulatedRemedy` | abstract: which effects of an action have happened, and what may happen next |
| `ActionAdapter` | the local adapter: journals, markers, receipts, faults, crashes |
| `MCActionAdapter` | contracts for TLC |
| `ActionAdapterProofs` | theorems about `ActionAdapter`, the refinement of `SimulatedRemedy` among them |
| `RecoveryWorkflow` | service and orchestration: the steps of every use case between two locks |
| `MCRecoveryWorkflow` | names and symmetry for TLC |
| `RecoveryWorkflowProofs` | theorems about `RecoveryWorkflow` |
| `RecoveryPolicy` | source batches, derived facts, the decision matrix, as pure operators |
| `AssistedCase` | one case from its evidence to its evaluation, on data instead of names |
| `MCAssistedCase` | the batches TLC starts from |
| `AssistedCaseProofs` | theorems about `RecoveryPolicy` and `AssistedCase` |
| `SealedDisclosure` | abstract: seal, disclose, conclude or invalidate, in this order |
| `EvaluationRelease` | controller, launchers and scorers of one evaluation run, write by write |
| `MCEvaluationRelease` | images for TLC |
| `EvaluationReleaseProofs` | theorems about `EvaluationRelease`, the refinement of `SealedDisclosure` among them |
| `ReleaseOutputProofs` | theorems about the container output an `EvaluationRelease` finds eligible |
| `HeldoutRelease` | generation, preparation, freeze, release and scoring of Stage 1, file by file |
| `MCHeldoutRelease` | handling times and symmetry for TLC |
| `HeldoutReleaseProofs` | theorems about `HeldoutRelease` |

How they compose. `RecoveryLedger` implements `DurableLog`, so a module above it
may take one append, bound to the head it was asked for, as one step;
`ActionAdapter` implements `SimulatedRemedy`, so one run of the adapter is a step
that leaves none, some or all effects. `RecoveryWorkflow` is written over these
two abstractions: its `Commit` is a commit of the log, its `AdapterReturns` and
`AdapterFails` are runs of the adapter. `WorkflowStates` is the same state
machine in all of them, and in `AssistedCase`, which looks at the other half of a
case: `RecoveryWorkflow` has names for actions and takes the route as given,
`AssistedCase` has the quantities, amounts and authorities the route comes from,
over `RecoveryPolicy`. `EvaluationRelease` implements `SealedDisclosure`; the cases
it seals are what `AssistedCase` evaluates, as opaque bytes. `HeldoutRelease` is
the older, separate protocol of Stage 1.

### RecoveryLedger and the code

A process (`Procs`) is one OS process with the run open. Its life is `pc`:

| `pc` | code |
|---|---|
| `idle` | outside the workspace; a projection was read without the lock by `replay` |
| `want` | in `_RunWriter.__enter__`, polling the flock |
| `snapshot` | about to `write_once` the source snapshot of a revision |
| `append` | about to `append_durable` the event line |
| `mark` | about to write `commits/NNNNNN.json` |
| `checkpoint` | about to write `checkpoints/NNNNNN.json` and answer |
| `quarantine`, `truncate` | the two first writes of `recover_partial_tail` |
| `seal` | about to write `freeze.json` |

Everything an operation reads under the lock is read in one step (`Begin`,
`Repeat` or `Reject`): while the lock is held nobody else writes, so the reads
cannot be told apart from one read. Every write is a step of its own and a crash
can precede it (`CrashBetweenWrites`), tear the line (`CrashInAppend`) or tear
the write-once file (`CrashInWriteOnce`, if `TearFiles`). The same three actions
stand for a write that raises `OSError`, because the with-block is left with the
same bytes on disk.

Data is abstracted to what the checks tell apart. A ledger head, a SHA-256 over
the chain, is the ledger itself; a marker is the event it binds, a checkpoint the
ledger it projects, a snapshot the head it binds, a quarantine file the bytes it
keeps. `STATE_ADVANCED` stands for every event type whose only effect is a
declared transition (`CASE_DEDUPLICATED`, `CONTEXT_ASSEMBLED`,
`ACTION_EFFECT_STARTED`, ...). Torn bytes are either `short` (a prefix all events
share) or `long` (a prefix that identifies the event): the difference decides
whether two torn tails have the same digest, and so the same quarantine name.

The inventory that `freeze` pins is of every file of the run. `Inventory` has the
files the workspace writes one by one, and the number of files the adapter and the
orchestrator have written since (`artifacts`): neither looks at `freeze.json`, so
`WriteArtifact` is possible after a freeze, and `verify` then refuses the run. What
writes them, and when, is in `RecoveryWorkflow`.

`Submit` is what callers may ask for: always on the projection of the ledger as
it was when they asked. The request stays after the answer, so `Retry` can send
it again at any later time, with the head it was built for.

### DurableLog

`Commit` appends one legal event under a fresh command id, `Acknowledge` names a
committed event, `Seal` ends growth. The refinement mapping takes the log to be
the events up to the last whole marker (`Committed`) and the seal to be the
existence of `freeze.json`: the marker is the linearisation point, everything
else the ledger does is a stutter.

### ActionAdapter and the code

`execute` holds the lock of the run from its first read to its last write, so
there is one `job`, whose `step` says which write comes next:

| `step` | code |
|---|---|
| `recover` | looking for a suffix without marker in the five journals, in `RecoveryOrder`; then the decision |
| `truncate` | the quarantine file of a suffix is written, `truncate_durable` is next |
| `log`, `log_mark` | an attempt line, its marker |
| `effect`, `effect_mark` | a line of a source's effect journal, its marker |
| `receipt` | `receipts/<action>.json` |

`Decide` is what `execute` does once the journals are clean: return the receipt,
refuse a rival remedy of the same quantity, report a remedy that stopped half way
(`PARTIAL_EFFECT_REQUIRES_RECOVERY`), reconcile a complete one, or start.
`fault` is the fault the caller injects. `Crash...` are the crashes and failed
writes of `RecoveryLedger`. `SimulatedRemedy` says what all of this promises: an
effect happens once, in order, only for an action that was started, never for a
rival, and a remedy that stopped half way stays as it is.

### RecoveryWorkflow and the code

`job[p]` is the call a process is in, named for its next step; between two steps
nothing is held.

| Use case | Steps |
|---|---|
| `recommend` | `Recommend`, `RouteRecommendation` |
| `execute_active_action` | `StartExecution` or `RetryExecution`; `AdapterReturns` or `AdapterFails`; `RecordReceipt` or `RecordUnknownOutcome` |
| `verify_active_action`, `verify_direct_no_action` | `Verify` or `VerifyNoAction`; `WriteVerification`; `RecordVerification` or `RecordNoActionVerification` |
| `communicate_active_verification` | `Communicate`, `WriteMessage`, `RecordMessage` |
| `close` | `Close`, `WriteClosure` |
| `advance`, `reserve_action`, `revise_source`, `reopen_with_revision`, `freeze` | one step each |

The projection is computed from `log`: `State`, `Rev`, and `Active...` for
`active_object_ids`, which a revision clears. `Refuse` ends a call whose next
guard fails; `Crash` ends one anywhere, which also stands for an error the code
does not catch (`execute` catches `RuntimeError` only). `route` is what the
policy decides on the evidence of the revision in force; a revision chooses it
anew. Each call has command ids of its own: what a repeated id does is in
`RecoveryLedger`. An action is a contract for a quantity of its own, rivals being
the adapter's matter; the two direct classifications are one. `Freeze` stops every
later event, but not the steps that write elsewhere: `AdapterReturns`,
`AdapterFails`, `WriteVerification`, `WriteMessage`.

### RecoveryPolicy, AssistedCase and the code

A `Batch` is the records of the seven sources of one case revision, with small
numbers for quantities, cents and hours; digests and identifiers are exact by
construction and left out. `ValidBatch` is `validate_source_batch`, the operators
under *Facts* are `derive_case_facts`, and `Matrix` is `decide_policy`: its rules
in the order in which the code tries them, so that `Decide` is the first that
applies. Where the code raises, the operator says so (`Derivable`, `Consistent`):
a case that cannot be decided gets no recommendation.

`AssistedCase` takes a batch from there: `Recommend`, `Route`, `Prepare` (the
contract is built after its preparation was announced), `Reserve` with any
authority event that may be on file, genuine or not, `Execute`, verification,
message, closure, and `Revise` between any two of them. A service call is one step
here, its interleavings being `RecoveryWorkflow`'s matter. `JudgedClass`,
`LegalEnd` and `JudgedRecommendation` are what the evaluation makes of the run if
it is frozen in that state.

### EvaluationRelease and the code

| Part | Code |
|---|---|
| `Start`, `Observe`, `WriteArtefact`, `AppendState`, `Refuse` | one command of the controller: lock and first checks, what it reads after them, its write-once files, its state record |
| `LaunchContainer`, `OpenOutput`, `MaterializePart`, `Attest` | the launcher, from the preparation it checks to the attestation |
| `WriteFails`, `Withdraw` | a write-once file whose flush, fsync or close fails when its bytes can be read, and its removal |
| `ScorerEvaluates`, `ScorerChecks`, `ScorerOpens`, `ScorerWrites` | the stand-alone scorer: `evaluate_run`, `target.exists()`, the open that truncates, the write |
| `OperatorDies`, `LauncherDies`, `ScorerDies` | a process is killed, and may leave a torn file |
| `Alter` | anyone else changes a file of the output or the pack |

`states` is the chain of `release-states`, each record with what it binds; a digest
is the value it digests. The lock is a kernel lock, taken without waiting and
dropped when its process dies. A state record appears at once (it is written aside
and renamed), an artefact may be torn. The output tree is two parts, the assisted
trees and the rest: enough for a bundle that is half materialized, or of two
containers.

A scorer's check and its open are two steps, and the open empties whatever file it
finds by then. The file system refuses it one thing only: a file the controller has
created has mode 0444, so a scorer without privileges cannot open it; a file a
scorer has created (`writable`) stays open to every scorer, also after the
controller has found it equal to its own score and has bound it. `Privileged` are
the scorers whose process may write a read-only file. `overwrites` is the history
of scores that were emptied, `disclosed` of oracle bytes that could be read; two
scorers whose writes of different reports meet may leave a mixture (`Mixed`). A
scorer killed before its open has changed nothing and needs no action.

### HeldoutRelease and the code

| Part | Code |
|---|---|
| `StartGenerate`, `WriteNewOrEqual`, `GeneratorStops` | `generate_heldout_artifacts`, one file of `Row` at a time |
| `Prepare` | `prepare_heldout_run`; the directory appears by a rename, so it is one step |
| `Handle`, `EditRun`, `Commit`, `Invalidate` | what people do: fill in the records, change the manifest, commit all or only the records, declare the pack invalid |
| `Frozen` | `load_records_freeze_anchor` |
| `Bind`, `Anchor`, `CreateOracle` ... `FillRelease`, `RollBack` | `release_heldout_oracle` and `_write_release_pair` |
| `ReadRun`, `Snapshot`, `ScoreRun` | `score_heldout_run` |

All files of a pack are determined by its generation material (`_generation_bundle`
is deterministic), so a file is the material it was made from, or `Torn`, or
`NoFile`. A file that is being written is there from its creation: first `Torn`,
then with all its bytes, and only then closed (`open` of its generator). Until it is
closed a failing write or close removes it, complete or not; another generator
compares it, or reads the material from it, as soon as its bytes are there. `relied`
are the material and the cases that somebody went on from while they were open, and
`undercut` remembers that such a file was removed after all.

A commit is the tree of tracked files. The clock is the number of
commits: a commit's time is its place, and what records report as handling times
are such places. `blind` marks records written while no released oracle could be
read: it is in no file, and is what `ScoredBlind` is about. The prepared copies of
pack, policy and guide are folded into the run manifest, and `cases` stands for the
operator guide too. The private manifest, written last and never read, is left out.

## 3. Runs

Twelve runs, eight of which pass; the other four show the findings. The ledger runs
have two processes and seeds with command ids of their own; no deadlock is possible
in them and it is checked.
The other runs do not check for deadlock: bounds, a stopped, frozen or closed case
and a concluded or damaged release end a behaviour. Symmetry is used in safety runs
only.

| Run | Question | Bounds |
|---|---|---|
| `ledger_crash` | do acknowledged events, checkpoints, what the workspace wrote before a freeze and the quarantine survive interruptions, those of a recovery included; does every request end, and does an interrupted run become readable again? | 2 processes that advance, revise, recover and freeze; reused ids; 4 events, 2 crashes, 1 file written after the freeze, fairness |
| `ledger_writers` | are keys and authority consumed once, and only for evidence in force; does whatever is committed replay, when reservations, revisions, a reopen and closed cases race; is every step one of `DurableLog`? | 2 processes, 4 contracts over 3 key functions, from a revised and from a closed case; 11 events, 3 revisions, 1 crash, torn files |
| `adapter_faults` | do effects happen once and in the open, with every injected fault, crashes and torn files; does a caller that keeps calling get a receipt; is every step one of `SimulatedRemedy`? | a refund and a rival replacement; 6 attempts, 2 crashes, fairness |
| `workflow_cases` | is what the ledger says of a remedy, a message or a closure backed by sources and records? | 2 processes, 2 replacements, 2 names per record, 2 revisions, 1 crash, 5 routes |
| `workflow_served` | does a case that is asked for again get to its closure? | 2 processes, 1 replacement, 2 names per record, 1 crash, fairness |
| `policy` | may whoever allowed a remedy allow that much; does worse evidence ever open one; does the evaluation report what happened? | 2 order lines; a sound case with each choice, every case that differs from it in one respect, and with a remedy chosen in two; 2 revisions, 2 runs of the adapter |
| `release` | are state records backed, is what is found eligible one container's whole output, is every step one of `SealedDisclosure`, does an attested candidate get to its end? | 2 operators, 2 launchers of which one is flawed, 2 scorers of which one is privileged, 3 images, 2 deaths or failed writes, torn files, 1 alteration, fairness |
| `heldout` | does a published pack reproduce, and is only scored what was frozen before the release? | 1 run, 2 materials, 2 generators, 2 releasers, 4 commits, 2 generations, 1 change by hand |
| `ledger_reused_id`, `workflow_pending`, `workflow_frozen`, `over_recovery` | the findings below | as small as they get |

Why the bounds are enough. In `ledger_crash` two events besides the seeds let two
writers race for one sequence, lose, and retry at the next. Two crashes are the
fewest with which a recovery is itself interrupted, or the same bytes are torn
twice; a third repeats one of these. `MaxRevision` 3 of the writers' run lets a case be reopened and
revised after that. One file written after a freeze is as good as many: any makes
the inventory another one. The writers' run starts from a history in which an authority
was consumed and then invalidated by a revision, because a case that starts at
`RECEIVED` would need nine events to get there. Of its contracts, b1 and b2 share
the eligible quantity only, b1 and b3 the authority only, b4 shares nothing, and
b1 built again for a later head has its own idempotency key again: each key is
tested alone. The adapter's contracts have one and three sources and are rivals;
six attempts are a start, its outcome and two retries with theirs. In the workflow
two revisions and two actions let an outcome of the first action arrive in the
second action's execution.

The policy's rules compare a quantity with another or with a limit; the sound case
sits between the limits and each deviation moves one number onto a boundary or just
past it, so pairs of deviations reach every meeting of two rules. In the release two
operators let a command be retried by another process, two launchers let the output
be a mixture, and one flawed container makes the run void; two deaths tear two
files, or an artefact and then its retry; two scorers let one empty the file the
other created, and with one of them privileged the file of the controller too. In the
held-out run four commits are the
first one, preparation, records and one more; handling between the second and the
third commit is on time if the preparation was the second, and begun too early if it
was the third; two generations and two releasers are the fewest that meet. Begun too
late is not reached with these bounds: records that end after their commit need a
fifth. One change by hand is an edit of the run manifest or a declaration that the
pack is invalid: a behaviour with both is not reached (the proofs have any number).

Fairness. In the ledger, a process waiting for the lock or holding it goes on
(`_RunWriter` polls every ten milliseconds with a deadline; the holder is
straight-line code): weak, and a crash is never fair. `RecoverySpec` adds that an
operator who keeps finding the run unreadable asks for recovery: strong, because
between two attempts the request is disabled by other processes' calls. Without
an operator nothing in the code starts a recovery. `RetrySpec` has the same two
for the adapter: its holder runs on, and a caller without a receipt calls again.
`FairSpec` of the workflow says that a call goes on (weak), that callers keep
making the call the state asks for, under a new name, and that an adapter tried
again and again returns one time (both strong). The repository's drivers
(`run_recovery_lab.py`, `run_stage2_isolated.py`) are such callers. `FairSpec` of
the release: a command that has the lock is carried through, and operators keep
issuing the next command of the sequence (both weak: no other command is possible
then, and the lock comes free); a scorer that has the score open writes it or dies
(weak: nothing else is left to it); nothing more is assumed of launcher and scorer. Policy
and held-out runs state no fairness: nothing there promises that a person goes on.

## 4. Findings

* **A revision under a used command id wedges the run** (`ledger_reused_id`).
  `_append_transition` looks the command id up; `revise_source` and
  `reopen_with_revision` do not. The event is committed, and from then on every
  replay is refused for a duplicated command id.
* **An execution interrupted by a crash is not reconciled** (`workflow_pending`).
  The unknown outcome is recorded by the process that ran the adapter. If that
  process is killed the case stays in `ACTION_PENDING`, which no call accepts; the
  plan's AE10 promises reconciliation.
* **A frozen run does not lie still** (`workflow_frozen`). The plan's KTD8 says that
  runs freeze "so no writer or adapter mutation remains in flight". `freeze` holds
  the lock and pins every file of the run, but waits for no call: `execute` of the
  adapter and `_write_record` of the orchestrator do not look at `freeze.json`, so an
  execution or a record begun before the freeze adds its files after it. Its outcome
  can no longer be recorded, and `verify` refuses the run.
* **A partial prior remedy is not deducted** (`over_recovery`). `decide_policy`
  looks at prior remedies only to see whether they cover everything. If they cover
  a part, the contract is again for all that is undelivered; together they recover
  more than is due, and the facts of the next revision cannot be derived.

The ledger's `AcknowledgedIsCommitted`, `CommittedGrows`, `CutIsQuarantined` and
`FrozenLedgerHolds` hold in spite of the first: they are proved below with torn
files and reused ids allowed. The workflow's safety properties hold in spite of the
second and third, `AuthorityCoversExposure` in spite of the fourth: the exposure is
allowed by somebody who may, it is only more than is due. Where a property cannot hold
because of a finding it says so: `QuietRunVerifies` and `InterruptedIsRecovered`
except a ledger with a command id used twice, `QuietRunVerifies` also a run in which
another file was written after the freeze. `FrozenLedgerHolds` claims the freeze only
for what the workspace itself writes.

Seen while modelling; the models contain the behaviour and no run states a claim
about it:

* A recovery cannot always be repeated: after a crash between quarantine and
  truncation the quarantine name is taken (`QuarantineCollides` in
  `InterruptedIsRecovered`). The adapter repairs its journals in the same way
  (`Wedged` in `RetriedIsAnswered`).
* A reopen or revision killed between snapshot and event leaves the snapshot's
  name taken, and the same revision cannot be asked for again.
* A torn checkpoint fails `resume` and `verify`; nothing rewrites it.
* An outcome is recorded in whatever execution state it meets. After a revision it
  may move another action on, and is then the active action, of an earlier
  revision: `_active_action` refuses it from there on. `VerifiedMeansDone` shows
  that nothing false is verified this way; `Superseded` excepts it from progress.
* Several messages may be recorded for one verification.
* A crash after the closure event leaves a closed case without closure record.
* A recommendation whose routing was refused or interrupted is not routed again.
* A remedy that stopped half way stays in `ACTION_RECOVERY`; its compensation is
  outside the code.
* `verify_direct_no_action` gives the message of a covering prior remedy for every
  direct decision not to act, a duplicate signal included.
* The arrival estimate of a customer who waits counts as qualified by its flag; it is
  not compared with the clock.
* A direct case that was never verified is judged `VERIFIED_NO_NEW_ACTION` from its
  decision; its state is then not the legal end of that class. A case that awaits the
  customer's choice has no class, and its evaluation raises.
* The eligible quantity is consumed under the first order line's key, so one run
  reserves one remedy at a time whatever the other lines need.
* A torn release artefact keeps the run from going on: `_write_once` refuses a file
  with other bytes. A launcher killed between its bundle and its attestation cannot
  be started again, since the output is not empty.
* The stand-alone scorer says that "score is write-once; existing score cannot be
  replaced", but looks first and opens with truncation later: it can replace, or
  leave torn, a score another scorer or the controller has made in between, and one
  the sixth state record binds. With the controller's read-only file this takes
  privileges; with a file a scorer made, and the controller found equal, it does not.
  `RecordsAreBacked` excepts exactly these two cases (`Overtaken`); the result
  itself is what the record binds, and is of the seal.
* `prepare-freeze` takes an output that is not complete yet; the run then stops at
  `freeze`.
* In the held-out protocol a file torn by a killed generator or releaser stays, and
  every later attempt is refused by it. A pair that is rolled back could be read for
  a moment; it is not counted as released.
* `_write_new_or_equal` removes its file on every error, also when all bytes were
  readable already. If another generator has taken that material or those cases as
  given in between, the published pack is left without them, and cannot be
  reproduced: `PackReproduces` excepts such a history (`undercut`). It counts a
  removal even if the generator that relied on the file left nothing behind itself.
  A removed manifest or private oracle does no harm and is no exception.

## 5. Proofs

Eight modules hold theorems, each for any values of the constants that satisfy the
named assumptions of its specification; the runs evaluate the assumptions. Every
invariant and action property of a passing run, and all three refinements, are
stated by a theorem. A theorem marked * has a premise on the constants, named below.

| Module | Theorem | Statement |
|---|---|---|
| `RecoveryLedgerProofs` | `Typing` | `Spec => []TypeOK` |
| | `LedgerInvariant` | `Spec => []LedgerInv` |
| | `SuffixIsOne` | `Spec => []OneUnmarkedSuffix` |
| | `CommittedOnlyGrows` | `Spec => CommittedGrows` |
| | `AcknowledgedSafe` | `Spec => []AcknowledgedIsCommitted` |
| | `CutsAreQuarantined` | `Spec => CutIsQuarantined` |
| | `FreezeIsFinal` | `Spec => []FrozenLedgerHolds` |
| `LedgerHistoryProofs` | `HistoryInvariant` | `Spec => []HistoryInv` |
| | `ReservationsConsumeOnce` | `Spec => []ReservedOnce` |
| | `ReservationsBindEvidence` | `Spec => []ReservationBindsPreparedHead` |
| | `CommandsCommitOnce` * | `Spec => []CommandCommitsOnce` |
| | `CommittedAlwaysProjects` * | `Spec => []CommittedHistoryProjects` |
| | `NoUpdateIsLost` | `Spec => DecidedOnThisHistory` |
| | `CheckpointsCacheTheLog` | `Spec => []CheckpointsAgree` |
| | `QuietRunsVerify` * | `Spec => []QuietRunVerifies` |
| | `LedgerImplementsLog` * | `Spec => ImplementsDurableLog` |
| `ActionAdapterProofs` | `AdapterInvariant` | `Spec => []AdapterInv` |
| | `AdapterTyping` | `Spec => []TypeOK` |
| | `ReceiptsAreBacked` | `Spec => []ReceiptMeansEffects` |
| | `IntentIsFirst` | `Spec => []IntentBeforeEffect` |
| | `RemediedOnce` | `Spec => []OneRemedyPerQuantity` |
| | `RetriesAreReconciled` | `Spec => []NoBlindRetry` |
| | `CutsAreCopied` | `Spec => CutIsQuarantined` |
| | `AdapterIsARemedy` | `Spec => ImplementsRemedy` |
| `RecoveryWorkflowProofs` | `WorkflowInvariant` | `Spec => []WorkflowInv` |
| | `WorkflowTyping` | `Spec => []TypeOK` |
| | `VerifiedRemedyIsDone` | `Spec => []VerifiedMeansDone` |
| | `MessagesCiteTheirRevision` | `Spec => []MessageCitesItsRevision` |
| | `ClosuresAreBacked` | `Spec => []ClosureIsBacked` |
| | `EffectsAreAnnounced` | `Spec => []EffectIsAnnounced` |
| `EvaluationReleaseProofs` | `ReleaseInvariant` | `Spec => []ReleaseInv` |
| | `ReleaseTyping` | `Spec => []TypeOK` |
| | `RecordsBacked` | `Spec => []RecordsAreBacked` |
| | `ReleaseKeepsPromise` | `Spec => ImplementsPromise` |
| `ReleaseOutputProofs` | `OutputInvariant` | `Spec => []OutputInv` |
| | `EligibleOutputsAreOneRun` | `Spec => []EligibleIsOneContainer` |
| `AssistedCaseProofs` | `WorseEvidenceGrantsNoMore` | no `Worse` batch opens a remedy or lowers its route |
| | `CaseInvariant` | `Spec => []CaseInv` |
| | `CaseTyping` | `Spec => []TypeOK` |
| | `ExposureIsCovered` | `Spec => []AuthorityCoversExposure` |
| | `WorseGrantsNoMore` | `Spec => []WorseNeverGrants` |
| | `EvaluationsAreTrue` | `Spec => []JudgedAsItHappened` |
| `HeldoutReleaseProofs` | `HeldoutInvariant` | `Spec => []HeldoutInv` |
| | `HeldoutTyping` | `Spec => []TypeOK` |
| | `PackAlwaysReproduces` | `Spec => []PackReproduces` |
| | `ScoresAreBlind` | `Spec => []ScoredBlind` |

**The ledger.** For any processes, events, contracts, bounds and both values of
`TearFiles` and `ReuseIds`, from `ConstantsAssumption`, `KindsAssumption`,
`FilesAssumption` and `SeedsAssumption`. None of the safety properties is inductive:
`CommittedGrows` fails at `TruncateTail` unless the cut event has no marker, which
depends on what the holder saw when it took the lock several steps earlier.
`LedgerInv` carries that: `LockOK` (the process at a write step is the lock holder,
with its event in `plan`, on a run that is not frozen), `FilesOK` (markers bind a
prefix of the ledger, only the last may be torn, only one event may be unmarked) and
`WriterOK`, which says for each step of the holder what the files look like just
before it (`FilesAt`). `FilesOK` is what a crash leaves and what the next
operation's checks (`Replays`, `Recoverable`) turn back into `FilesAt` of its
first step. The proof has one step per action; the action properties follow from
`LedgerInv` and its successor, and acknowledged events from `CommittedGrows`.
`FreezeIsFinal` is about the ledger, markers, checkpoints, snapshots and quarantine:
a process at a write is on a run that is not frozen (`LockOK`), whatever it had read
before. For the adapter's and the orchestrator's files the claim is false
(`workflow_frozen`).

**The history.** What is *in* those files, from the same assumptions and
`HistoriesAssumption`: the history a run starts from is one the workspace wrote, that is
legal, with each command id and each reserved key once, every reservation on a prepared
head, and no recovery yet, whose ids are the negative numbers. (A run in the code starts
from the single event of `prepare`, which satisfies all of it; the seeds of the runs are
longer, and TLC checks the assumption of each.) A property of the committed events is
not inductive, because a step commits what an earlier one appended and a still earlier
one checked. `HistoryInv` says that the history on disk, and that history with the event
its writer holds (`PendingAt`, per step of the holder), are both `GoodHistory`: legal in
every prefix, no key, eligible quantity or authority reserved twice, every reservation
after its prepared head. It also says that snapshots bind the head before their
revision, and that a recovery takes an id below all used so far: ids are bounded by the
number of quarantine files, which each recovery increases before it picks one
(`Bounded`, `Fresh`). A committed history is a prefix of the one on disk and good for it
(`CommittedGood`). A revision is made once (`RevisedOnce`), although `CHOOSE` picks its
event in `SnapshotsOf`: revision numbers never fall along a legal history, by the least
counterexample. `NoUpdateIsLost` is `PendingAt` at the marker. `CheckpointsCacheTheLog`
is inductive beside `LedgerInv`: a checkpoint is written of the ledger just committed,
and what is committed stays.

Two premises are the code's own limits. Without `~ReuseIds` `CommandsCommitOnce`,
`CommittedAlwaysProjects`, `QuietRunsVerify` and `LedgerImplementsLog` are false, as
`ledger_reused_id` shows: `revise_source` does not look its command id up. Without
`~TearFiles` `QuietRunsVerify` is false: a torn checkpoint fails `verify` for good.
Everything else holds with both. For the refinement, the marker is the linearisation
point (`MarkerCommits`), an answer is an acknowledgement (`AnswerAcknowledges`), writing
`freeze.json` seals (`FreezeSeals`), and every other step, the crashes and recoveries
included, is a stutter (`StepStutters`); that a commit is legal and under a new id is
`GoodHistory` of the pending event.

**The adapter.** For any actions, quantities, faults and bounds, and both values of
`TearFiles`, from `AdapterAssumption`. That a quantity is remedied once is not
inductive: a source line whose marker was lost is no evidence, and a retry that took
its absence for permission would write a second one. `AdapterInv` adds what excludes
this. `Shapes`: every marker binds the line at its place, except a last one a crash has
torn. `OnlyReserved` and `ReservedOnce`: source lines are of reserved actions, one per
quantity. `JournalsOK`: at every write of an execution all journals are free of
suffixes, but for the line it is itself about to mark, so that evidence and lines are
the same just when the next line is chosen. `DecisionOK`: what `Decide` read of the
effects still holds when it is acted upon. `Repairing`: between the copy of a suffix
and its truncation the copy is there, of the journal that will be cut. The first part
of the module is about one journal as a record: what appending, tearing, cutting and
marking do to its committed lines. `InvariantKept` and `QuietKeeps` then reduce each
action to what it changes. For the refinement an effect happens at its marker
(`RemedyTakesEffect`), a remedy is opened when its start is marked, and only if nothing
of its quantity has happened (`RemedyStarts`); every other step is a stutter or a stop.

**The workflow.** For any processes, actions, routes, names and bounds, from
`BoundsAssumption` and `NothingAssumption`. What is claimed of a closure or a
verification rests on files written, and on effects committed, in earlier sections by
processes that held no lock in between. `WorkflowInv` therefore has two halves.
`EventOK` says of every event of the ledger what it rests on: its action was reserved,
its start precedes its outcome, its verification is on disk, of its revision and
recorded, its message cites that verification, a verified remedy is complete.
`JobsOK` says what a process between two sections carries: the verification it is
about to record is the one on disk, the message it has written cites one that was
recorded. `AfterNoAction` and `ActsOrNot` keep a verification that nothing was done
apart from an action of the same revision, the case a late outcome could reach.
`Kept` collects what no step takes back (events, complete effects, files under their
names), and with it one lemma carries both halves through any step (`EventStays`,
`JobStays`); each action is then a `QuietStep`, which appends nothing, or a
`CommitStep`, which owes `EventOK` for its new event only.

**The evaluation release.** For any operators, launchers, scorers, privileged or not,
images, flawed containers, deaths, failed writes and alterations, from `ReleaseAssumption` and `FilesAreTold`. That a state
record is backed is not inductive: the record is appended a step after the artefact
is written. `ReleaseInv` adds that whoever is in a command holds the lock over a chain
that stands still (`CommandsHoldTheLock`), that a record is due only for what is
written with the bytes it will bind (`RecordsAreDue`), and that oracle bytes could be
read only after eligibility (`DisclosedIsEligible`). What is written stays, because
write-once files are never replaced, so records stay backed when processes die or the
output is altered. The score is the exception, since scorers look at no lock:
`ScoreIsWhose` says that only a file a scorer made is writable, that a scorer with the
score open is alone and has emptied it unless one was overtaken, and that what the
controller removes after a failed write is its own file. `RecordsBacked` therefore
says of the score: what the sixth record binds, or `Overtaken`. `ReleaseKeepsPromise` then maps every step to
a step of `SealedDisclosure` or a stutter: the third record seals, writing the oracle
discloses, the sixth record concludes, a flawed verdict invalidates. That a result is
of the seal is `RecordsAreDue` again.

That what is eligible is one container's output needs what several launchers without a
lock leave in one directory. `OutputInv`, as long as nobody else has altered a file,
says who wrote which part (`OutputsAreOwned`: whatever a launcher has gone past is its
own), that an attested output is whole and one launcher's (`AttestedIsOne`), and that
the verdict about to be recorded, and the one recorded, are of this output and the
prepared pack (`JudgedIsAttested`). `FilesAreTold` says that an absent or a torn file is
none of the values a file can hold, the attestation's included; files in the code are
told apart by their parsers.

**The policy and the case.** For any set of order lines, batches, limits and bounds,
from `CaseAssumption`, `LinesAssumption` (an order has finitely many lines; the code
allows five) and `AbsenceAssumption` (what is not there is no contract, reservation or
class; Python's `None`). Remaining quantity and affected value are sums over the
lines, and a change for the worse changes one line of them. Sums are recursive
functions over finite sets, and the library's induction theorems cannot be used; the
module does induction on a *set* of numbers instead, whose least element
well-foundedness gives (`LeastNumber`, `SetInduction`, `SubsetInduction`), proves that
the recursive function exists (`SumsExist`), and from it that sums are numbers
(`SumOfQuantities`), grow with their terms (`SumGrows`) and are zero only if all terms
are (`SumIsZero`). `MatrixReads` and `DecisionReads` turn the first rule that applies,
a `CHOOSE` over rows, into conditions on the batch. `WorseEvidenceGrantsNoMore`
then compares them for each way of getting worse; it is about every valid batch, reachable
or not. `CaseInv` connects what the steps of a case leave behind: the decision
is that of the evidence in force (`DecisionOK`), the contract the one built for it
(`ContractOK`), its reservation by an actor of the role its route asks for, in its
window (`ReservationOK`), an effect of an earlier revision still covered by that
revision's evidence and authority (`EffectsOK`), and a class about the contract there
is, or about none (`ClassOK`). `ExposureIsCovered` is a part of it; `EvaluationsAreTrue`
reads it in the states a run can be frozen in. `AuthorityCoversExposure` alone is not
inductive: nothing in it says that the contract about to be executed is the one that
was reserved.

**The held-out protocol.** For any runs, materials, generators, releasers, handling
times, commits and edits, from `HeldoutAssumption`. `PackReproduces` needs the order of
the files, and a file that is whole may still be removed by its writer. `Sound` is a
file that cannot be without being counted: whole, and closed or in `relied`; `Firm` is
its material, or any material once something was `undercut`. `PackOrder` (a file is
whole only if material and cases are firm, and of theirs) and `GeneratorsOK` (what a
generator has left behind it is firm and of its material, a file has one generator
that has it open) are said in these terms, and `FirmKept` carries them through every
step. `ScoredBlind` needs that records
committed before a release were written blind, and that nothing but such records is
ever in a whole release manifest: `BlindSoFar` says the first until the release,
`OneReleaser` carries it through the pair, whose two files have one writer each, and
which once whole nobody takes apart; `ScorerOK` takes it from the manifest to the
summary. `Kept` collects what no step undoes (a whole public manifest, a commit, a
release), and the frame lemmas reduce each action to the conjuncts it can disturb.

Model-checked only: liveness (`RequestsAnswered`, `InterruptedIsRecovered`,
`RetriedIsAnswered`, `ServedCaseMovesOn`, `AttestedRunConcludes`), because temporal
reasoning with fairness is outside the prover's reach, and the four findings, which are
violations. Induction theorems that take an operator cannot be instantiated by the
installed provers; where a proof needed induction it uses a set, as above.

## 6. What is not modelled

* **`prepare` and `open` of the workspace.** A run starts prepared; `prepare` writes
  into a new directory nobody else uses yet.
* **Path checks** (`SafeFileAuthority`, reparse points, allow-lists of names): they
  refuse hostile file systems and change no state.
* **Content of records**: effect fields other than quantity, wording of messages,
  schemas of facts and contracts beyond the fields the policy uses, and the digests
  that tie them; a digest is the value it digests.
* **Generation of Stage 2 cases, direct and comparator runs, the isolation summary,
  decision and evidence packs, publication checks, the Stage 1 case system and
  practice scoring, the explorer**: deterministic programs that compute a file from
  files, with nothing concurrent and nothing to resume. A model of them would be the
  program again.
* **The container** and Docker: a run of the launcher either yields a bundle or
  fails; what the bundle says is `Flawed` or not.
* **Git**: a linear history, in which people commit everything or only the records;
  commit times are honest, and branches are left out. The oracle's absence is checked
  in the two commits and the working tree, as in the code. Nobody deletes released
  files.

What is left, in the order in which it would add most: lemmas that bring the liveness
properties closer to a proof (that the lock is released, that a recovery request shrinks
what is unmarked), as safety statements about single steps; `prepare` and `open` of the
workspace; the fields of an effect that verification compares besides its quantity.

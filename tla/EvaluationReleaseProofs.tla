----------------------- MODULE EvaluationReleaseProofs -----------------------
(***************************************************************************)
(* Proofs about EvaluationRelease, for any operators, launchers, images,   *)
(* crashes and alterations, with torn files or without.  ReleaseInv is     *)
(* shown inductive, action by action; that the release keeps the promise   *)
(* of SealedDisclosure follows step by step from it.                       *)
(***************************************************************************)
EXTENDS EvaluationRelease, TLAPS

-----------------------------------------------------------------------------
(* The chain of records.                                                   *)

\* A record is appended at the end and leaves the others alone.
LEMMA AppendRecord ==
  ASSUME NEW s, IsSequence(s), NEW x
  PROVE  LET t == Append(s, x) IN
         /\ IsSequence(t)
         /\ Len(t) = Len(s) + 1
         /\ DOMAIN t = 1..(Len(s) + 1)
         /\ \A i \in 1..Len(s) : t[i] = s[i]
         /\ t[Len(s) + 1] = x
<1> DEFINE t == Append(s, x)
           S == {s[i] : i \in DOMAIN s} \cup {x}
<1>1. s \in Seq(S) /\ x \in S /\ DOMAIN s = 1..Len(s) /\ Len(s) \in Nat
  BY DEF IsSequence
<1>2. /\ t \in Seq(S)
      /\ Len(t) = Len(s) + 1
      /\ \A i \in 1..Len(s) : t[i] = s[i]
      /\ t[Len(s) + 1] = x
  BY <1>1
<1>3. DOMAIN t = 1..(Len(s) + 1)
  BY <1>1, <1>2
<1>4. IsSequence(t)
  BY <1>1, <1>2, <1>3 DEF IsSequence
<1> QED
  BY <1>2, <1>3, <1>4

\* The state of a typed chain is told by its length, but for the verdict.
LEMMA StateIsLength ==
  ASSUME TypeOK
  PROVE  /\ Len(states) \in 0..6
         /\ DOMAIN states = 1..Len(states)
         /\ State = "not-started" <=> Len(states) = 0
         /\ State = "running" <=> Len(states) = 1
         /\ State = "freeze-prepared" <=> Len(states) = 2
         /\ State = "output-frozen" <=> Len(states) = 3
         /\ State \in {"eligibility-verified", "invalidated"} <=> Len(states) = 4
         /\ State = "oracle-released" <=> Len(states) = 5
         /\ State = "scored" <=> Len(states) = 6
<1>1. /\ Len(states) \in 0..6
      /\ DOMAIN states = 1..Len(states)
      /\ states = <<>> <=> Len(states) = 0
  <2> DEFINE S == {states[i] : i \in DOMAIN states}
  <2>1. states \in Seq(S)
    BY DEF TypeOK, IsSequence
  <2> HIDE DEF S
  <2>2. Len(states) \in Nat /\ DOMAIN states = 1..Len(states)
    BY <2>1
  <2>3. states = <<>> => Len(states) = 0
    OBVIOUS
  <2>4. Len(states) = 0 => states = <<>>
    BY <2>1
  <2>5. Len(states) <= 6
    BY DEF TypeOK
  <2>6. Len(states) \in 0..6
    BY <2>2, <2>5
  <2> QED
    BY <2>2, <2>3, <2>4, <2>6
<1>2. \A i \in 1..Len(states) : states[i].state = Target(Recorder[i], states[i].bound)
  BY <1>1 DEF TypeOK
<1>n. \/ Len(states) = 0 \/ Len(states) = 1 \/ Len(states) = 2 \/ Len(states) = 3
      \/ Len(states) = 4 \/ Len(states) = 5 \/ Len(states) = 6
  BY <1>1
<1>3. CASE Len(states) = 0
  BY <1>1, <1>3 DEF State
<1>4. CASE Len(states) = 1
  BY <1>1, <1>2, <1>4 DEF State, Target, Recorder
<1>5. CASE Len(states) = 2
  BY <1>1, <1>2, <1>5 DEF State, Target, Recorder
<1>6. CASE Len(states) = 3
  BY <1>1, <1>2, <1>6 DEF State, Target, Recorder
<1>7. CASE Len(states) = 4
  BY <1>1, <1>2, <1>7 DEF State, Target, Recorder
<1>8. CASE Len(states) = 5
  BY <1>1, <1>2, <1>8 DEF State, Target, Recorder
<1>9. CASE Len(states) = 6
  BY <1>1, <1>2, <1>9 DEF State, Target, Recorder
<1> QED
  BY <1>n, <1>3, <1>4, <1>5, <1>6, <1>7, <1>8, <1>9

\* What is bound has the type of what the record's command binds.
LEMMA BoundType ==
  ASSUME TypeOK
  PROVE  /\ Reached(1) => states[1].bound \in Preparation
         /\ Reached(3) => states[3].bound \in Inventory
         /\ Reached(5) => states[5].bound \in {OracleBytes}
         /\ Reached(6) => states[6].bound \in Score
<1>1. Len(states) \in Nat /\ DOMAIN states = 1..Len(states)
  BY StateIsLength
<1>2. \A i \in 1..Len(states) : states[i].bound \in Bound(Recorder[i])
  BY <1>1 DEF TypeOK
<1>3. Reached(1) => states[1].bound \in Preparation
  BY <1>1, <1>2 DEF Reached, Bound, Recorder
<1>4. Reached(3) => states[3].bound \in Inventory
  BY <1>1, <1>2 DEF Reached, Bound, Recorder
<1>5. Reached(5) => states[5].bound \in {OracleBytes}
  BY <1>1, <1>2 DEF Reached, Bound, Recorder
<1>6. Reached(6) => states[6].bound \in Score
  BY <1>1, <1>2 DEF Reached, Bound, Recorder
<1> QED
  BY <1>3, <1>4, <1>5, <1>6

-----------------------------------------------------------------------------
(* Who holds the lock.                                                     *)

\* A whole artefact is neither missing nor torn.
LEMMA WholeIsThere ==
  /\ NoFile \notin Preparation /\ NoFile \notin Inventory /\ NoFile \notin Score
  /\ NoFile # OracleBytes
<1>1. \A a \in Artefacts : NoFile \notin Written(a)
  BY FilesAreTold
<1>2. {"preparation", "seal", "oracle", "score"} \subseteq Artefacts
  BY DEF Artefacts
<1>3. NoFile \notin Preparation
  BY <1>1, <1>2 DEF Written
<1>4. NoFile \notin Inventory
  BY <1>1, <1>2 DEF Written
<1>5. NoFile \notin Score
  BY <1>1, <1>2 DEF Written
<1>6. NoFile # OracleBytes
  BY <1>1, <1>2 DEF Written
<1> QED
  BY <1>3, <1>4, <1>5, <1>6

\* How long the chain is when a command may run.
LEMMA CommandAt ==
  ASSUME TypeOK, NEW c \in Commands, State = Needs[c]
  PROVE  /\ c = "prepare" => Len(states) = 0
         /\ c = "prepare-freeze" => Len(states) = 1
         /\ c = "freeze" => Len(states) = 2
         /\ c = "verify-eligibility" => Len(states) = 3
         /\ c = "release-oracle" =>
              Len(states) = 4 /\ states[4].state = "eligibility-verified"
         /\ c = "score" => Len(states) = 5
         /\ c = "regression" => Len(states) = 6
<1>1. Needs[c] =
        CASE c = "prepare" -> "not-started"
          [] c = "prepare-freeze" -> "running"
          [] c = "freeze" -> "freeze-prepared"
          [] c = "verify-eligibility" -> "output-frozen"
          [] c = "release-oracle" -> "eligibility-verified"
          [] c = "score" -> "oracle-released"
          [] c = "regression" -> "scored"
  BY DEF Needs
<1>2. c = "release-oracle" =>
        Len(states) = 4 /\ states[4].state = "eligibility-verified"
  <2> SUFFICES ASSUME c = "release-oracle"
               PROVE  Len(states) = 4 /\ states[4].state = "eligibility-verified"
    OBVIOUS
  <2>1. State = "eligibility-verified"
    BY <1>1
  <2>2. Len(states) = 4
    BY <2>1, StateIsLength
  <2> QED
    BY <2>1, <2>2 DEF State
<1> QED
  BY <1>1, <1>2, StateIsLength DEF Commands

\* The record of a command that may run is not in the chain yet.
LEMMA NotYetRecorded ==
  ASSUME TypeOK, NEW c \in Commands, State = Needs[c]
  PROVE  /\ c = "prepare" => ~Reached(1)
         /\ c = "freeze" => ~Reached(3)
         /\ c = "release-oracle" => ~Reached(5)
         /\ c = "score" => ~Reached(6)
<1>1. ASSUME c = "prepare" PROVE ~Reached(1)
  <2>1. Len(states) = 0
    BY <1>1, CommandAt
  <2> QED
    BY <2>1 DEF Reached
<1>2. ASSUME c = "freeze" PROVE ~Reached(3)
  <2>1. Len(states) = 2
    BY <1>2, CommandAt
  <2> QED
    BY <2>1 DEF Reached
<1>3. ASSUME c = "release-oracle" PROVE ~Reached(5)
  <2>1. Len(states) = 4
    BY <1>3, CommandAt
  <2> QED
    BY <2>1 DEF Reached
<1>4. ASSUME c = "score" PROVE ~Reached(6)
  <2>1. Len(states) = 5
    BY <1>4, CommandAt
  <2> QED
    BY <2>1 DEF Reached
<1> QED
  BY <1>1, <1>2, <1>3, <1>4

\* Who is in a command is alone in one, at a step of it, with the chain as it
\* was checked.
LEMMA Holder ==
  ASSUME ReleaseInv, NEW p \in Operators, job[p] # Idle
  PROVE  /\ lock = p /\ p # NoOne
         /\ job[p].cmd \in Commands
         /\ State = Needs[job[p].cmd]
         /\ \A q \in Operators : q # p => job[q] = Idle
         /\ DOMAIN job[p] = {"cmd", "step", "data"}
         /\ \/ job[p].step = "work" /\ job[p].data = NoData
            \/ job[p].step = "withdraw" /\ job[p].data \in Steps(job[p].cmd) \cap Artefacts
            \/ job[p].step \in Steps(job[p].cmd) /\ job[p].data \in Bound(job[p].cmd)
<1>1. JobOK(job[p])
  BY DEF ReleaseInv, TypeOK
<1>2. /\ DOMAIN job[p] = {"cmd", "step", "data"}
      /\ job[p].cmd \in Commands
      /\ \/ job[p].step = "work" /\ job[p].data = NoData
         \/ job[p].step = "withdraw" /\ job[p].data \in Steps(job[p].cmd) \cap Artefacts
         \/ job[p].step \in Steps(job[p].cmd) /\ job[p].data \in Bound(job[p].cmd)
  BY <1>1 DEF JobOK
<1>3. \A q \in Operators : job[q] # Idle => lock = q /\ State = Needs[job[q].cmd]
  BY DEF ReleaseInv, CommandsHoldTheLock
<1>4. lock = p /\ p # NoOne
  BY <1>3, ReleaseAssumption
<1> QED
  BY <1>2, <1>3, <1>4

\* Whether the score was overtaken is up to the scorers.
LEMMA SameScore ==
  ASSUME UNCHANGED standAlone
  PROVE  Overtaken' <=> Overtaken
BY DEF standAlone, Overtaken

\* What is said of the score stays when the scorers stand still and the score
\* is at most written where there was none.
LEMMA ScoreKept ==
  ASSUME ReleaseInv, UNCHANGED standAlone,
         \A q \in Operators : job'[q] = job[q] \/ job'[q].step # "withdraw",
         \/ files'["score"] = files["score"]
         \/ files["score"] = NoFile /\ files'["score"] # NoFile
  PROVE  ScoreIsWhose'
<1>1. ScoreIsWhose
  BY DEF ReleaseInv
<1>2. (writable => files["score"] # NoFile)' /\ (overwrites # {} => Overtaken)'
  BY <1>1, SameScore DEF ScoreIsWhose, standAlone
<1>3. (\A s \in Scorers : scorer[s].step = "write" =>
         \/ overwrites # {}
         \/ files["score"] = TornFile /\ \A t \in Scorers \ {s} : scorer[t].step # "write")'
  BY <1>1, ReleaseAssumption DEF ScoreIsWhose, standAlone
<1>4. (\A q \in Operators : job[q].step = "withdraw" /\ job[q].data = "score" =>
         ~writable /\ files["score"] # NoFile)'
  BY <1>1 DEF ScoreIsWhose, standAlone
<1> QED
  BY <1>2, <1>3, <1>4 DEF ScoreIsWhose

\* A step that appends no record, starts no command and changes no file that
\* is there, but for a score that is overtaken, keeps what is said of records,
\* commands and the oracle.
LEMMA NothingLost ==
  ASSUME ReleaseInv, states' = states,
         \A q \in Operators :
           \/ job'[q] = job[q]
           \/ job'[q] = Idle
           \/ job[q] # Idle /\ job'[q].cmd = job[q].cmd /\ job'[q].step = "withdraw",
         \A q \in Operators : job'[q] # Idle => lock' = lock,
         \A a \in Artefacts \ {"score", "regression"} : files[a] # NoFile => files'[a] = files[a],
         files["score"] \in Score => files'["score"] = files["score"] \/ Overtaken',
         Overtaken => Overtaken',
         disclosed' => disclosed \/ (Reached(4) /\ states[4].state = "eligibility-verified"),
         disclosed => disclosed',
         files'["oracle"] # NoFile => files["oracle"] # NoFile \/ disclosed'
  PROVE  /\ RecordsAreBacked' /\ CommandsHoldTheLock'
         /\ RecordsAreDue' /\ DisclosedIsEligible'
<1>0. {"preparation", "seal", "oracle", "disclosure"} \subseteq Artefacts \ {"score", "regression"}
  BY DEF Artefacts
<1>1. RecordsAreBacked'
  <2>1. RecordsAreBacked /\ TypeOK
    BY DEF ReleaseInv
  <2> QED
    BY <1>0, <2>1, BoundType, WholeIsThere DEF RecordsAreBacked, Reached
<1>2. CommandsHoldTheLock'
  <2>1. CommandsHoldTheLock
    BY DEF ReleaseInv
  <2>2. State' = State
    BY DEF State
  <2> QED
    BY <2>1, <2>2 DEF CommandsHoldTheLock
<1>3. RecordsAreDue'
  <2> SUFFICES ASSUME NEW q \in Operators
               PROVE  LET j == job'[q] IN
                 /\ j.cmd = "prepare" /\ j.step = "append" => files'["preparation"] = j.data
                 /\ j.cmd = "freeze" /\ j.step = "append" => files'["seal"] = j.data
                 /\ j.step = "disclosure" => files'["oracle"] = OracleBytes
                 /\ j.cmd = "release-oracle" /\ j.step = "append" =>
                      files'["oracle"] = OracleBytes /\ files'["disclosure"] = OracleBytes
                 /\ j.cmd = "score" /\ j.step = "append" =>
                      files'["score"] = j.data \/ Overtaken'
                 /\ j.cmd = "score" /\ j.step \in {"score", "append"} =>
                      j.data.output = Sealed'
    BY DEF RecordsAreDue
  <2>1. CASE job'[q] = Idle
    BY <2>1 DEF Idle
  <2>0. CASE job'[q].step = "withdraw"
    BY <2>0
  <2>2. CASE job'[q] = job[q] /\ job[q] # Idle
    <3>1. /\ job[q].cmd = "prepare" /\ job[q].step = "append" => job[q].data \in Preparation
          /\ job[q].cmd = "freeze" /\ job[q].step = "append" => job[q].data \in Inventory
          /\ job[q].cmd = "score" /\ job[q].step = "append" => job[q].data \in Score
      BY <2>2, Holder DEF Bound
    <3>2. LET j == job[q] IN
            /\ j.cmd = "prepare" /\ j.step = "append" => files["preparation"] = j.data
            /\ j.cmd = "freeze" /\ j.step = "append" => files["seal"] = j.data
            /\ j.step = "disclosure" => files["oracle"] = OracleBytes
            /\ j.cmd = "release-oracle" /\ j.step = "append" =>
                 files["oracle"] = OracleBytes /\ files["disclosure"] = OracleBytes
            /\ j.cmd = "score" /\ j.step = "append" => files["score"] = j.data \/ Overtaken
            /\ j.cmd = "score" /\ j.step \in {"score", "append"} => j.data.output = Sealed
      BY DEF ReleaseInv, RecordsAreDue
    <3>3. Sealed' = Sealed
      BY DEF Sealed
    <3> QED
      BY <1>0, <2>2, <3>1, <3>2, <3>3, WholeIsThere
  <2> QED
    BY <2>0, <2>1, <2>2
<1>4. DisclosedIsEligible'
  BY <1>0 DEF ReleaseInv, DisclosedIsEligible, Reached
<1> QED
  BY <1>1, <1>2, <1>3, <1>4

-----------------------------------------------------------------------------
(* Initial states.                                                         *)

LEMMA InitInv == Init => ReleaseInv
<1> SUFFICES ASSUME Init PROVE ReleaseInv
  OBVIOUS
<1>1. TypeOK
  <2>1. /\ IsSequence(states)
        /\ Len(states) = 0 /\ DOMAIN states = {}
    BY DEF Init, IsSequence
  <2>2. output \in Inventory
    BY DEF Init, Empty, Inventory, Content
  <2>3. State = "not-started"
    BY DEF Init, State
  <2>4. launch \in [Launchers -> Launched]
    BY DEF Init, Launched
  <2>5. DOMAIN job = Operators /\ \A p \in Operators : JobOK(job[p])
    BY DEF Init, JobOK
  <2>6. scorer \in [Scorers -> Scoring]
    BY DEF Init, Scoring
  <2>7. writable \in BOOLEAN /\ disclosed \in BOOLEAN /\ overwrites \subseteq Scorers
    BY DEF Init
  <2>8. crashes \in 0..MaxCrashes /\ alterations \in 0..MaxAlterations
    BY ReleaseAssumption DEF Init
  <2>9. /\ DOMAIN files = Artefacts \cup {"attestation"}
        /\ \A a \in DOMAIN files : files[a] = NoFile
    BY DEF Init
  <2>10. pack \in Packs /\ lock = NoOne
    BY DEF Init, Packs
  <2> QED
    BY <2>1, <2>2, <2>3, <2>4, <2>5, <2>6, <2>7, <2>8, <2>9, <2>10 DEF TypeOK
<1>2. RecordsAreBacked
  BY DEF Init, RecordsAreBacked, Reached
<1>3. CommandsHoldTheLock
  BY DEF Init, CommandsHoldTheLock
<1>4. RecordsAreDue
  BY DEF Init, RecordsAreDue, Idle
<1>5. DisclosedIsEligible
  BY DEF Init, DisclosedIsEligible, Artefacts
<1>6. LaunchedIsPinned
  BY DEF Init, LaunchedIsPinned
<1>7. ScoreIsWhose
  BY DEF Init, ScoreIsWhose, Idle
<1> QED
  BY <1>1, <1>2, <1>3, <1>4, <1>5, <1>6, <1>7 DEF ReleaseInv

-----------------------------------------------------------------------------
(* The controller.                                                         *)

\* A command starts at its checks, with the chain where it needs it.
LEMMA StartInv ==
  ASSUME ReleaseInv, NEW p \in Operators, NEW c \in Commands, Start(p, c)
  PROVE  ReleaseInv'
<1>1. /\ job[p] = Idle /\ State = Needs[c] /\ lock = NoOne /\ lock' = p
      /\ job' = [job EXCEPT ![p] = [cmd |-> c, step |-> "work", data |-> NoData]]
      /\ UNCHANGED <<pack, output, files, states, launch, standAlone, disclosed, crashes, alterations>>
  BY DEF Start, Continues
<1>2. DOMAIN job = Operators /\ \A q \in Operators : JobOK(job[q])
  BY DEF ReleaseInv, TypeOK
<1>3. \A q \in Operators : JobOK(job'[q])
  BY <1>1, <1>2 DEF JobOK
<1>4. TypeOK'
  BY <1>1, <1>2, <1>3 DEF ReleaseInv, TypeOK, State, standAlone
<1>5. \A q \in Operators : q # p => job'[q] = job[q] /\ job[q] = Idle
  BY <1>1, <1>2, ReleaseAssumption DEF ReleaseInv, CommandsHoldTheLock
<1>6. job'[p] = [cmd |-> c, step |-> "work", data |-> NoData]
  BY <1>1, <1>2
<1>7. RecordsAreBacked'
  BY <1>1, SameScore DEF ReleaseInv, RecordsAreBacked, Reached
<1>8. CommandsHoldTheLock'
  BY <1>1, <1>5, <1>6 DEF CommandsHoldTheLock, State
<1>9. RecordsAreDue'
  BY <1>5, <1>6 DEF RecordsAreDue, Idle
<1>10. DisclosedIsEligible' /\ LaunchedIsPinned'
  BY <1>1 DEF ReleaseInv, DisclosedIsEligible, LaunchedIsPinned, Reached
<1>11. ScoreIsWhose'
  BY <1>1, <1>5, <1>6, ScoreKept
<1> QED
  BY <1>4, <1>7, <1>8, <1>9, <1>10, <1>11 DEF ReleaseInv

\* What a command is about to bind has the type of what it binds, and a result
\* is of the sealed outputs.
LEMMA ReadType ==
  ASSUME ReleaseInv, NEW c \in Commands, State = Needs[c], NEW d \in Read(c)
  PROVE  d \in Bound(c) /\ (c = "score" => d.output = Sealed)
<1>1. output \in Inventory /\ pack \in Packs
  BY DEF ReleaseInv, TypeOK
<1>2. CASE c = "prepare"
  BY <1>2 DEF Read, PreparationRead, Bound
<1>3. CASE c = "prepare-freeze"
  BY <1>1, <1>3 DEF Read, CandidateRead, Bound
<1>4. CASE c = "freeze"
  BY <1>1, <1>4 DEF Read, SealRead, Bound
<1>5. CASE c = "verify-eligibility"
  BY <1>5 DEF Read, VerdictRead, Verdicts, Bound
<1>6. CASE c = "release-oracle"
  BY <1>6 DEF Read, OracleRead, Bound
<1>7. CASE c = "score"
  <2>1. Len(states) = 5
    BY <1>7, CommandAt DEF ReleaseInv
  <2>2. files["seal"] = Sealed /\ Sealed \in Inventory
    BY <2>1, BoundType DEF ReleaseInv, RecordsAreBacked, Reached, Sealed
  <2>3. d = [output |-> files["seal"], pack |-> pack]
    BY <1>7 DEF Read, ScoreRead
  <2> QED
    BY <1>1, <1>7, <2>2, <2>3 DEF Bound, Score
<1>8. CASE c = "regression"
  <2>1. files["score"] \in {NoFile, TornFile} \cup Score
    BY DEF ReleaseInv, TypeOK, Artefacts, Written
  <2> QED
    BY <1>8, <2>1 DEF Read, RegressionRead, Bound, Regression
<1> QED
  BY <1>2, <1>3, <1>4, <1>5, <1>6, <1>7, <1>8 DEF Commands

LEMMA ObserveInv ==
  ASSUME ReleaseInv, NEW p \in Operators, NEW c \in Commands, Observe(p, c)
  PROVE  ReleaseInv'
<1> PICK d \in Read(c) :
      job' = [job EXCEPT ![p].data = d, ![p].step = FirstWrite[c]]
  BY DEF Observe
<1>1. /\ job[p].cmd = c /\ job[p] # Idle
      /\ UNCHANGED <<pack, output, files, states, lock, launch, standAlone, disclosed, crashes, alterations>>
  BY DEF Observe, Idle, Commands
<1>2. /\ lock = p /\ State = Needs[c]
      /\ \A q \in Operators : q # p => job[q] = Idle
      /\ DOMAIN job[p] = {"cmd", "step", "data"}
  BY <1>1, Holder
<1>3. DOMAIN job = Operators /\ \A q \in Operators : JobOK(job[q])
  BY DEF ReleaseInv, TypeOK
<1>4. /\ DOMAIN job'[p] = {"cmd", "step", "data"}
      /\ job'[p].cmd = c /\ job'[p].data = d /\ job'[p].step = FirstWrite[c]
      /\ \A q \in Operators : q # p => job'[q] = job[q]
      /\ DOMAIN job' = Operators
  BY <1>1, <1>2, <1>3
<1>5. d \in Bound(c) /\ (c = "score" => d.output = Sealed)
  BY <1>2, ReadType
<1>6. FirstWrite[c] \in Steps(c) /\ FirstWrite[c] \notin {"work", "withdraw"}
  BY DEF Steps, FirstWrite, Commands
<1>7. TypeOK'
  <2>1. \A q \in Operators : JobOK(job'[q])
    BY <1>3, <1>4, <1>5, <1>6 DEF JobOK
  <2> QED
    BY <1>1, <1>4, <2>1 DEF ReleaseInv, TypeOK, State, standAlone
<1>8. RecordsAreBacked'
  BY <1>1, SameScore DEF ReleaseInv, RecordsAreBacked, Reached
<1>9. CommandsHoldTheLock'
  BY <1>1, <1>2, <1>4 DEF CommandsHoldTheLock, State
<1>10. RecordsAreDue'
  <2>1. /\ FirstWrite[c] # "disclosure"
        /\ FirstWrite[c] = "append" => c \in {"prepare-freeze", "verify-eligibility"}
    BY DEF FirstWrite, Commands
  <2>2. Sealed' = Sealed
    BY <1>1 DEF Sealed
  <2> QED
    BY <1>2, <1>4, <1>5, <2>1, <2>2 DEF RecordsAreDue, Idle
<1>11. DisclosedIsEligible' /\ LaunchedIsPinned'
  BY <1>1 DEF ReleaseInv, DisclosedIsEligible, LaunchedIsPinned, Reached
<1>12. ScoreIsWhose'
  BY <1>1, <1>4, <1>6, ScoreKept
<1> QED
  BY <1>7, <1>8, <1>9, <1>10, <1>11, <1>12 DEF ReleaseInv

\* What a command leaves behind when it ends.
LEMMA FinishType ==
  ASSUME ReleaseInv, NEW p \in Operators, job[p] # Idle, Finish(p)
  PROVE  /\ lock' \in Operators \cup {NoOne}
         /\ DOMAIN job' = Operators /\ \A q \in Operators : JobOK(job'[q])
         /\ \A q \in Operators : job'[q] = Idle
<1>1. DOMAIN job = Operators /\ \A q \in Operators : JobOK(job[q])
  BY DEF ReleaseInv, TypeOK
<1>2. lock' = NoOne /\ job' = [job EXCEPT ![p] = Idle]
  BY DEF Finish
<1>3. \A q \in Operators : job'[q] = Idle
  BY <1>1, <1>2, Holder
<1> QED
  BY <1>1, <1>2, <1>3 DEF JobOK

LEMMA RefuseInv ==
  ASSUME ReleaseInv, NEW p \in Operators, Refuse(p)
  PROVE  ReleaseInv'
<1>1. /\ job[p] # Idle /\ Finish(p)
      /\ UNCHANGED <<pack, output, files, states, launch, standAlone, disclosed, crashes, alterations>>
  BY DEF Refuse, Idle, Artefacts
<1>2. TypeOK'
  BY <1>1, FinishType DEF ReleaseInv, TypeOK, State, standAlone
<1>3. LaunchedIsPinned'
  BY <1>1 DEF ReleaseInv, LaunchedIsPinned
<1>4. /\ RecordsAreBacked' /\ CommandsHoldTheLock'
      /\ RecordsAreDue' /\ DisclosedIsEligible'
  BY <1>1, FinishType, SameScore, NothingLost
<1>5. ScoreIsWhose'
  BY <1>1, FinishType, ScoreKept DEF Idle
<1> QED
  BY <1>2, <1>3, <1>4, <1>5 DEF ReleaseInv

\* A command at an artefact is the one that writes it.
LEMMA WriterOf ==
  ASSUME ReleaseInv, NEW p \in Operators, job[p].step \in Artefacts
  PROVE  LET c == job[p].cmd  a == job[p].step IN
         /\ job[p] # Idle
         /\ c = CASE a = "preparation" -> "prepare"
                  [] a = "seal" -> "freeze"
                  [] a \in {"oracle", "disclosure"} -> "release-oracle"
                  [] a = "score" -> "score"
                  [] a = "regression" -> "regression"
         /\ a \in Steps(c)
         /\ job[p].data \in Bound(c) /\ job[p].data \in Written(a)
<1>1. job[p] # Idle
  BY DEF Idle, Artefacts
<1>2. /\ job[p].cmd \in Commands
      /\ job[p].step \in Steps(job[p].cmd) /\ job[p].data \in Bound(job[p].cmd)
  BY <1>1, Holder DEF Artefacts
<1>3. job[p].cmd = CASE job[p].step = "preparation" -> "prepare"
                     [] job[p].step = "seal" -> "freeze"
                     [] job[p].step \in {"oracle", "disclosure"} -> "release-oracle"
                     [] job[p].step = "score" -> "score"
                     [] job[p].step = "regression" -> "regression"
  BY <1>2 DEF Steps, FirstWrite, Commands, Artefacts
<1>4. job[p].data \in Written(job[p].step)
  BY <1>2, <1>3 DEF Bound, Written, Artefacts
<1> QED
  BY <1>1, <1>2, <1>3, <1>4

LEMMA WriteArtefactInv ==
  ASSUME ReleaseInv, NEW p \in Operators, WriteArtefact(p)
  PROVE  ReleaseInv'
<1> DEFINE a == job[p].step
           c == job[p].cmd
           d == job[p].data
<1>1. /\ a \in Artefacts /\ CanWrite(a, d)
      /\ files' = [files EXCEPT ![a] = d]
      /\ disclosed' = (disclosed \/ a = "oracle")
      /\ UNCHANGED <<pack, output, states, launch, standAlone, crashes, alterations>>
  BY DEF WriteArtefact
<1>2. \/ a = "regression" /\ Finish(p)
      \/ /\ a # "regression" /\ lock' = lock
         /\ job' = [job EXCEPT ![p].step = IF a = "oracle" THEN "disclosure" ELSE "append"]
  BY DEF WriteArtefact
<1>3. /\ job[p] # Idle /\ d \in Bound(c) /\ d \in Written(a)
      /\ c = CASE a = "preparation" -> "prepare"
               [] a = "seal" -> "freeze"
               [] a \in {"oracle", "disclosure"} -> "release-oracle"
               [] a = "score" -> "score"
               [] a = "regression" -> "regression"
  BY <1>1, WriterOf
<1>4. /\ lock = p /\ c \in Commands /\ State = Needs[c]
      /\ \A q \in Operators : q # p => job[q] = Idle
      /\ DOMAIN job[p] = {"cmd", "step", "data"}
  BY <1>3, Holder
<1>5. /\ DOMAIN files = Artefacts \cup {"attestation"}
      /\ DOMAIN job = Operators /\ \A q \in Operators : JobOK(job[q])
  BY DEF ReleaseInv, TypeOK
<1>6. /\ DOMAIN files' = Artefacts \cup {"attestation"}
      /\ files'[a] = d
      /\ \A b \in Artefacts \cup {"attestation"} : b # a => files'[b] = files[b]
  BY <1>1, <1>5
<1>6a. \/ files'["score"] = files["score"]
       \/ files["score"] = NoFile /\ files'["score"] # NoFile
  <2>1. "score" \in Artefacts
    BY DEF Artefacts
  <2>2. CASE a = "score"
    <3>1. d # NoFile
      BY <1>3, <2>2, WholeIsThere DEF Written
    <3> QED
      BY <1>1, <1>6, <2>2, <3>1 DEF CanWrite
  <2> QED
    BY <1>6, <2>1, <2>2
<1>6b. disclosed' \in BOOLEAN /\ (disclosed => disclosed')
  BY <1>1 DEF ReleaseInv, TypeOK
<1>7. CASE a = "regression"
  <2>1. Finish(p)
    BY <1>2, <1>7
  <2>2. \A b \in Artefacts \ {"regression"} : files'[b] = files[b]
    BY <1>1, <1>6, <1>7
  <2>3. files'["oracle"] = files["oracle"]
    BY <1>6, <1>7 DEF Artefacts
  <2>4. TypeOK'
    <3>1. \A b \in DOMAIN files' : files'[b] \in {NoFile, TornFile} \/ files'[b] \in Written(b)
      BY <1>3, <1>5, <1>6 DEF ReleaseInv, TypeOK
    <3> QED
      BY <1>1, <1>3, <1>6, <1>6b, <2>1, <3>1, FinishType DEF ReleaseInv, TypeOK, State, standAlone
  <2>5. /\ RecordsAreBacked' /\ CommandsHoldTheLock'
        /\ RecordsAreDue' /\ DisclosedIsEligible'
    <3>1. disclosed' <=> disclosed
      BY <1>1, <1>7
    <3>2. "score" \in Artefacts /\ NoFile \notin Score
      BY WholeIsThere DEF Artefacts
    <3> QED
      BY <1>1, <1>3, <2>1, <2>2, <2>3, <3>1, <3>2, FinishType, SameScore, NothingLost
  <2>6. LaunchedIsPinned'
    BY <1>1 DEF ReleaseInv, LaunchedIsPinned
  <2>7. ScoreIsWhose'
    BY <1>1, <1>3, <1>6a, <2>1, FinishType, ScoreKept DEF Idle
  <2> QED
    BY <2>4, <2>5, <2>6, <2>7 DEF ReleaseInv
<1>8. CASE a # "regression"
  <2> DEFINE e == IF a = "oracle" THEN "disclosure" ELSE "append"
  <2>1. /\ lock' = lock /\ DOMAIN job' = Operators
        /\ DOMAIN job'[p] = {"cmd", "step", "data"}
        /\ job'[p].cmd = c /\ job'[p].data = d /\ job'[p].step = e
        /\ \A q \in Operators : q # p => job'[q] = job[q]
    BY <1>2, <1>4, <1>5, <1>8
  <2>2. TypeOK'
    <3>1. \A b \in DOMAIN files' : files'[b] \in {NoFile, TornFile} \/ files'[b] \in Written(b)
      BY <1>3, <1>5, <1>6 DEF ReleaseInv, TypeOK
    <3>2. e \in Steps(c) /\ e \notin {"work", "withdraw"}
      BY <1>1, <1>3, <1>8 DEF Steps, Artefacts
    <3>3. JobOK(job'[p])
      <4> HIDE DEF c, d, e
      <4> QED
        BY <1>3, <1>4, <2>1, <3>2 DEF JobOK
    <3>3a. \A q \in Operators : JobOK(job'[q])
      BY <1>5, <2>1, <3>3
    <3> QED
      BY <1>1, <1>6, <1>6b, <2>1, <3>1, <3>3a DEF ReleaseInv, TypeOK, State, standAlone
  <2>3. /\ a = "preparation" => Len(states) = 0
        /\ a = "seal" => Len(states) = 2
        /\ a \in {"oracle", "disclosure"} =>
             Len(states) = 4 /\ states[4].state = "eligibility-verified"
        /\ a = "score" => Len(states) = 5
    BY <1>3, <1>4, CommandAt DEF ReleaseInv
  <2>4. {"preparation", "seal", "oracle", "disclosure", "score"} \subseteq Artefacts
    BY DEF Artefacts
  <2>5. RecordsAreBacked'
    <3>1. /\ a = "preparation" => ~Reached(1)
          /\ a = "seal" => ~Reached(3)
          /\ a \in {"oracle", "disclosure"} => ~Reached(5)
          /\ a = "score" => ~Reached(6)
      BY <1>3, <1>4, NotYetRecorded DEF ReleaseInv
    <3>2. Reached(1) => files'["preparation"] = files["preparation"]
      BY <1>6, <2>4, <3>1
    <3>3. Reached(3) => files'["seal"] = files["seal"]
      BY <1>6, <2>4, <3>1
    <3>4. Reached(5) => files'["oracle"] = files["oracle"] /\ files'["disclosure"] = files["disclosure"]
      BY <1>6, <2>4, <3>1
    <3>5. Reached(6) => files'["score"] = files["score"]
      BY <1>6, <2>4, <3>1
    <3> QED
      BY <1>1, <3>2, <3>3, <3>4, <3>5, SameScore DEF ReleaseInv, RecordsAreBacked, Reached
  <2>6. CommandsHoldTheLock'
    BY <1>1, <1>4, <2>1 DEF CommandsHoldTheLock, State
  <2>7. RecordsAreDue'
    <3>1. Sealed' = Sealed
      BY <1>1 DEF Sealed
    <3>2. a = "disclosure" => files["oracle"] = OracleBytes
      BY DEF ReleaseInv, RecordsAreDue
    <3>3. a = "score" => d.output = Sealed
      BY <1>1, <1>3 DEF ReleaseInv, RecordsAreDue, Artefacts
    <3>4. a \in {"oracle", "disclosure"} => d = OracleBytes
      BY <1>3 DEF Written
    <3> QED
      BY <1>1, <1>3, <1>4, <1>6, <2>1, <2>4, <3>1, <3>2, <3>3, <3>4 DEF RecordsAreDue, Idle, Artefacts
  <2>8. DisclosedIsEligible'
    <3>1. ASSUME a = "oracle"
          PROVE  Reached(4) /\ states[4].state = "eligibility-verified"
      <4>1. Len(states) = 4 /\ states[4].state = "eligibility-verified"
        BY <2>3, <3>1
      <4> QED
        BY <4>1 DEF Reached
    <3>2. a # "oracle" => files'["oracle"] = files["oracle"]
      BY <1>6, <2>4
    <3>3. disclosed' <=> disclosed \/ a = "oracle"
      BY <1>1
    <3>4. DisclosedIsEligible
      BY DEF ReleaseInv
    <3>5. states' = states
      BY <1>1
    <3> HIDE DEF a
    <3> QED
      BY <3>1, <3>2, <3>3, <3>4, <3>5 DEF DisclosedIsEligible, Reached
  <2>9. LaunchedIsPinned'
    BY <1>1 DEF ReleaseInv, LaunchedIsPinned
  <2>10. ScoreIsWhose'
    BY <1>1, <1>6a, <2>1, ScoreKept
  <2> QED
    BY <2>2, <2>5, <2>6, <2>7, <2>8, <2>9, <2>10 DEF ReleaseInv
<1> QED
  BY <1>7, <1>8

LEMMA WriteFailsInv ==
  ASSUME ReleaseInv, NEW p \in Operators, WriteFails(p)
  PROVE  ReleaseInv'
<1> DEFINE a == job[p].step
           c == job[p].cmd
           d == job[p].data
<1>1. /\ a \in Artefacts /\ files[a] = NoFile
      /\ files' = [files EXCEPT ![a] = d]
      /\ disclosed' = (disclosed \/ a = "oracle")
      /\ job' = [job EXCEPT ![p].step = "withdraw", ![p].data = a]
      /\ crashes < MaxCrashes /\ crashes' = crashes + 1
      /\ UNCHANGED <<pack, output, states, lock, launch, standAlone, alterations>>
  BY DEF WriteFails
<1>2. /\ job[p] # Idle /\ a \in Steps(c) /\ d \in Written(a)
      /\ a = "oracle" => c = "release-oracle"
  BY <1>1, WriterOf
<1>3. /\ c \in Commands /\ State = Needs[c]
      /\ DOMAIN job[p] = {"cmd", "step", "data"}
  BY <1>2, Holder
<1>4. /\ DOMAIN files = Artefacts \cup {"attestation"}
      /\ DOMAIN job = Operators /\ \A q \in Operators : JobOK(job[q])
  BY DEF ReleaseInv, TypeOK
<1>5. /\ DOMAIN files' = Artefacts \cup {"attestation"}
      /\ files'[a] = d
      /\ \A b \in Artefacts \cup {"attestation"} : b # a => files'[b] = files[b]
  BY <1>1, <1>4
<1>6. /\ DOMAIN job' = Operators
      /\ DOMAIN job'[p] = {"cmd", "step", "data"}
      /\ job'[p].cmd = c /\ job'[p].step = "withdraw" /\ job'[p].data = a
      /\ \A q \in Operators : q # p => job'[q] = job[q]
  BY <1>1, <1>3, <1>4
<1>7. d # NoFile
  BY <1>1, <1>2, FilesAreTold
<1>8. TypeOK'
  <2>1. \A b \in DOMAIN files' : files'[b] \in {NoFile, TornFile} \/ files'[b] \in Written(b)
    BY <1>2, <1>4, <1>5 DEF ReleaseInv, TypeOK
  <2>2. \A q \in Operators : JobOK(job'[q])
    BY <1>1, <1>2, <1>3, <1>4, <1>6 DEF JobOK
  <2>3. crashes' \in 0..MaxCrashes
    BY <1>1, ReleaseAssumption DEF ReleaseInv, TypeOK
  <2>4. disclosed' \in BOOLEAN
    BY <1>1
  <2> QED
    BY <1>1, <1>5, <1>6, <2>1, <2>2, <2>3, <2>4 DEF ReleaseInv, TypeOK, State, standAlone
<1>9. /\ RecordsAreBacked' /\ CommandsHoldTheLock'
      /\ RecordsAreDue' /\ DisclosedIsEligible'
  <2>1. a = "oracle" => Reached(4) /\ states[4].state = "eligibility-verified"
    BY <1>2, <1>3, CommandAt DEF ReleaseInv, Reached
  <2>2. \A b \in Artefacts : files[b] # NoFile => files'[b] = files[b]
    BY <1>1, <1>5
  <2>3. files["score"] \in Score => files'["score"] = files["score"]
    BY <2>2, WholeIsThere DEF Artefacts
  <2>4. files'["oracle"] # NoFile => files["oracle"] # NoFile \/ disclosed'
    BY <1>1, <1>5 DEF Artefacts
  <2>5. /\ disclosed => disclosed'
        /\ disclosed' => disclosed \/ (Reached(4) /\ states[4].state = "eligibility-verified")
    BY <1>1, <2>1
  <2> QED
    BY <1>1, <1>2, <1>6, <2>2, <2>3, <2>4, <2>5, SameScore, NothingLost
<1>10. LaunchedIsPinned'
  BY <1>1 DEF ReleaseInv, LaunchedIsPinned
<1>11. ScoreIsWhose'
  <2>1. ScoreIsWhose
    BY DEF ReleaseInv
  <2>2. \/ files'["score"] = files["score"]
        \/ files["score"] = NoFile /\ files'["score"] # NoFile
    BY <1>1, <1>5, <1>7 DEF Artefacts
  <2>3. (writable => files["score"] # NoFile)' /\ (overwrites # {} => Overtaken)'
    BY <1>1, <2>1, <2>2, SameScore DEF ScoreIsWhose, standAlone
  <2>4. (\A s \in Scorers : scorer[s].step = "write" =>
           \/ overwrites # {}
           \/ files["score"] = TornFile /\ \A t \in Scorers \ {s} : scorer[t].step # "write")'
    BY <1>1, <2>1, <2>2, ReleaseAssumption DEF ScoreIsWhose, standAlone
  <2>5. ASSUME NEW q \in Operators, job'[q].step = "withdraw", job'[q].data = "score"
        PROVE  ~writable' /\ files'["score"] # NoFile
    <3>1. CASE q = p
      <4>1. a = "score"
        BY <1>6, <2>5, <3>1
      <4>2. files["score"] = NoFile /\ files'["score"] # NoFile
        BY <1>1, <1>5, <1>7, <4>1
      <4> QED
        BY <1>1, <2>1, <4>2 DEF ScoreIsWhose, standAlone
    <3>2. CASE q # p
      BY <1>1, <1>6, <2>1, <2>2, <2>5, <3>2 DEF ScoreIsWhose, standAlone
    <3> QED
      BY <3>1, <3>2
  <2> QED
    BY <2>3, <2>4, <2>5 DEF ScoreIsWhose
<1> QED
  BY <1>8, <1>9, <1>10, <1>11 DEF ReleaseInv

\* What is withdrawn is an artefact of the command.
LEMMA Withdrawn ==
  ASSUME ReleaseInv, NEW p \in Operators, Withdraw(p)
  PROVE  job[p].data \in Steps(job[p].cmd) /\ job[p].data \in Artefacts
<1>1. job[p].step = "withdraw" /\ job[p] # Idle
  BY DEF Withdraw, Idle
<1>2. "withdraw" \notin Steps(job[p].cmd)
  <2>1. job[p].cmd \in Commands
    BY <1>1, Holder
  <2> QED
    BY <2>1 DEF Steps, FirstWrite, Commands
<1> QED
  BY <1>1, <1>2, Holder

LEMMA WithdrawInv ==
  ASSUME ReleaseInv, NEW p \in Operators, Withdraw(p)
  PROVE  ReleaseInv'
<1> DEFINE a == job[p].data
           c == job[p].cmd
<1>1. /\ job[p].step = "withdraw" /\ job[p] # Idle /\ Finish(p)
      /\ files' = [files EXCEPT ![a] = NoFile]
      /\ UNCHANGED <<pack, output, states, launch, disclosed, crashes, alterations>>
  BY DEF Withdraw, Idle
<1>2. /\ a = "score" =>
           /\ scorer' = [s \in Scorers |->
                IF scorer[s].step = "write" THEN [scorer[s] EXCEPT !.step = "gone"]
                                            ELSE scorer[s]]
           /\ overwrites' = {} /\ writable' = writable
      /\ a # "score" => UNCHANGED standAlone
  BY DEF Withdraw
<1>3. /\ c \in Commands /\ State = Needs[c]
      /\ a \in Steps(c) /\ a \in Artefacts
  BY <1>1, Holder, Withdrawn
<1>4. /\ a = "preparation" => c = "prepare"
      /\ a = "seal" => c = "freeze"
      /\ a \in {"oracle", "disclosure"} => c = "release-oracle"
      /\ a = "score" => c = "score"
  BY <1>3 DEF Steps, FirstWrite, Commands, Artefacts
<1>5. /\ DOMAIN files = Artefacts \cup {"attestation"}
      /\ DOMAIN files' = Artefacts \cup {"attestation"}
      /\ files'[a] = NoFile
      /\ \A b \in DOMAIN files : b # a => files'[b] = files[b]
  BY <1>1, <1>3 DEF ReleaseInv, TypeOK
<1>6. /\ \A q \in Operators : job'[q] = Idle
      /\ lock' \in Operators \cup {NoOne}
      /\ DOMAIN job' = Operators /\ \A q \in Operators : JobOK(job'[q])
  BY <1>1, FinishType
<1>7. TypeOK'
  <2>1. \A b \in DOMAIN files' : files'[b] \in {NoFile, TornFile} \/ files'[b] \in Written(b)
    BY <1>5 DEF ReleaseInv, TypeOK
  <2>2. scorer' \in [Scorers -> Scoring] /\ writable' \in BOOLEAN /\ overwrites' \subseteq Scorers
    <3>0. scorer \in [Scorers -> Scoring] /\ writable \in BOOLEAN /\ overwrites \subseteq Scorers
      BY DEF ReleaseInv, TypeOK
    <3>1. CASE a = "score"
      <4>1. \A s \in Scorers : scorer[s].step = "write" => [scorer[s] EXCEPT !.step = "gone"] \in Scoring
        BY <3>0 DEF Scoring
      <4> QED
        BY <1>2, <3>0, <3>1, <4>1
    <3>2. CASE a # "score"
      BY <1>2, <3>0, <3>2 DEF standAlone
    <3> QED
      BY <3>1, <3>2
  <2> QED
    BY <1>1, <1>5, <1>6, <2>1, <2>2 DEF ReleaseInv, TypeOK, State
<1>8. RecordsAreBacked'
  <2>1. /\ a = "preparation" => ~Reached(1)
        /\ a = "seal" => ~Reached(3)
        /\ a \in {"oracle", "disclosure"} => ~Reached(5)
        /\ a = "score" => ~Reached(6)
    BY <1>3, <1>4, NotYetRecorded DEF ReleaseInv
  <2>2. /\ Reached(1) => files'["preparation"] = files["preparation"]
        /\ Reached(3) => files'["seal"] = files["seal"]
        /\ Reached(5) => files'["oracle"] = files["oracle"] /\ files'["disclosure"] = files["disclosure"]
        /\ Reached(6) => files'["score"] = files["score"]
    BY <1>5, <2>1 DEF Artefacts
  <2>3. Reached(6) => (Overtaken' <=> Overtaken)
    BY <1>2, <2>1, SameScore
  <2> QED
    BY <1>1, <2>2, <2>3 DEF ReleaseInv, RecordsAreBacked, Reached
<1>9. CommandsHoldTheLock' /\ RecordsAreDue'
  BY <1>6 DEF CommandsHoldTheLock, RecordsAreDue, Idle
<1>10. DisclosedIsEligible' /\ LaunchedIsPinned'
  <2>1. files'["oracle"] # NoFile => files["oracle"] # NoFile
    BY <1>5 DEF Artefacts
  <2> QED
    BY <1>1, <2>1 DEF ReleaseInv, DisclosedIsEligible, LaunchedIsPinned, Reached
<1>11. ScoreIsWhose'
  <2>1. CASE a = "score"
    <3>1. ~writable
      BY <1>1, <2>1 DEF ReleaseInv, ScoreIsWhose
    <3>2. \A s \in Scorers : scorer'[s].step # "write"
      <4>1. scorer \in [Scorers -> Scoring]
        BY DEF ReleaseInv, TypeOK
      <4>2. \A s \in Scorers : scorer[s].step = "write" => scorer'[s].step = "gone"
        BY <1>2, <2>1, <4>1 DEF Scoring
      <4>3. \A s \in Scorers : scorer[s].step # "write" => scorer'[s] = scorer[s]
        BY <1>2, <2>1
      <4> QED
        BY <4>2, <4>3
    <3> QED
      BY <1>2, <1>6, <2>1, <3>1, <3>2 DEF ScoreIsWhose, Idle
  <2>2. CASE a # "score"
    <3>1. files'["score"] = files["score"]
      BY <1>5, <2>2 DEF Artefacts
    <3> QED
      BY <1>2, <1>6, <2>2, <3>1, ScoreKept DEF Idle
  <2> QED
    BY <2>1, <2>2
<1> QED
  BY <1>7, <1>8, <1>9, <1>10, <1>11 DEF ReleaseInv

LEMMA AppendStateInv ==
  ASSUME ReleaseInv, NEW p \in Operators, AppendState(p)
  PROVE  ReleaseInv'
<1> DEFINE c == job[p].cmd
           d == job[p].data
           r == [state |-> Target(c, d), bound |-> d]
           n == Len(states)
<1>1. /\ job[p].step = "append" /\ job[p] # Idle /\ Finish(p)
      /\ states' = Append(states, r)
      /\ UNCHANGED <<pack, output, files, launch, standAlone, disclosed, crashes, alterations>>
  BY DEF AppendState, Idle
<1>2. /\ c \in Commands /\ State = Needs[c]
      /\ "append" \in Steps(c) /\ d \in Bound(c)
  BY <1>1, Holder
<1>3. c # "regression"
  BY <1>2 DEF Steps, FirstWrite, Commands
<1>4. /\ c = "prepare" => n = 0
      /\ c = "prepare-freeze" => n = 1
      /\ c = "freeze" => n = 2
      /\ c = "verify-eligibility" => n = 3
      /\ c = "release-oracle" => n = 4 /\ states[4].state = "eligibility-verified"
      /\ c = "score" => n = 5
  BY <1>2, CommandAt DEF ReleaseInv
<1>5. \/ n = 0 /\ c = "prepare"
      \/ n = 1 /\ c = "prepare-freeze"
      \/ n = 2 /\ c = "freeze"
      \/ n = 3 /\ c = "verify-eligibility"
      \/ n = 4 /\ c = "release-oracle"
      \/ n = 5 /\ c = "score"
  <2>1. c \in Commands
    BY <1>2
  <2> HIDE DEF c, n
  <2> QED
    BY <2>1, <1>3, <1>4 DEF Commands
<1>5a. n \in 0..5 /\ c = Recorder[n + 1]
  <2> HIDE DEF c, n
  <2> QED
    BY <1>5 DEF Recorder
<1>6. /\ IsSequence(states')
      /\ Len(states') = n + 1 /\ DOMAIN states' = 1..(n + 1)
      /\ \A i \in 1..n : states'[i] = states[i]
      /\ states'[n + 1] = r
  <2>1. IsSequence(states)
    BY DEF ReleaseInv, TypeOK
  <2> HIDE DEF r
  <2> QED
    BY <1>1, <2>1, AppendRecord
<1>7. TypeOK'
  <2>1. DOMAIN states = 1..n
    BY StateIsLength DEF ReleaseInv
  <2>2. \A i \in DOMAIN states' : /\ states'[i].bound \in Bound(Recorder[i])
                                  /\ states'[i].state = Target(Recorder[i], states'[i].bound)
    <3> SUFFICES ASSUME NEW i \in 1..(n + 1)
                 PROVE  /\ states'[i].bound \in Bound(Recorder[i])
                        /\ states'[i].state = Target(Recorder[i], states'[i].bound)
      BY <1>6
    <3>1. CASE i = n + 1
      BY <1>2, <1>5a, <1>6, <3>1
    <3>2. CASE i # n + 1
      <4>1. i \in 1..n
        BY <1>5a, <3>2
      <4> QED
        BY <1>6, <2>1, <4>1 DEF ReleaseInv, TypeOK
    <3> QED
      BY <3>1, <3>2
  <2>3. State' = Target(c, d)
    <3>1. states' # <<>>
      BY <1>5a, <1>6
    <3> QED
      BY <1>6, <3>1 DEF State
  <2>4. State' = "invalidated" => Len(states') = 4
    <3>1. State' = "invalidated" => n = 3
      BY <1>5, <2>3 DEF Target
    <3>2. Len(states') = n + 1
      BY <1>6
    <3> HIDE DEF n
    <3> QED
      BY <3>1, <3>2
  <2>5. Len(states') <= 6
    BY <1>5a, <1>6
  <2> QED
    BY <1>1, <1>6, <2>2, <2>4, <2>5, FinishType DEF ReleaseInv, TypeOK, standAlone
<1>8. /\ c = "prepare" => files["preparation"] = d
      /\ c = "freeze" => files["seal"] = d
      /\ c = "release-oracle" => files["oracle"] = OracleBytes /\ files["disclosure"] = OracleBytes
      /\ c = "score" => files["score"] = d \/ Overtaken
  BY <1>1 DEF ReleaseInv, RecordsAreDue
<1>9. RecordsAreBacked'
  <2>1. RecordsAreBacked
    BY DEF ReleaseInv
  <2>2. ASSUME NEW k \in 1..6, Reached(k)'
        PROVE  Reached(k) \/ k = n + 1
    <3>1. n + 1 >= k
      BY <1>6, <2>2 DEF Reached
    <3>2. Len(states) = n /\ n \in Nat
      BY <1>5a
    <3> HIDE DEF n
    <3> QED
      BY <3>1, <3>2 DEF Reached
  <2>3. \A k \in 1..6 : Reached(k) => states'[k] = states[k]
    BY <1>5a, <1>6 DEF Reached
  <2>4. Reached(1)' => files["preparation"] = states'[1].bound
    <3>1. Reached(1)' /\ ~Reached(1) => c = "prepare" /\ states'[1] = r
      <4>1. Reached(1)' /\ ~Reached(1) => 1 = n + 1
        BY <2>2
      <4>2. n \in Nat
        BY <1>5a
      <4> HIDE DEF n, c, r
      <4> QED
        BY <1>5, <1>6, <4>1, <4>2
    <3> QED
      BY <1>8, <2>1, <2>3, <3>1 DEF RecordsAreBacked
  <2>5. Reached(3)' => files["seal"] = states'[3].bound
    <3>1. Reached(3)' /\ ~Reached(3) => c = "freeze" /\ states'[3] = r
      <4>1. Reached(3)' /\ ~Reached(3) => 3 = n + 1
        BY <2>2
      <4>2. n \in Nat
        BY <1>5a
      <4> HIDE DEF n, c, r
      <4> QED
        BY <1>5, <1>6, <4>1, <4>2
    <3> QED
      BY <1>8, <2>1, <2>3, <3>1 DEF RecordsAreBacked
  <2>6. Reached(5)' => files["oracle"] = OracleBytes /\ files["disclosure"] = OracleBytes
    <3>1. Reached(5)' /\ ~Reached(5) => c = "release-oracle" /\ states'[5] = r
      <4>1. Reached(5)' /\ ~Reached(5) => 5 = n + 1
        BY <2>2
      <4>2. n \in Nat
        BY <1>5a
      <4> HIDE DEF n, c, r
      <4> QED
        BY <1>5, <1>6, <4>1, <4>2
    <3> QED
      BY <1>8, <2>1, <2>3, <3>1 DEF RecordsAreBacked
  <2>7. Reached(6)' => files["score"] = states'[6].bound \/ Overtaken
    <3>1. Reached(6)' /\ ~Reached(6) => c = "score" /\ states'[6] = r
      <4>1. Reached(6)' /\ ~Reached(6) => 6 = n + 1
        BY <2>2
      <4>2. n \in Nat
        BY <1>5a
      <4> HIDE DEF n, c, r
      <4> QED
        BY <1>5, <1>6, <4>1, <4>2
    <3> QED
      BY <1>8, <2>1, <2>3, <3>1 DEF RecordsAreBacked
  <2> QED
    BY <1>1, <2>4, <2>5, <2>6, <2>7, SameScore DEF RecordsAreBacked
<1>10. CommandsHoldTheLock' /\ RecordsAreDue'
  BY <1>1, FinishType DEF CommandsHoldTheLock, RecordsAreDue, Idle
<1>11. DisclosedIsEligible'
  BY <1>1, <1>5a, <1>6 DEF ReleaseInv, DisclosedIsEligible, Reached
<1>12. LaunchedIsPinned'
  BY <1>1 DEF ReleaseInv, LaunchedIsPinned
<1>13. ScoreIsWhose'
  BY <1>1, FinishType, ScoreKept DEF Idle
<1> QED
  BY <1>7, <1>9, <1>10, <1>11, <1>12, <1>13 DEF ReleaseInv

LEMMA OperatorDiesInv ==
  ASSUME ReleaseInv, NEW p \in Operators, OperatorDies(p)
  PROVE  ReleaseInv'
<1> DEFINE a == job[p].step
<1>1. /\ job[p] # Idle /\ Finish(p) /\ crashes < MaxCrashes /\ crashes' = crashes + 1
      /\ UNCHANGED <<pack, output, states, launch, standAlone, alterations>>
  BY DEF OperatorDies
<1>2. \/ files' = files /\ disclosed' = disclosed
      \/ /\ a \in Artefacts /\ files[a] = NoFile
         /\ files' = [files EXCEPT ![a] = TornFile]
         /\ disclosed' = (disclosed \/ a = "oracle")
  BY DEF OperatorDies
<1>3. DOMAIN files = Artefacts \cup {"attestation"}
  BY DEF ReleaseInv, TypeOK
<1>4. /\ DOMAIN files' = DOMAIN files
      /\ \A b \in DOMAIN files : files'[b] = files[b] \/ (files[b] = NoFile /\ files'[b] = TornFile)
  BY <1>2, <1>3
<1>5. TypeOK'
  <2>1. \A b \in DOMAIN files' : files'[b] \in {NoFile, TornFile} \/ files'[b] \in Written(b)
    BY <1>4 DEF ReleaseInv, TypeOK
  <2>2. crashes' \in 0..MaxCrashes
    BY <1>1, ReleaseAssumption DEF ReleaseInv, TypeOK
  <2>3. disclosed' \in BOOLEAN
    BY <1>2 DEF ReleaseInv, TypeOK
  <2> QED
    BY <1>1, <1>3, <1>4, <2>1, <2>2, <2>3, FinishType DEF ReleaseInv, TypeOK, State, standAlone
<1>6. /\ disclosed => disclosed'
      /\ disclosed' => disclosed \/ (Reached(4) /\ states[4].state = "eligibility-verified")
      /\ files'["oracle"] # NoFile => files["oracle"] # NoFile \/ disclosed'
  <2>1. CASE files' = files /\ disclosed' = disclosed
    BY <2>1
  <2>2. CASE /\ a \in Artefacts /\ files[a] = NoFile
             /\ files' = [files EXCEPT ![a] = TornFile]
             /\ disclosed' = (disclosed \/ a = "oracle")
    <3>1. ASSUME a = "oracle"
          PROVE  Reached(4) /\ states[4].state = "eligibility-verified"
      <4>1. job[p].cmd = "release-oracle"
        BY <2>2, <3>1, WriterOf
      <4>2. Len(states) = 4 /\ states[4].state = "eligibility-verified"
        BY <1>1, <4>1, Holder, CommandAt DEF ReleaseInv
      <4> QED
        BY <4>2 DEF Reached
    <3>2. files'["oracle"] # NoFile => files["oracle"] # NoFile \/ a = "oracle"
      BY <1>3, <2>2 DEF Artefacts
    <3> HIDE DEF a
    <3> QED
      BY <2>2, <3>1, <3>2
  <2> QED
    BY <1>2, <2>1, <2>2
<1>7. /\ RecordsAreBacked' /\ CommandsHoldTheLock'
      /\ RecordsAreDue' /\ DisclosedIsEligible'
  <2>1. \A b \in Artefacts : files[b] # NoFile => files'[b] = files[b]
    BY <1>3, <1>4
  <2>2. files["score"] \in Score => files'["score"] = files["score"]
    BY <2>1, WholeIsThere DEF Artefacts
  <2> QED
    BY <1>1, <1>6, <2>1, <2>2, FinishType, SameScore, NothingLost
<1>7a. ScoreIsWhose'
  <2>1. \/ files'["score"] = files["score"]
        \/ files["score"] = NoFile /\ files'["score"] # NoFile
    BY <1>3, <1>4, ReleaseAssumption DEF Artefacts
  <2> QED
    BY <1>1, <2>1, FinishType, ScoreKept DEF Idle
<1>8. LaunchedIsPinned'
  BY <1>1 DEF ReleaseInv, LaunchedIsPinned
<1> QED
  BY <1>5, <1>7, <1>7a, <1>8 DEF ReleaseInv

-----------------------------------------------------------------------------
(* Everyone else: no command starts or ends, and no record is appended.    *)

\* What the launcher and an alteration keep.
LEMMA Bystander ==
  ASSUME ReleaseInv, UNCHANGED <<states, lock, job, standAlone, disclosed>>,
         \A a \in Artefacts : files'[a] = files[a],
         pack' \in Packs, output' \in Inventory,
         DOMAIN files' = Artefacts \cup {"attestation"},
         \A a \in DOMAIN files' : files'[a] \in {NoFile, TornFile} \/ files'[a] \in Written(a),
         launch' \in [Launchers -> Launched], LaunchedIsPinned',
         crashes' \in 0..MaxCrashes, alterations' \in 0..MaxAlterations
  PROVE  ReleaseInv'
<1>1. TypeOK'
  BY DEF ReleaseInv, TypeOK, State, standAlone
<1>2. "oracle" \in Artefacts /\ "score" \in Artefacts
  BY DEF Artefacts
<1>3. /\ RecordsAreBacked' /\ CommandsHoldTheLock'
      /\ RecordsAreDue' /\ DisclosedIsEligible'
  BY <1>2, SameScore, NothingLost
<1>4. ScoreIsWhose'
  BY <1>2, ScoreKept DEF Idle
<1> QED
  BY <1>1, <1>3, <1>4 DEF ReleaseInv

\* The phase of a launcher moves on with its image.
LEMMA EnterType ==
  ASSUME ReleaseInv, NEW l \in Launchers, launch[l].phase # "ready",
         NEW phase \in {"running", "assisted", "rest", "attest", "done", "gone"},
         Enter(l, phase)
  PROVE  launch' \in [Launchers -> Launched] /\ LaunchedIsPinned'
<1>1. launch \in [Launchers -> Launched] /\ LaunchedIsPinned
  BY DEF ReleaseInv, TypeOK
<1>2. launch' = [launch EXCEPT ![l].phase = phase]
  BY DEF Enter
<1>3. launch'[l] \in Launched /\ launch'[l].image = launch[l].image
  BY <1>1, <1>2 DEF Launched
<1>4. launch'[l].image \in Pinned
  BY <1>1, <1>3 DEF LaunchedIsPinned
<1>5. launch' \in [Launchers -> Launched]
  BY <1>1, <1>2, <1>3
<1>6. \A k \in Launchers : k # l => launch'[k] = launch[k]
  BY <1>1, <1>2
<1> QED
  BY <1>1, <1>4, <1>5, <1>6 DEF LaunchedIsPinned

\* The variables a bystander finds typed.
LEMMA Typed ==
  ASSUME ReleaseInv
  PROVE  /\ pack \in Packs /\ output \in Inventory
         /\ DOMAIN files = Artefacts \cup {"attestation"}
         /\ \A a \in DOMAIN files : files[a] \in {NoFile, TornFile} \/ files[a] \in Written(a)
         /\ launch \in [Launchers -> Launched] /\ LaunchedIsPinned
         /\ scorer \in [Scorers -> Scoring]
         /\ writable \in BOOLEAN /\ overwrites \subseteq Scorers
         /\ crashes \in 0..MaxCrashes /\ alterations \in 0..MaxAlterations
         /\ "oracle" \in Artefacts /\ "score" \in Artefacts /\ "attestation" \notin Artefacts
BY DEF ReleaseInv, TypeOK, Artefacts

LEMMA LaunchContainerInv ==
  ASSUME ReleaseInv, NEW l \in Launchers, NEW image \in Images, LaunchContainer(l, image)
  PROVE  ReleaseInv'
<1>1. /\ image \in Pinned
      /\ launch' = [launch EXCEPT ![l] = [phase |-> "running", image |-> image]]
      /\ UNCHANGED <<pack, output, files, states, lock, job, standAlone, disclosed, crashes, alterations>>
  BY DEF LaunchContainer
<1>2. [phase |-> "running", image |-> image] \in Launched
  BY <1>1 DEF Launched
<1>3. launch' \in [Launchers -> Launched]
  BY <1>1, <1>2, Typed
<1>4. LaunchedIsPinned'
  BY <1>1, Typed DEF LaunchedIsPinned
<1> QED
  BY <1>1, <1>3, <1>4, Typed, Bystander

LEMMA OpenOutputInv ==
  ASSUME ReleaseInv, NEW l \in Launchers, OpenOutput(l)
  PROVE  ReleaseInv'
<1>1. /\ launch[l].phase # "ready"
      /\ Enter(l, IF output = Empty THEN "assisted" ELSE "gone")
      /\ UNCHANGED <<pack, output, files, states, lock, job, standAlone, disclosed, crashes, alterations>>
  BY DEF OpenOutput
<1>2. launch' \in [Launchers -> Launched] /\ LaunchedIsPinned'
  BY <1>1, EnterType
<1> QED
  BY <1>1, <1>2, Typed, Bystander

LEMMA MaterializePartInv ==
  ASSUME ReleaseInv, NEW l \in Launchers, NEW part \in Parts, MaterializePart(l, part)
  PROVE  ReleaseInv'
<1>1. /\ launch[l].phase # "ready"
      /\ \E phase \in {"rest", "attest", "gone"} : Enter(l, phase)
      /\ output' = output \/ output' = [output EXCEPT ![part] = l]
      /\ UNCHANGED <<pack, files, states, lock, job, standAlone, disclosed, crashes, alterations>>
  BY DEF MaterializePart, Parts
<1>2. launch' \in [Launchers -> Launched] /\ LaunchedIsPinned'
  BY <1>1, EnterType
<1>3. output' \in Inventory
  BY <1>1, Typed DEF Inventory, Content
<1> QED
  BY <1>1, <1>2, <1>3, Typed, Bystander

LEMMA AttestInv ==
  ASSUME ReleaseInv, NEW l \in Launchers, Attest(l)
  PROVE  ReleaseInv'
<1> DEFINE t == [image |-> launch[l].image, pack |-> pack, inventory |-> output]
<1>1. /\ launch[l].phase # "ready"
      /\ \E phase \in {"done", "gone"} : Enter(l, phase)
      /\ files' = files \/ files' = [files EXCEPT !["attestation"] = t]
      /\ UNCHANGED <<pack, output, states, lock, job, standAlone, disclosed, crashes, alterations>>
  BY DEF Attest
<1>2. launch' \in [Launchers -> Launched] /\ LaunchedIsPinned'
  BY <1>1, EnterType
<1>3. launch[l].image \in Pinned
  BY <1>1, Typed DEF LaunchedIsPinned
<1>4. t \in Written("attestation")
  BY <1>3, Typed DEF Written, Attestation
<1>5. /\ DOMAIN files' = DOMAIN files
      /\ \A a \in Artefacts : files'[a] = files[a]
      /\ \A a \in DOMAIN files' : files'[a] \in {NoFile, TornFile} \/ files'[a] \in Written(a)
  BY <1>1, <1>4, Typed
<1> QED
  BY <1>1, <1>2, <1>5, Typed, Bystander

LEMMA LauncherDiesInv ==
  ASSUME ReleaseInv, NEW l \in Launchers, LauncherDies(l)
  PROVE  ReleaseInv'
<1>1. /\ launch[l].phase # "ready" /\ Enter(l, "gone")
      /\ crashes < MaxCrashes /\ crashes' = crashes + 1
      /\ UNCHANGED <<pack, states, lock, job, standAlone, disclosed, alterations>>
  BY DEF LauncherDies
<1>2. /\ output' = output \/ output' = [output EXCEPT ![launch[l].phase] = TornFile]
      /\ files' = files \/ files' = [files EXCEPT !["attestation"] = TornFile]
  BY DEF LauncherDies
<1>3. launch' \in [Launchers -> Launched] /\ LaunchedIsPinned'
  BY <1>1, EnterType
<1>4. crashes' \in 0..MaxCrashes
  BY <1>1, Typed, ReleaseAssumption
<1>5. output' \in Inventory
  BY <1>2, Typed DEF Inventory, Content
<1>6. /\ DOMAIN files' = DOMAIN files
      /\ \A a \in Artefacts : files'[a] = files[a]
      /\ \A a \in DOMAIN files' : files'[a] \in {NoFile, TornFile} \/ files'[a] \in Written(a)
  BY <1>2, Typed
<1> QED
  BY <1>1, <1>3, <1>4, <1>5, <1>6, Typed, Bystander

\* What every step of a scorer keeps.
LEMMA ScorerStep ==
  ASSUME ReleaseInv, NEW s \in Scorers, NEW step \in {"check", "open", "write", "done", "gone"},
         NEW report \in Score,
         scorer' = [scorer EXCEPT ![s] = [step |-> step, report |-> report]],
         UNCHANGED <<pack, output, states, lock, job, launch, disclosed, alterations>>,
         \/ files' = files
         \/ \E v \in Score \cup {TornFile} : files' = [files EXCEPT !["score"] = v],
         files["score"] \in Score => files'["score"] = files["score"] \/ Overtaken',
         Overtaken => Overtaken',
         writable' \in BOOLEAN, overwrites' \subseteq Scorers, ScoreIsWhose',
         crashes' \in 0..MaxCrashes
  PROVE  ReleaseInv'
<1>1. scorer' \in [Scorers -> Scoring]
  BY Typed DEF Scoring
<1>2. /\ DOMAIN files' = Artefacts \cup {"attestation"}
      /\ \A a \in DOMAIN files' : files'[a] \in {NoFile, TornFile} \/ files'[a] \in Written(a)
      /\ \A a \in Artefacts \ {"score"} : files'[a] = files[a]
  <2>1. Written("score") = Score
    BY DEF Written
  <2> QED
    BY <2>1, Typed
<1>3. TypeOK'
  BY <1>1, <1>2 DEF ReleaseInv, TypeOK, State
<1>4. /\ RecordsAreBacked' /\ CommandsHoldTheLock'
      /\ RecordsAreDue' /\ DisclosedIsEligible'
  <2>1. files'["oracle"] = files["oracle"]
    BY <1>2, Typed
  <2> QED
    BY <1>2, <2>1, NothingLost
<1>5. LaunchedIsPinned'
  BY DEF ReleaseInv, LaunchedIsPinned
<1> QED
  BY <1>3, <1>4, <1>5 DEF ReleaseInv

\* A scorer that is past its evaluation has a report.
LEMMA Reported ==
  ASSUME ReleaseInv, NEW s \in Scorers, scorer[s].step # "ready"
  PROVE  /\ scorer[s].report \in Score
         /\ \A step : Reach(s, step) =>
              scorer' = [scorer EXCEPT ![s] = [step |-> step, report |-> scorer[s].report]]
<1>1. scorer[s] \in Scoring
  BY Typed
<1>2. scorer[s].report \in Score /\ DOMAIN scorer[s] = {"step", "report"}
  BY <1>1 DEF Scoring
<1>3. \A step : [scorer[s] EXCEPT !.step = step] = [step |-> step, report |-> scorer[s].report]
  BY <1>1 DEF Scoring
<1> QED
  BY <1>2, <1>3 DEF Reach

LEMMA ScorerEvaluatesInv ==
  ASSUME ReleaseInv, NEW s \in Scorers, ScorerEvaluates(s)
  PROVE  ReleaseInv'
<1> DEFINE r == [output |-> output, pack |-> pack]
<1>1. /\ scorer' = [scorer EXCEPT ![s] = [step |-> "check", report |-> r]]
      /\ UNCHANGED <<pack, output, files, states, lock, job, launch, writable, overwrites,
                     disclosed, crashes, alterations>>
  BY DEF ScorerEvaluates
<1>2. r \in Score
  BY Typed DEF Score
<1>3. ScoreIsWhose'
  BY <1>1, Typed DEF ReleaseInv, ScoreIsWhose, Overtaken
<1>4. Overtaken => Overtaken'
  BY <1>1 DEF Overtaken
<1> QED
  BY <1>1, <1>2, <1>3, <1>4, Typed, ScorerStep

LEMMA ScorerChecksInv ==
  ASSUME ReleaseInv, NEW s \in Scorers, ScorerChecks(s)
  PROVE  ReleaseInv'
<1>1. /\ scorer[s].step = "check"
      /\ \E step \in {"open", "gone"} : Reach(s, step)
      /\ UNCHANGED <<pack, output, files, states, lock, job, launch, writable, overwrites,
                     disclosed, crashes, alterations>>
  BY DEF ScorerChecks
<1>2. PICK step \in {"open", "gone"} :
        scorer' = [scorer EXCEPT ![s] = [step |-> step, report |-> scorer[s].report]]
  BY <1>1, Reported
<1>3. ScoreIsWhose'
  BY <1>1, <1>2, Typed DEF ReleaseInv, ScoreIsWhose, Overtaken
<1>4. Overtaken => Overtaken'
  BY <1>1 DEF Overtaken
<1> QED
  BY <1>1, <1>2, <1>3, <1>4, Typed, Reported, ScorerStep

LEMMA ScorerOpensInv ==
  ASSUME ReleaseInv, NEW s \in Scorers, ScorerOpens(s)
  PROVE  ReleaseInv'
<1>1. /\ scorer[s].step = "open"
      /\ files["score"] = NoFile \/ writable \/ s \in Privileged
      /\ files' = [files EXCEPT !["score"] = TornFile]
      /\ writable' = (writable \/ files["score"] = NoFile)
      /\ overwrites' = IF files["score"] = NoFile THEN overwrites ELSE overwrites \cup {s}
      /\ UNCHANGED <<pack, output, states, lock, job, launch, disclosed, crashes, alterations>>
  BY DEF ScorerOpens, MayOpen
<1>2. scorer' = [scorer EXCEPT ![s] = [step |-> "write", report |-> scorer[s].report]]
  BY <1>1, Reported DEF ScorerOpens
<1>3. files'["score"] = TornFile /\ TornFile # NoFile
  BY <1>1, Typed, ReleaseAssumption
<1>4. ScoreIsWhose
  BY DEF ReleaseInv
<1>5. overwrites' # {} => Overtaken'
  <2>1. CASE files["score"] = NoFile
    BY <1>1, <2>1 DEF Overtaken
  <2>2. CASE files["score"] # NoFile
    <3>1. overwrites' = overwrites \cup {s} /\ (writable' <=> writable)
      BY <1>1, <2>2
    <3>2. CASE writable
      BY <3>1, <3>2 DEF Overtaken
    <3>3. CASE ~writable
      <4>1. s \in Privileged
        BY <1>1, <2>2, <3>3
      <4>2. overwrites \subseteq Privileged
        BY <1>4, <3>3 DEF ScoreIsWhose, Overtaken
      <4> QED
        BY <3>1, <4>1, <4>2 DEF Overtaken
    <3> QED
      BY <3>2, <3>3
  <2> QED
    BY <2>1, <2>2
<1>6. Overtaken => Overtaken'
  BY <1>1, <1>5 DEF Overtaken
<1>7. files["score"] \in Score => Overtaken'
  BY <1>1, <1>5, WholeIsThere
<1>8. ScoreIsWhose'
  <2>1. ASSUME NEW q \in Operators, job[q].step = "withdraw", job[q].data = "score"
        PROVE  ~writable'
    BY <1>1, <1>4, <2>1 DEF ScoreIsWhose
  <2>2. ASSUME NEW t \in Scorers, NEW u \in Scorers, t # u,
               scorer'[t].step = "write", scorer'[u].step = "write"
        PROVE  overwrites' # {}
    <3>1. PICK w \in Scorers : w # s /\ scorer[w].step = "write"
      BY <1>2, <2>2, Typed
    <3> QED
      BY <1>1, <1>4, <3>1, ReleaseAssumption DEF ScoreIsWhose
  <2> QED
    BY <1>1, <1>3, <1>5, <2>1, <2>2 DEF ScoreIsWhose
<1>9. scorer[s].report \in Score
  BY <1>1, Reported
<1>10. writable' \in BOOLEAN /\ overwrites' \subseteq Scorers /\ crashes' \in 0..MaxCrashes
  BY <1>1, Typed
<1> QED
  BY <1>1, <1>2, <1>6, <1>7, <1>8, <1>9, <1>10, ScorerStep

LEMMA ScorerWritesInv ==
  ASSUME ReleaseInv, NEW s \in Scorers, ScorerWrites(s)
  PROVE  ReleaseInv'
<1>1. /\ scorer[s].step = "write"
      /\ \E v \in {scorer[s].report, TornFile} : files' = [files EXCEPT !["score"] = v]
      /\ UNCHANGED <<pack, output, states, lock, job, launch, writable, overwrites,
                     disclosed, crashes, alterations>>
  BY DEF ScorerWrites
<1>2. scorer' = [scorer EXCEPT ![s] = [step |-> "done", report |-> scorer[s].report]]
  BY <1>1, Reported DEF ScorerWrites
<1>3. scorer[s].report \in Score
  BY <1>1, Reported
<1>4. ScoreIsWhose
  BY DEF ReleaseInv
<1>5. files["score"] \in Score => Overtaken
  <2>1. TornFile \notin Score
    BY FilesAreTold DEF Artefacts, Written
  <2> QED
    BY <1>1, <1>4, <2>1 DEF ScoreIsWhose
<1>6. Overtaken' <=> Overtaken
  BY <1>1 DEF Overtaken
<1>7. files'["score"] \in Score \cup {TornFile} /\ files'["score"] # NoFile
  BY <1>1, <1>3, Typed, WholeIsThere, ReleaseAssumption
<1>8. ScoreIsWhose'
  <2>1. ASSUME NEW t \in Scorers, scorer'[t].step = "write"
        PROVE  overwrites' # {}
    <3>1. t # s /\ scorer[t].step = "write"
      BY <1>2, <2>1, Typed
    <3>2. t \in Scorers \ {s}
      BY <3>1
    <3> QED
      BY <1>1, <1>4, <3>1, <3>2 DEF ScoreIsWhose
  <2> QED
    BY <1>1, <1>4, <1>6, <1>7, <2>1 DEF ScoreIsWhose
<1> QED
  BY <1>1, <1>2, <1>3, <1>5, <1>6, <1>8, Typed, ScorerStep

LEMMA ScorerDiesInv ==
  ASSUME ReleaseInv, NEW s \in Scorers, ScorerDies(s)
  PROVE  ReleaseInv'
<1>1. /\ scorer[s].step = "write"
      /\ crashes < MaxCrashes /\ crashes' = crashes + 1
      /\ UNCHANGED <<pack, output, files, states, lock, job, launch, writable, overwrites,
                     disclosed, alterations>>
  BY DEF ScorerDies
<1>2. scorer' = [scorer EXCEPT ![s] = [step |-> "done", report |-> scorer[s].report]]
  BY <1>1, Reported DEF ScorerDies
<1>3. ScoreIsWhose'
  BY <1>1, <1>2, Typed DEF ReleaseInv, ScoreIsWhose, Overtaken
<1>4. Overtaken => Overtaken'
  BY <1>1 DEF Overtaken
<1>5. crashes' \in 0..MaxCrashes
  BY <1>1, Typed, ReleaseAssumption
<1> QED
  BY <1>1, <1>2, <1>3, <1>4, <1>5, Typed, Reported, ScorerStep

LEMMA AlterInv ==
  ASSUME ReleaseInv, Alter
  PROVE  ReleaseInv'
<1>1. /\ alterations < MaxAlterations /\ alterations' = alterations + 1
      /\ pack' = pack \/ pack' = "altered"
      /\ output' = output \/ \E q \in Parts : output' = [output EXCEPT ![q] = Altered]
      /\ UNCHANGED <<files, states, lock, job, launch, standAlone, disclosed, crashes>>
  BY DEF Alter
<1>2. output' \in Inventory
  BY <1>1, Typed DEF Inventory, Content
<1>3. pack' \in Packs
  BY <1>1, Typed DEF Packs
<1>4. alterations' \in 0..MaxAlterations
  BY <1>1, Typed, ReleaseAssumption
<1>5. LaunchedIsPinned'
  BY <1>1, Typed DEF LaunchedIsPinned
<1> QED
  BY <1>1, <1>2, <1>3, <1>4, <1>5, Typed, Bystander

-----------------------------------------------------------------------------
(* The invariant.                                                          *)

LEMMA NextInv == ReleaseInv /\ [Next]_vars => ReleaseInv'
<1> SUFFICES ASSUME ReleaseInv, [Next]_vars PROVE ReleaseInv'
  OBVIOUS
<1>1. ASSUME NEW p \in Operators, Operate(p) PROVE ReleaseInv'
  <2>1. CASE \E c \in Commands : Start(p, c)
    BY <2>1, StartInv
  <2>2. CASE \E c \in Commands : Observe(p, c)
    BY <2>2, ObserveInv
  <2>3. CASE Refuse(p)
    BY <2>3, RefuseInv
  <2>4. CASE WriteArtefact(p)
    BY <2>4, WriteArtefactInv
  <2>5. CASE AppendState(p)
    BY <2>5, AppendStateInv
  <2>6. CASE OperatorDies(p)
    BY <2>6, OperatorDiesInv
  <2>7. CASE WriteFails(p)
    BY <2>7, WriteFailsInv
  <2>8. CASE Withdraw(p)
    BY <2>8, WithdrawInv
  <2> QED
    BY <1>1, <2>1, <2>2, <2>3, <2>4, <2>5, <2>6, <2>7, <2>8 DEF Operate, Advance
<1>2. ASSUME NEW l \in Launchers, Isolate(l) PROVE ReleaseInv'
  BY <1>2, LaunchContainerInv, OpenOutputInv, MaterializePartInv, AttestInv, LauncherDiesInv
     DEF Isolate
<1>3. CASE UNCHANGED vars
  <2>1. /\ UNCHANGED <<states, lock, job, pack, output, files, launch, standAlone, disclosed, crashes, alterations>>
    BY <1>3 DEF vars
  <2>2. LaunchedIsPinned'
    BY <2>1, Typed DEF LaunchedIsPinned
  <2> QED
    BY <2>1, <2>2, Typed, Bystander
<1>4. ASSUME NEW s \in Scorers, Rate(s) PROVE ReleaseInv'
  BY <1>4, ScorerEvaluatesInv, ScorerChecksInv, ScorerOpensInv, ScorerWritesInv, ScorerDiesInv
     DEF Rate
<1> QED
  BY <1>1, <1>2, <1>3, <1>4, AlterInv DEF Next

\* ReleaseInv holds in every state of the release.
THEOREM ReleaseInvariant == Spec => []ReleaseInv
<1>1. Init => ReleaseInv
  BY InitInv
<1>2. ReleaseInv /\ [Next]_vars => ReleaseInv'
  BY NextInv
<1> QED
  BY <1>1, <1>2, PTL DEF Spec

\* Every variable has its type and the chain of records is in order.
THEOREM ReleaseTyping == Spec => []TypeOK
<1>1. ReleaseInv => TypeOK
  BY DEF ReleaseInv
<1> QED
  BY <1>1, ReleaseInvariant, PTL

\* The artefact a state record stands for is there, whole and with the bytes
\* the record binds, whatever died, failed or was torn or altered; but for a
\* score that another run of the scorer, or a privileged one, opened after it
\* had found none.
THEOREM RecordsBacked == Spec => []RecordsAreBacked
<1>1. ReleaseInv => RecordsAreBacked
  BY DEF ReleaseInv
<1> QED
  BY <1>1, ReleaseInvariant, PTL

-----------------------------------------------------------------------------
(* The release keeps the promise of SealedDisclosure.                      *)

\* Who neither appends a record nor writes the oracle takes no step of it.
LEMMA PromiseStutters ==
  ASSUME states' = states, disclosed' = disclosed
  PROVE  UNCHANGED Promise!vars
BY DEF Promise!vars, Reached, Sealed, State

\* What the promise sees of a run.
LEMMA PromiseAt ==
  ASSUME ReleaseInv
  PROVE  /\ Len(states) >= 3 => Sealed \in Inventory /\ Sealed # NoFile
         /\ Len(states) \in 0..6
BY BoundType, WholeIsThere, StateIsLength DEF ReleaseInv, Reached, Sealed

\* The oracle gets into the run over a seal, while there is no result.
LEMMA OracleDiscloses ==
  ASSUME ReleaseInv, states' = states, disclosed' = TRUE,
         states[4].state = "eligibility-verified", Len(states) = 4
  PROVE  Promise!Disclose
<1>1. Reached(3) /\ ~Reached(6)
  BY DEF Reached
<1>2. State = "eligibility-verified"
  BY DEF State
<1>3. Sealed # NoFile
  BY PromiseAt
<1> QED
  BY <1>1, <1>2, <1>3 DEF Promise!Disclose, Reached, Sealed, State

LEMMA WriterPromise ==
  ASSUME ReleaseInv, NEW p \in Operators,
         WriteArtefact(p) \/ WriteFails(p) \/ OperatorDies(p)
  PROVE  Promise!Next \/ UNCHANGED Promise!vars
<1>1. states' = states
  BY DEF WriteArtefact, WriteFails, OperatorDies
<1>2. \/ disclosed' = disclosed
      \/ job[p].step = "oracle" /\ disclosed' = TRUE
  <2>1. disclosed \in BOOLEAN
    BY DEF ReleaseInv, TypeOK
  <2>2. disclosed' = disclosed \/ disclosed' = (disclosed \/ job[p].step = "oracle")
    BY DEF WriteArtefact, WriteFails, OperatorDies
  <2> QED
    BY <2>1, <2>2
<1>3. CASE disclosed' = disclosed
  BY <1>1, <1>3, PromiseStutters
<1>4. CASE job[p].step = "oracle" /\ disclosed' = TRUE
  <2>1. job[p] # Idle /\ job[p].cmd = "release-oracle"
    BY <1>4, WriterOf DEF Artefacts
  <2>2. Len(states) = 4 /\ states[4].state = "eligibility-verified"
    BY <2>1, Holder, CommandAt DEF ReleaseInv
  <2> QED
    BY <1>1, <1>4, <2>2, OracleDiscloses DEF Promise!Next
<1> QED
  BY <1>2, <1>3, <1>4

LEMMA AppendPromise ==
  ASSUME ReleaseInv, ReleaseInv', NEW p \in Operators, AppendState(p)
  PROVE  Promise!Next \/ UNCHANGED Promise!vars
<1> DEFINE c == job[p].cmd
           d == job[p].data
           r == [state |-> Target(c, d), bound |-> d]
           n == Len(states)
<1>1. /\ job[p].step = "append" /\ job[p] # Idle
      /\ states' = Append(states, r) /\ disclosed' = disclosed
  BY DEF AppendState, Idle
<1>2. /\ c \in Commands /\ State = Needs[c]
      /\ "append" \in Steps(c) /\ d \in Bound(c)
  BY <1>1, Holder
<1>3. /\ c = "prepare" => n = 0
      /\ c = "prepare-freeze" => n = 1
      /\ c = "freeze" => n = 2
      /\ c = "verify-eligibility" => n = 3
      /\ c = "release-oracle" => n = 4
      /\ c = "score" => n = 5
  BY <1>2, CommandAt DEF ReleaseInv
<1>4. c # "regression"
  BY <1>2 DEF Steps, FirstWrite, Commands
<1>5. /\ Len(states') = n + 1
      /\ \A i \in 1..n : states'[i] = states[i]
      /\ states'[n + 1] = r
  <2>1. IsSequence(states)
    BY DEF ReleaseInv, TypeOK
  <2> HIDE DEF r
  <2> QED
    BY <1>1, <2>1, AppendRecord
<1>6. State' = Target(c, d)
  <2>1. n \in Nat /\ states' # <<>>
    BY <1>5, PromiseAt
  <2> QED
    BY <1>5, <2>1 DEF State
<1>7. CASE n \in {0, 1}
  <2>1. c \in {"prepare", "prepare-freeze"}
    BY <1>2, <1>3, <1>4, <1>7 DEF Commands
  <2>2. State' # "invalidated" /\ State # "invalidated"
    BY <1>2, <1>6, <2>1 DEF Target, Needs, Commands
  <2>3. ~Reached(3) /\ ~Reached(3)' /\ ~Reached(6) /\ ~Reached(6)'
    BY <1>5, <1>7 DEF Reached
  <2> QED
    BY <1>1, <2>2, <2>3 DEF Promise!vars
<1>8. CASE n = 2
  <2>1. c = "freeze"
    BY <1>2, <1>3, <1>4, <1>8 DEF Commands
  <2>2. State' # "invalidated" /\ State # "invalidated"
    BY <1>2, <1>6, <2>1 DEF Target, Needs, Commands
  <2>3. ~Reached(3) /\ Reached(3)' /\ ~Reached(6) /\ ~Reached(6)'
    BY <1>5, <1>8 DEF Reached
  <2>4. Sealed' \in Inventory
    BY <1>2, <1>5, <1>8, <2>1 DEF Bound, Sealed
  <2>5. Promise!Seal
    BY <1>1, <2>2, <2>3, <2>4 DEF Promise!Seal
  <2> QED
    BY <2>5 DEF Promise!Next
<1>9. CASE n = 3
  <2>1. c = "verify-eligibility"
    BY <1>2, <1>3, <1>4, <1>9 DEF Commands
  <2>2. State # "invalidated"
    BY <1>2, <2>1 DEF Needs, Commands
  <2>3. Reached(3) /\ Reached(3)' /\ ~Reached(6) /\ ~Reached(6)'
    BY <1>5, <1>9 DEF Reached
  <2>4. Sealed' = Sealed /\ Sealed # NoFile
    BY <1>5, <1>9, PromiseAt DEF Sealed
  <2>5. ~disclosed
    BY <1>9 DEF ReleaseInv, DisclosedIsEligible, Reached
  <2>6. CASE State' = "invalidated"
    <3>1. Promise!Invalidate
      BY <1>1, <2>2, <2>3, <2>4, <2>5, <2>6 DEF Promise!Invalidate
    <3> QED
      BY <3>1 DEF Promise!Next
  <2>7. CASE State' # "invalidated"
    BY <1>1, <2>2, <2>3, <2>4, <2>7 DEF Promise!vars
  <2> QED
    BY <2>6, <2>7
<1>10. CASE n = 4
  <2>1. c = "release-oracle"
    BY <1>2, <1>3, <1>4, <1>10 DEF Commands
  <2>2. State' # "invalidated" /\ State # "invalidated"
    BY <1>2, <1>6, <2>1 DEF Target, Needs, Commands
  <2>3. Reached(3) /\ Reached(3)' /\ ~Reached(6) /\ ~Reached(6)'
    BY <1>5, <1>10 DEF Reached
  <2>4. Sealed' = Sealed
    BY <1>5, <1>10 DEF Sealed
  <2> QED
    BY <1>1, <2>2, <2>3, <2>4 DEF Promise!vars
<1>11. CASE n = 5
  <2>1. c = "score"
    BY <1>2, <1>3, <1>4, <1>11 DEF Commands
  <2>2. State # "invalidated"
    BY <1>2, <2>1 DEF Needs, Commands
  <2>3. Reached(3) /\ Reached(3)' /\ ~Reached(6) /\ Reached(6)'
    BY <1>5, <1>11 DEF Reached
  <2>4. Sealed' = Sealed
    BY <1>5, <1>11 DEF Sealed
  <2>5. states'[6].bound = d /\ d.output = Sealed
    BY <1>1, <1>5, <1>11, <2>1 DEF ReleaseInv, RecordsAreDue
  <2>6. disclosed
    BY <1>11, WholeIsThere DEF ReleaseInv, RecordsAreBacked, DisclosedIsEligible, Reached
  <2>7. Promise!Conclude
    BY <1>1, <2>2, <2>3, <2>4, <2>5, <2>6 DEF Promise!Conclude
  <2> QED
    BY <2>7 DEF Promise!Next
<1>12. n \in {0, 1} \/ n = 2 \/ n = 3 \/ n = 4 \/ n = 5
  <2>1. c \in Commands
    BY <1>2
  <2> HIDE DEF c, n
  <2> QED
    BY <1>3, <1>4, <2>1 DEF Commands
<1> QED
  BY <1>7, <1>8, <1>9, <1>10, <1>11, <1>12

LEMMA NextPromise ==
  ReleaseInv /\ ReleaseInv' /\ [Next]_vars => Promise!Next \/ UNCHANGED Promise!vars
<1> SUFFICES ASSUME ReleaseInv, ReleaseInv', [Next]_vars
             PROVE  Promise!Next \/ UNCHANGED Promise!vars
  OBVIOUS
<1>1. ASSUME NEW p \in Operators, Operate(p)
      PROVE  Promise!Next \/ UNCHANGED Promise!vars
  <2>1. CASE \/ \E c \in Commands : Start(p, c) \/ Observe(p, c)
             \/ Refuse(p) \/ Withdraw(p)
    BY <2>1, PromiseStutters DEF Start, Observe, Refuse, Withdraw
  <2>2. CASE WriteArtefact(p) \/ WriteFails(p) \/ OperatorDies(p)
    BY <2>2, WriterPromise
  <2>3. CASE AppendState(p)
    BY <2>3, AppendPromise
  <2> QED
    BY <1>1, <2>1, <2>2, <2>3 DEF Operate, Advance
<1>2. ASSUME NEW l \in Launchers, Isolate(l)
      PROVE  UNCHANGED Promise!vars
  <2>1. states' = states /\ disclosed' = disclosed
    BY <1>2 DEF Isolate, LaunchContainer, OpenOutput, MaterializePart, Attest, LauncherDies
  <2> QED
    BY <2>1, PromiseStutters
<1>3. ASSUME (\E s \in Scorers : Rate(s)) \/ Alter \/ UNCHANGED vars
      PROVE  UNCHANGED Promise!vars
  <2>1. states' = states /\ disclosed' = disclosed
    BY <1>3 DEF Rate, ScorerEvaluates, ScorerChecks, ScorerOpens, ScorerWrites, ScorerDies,
                Alter, vars
  <2> QED
    BY <2>1, PromiseStutters
<1> QED
  BY <1>1, <1>2, <1>3 DEF Next

\* A release never discloses the oracle before a seal or over a void run, and
\* its result is of what was sealed: it implements SealedDisclosure.
THEOREM ReleaseKeepsPromise == Spec => ImplementsPromise
<1>1. Init => Promise!Init
  BY DEF Init, Promise!Init, Reached, State, Artefacts
<1>2. ReleaseInv /\ ReleaseInv' /\ [Next]_vars => Promise!Next \/ UNCHANGED Promise!vars
  BY NextPromise
<1> QED
  BY <1>1, <1>2, ReleaseInvariant, PTL DEF Spec, ImplementsPromise, Promise!Spec
=============================================================================

------------------------- MODULE ReleaseOutputProofs -------------------------
(***************************************************************************)
(* Proofs about the outputs EvaluationRelease releases: as long as nobody  *)
(* else touches the files of the run, what was found eligible is the whole *)
(* output of one container, however many launchers ran and wherever they,  *)
(* the operators or the scorer died.                                       *)
(*                                                                         *)
(* OutputInv says who wrote which part of the output, and that it is       *)
(* complete once an attestation is; it is inductive on top of ReleaseInv.  *)
(***************************************************************************)
EXTENDS EvaluationReleaseProofs

-----------------------------------------------------------------------------
(* The inductive invariant.                                                *)

\* The whole output of one container.
WrittenBy(l) == [q \in Parts |-> l]

\* A launcher has written the parts before the one it is at.
OutputsAreOwned ==
  \A l \in Launchers :
    /\ launch[l].phase = "rest" => output["assisted"] = l
    /\ launch[l].phase \in {"attest", "done"} => output = WrittenBy(l)

\* What is attested is there, whole, and of one container.
AttestedIsOne ==
  files["attestation"] \in Attestation =>
    /\ output = files["attestation"].inventory
    /\ \E l \in Launchers : output = WrittenBy(l)

\* Verdict v is of the output that is sealed and attested.
Judged(v) ==
  /\ PackBound /\ SealHolds /\ AttestationProves
  /\ v \in Verdicts(output)

JudgedIsAttested ==
  /\ \A p \in Operators : job[p].cmd = "verify-eligibility" =>
       PackBound /\ (job[p].step = "append" => Judged(job[p].data))
  /\ Reached(4) => Judged(states[4].bound)

OutputInv ==
  alterations = 0 => OutputsAreOwned /\ AttestedIsOne /\ JudgedIsAttested

-----------------------------------------------------------------------------
(* What no step undoes.                                                    *)

\* A launcher is told from every file that is not one.
LEMMA LaunchersAreTold ==
  ASSUME NEW l \in Launchers
  PROVE  l # NoFile /\ l # TornFile /\ l # Altered
BY ReleaseAssumption

LEMMA AttestationIsTold ==
  NoFile \notin Attestation /\ TornFile \notin Attestation
BY FilesAreTold DEF Written

\* Records are appended to the chain only.
LEMMA ChainGrows ==
  ASSUME ReleaseInv, [Next]_vars
  PROVE  /\ Len(states) \in Nat /\ Len(states') \in Nat
         /\ Len(states') >= Len(states)
         /\ \A i \in 1..Len(states) : states'[i] = states[i]
<1>1. IsSequence(states) /\ Len(states) \in Nat
  BY StateIsLength DEF ReleaseInv, TypeOK
<1>2. CASE states' = states
  BY <1>1, <1>2
<1>3. CASE \E x : states' = Append(states, x)
  BY <1>1, <1>3, AppendRecord
<1>4. states' = states \/ \E x : states' = Append(states, x)
  BY DEF Next, vars, Operate, Advance, Start, Observe, Refuse, WriteArtefact, WriteFails, Withdraw,
         AppendState, OperatorDies, Isolate, LaunchContainer, OpenOutput,
         MaterializePart, Attest, LauncherDies, Rate, ScorerEvaluates, ScorerChecks,
     ScorerOpens, ScorerWrites, ScorerDies, Alter
<1> QED
  BY <1>2, <1>3, <1>4

\* Without an alteration, the pack stays, and so does each part of the output
\* that is there.
LEMMA UnalteredStep ==
  ASSUME ReleaseInv, [Next]_vars, alterations' = 0
  PROVE  /\ alterations = 0 /\ pack' = pack
         /\ \A q \in Parts : output[q] # NoFile => output'[q] = output[q]
<1>1. alterations \in Nat /\ output \in Inventory
  BY Typed, ReleaseAssumption
<1>2. CASE UNCHANGED <<pack, output, alterations>>
  BY <1>2
<1>3. CASE \E l \in Launchers : MaterializePart(l, "assisted") \/ MaterializePart(l, "rest")
  <2>1. UNCHANGED <<pack, alterations>>
    BY <1>3 DEF MaterializePart
  <2>2. \E q \in Parts : \E v : output' = output
          \/ (output[q] = NoFile /\ output' = [output EXCEPT ![q] = v])
    BY <1>3 DEF MaterializePart, Parts
  <2> QED
    BY <1>1, <2>1, <2>2 DEF Inventory
<1>4. CASE \E l \in Launchers : LauncherDies(l)
  <2>1. UNCHANGED <<pack, alterations>>
    BY <1>4 DEF LauncherDies
  <2>2. \E q \in Parts : \E v : output' = output
          \/ (output[q] = NoFile /\ output' = [output EXCEPT ![q] = v])
    BY <1>4 DEF LauncherDies, Parts
  <2> QED
    BY <1>1, <2>1, <2>2 DEF Inventory
<1>5. ~Alter
  BY <1>1 DEF Alter
<1> QED
  BY <1>2, <1>3, <1>4, <1>5 DEF Next, vars, Operate, Advance, Start, Observe, Refuse,
     WriteArtefact, WriteFails, Withdraw, AppendState, OperatorDies, Isolate, LaunchContainer, OpenOutput,
     Attest, Rate, ScorerEvaluates, ScorerChecks,
     ScorerOpens, ScorerWrites, ScorerDies, Parts

\* An attestation that is there is not written over.
LEMMA AttestationKept ==
  ASSUME ReleaseInv, [Next]_vars
  PROVE  \/ files'["attestation"] = files["attestation"]
         \/ /\ files["attestation"] = NoFile
            /\ files'["attestation"] = TornFile
         \/ \E l \in Launchers : Attest(l) /\ files["attestation"] = NoFile
<1>1. DOMAIN files = Artefacts \cup {"attestation"} /\ "attestation" \notin Artefacts
      /\ "score" \in Artefacts
  BY Typed
<1>2. ASSUME NEW a \in Artefacts, NEW v, files' = [files EXCEPT ![a] = v]
      PROVE  files'["attestation"] = files["attestation"]
  BY <1>1, <1>2
<1>3. CASE files' = files
  BY <1>3
<1>4. CASE \E p \in Operators : WriteArtefact(p) \/ WriteFails(p) \/ OperatorDies(p)
  BY <1>2, <1>3, <1>4 DEF WriteArtefact, WriteFails, OperatorDies
<1>4a. CASE \E p \in Operators : Withdraw(p)
  <2>1. PICK p \in Operators : Withdraw(p)
    BY <1>4a
  <2>2. job[p].data \in Artefacts
    BY <2>1, Withdrawn
  <2> QED
    BY <1>2, <2>1, <2>2 DEF Withdraw
<1>5. CASE \E s \in Scorers : Rate(s)
  BY <1>1, <1>2, <1>3, <1>5
     DEF Rate, ScorerEvaluates, ScorerChecks, ScorerOpens, ScorerWrites, ScorerDies
<1>6. CASE \E l \in Launchers : LauncherDies(l)
  BY <1>1, <1>3, <1>6 DEF LauncherDies
<1>7. CASE \E l \in Launchers : Attest(l)
  BY <1>3, <1>7 DEF Attest
<1> QED
  BY <1>3, <1>4, <1>4a, <1>5, <1>6, <1>7 DEF Next, vars, Operate, Advance, Start, Observe,
     Refuse, AppendState, Isolate, LaunchContainer, OpenOutput, MaterializePart, Alter

\* What the first record binds stays bound.
LEMMA PackStaysBound ==
  ASSUME ReleaseInv, ReleaseInv', [Next]_vars, pack' = pack, PackBound
  PROVE  PackBound' /\ files'["preparation"] = files["preparation"]
<1>1. Reached(1)' /\ states'[1] = states[1]
  BY ChainGrows DEF PackBound, Reached
<1>2. files'["preparation"] = states'[1].bound
  BY <1>1 DEF ReleaseInv, RecordsAreBacked
<1> QED
  BY <1>1, <1>2 DEF PackBound

\* A verdict stands while its output does.
LEMMA VerdictStands ==
  ASSUME ReleaseInv, ReleaseInv', [Next]_vars, pack' = pack, output' = output,
         NEW v, Judged(v)
  PROVE  PackBound' /\ SealHolds' /\ AttestationProves' /\ v \in Verdicts(output')
<1>1. PackBound' /\ files'["preparation"] = files["preparation"]
  BY PackStaysBound DEF Judged
<1>2. Reached(3)' /\ Sealed' = Sealed
  BY ChainGrows DEF Judged, SealHolds, Reached, Sealed
<1>3. files'["seal"] = Sealed'
  BY <1>2 DEF ReleaseInv, RecordsAreBacked, Sealed
<1>4. files'["seal"] = files["seal"]
  BY <1>2, <1>3 DEF Judged, SealHolds
<1>5. SealHolds'
  BY <1>2, <1>4 DEF Judged, SealHolds
<1>6. files["attestation"] \in Attestation
  BY DEF Judged, AttestationProves
<1>7. files'["attestation"] = files["attestation"]
  BY <1>6, AttestationKept, AttestationIsTold
<1> QED
  BY <1>1, <1>4, <1>5, <1>7 DEF Judged, AttestationProves

-----------------------------------------------------------------------------
(* The launcher.                                                           *)

LEMMA Entered ==
  ASSUME ReleaseInv, NEW l \in Launchers, NEW phase, Enter(l, phase)
  PROVE  /\ launch'[l].phase = phase
         /\ \A k \in Launchers : k # l => launch'[k] = launch[k]
<1>1. launch \in [Launchers -> Launched] /\ launch[l] \in Launched
  BY Typed
<1>2. launch[l] = [phase |-> launch[l].phase, image |-> launch[l].image]
  BY <1>1 DEF Launched
<1>3. [launch[l] EXCEPT !.phase = phase].phase = phase
  BY <1>2
<1> QED
  BY <1>1, <1>3 DEF Enter

\* A launcher that goes on has written the parts before.
LEMMA OwnedStep ==
  ASSUME ReleaseInv, ReleaseInv', [Next]_vars, OutputInv, alterations' = 0
  PROVE  OutputsAreOwned'
<1>1. /\ OutputsAreOwned /\ output \in Inventory /\ output' \in Inventory
      /\ DOMAIN launch = Launchers
      /\ \A q \in Parts : output[q] # NoFile => output'[q] = output[q]
  BY UnalteredStep, Typed DEF OutputInv, ReleaseInv, TypeOK
<1>2. \A l \in Launchers : output = WrittenBy(l) => output' = WrittenBy(l)
  BY <1>1, LaunchersAreTold DEF WrittenBy, Inventory
<1>3. \A l \in Launchers : output["assisted"] = l => output'["assisted"] = l
  BY <1>1, LaunchersAreTold DEF Parts
<1> SUFFICES ASSUME NEW k \in Launchers
             PROVE  /\ launch'[k].phase = "rest" => output'["assisted"] = k
                    /\ launch'[k].phase \in {"attest", "done"} => output' = WrittenBy(k)
  BY DEF OutputsAreOwned
<1>4. CASE launch'[k].phase = launch[k].phase
  BY <1>1, <1>2, <1>3, <1>4 DEF OutputsAreOwned
<1>5. CASE launch'[k].phase \notin {"rest", "attest", "done"}
  BY <1>5
<1>6. CASE MaterializePart(k, "assisted") /\ launch'[k].phase # "gone"
  <2>1. output' = [output EXCEPT !["assisted"] = k] /\ launch'[k].phase = "rest"
    BY <1>6, Entered DEF MaterializePart
  <2> QED
    BY <1>1, <1>6, <2>1 DEF Inventory, Parts
<1>7. CASE MaterializePart(k, "rest") /\ launch'[k].phase # "gone"
  <2>1. /\ launch[k].phase = "rest" /\ output' = [output EXCEPT !["rest"] = k]
        /\ launch'[k].phase = "attest"
    BY <1>7, Entered DEF MaterializePart
  <2>2. output["assisted"] = k
    BY <1>1, <2>1 DEF OutputsAreOwned
  <2>3. output'["assisted"] = k /\ output'["rest"] = k
    BY <1>1, <2>1, <2>2 DEF Inventory, Parts
  <2>4. output' = WrittenBy(k)
    BY <1>1, <2>3 DEF Inventory, Parts, WrittenBy
  <2> QED
    BY <2>1, <2>4
<1>8. CASE Attest(k)
  <2>1. output = WrittenBy(k)
    BY <1>1, <1>8 DEF Attest, OutputsAreOwned
  <2>2. launch'[k].phase \in {"done", "gone"}
    BY <1>8, Entered DEF Attest
  <2> QED
    BY <1>2, <2>1, <2>2
<1>9. CASE UNCHANGED launch
  BY <1>4, <1>9
<1>10. CASE \E l \in Launchers : Isolate(l) /\ l # k
  <2>1. PICK l \in Launchers : Isolate(l) /\ l # k
    BY <1>10
  <2>2. launch'[k] = launch[k]
    BY <1>1, <2>1, Entered DEF Isolate, LaunchContainer, OpenOutput, MaterializePart,
       Attest, LauncherDies
  <2> QED
    BY <1>4, <2>2
<1>11. CASE Isolate(k)
  <2>1. CASE \/ \E image \in Images : LaunchContainer(k, image)
             \/ OpenOutput(k) \/ LauncherDies(k)
    <3>1. launch'[k].phase \in {"running", "assisted", "gone"}
      BY <1>1, <2>1, Entered DEF LaunchContainer, OpenOutput, LauncherDies
    <3> QED
      BY <1>5, <3>1
  <2>2. CASE \E part \in Parts : MaterializePart(k, part)
    <3>1. CASE launch'[k].phase = "gone"
      BY <1>5, <3>1
    <3> QED
      BY <1>6, <1>7, <2>2, <3>1 DEF Parts
  <2> QED
    BY <1>8, <1>11, <2>1, <2>2 DEF Isolate
<1> QED
  BY <1>9, <1>10, <1>11 DEF Next, vars, Operate, Advance, Start, Observe, Refuse,
     WriteArtefact, WriteFails, Withdraw, AppendState, OperatorDies, Rate, ScorerEvaluates, ScorerChecks,
     ScorerOpens, ScorerWrites, ScorerDies, Alter

\* What is attested stays complete, and an attestation is of what its
\* launcher has written.
LEMMA AttestedStep ==
  ASSUME ReleaseInv, ReleaseInv', [Next]_vars, OutputInv, alterations' = 0
  PROVE  AttestedIsOne'
<1> SUFFICES ASSUME files'["attestation"] \in Attestation
             PROVE  /\ output' = files'["attestation"].inventory
                    /\ \E l \in Launchers : output' = WrittenBy(l)
  BY DEF AttestedIsOne
<1>1. /\ OutputsAreOwned /\ AttestedIsOne
      /\ output \in Inventory /\ output' \in Inventory
      /\ DOMAIN files = Artefacts \cup {"attestation"}
      /\ \A q \in Parts : output[q] # NoFile => output'[q] = output[q]
  BY UnalteredStep, Typed DEF OutputInv, ReleaseInv, TypeOK
<1>2. CASE files'["attestation"] = files["attestation"]
  <2>1. PICK l \in Launchers : output = WrittenBy(l)
    BY <1>1, <1>2 DEF AttestedIsOne
  <2>2. output' = output
    BY <1>1, <2>1, LaunchersAreTold DEF WrittenBy, Inventory
  <2> QED
    BY <1>1, <1>2, <2>1, <2>2 DEF AttestedIsOne
<1>3. CASE \E l \in Launchers : Attest(l) /\ files["attestation"] = NoFile
  <2>1. PICK l \in Launchers : Attest(l) /\ files["attestation"] = NoFile
    BY <1>3
  <2>2. launch[l].phase = "attest" /\ output' = output
        /\ files' = [files EXCEPT !["attestation"] =
             [image |-> launch[l].image, pack |-> pack, inventory |-> output]]
    BY <2>1 DEF Attest
  <2>3. files'["attestation"].inventory = output
    BY <1>1, <2>2
  <2> QED
    BY <1>1, <2>2, <2>3 DEF OutputsAreOwned
<1> QED
  BY <1>2, <1>3, AttestationKept, AttestationIsTold

-----------------------------------------------------------------------------
(* The verdict.                                                            *)

\* What is attested does not change any more.
LEMMA JudgedStays ==
  ASSUME ReleaseInv, ReleaseInv', [Next]_vars, OutputInv, alterations' = 0,
         NEW v, Judged(v)
  PROVE  PackBound' /\ SealHolds' /\ AttestationProves' /\ v \in Verdicts(output')
<1>1. /\ AttestedIsOne /\ output \in Inventory /\ output' \in Inventory
      /\ pack' = pack
      /\ \A q \in Parts : output[q] # NoFile => output'[q] = output[q]
  BY UnalteredStep, Typed DEF OutputInv, ReleaseInv, TypeOK
<1>2. PICK l \in Launchers : output = WrittenBy(l)
  BY <1>1 DEF AttestedIsOne, Judged, AttestationProves
<1>3. output' = output
  BY <1>1, <1>2, LaunchersAreTold DEF WrittenBy, Inventory
<1> QED
  BY <1>1, <1>3, VerdictStands

\* The replay reads the output that is sealed and attested.
LEMMA VerdictIsOfSeal ==
  ASSUME ReleaseInv, AttestedIsOne, NEW p \in Operators, PackBound,
         job[p].cmd = "verify-eligibility", NEW v \in VerdictRead
  PROVE  Judged(v)
<1>1. AttestationProves /\ v \in Verdicts(output)
  BY DEF VerdictRead
<1>2. State = Needs["verify-eligibility"] /\ "verify-eligibility" \in Commands
  BY Holder DEF Idle, Commands
<1>3. Len(states) = 3
  BY <1>2, CommandAt DEF ReleaseInv
<1>4. files["seal"] = Sealed /\ Sealed \in Inventory
  BY <1>3, BoundType DEF ReleaseInv, RecordsAreBacked, Reached, Sealed
<1>5. output = files["seal"]
  BY <1>1 DEF AttestationProves, AttestedIsOne
<1>6. SealHolds
  BY <1>3, <1>4, <1>5 DEF SealHolds, Reached
<1> QED
  BY <1>1, <1>6 DEF Judged

\* A command that starts, goes on or ends leaves the verdict it has to bind.
LEMMA CommandStep ==
  ASSUME ReleaseInv, ReleaseInv', [Next]_vars, OutputInv, alterations' = 0,
         NEW p \in Operators, job'[p].cmd = "verify-eligibility"
  PROVE  PackBound' /\ (job'[p].step = "append" => Judged(job[p].data)')
<1>1. /\ AttestedIsOne /\ JudgedIsAttested /\ pack' = pack
      /\ DOMAIN job = Operators
  BY UnalteredStep DEF OutputInv, ReleaseInv, TypeOK
<1>2. PICK d : d = job'[p].data
  OBVIOUS
<1>3. ASSUME PackBound, job'[p].step = "append" => Judged(d)
      PROVE  PackBound' /\ (job'[p].step = "append" => Judged(job[p].data)')
  <2>1. PackBound'
    BY <1>1, <1>3, PackStaysBound
  <2>2. ASSUME job'[p].step = "append"
        PROVE  PackBound' /\ SealHolds' /\ AttestationProves' /\ d \in Verdicts(output')
    BY <1>3, <2>2, JudgedStays
  <2> QED
    BY <1>2, <2>1, <2>2 DEF Judged
<1>4. CASE job'[p] = job[p]
  BY <1>1, <1>2, <1>3, <1>4 DEF JudgedIsAttested
<1>5. CASE job'[p] = Idle
  BY <1>5 DEF Idle
<1>6. CASE \E c \in Commands : Start(p, c)
  <2>1. PICK c \in Commands : Start(p, c)
    BY <1>6
  <2>2. job'[p] = [cmd |-> c, step |-> "work", data |-> NoData] /\ Continues(c)
    BY <1>1, <2>1 DEF Start
  <2>3. c = "verify-eligibility" /\ job'[p].step = "work"
    BY <2>2
  <2> QED
    BY <1>3, <2>2, <2>3 DEF Continues
<1>7. CASE \E c \in Commands : Observe(p, c)
  <2>1. PICK c \in Commands : Observe(p, c)
    BY <1>7
  <2>2. PICK v \in Read(c) :
          job' = [job EXCEPT ![p].data = v, ![p].step = FirstWrite[c]]
    BY <2>1 DEF Observe
  <2>3. job[p].cmd = c /\ job[p] # Idle /\ DOMAIN job[p] = {"cmd", "step", "data"}
    BY <2>1, Holder DEF Observe, Idle, Commands
  <2>4. job'[p].cmd = c /\ job'[p].data = v
    BY <1>1, <2>2, <2>3
  <2>5. c = "verify-eligibility" /\ v \in VerdictRead /\ d = v
    BY <1>2, <2>2, <2>4 DEF Read
  <2>6. PackBound
    BY <1>1, <2>3, <2>5 DEF JudgedIsAttested
  <2> QED
    BY <1>1, <1>3, <2>3, <2>5, <2>6, VerdictIsOfSeal
<1>8. CASE (WriteArtefact(p) \/ WriteFails(p)) /\ job'[p] # job[p] /\ job'[p] # Idle
  <2>1. job[p] # Idle /\ job[p].cmd # "verify-eligibility"
    BY <1>8, WriterOf DEF WriteArtefact, WriteFails, Artefacts
  <2>2. DOMAIN job[p] = {"cmd", "step", "data"}
    BY <2>1, Holder
  <2>3. \/ \E s : job' = [job EXCEPT ![p].step = s]
        \/ \E s, e : job' = [job EXCEPT ![p].step = s, ![p].data = e]
    BY <1>1, <1>8 DEF WriteArtefact, WriteFails, Finish
  <2>4. job'[p].cmd = job[p].cmd
    BY <1>1, <2>2, <2>3
  <2> QED
    BY <2>1, <2>4
<1>9. CASE Operate(p)
  BY <1>1, <1>4, <1>5, <1>6, <1>7, <1>8, <1>9 DEF Operate, Advance, Refuse, AppendState,
     Withdraw, OperatorDies, Finish
<1>10. CASE \E q \in Operators : q # p /\ Operate(q)
  <2>1. PICK q \in Operators : q # p /\ Operate(q)
    BY <1>10
  <2>2. job'[p] = job[p]
    BY <1>1, <2>1 DEF Operate, Advance, Start, Observe, Refuse, WriteArtefact, WriteFails, Withdraw, AppendState,
       OperatorDies, Finish
  <2> QED
    BY <1>4, <2>2
<1>11. CASE job' = job
  BY <1>4, <1>11
<1> QED
  BY <1>9, <1>10, <1>11 DEF Next, vars, Isolate, LaunchContainer, OpenOutput,
     MaterializePart, Attest, LauncherDies, Rate, ScorerEvaluates, ScorerChecks,
     ScorerOpens, ScorerWrites, ScorerDies, Alter

\* The verdict that is recorded is the one the command had to bind.
LEMMA RecordStep ==
  ASSUME ReleaseInv, ReleaseInv', [Next]_vars, OutputInv, alterations' = 0, Reached(4)'
  PROVE  Judged(states[4].bound)'
<1>1. JudgedIsAttested
  BY UnalteredStep DEF OutputInv
<1>2. PICK d : d = states'[4].bound
  OBVIOUS
<1>3. ASSUME Judged(d) PROVE Judged(states[4].bound)'
  <2>1. PackBound' /\ SealHolds' /\ AttestationProves' /\ d \in Verdicts(output')
    BY <1>3, JudgedStays
  <2> QED
    BY <1>2, <2>1 DEF Judged
<1>4. CASE Reached(4)
  <2>1. states'[4] = states[4]
    BY <1>4, ChainGrows DEF Reached
  <2> QED
    BY <1>1, <1>2, <1>3, <1>4, <2>1 DEF JudgedIsAttested
<1>5. CASE ~Reached(4)
  <2>1. states' # states
    BY <1>5 DEF Reached
  <2>2. PICK p \in Operators : AppendState(p)
    BY <2>1 DEF Next, vars, Operate, Advance, Start, Observe, Refuse, WriteArtefact,
       WriteFails, Withdraw, OperatorDies, Isolate, LaunchContainer, OpenOutput, MaterializePart, Attest,
       LauncherDies, Rate, ScorerEvaluates, ScorerChecks,
     ScorerOpens, ScorerWrites, ScorerDies, Alter
  <2> DEFINE c == job[p].cmd
             r == [state |-> Target(c, job[p].data), bound |-> job[p].data]
  <2>3. job[p].step = "append" /\ job[p] # Idle /\ states' = Append(states, r)
    BY <2>2 DEF AppendState, Idle
  <2>4. c \in Commands /\ State = Needs[c] /\ "append" \in Steps(c)
    BY <2>3, Holder
  <2>5. IsSequence(states) /\ Len(states) \in Nat
    BY StateIsLength DEF ReleaseInv, TypeOK
  <2>6. Len(states') = Len(states) + 1 /\ states'[Len(states) + 1] = r
    <3> HIDE DEF r
    <3> QED
      BY <2>3, <2>5, AppendRecord
  <2>7. Len(states) = 3 /\ states'[4].bound = job[p].data
    <3>1. Len(states) = 3
      <4>1. Len(states') >= 4 /\ ~(Len(states) >= 4)
        BY <1>5 DEF Reached
      <4>2. \A n, m \in Nat : m = n + 1 /\ m >= 4 /\ ~(n >= 4) => n = 3
        OBVIOUS
      <4>3. Len(states') = Len(states) + 1 /\ Len(states') \in Nat
        BY <2>6, ChainGrows
      <4> QED
        BY <2>5, <4>1, <4>2, <4>3
    <3>2. r.bound = job[p].data
      OBVIOUS
    <3> HIDE DEF r
    <3> QED
      BY <2>6, <3>1, <3>2
  <2>8. c = "verify-eligibility"
    <3>1. c # "regression"
      BY <2>4 DEF Steps, FirstWrite, Commands
    <3>2. /\ c = "prepare" => Len(states) = 0
          /\ c = "prepare-freeze" => Len(states) = 1
          /\ c = "freeze" => Len(states) = 2
          /\ c = "release-oracle" => Len(states) = 4
          /\ c = "score" => Len(states) = 5
      BY <2>4, CommandAt DEF ReleaseInv
    <3> HIDE DEF c
    <3> QED
      BY <2>4, <2>7, <3>1, <3>2 DEF Commands
  <2>9. Judged(job[p].data)
    BY <1>1, <2>3, <2>8 DEF JudgedIsAttested
  <2> QED
    BY <1>2, <1>3, <2>7, <2>9
<1> QED
  BY <1>4, <1>5

-----------------------------------------------------------------------------
(* The invariant, and what follows.                                        *)

LEMMA InitOutput == Init => OutputInv
<1> SUFFICES ASSUME Init PROVE OutputInv
  OBVIOUS
<1>1. OutputsAreOwned
  BY DEF Init, OutputsAreOwned
<1>2. AttestedIsOne
  BY AttestationIsTold DEF Init, AttestedIsOne
<1>3. JudgedIsAttested
  BY DEF Init, JudgedIsAttested, Idle, Reached
<1> QED
  BY <1>1, <1>2, <1>3 DEF OutputInv

LEMMA NextOutput == ReleaseInv /\ ReleaseInv' /\ OutputInv /\ [Next]_vars => OutputInv'
<1> SUFFICES ASSUME ReleaseInv, ReleaseInv', OutputInv, [Next]_vars, alterations' = 0
             PROVE  OutputsAreOwned' /\ AttestedIsOne' /\ JudgedIsAttested'
  BY DEF OutputInv
<1>1. JudgedIsAttested'
  BY CommandStep, RecordStep DEF JudgedIsAttested
<1> QED
  BY <1>1, OwnedStep, AttestedStep

THEOREM OutputInvariant == Spec => []OutputInv
BY InitOutput, NextOutput, ReleaseInvariant, PTL DEF Spec

\* What the replay makes of the output of one container is told by whether
\* the container breaks a control.
LEMMA VerdictOfOne ==
  ASSUME NEW l \in Launchers, NEW v \in Verdicts(WrittenBy(l))
  PROVE  v = IF l \in Flawed THEN "flawed" ELSE "clean"
<1>1. /\ \A q \in Parts : Whole(WrittenBy(l)[q]) /\ WrittenBy(l)[q] # Altered
      /\ WrittenBy(l)["assisted"] = l
  BY LaunchersAreTold DEF WrittenBy, Whole, Parts
<1> QED
  BY <1>1 DEF Verdicts

\* What the state of a judged chain is.
LEMMA StateOfJudged ==
  ASSUME ReleaseInv, Reached(4)
  PROVE  /\ State = "invalidated" <=> states[4].bound = "flawed"
         /\ State \in {"eligibility-verified", "oracle-released", "scored", "invalidated"}
<1>1. Len(states) \in 4..6 /\ DOMAIN states = 1..Len(states)
  BY StateIsLength DEF Reached, ReleaseInv
<1>2. states[4].state = IF states[4].bound = "flawed" THEN "invalidated"
                                                      ELSE "eligibility-verified"
  <2>1. 4 \in DOMAIN states /\ Recorder[4] = "verify-eligibility"
    BY <1>1 DEF Recorder
  <2>2. states[4].state = Target("verify-eligibility", states[4].bound)
    BY <2>1 DEF ReleaseInv, TypeOK
  <2> QED
    BY <2>2 DEF Target
<1>3. CASE Len(states) = 4
  <2>1. State = states[4].state
    BY <1>3 DEF State
  <2> QED
    BY <1>2, <2>1
<1>4. CASE Len(states) \in {5, 6}
  <2>1. State \in {"oracle-released", "scored"}
    BY <1>4, StateIsLength DEF ReleaseInv
  <2>2. files["oracle"] # NoFile
    <3>1. Reached(5)
      <4>1. Len(states) \in Nat /\ Len(states) >= 5
        BY <1>1, <1>4
      <4> QED
        BY <4>1 DEF Reached
    <3> QED
      BY <3>1, WholeIsThere DEF ReleaseInv, RecordsAreBacked
  <2>3. states[4].state = "eligibility-verified"
    BY <2>2 DEF ReleaseInv, DisclosedIsEligible
  <2> QED
    BY <1>2, <2>1, <2>3
<1> QED
  BY <1>1, <1>3, <1>4

\* Unless someone else changed the files of the run, what was found eligible,
\* and all that followed, is the whole output of one container that broke no
\* control, run in the prepared image, and can be proved again at any time:
\* whatever launchers raced for the output directory and died over it.
THEOREM EligibleOutputsAreOneRun == Spec => []EligibleIsOneContainer
<1>1. ReleaseInv /\ OutputInv => EligibleIsOneContainer
  <2> SUFFICES ASSUME ReleaseInv, OutputInv, alterations = 0, Reached(4)
      PROVE  /\ \E l \in Launchers : Sealed = [q \in Parts |-> l]
                                     /\ (l \in Flawed <=> State = "invalidated")
             /\ State # "invalidated" => Materialized
    BY DEF EligibleIsOneContainer
  <2>1. AttestedIsOne /\ Judged(states[4].bound)
    BY DEF OutputInv, JudgedIsAttested
  <2>2. PICK l \in Launchers : output = WrittenBy(l)
    BY <2>1 DEF Judged, AttestationProves, AttestedIsOne
  <2>3. Sealed = WrittenBy(l)
    BY <2>1, <2>2 DEF Judged, SealHolds
  <2>4. states[4].bound = IF l \in Flawed THEN "flawed" ELSE "clean"
    BY <2>1, <2>2, VerdictOfOne DEF Judged
  <2>5. l \in Flawed <=> State = "invalidated"
    BY <2>4, StateOfJudged
  <2>6. State # "invalidated" => Materialized
    BY <2>1, StateOfJudged DEF Judged, Materialized
  <2> QED
    BY <2>3, <2>5, <2>6 DEF WrittenBy
<1> QED
  BY <1>1, ReleaseInvariant, OutputInvariant, PTL
=============================================================================

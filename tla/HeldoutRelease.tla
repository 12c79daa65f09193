--------------------------- MODULE HeldoutRelease ---------------------------
(***************************************************************************)
(* The held-out protocol of Stage 1: a case pack is generated with a       *)
(* private oracle, a run is prepared and committed, the operator's records *)
(* are frozen by a commit of their own, only then is the oracle released,  *)
(* and only the frozen records are scored (scripts/stage1_heldout.py,      *)
(* stage1_heldout_release.py, score_stage1_heldout_manual.py and the parts *)
(* of score_stage1_manual.py these use).                                   *)
(*                                                                         *)
(* The programs run concurrently on one working tree, can fail or be       *)
(* killed at every write, and read some files more than once; people edit  *)
(* and commit files at any time.  Every file of a pack is determined by    *)
(* the generation material, which stands for its bytes.  The clock is the  *)
(* number of commits.                                                      *)
(***************************************************************************)
EXTENDS Naturals, Sequences, FiniteSets

CONSTANTS
  Runs,        \* runs, each in a directory of its own
  Materials,   \* generation materials
  Generators,  \* processes that generate the pack
  Releasers,   \* processes that release the oracle
  Handlings,   \* what records report: when handling started and ended
  NoFile, Torn, Blank, None, \* no file, an incomplete one, the template, nothing
  MaxGenerations, \* bound: times the pack is generated
  MaxCommits,  \* bound: commits of the repository
  MaxEdits     \* bound: what people change by hand besides records

ASSUME HeldoutAssumption ==
  /\ Handlings \subseteq Nat \X Nat
  /\ MaxGenerations \in Nat /\ MaxCommits \in Nat \ {0} /\ MaxEdits \in Nat
  /\ NoFile # Torn /\ {NoFile, Torn} \cap Materials = {}

VARIABLES
  pack,        \* files of the pack, public and private
  run,         \* run manifest in each run directory
  records,     \* records file in each run directory
  oracle,      \* the released oracle
  release,     \* the release manifest
  invalidated, \* whether the pack was declared invalid
  commits,     \* the repository
  generator,   \* what each generator is doing
  generations, \* times the generator was started
  relied,      \* files taken as given while their writer had them open
  undercut,    \* history: such a file was removed by its writer
  releaser,    \* what each releaser is doing
  scorer,      \* what the scorer is doing
  score,       \* the summary last written
  edits        \* changes by hand so far

generation == <<generator, generations, relied, undercut>>
files == <<pack, run, records, oracle, release>>
vars  == <<files, invalidated, commits, generation, releaser, scorer, score, edits>>

\* The files of a pack in the order in which they are written.
\* "cases" stands for the operator guide too; the private manifest is left out,
\* which is written last and never read.
Row == <<"material", "cases", "manifest", "oracle">>
Files == {Row[i] : i \in DOMAIN Row}
Public == {"cases", "manifest"}

\* The files all later ones are derived from or follow without a second look.
Premises == {"material", "cases"}

Now == Len(commits)

-----------------------------------------------------------------------------
(* Generation.                                                             *)

\* A published pack is not generated anew without its private material.
MayGenerate == pack["manifest"] # NoFile => pack["material"] # NoFile

\* A generator has the file open: it created it and may still remove it.
Opened(f) ==
  \E g \in Generators :
    generator[g] # None /\ generator[g].open /\ Row[generator[g].next] = f

\* A file found there is taken as given, even while its writer has it open.
TakesAsGiven(f) == relied' = IF Opened(f) THEN relied \cup ({f} \cap Premises) ELSE relied

\* The private material is read, or there is none and some is made up.
StartGenerate(g) ==
  /\ generator[g] = None /\ generations < MaxGenerations
  /\ generations' = generations + 1
  /\ MayGenerate
  /\ \E m \in Materials :
       /\ pack["material"] \in {m, NoFile}
       /\ generator' = [generator EXCEPT ![g] =
            [next |-> IF pack["material"] = NoFile THEN 1 ELSE 2, open |-> FALSE, material |-> m]]
  /\ TakesAsGiven("material")
  /\ UNCHANGED <<files, invalidated, commits, undercut, releaser, scorer, score, edits>>

\* Mutant: an existing file is taken for the one to be written.
MutSame(file, m) == file # NoFile

\* An existing file must have the very bytes.
Same(file, m) == file = m

\* What comes after a file: the next one, or the end.
Advanced(w) == IF w.next = Len(Row) THEN None ELSE [w EXCEPT !.next = @ + 1, !.open = FALSE]

\* _write_new_or_equal.  A file is created, its bytes become visible, it is
\* closed; one that is there is compared, whoever has it open, and refused if
\* it differs.
WriteNewOrEqual(g) ==
  /\ generator[g] # None
  /\ LET w == generator[g]
         f == Row[w.next]
         Then(next) == generator' = [generator EXCEPT ![g] = next]
     IN  \/ /\ ~w.open /\ pack[f] = NoFile
            /\ pack' = [pack EXCEPT ![f] = Torn] /\ Then([w EXCEPT !.open = TRUE])
            /\ UNCHANGED relied
         \/ /\ w.open /\ pack[f] = Torn
            /\ pack' = [pack EXCEPT ![f] = w.material]
            /\ UNCHANGED <<generator, relied>>
         \/ /\ w.open /\ pack[f] # Torn
            /\ Then(Advanced(w)) /\ relied' = relied \ {f}
            /\ UNCHANGED pack
         \/ /\ ~w.open /\ pack[f] # NoFile
            /\ IF Same(pack[f], w.material)
               THEN Then(Advanced(w)) /\ TakesAsGiven(f)
               ELSE Then(None) /\ UNCHANGED relied
            /\ UNCHANGED pack
  /\ UNCHANGED <<run, records, oracle, release, invalidated, commits, generations, undercut, releaser, scorer, score, edits>>

\* The write or the close fails and the file is removed, its bytes visible or
\* not; or the process is killed.
GeneratorStops(g) ==
  /\ generator[g] # None
  /\ generator' = [generator EXCEPT ![g] = None]
  /\ LET w == generator[g]
         f == Row[w.next]
     IN  /\ \/ /\ w.open
               /\ pack' = [pack EXCEPT ![f] = NoFile]
               /\ undercut' = (undercut \/ f \in relied)
            \/ UNCHANGED <<pack, undercut>>
         /\ relied' = IF w.open THEN relied \ {f} ELSE relied
  /\ UNCHANGED <<run, records, oracle, release, invalidated, commits, generations, releaser, scorer, score, edits>>

-----------------------------------------------------------------------------
(* The run and its records.                                                *)

\* The public files are there and are of one material.
PublicPack(m) == \A f \in Public : pack[f] = m

\* A new run directory appears at once, by a rename.
Prepare(r) ==
  /\ run[r] = NoFile
  /\ ~invalidated
  /\ oracle = NoFile
  /\ \E m \in Materials :
       /\ PublicPack(m)
       /\ run' = [run EXCEPT ![r] = [run |-> r, version |-> 0, pack |-> m, prepared |-> Now]]
  /\ records' = [records EXCEPT ![r] = Blank]
  /\ UNCHANGED <<pack, oracle, release, invalidated, commits, generation, releaser, scorer, score, edits>>

Whole(file) == file \notin {NoFile, Torn}
Released == Whole(oracle) /\ Whole(release)

\* The operator fills in, or changes, the records; what they write once the
\* oracle is released differs from what they wrote without it.
Handle(r) ==
  /\ run[r] # NoFile
  /\ \E h \in Handlings :
       records' = [records EXCEPT ![r] =
         [start |-> h[1], end |-> h[2], blind |-> ~Released]]
  /\ UNCHANGED <<pack, run, oracle, release, invalidated, commits, generation, releaser, scorer, score, edits>>

\* A run manifest is changed by hand, its run_id for one.
EditRun(r) ==
  /\ run[r] # NoFile /\ edits < MaxEdits
  /\ edits' = edits + 1
  /\ run' = [run EXCEPT ![r].version = edits']
  /\ UNCHANGED <<pack, records, oracle, release, invalidated, commits, generation, releaser, scorer, score>>

\* The tracked files as they are in the working tree.
Tree ==
  [pack |-> [f \in Public |-> pack[f]], run |-> run, records |-> records,
   oracle |-> oracle, release |-> release]

\* All changes, or only those to the records of a run, are committed on top of
\* the last commit.
Commit ==
  /\ Now < MaxCommits
  /\ LET old == commits[Now] IN
     \E new \in {Tree} \cup {[old EXCEPT !.records[r] = records[r]] : r \in Runs} :
       new # old /\ commits' = Append(commits, new)
  /\ UNCHANGED <<files, invalidated, generation, releaser, scorer, score, edits>>

\* The pack is declared invalid by hand, in public and in the run directory; one
\* declaration without the other stops the programs as well.
Invalidate ==
  /\ edits < MaxEdits /\ edits' = edits + 1
  /\ \E r \in Runs : run[r] # NoFile
  /\ invalidated' = TRUE
  /\ UNCHANGED <<files, commits, generation, releaser, scorer, score>>

-----------------------------------------------------------------------------
(* The freeze of the records (load_records_freeze_anchor): two commits of  *)
(* which the second changes nothing but the records, from the template to  *)
(* completed ones, before any oracle is in the repository.                 *)

\* Records with every field filled in, which did not end before they started.
Normal(rec) == rec \notin {NoFile, Blank} /\ rec.start <= rec.end

\* And not started before the run was prepared.
CompletedAfter(rec, meta) == Normal(rec) /\ meta.prepared <= rec.start

\* Mutant: any descendant will do, the preparation itself included, and
\* whether the records were completed is not asked.
MutFrozen(r, prep, rec, meta) ==
  /\ prep <= rec
  /\ \A f \in Public : pack[f] # NoFile
  /\ \A t \in {commits[prep], commits[rec]} :
       /\ t.run[r] = run[r] /\ t.pack = Tree.pack
       /\ t.oracle = NoFile /\ t.release = NoFile

Frozen(r, prep, rec, meta) ==
  LET P == commits[prep]
      R == commits[rec]
  IN  /\ rec = prep + 1
      /\ \A f \in Public : pack[f] # NoFile
      /\ \A t \in {P, R} :
           /\ t.run[r] = run[r] /\ t.pack = Tree.pack
           /\ t.oracle = NoFile /\ t.release = NoFile
      /\ R = [P EXCEPT !.records[r] = R.records[r]]
      /\ P.records[r] = Blank /\ CompletedAfter(R.records[r], meta)
      /\ prep <= R.records[r].start /\ R.records[r].end <= rec

-----------------------------------------------------------------------------
(* Release.                                                                *)

\* The run is bound to the public pack.
Bound(meta) == PublicPack(meta.pack)

\* The private material gives the public pack and the private oracle.
Reproduces(meta) == pack["material"] = meta.pack /\ pack["oracle"] = meta.pack

\* The manifest is read, and public and private pack are compared with it.
Bind(p, r) ==
  /\ releaser[p] = None
  /\ run[r] # NoFile /\ ~invalidated
  /\ Bound(run[r]) /\ Reproduces(run[r])
  /\ releaser' = [releaser EXCEPT ![p] = [step |-> "bound", run |-> r, meta |-> run[r], at |-> Now]]
  /\ UNCHANGED <<files, invalidated, commits, generation, scorer, score, edits>>

\* The release manifest for the records frozen by a commit.
Release(c, prep, rec) ==
  [run |-> c.meta.run, version |-> c.meta.version, material |-> c.meta.pack,
   prep |-> prep, rec |-> rec, at |-> c.at, records |-> commits[rec].records[c.run]]

\* The manifest is read once more and looked up in the two commits named.
Anchor(p) ==
  /\ releaser[p] # None /\ releaser[p].step = "bound"
  /\ LET c == releaser[p] IN
     \E prep, rec \in 1..Now :
       /\ Frozen(c.run, prep, rec, c.meta)
       /\ rec <= c.at
       /\ releaser' = [releaser EXCEPT ![p] =
            [step |-> "anchored", oracle |-> c.meta.pack, release |-> Release(c, prep, rec)]]
  /\ UNCHANGED <<files, invalidated, commits, generation, scorer, score, edits>>

At(p, step) == releaser[p] # None /\ releaser[p].step = step
Step(p, step) == releaser' = [releaser EXCEPT ![p].step = step]
Stop(p) == releaser' = [releaser EXCEPT ![p] = None]

\* The first file of the pair is created, or is there already.
CreateOracle(p) ==
  /\ At(p, "anchored")
  /\ \/ oracle = NoFile /\ oracle' = Torn /\ Step(p, "oracle open")
     \/ oracle # NoFile /\ UNCHANGED oracle /\ Stop(p)
  /\ UNCHANGED <<pack, run, records, release, invalidated, commits, generation, scorer, score, edits>>

FillOracle(p) ==
  /\ At(p, "oracle open")
  /\ oracle' = releaser[p].oracle
  /\ Step(p, "oracle written")
  /\ UNCHANGED <<pack, run, records, release, invalidated, commits, generation, scorer, score, edits>>

\* If the second is there already, the first is removed.
CreateRelease(p) ==
  /\ At(p, "oracle written")
  /\ \/ release = NoFile /\ release' = Torn /\ Step(p, "release open") /\ UNCHANGED oracle
     \/ release # NoFile /\ oracle' = NoFile /\ Stop(p) /\ UNCHANGED release
  /\ UNCHANGED <<pack, run, records, invalidated, commits, generation, scorer, score, edits>>

FillRelease(p) ==
  /\ At(p, "release open")
  /\ release' = releaser[p].release
  /\ Stop(p)
  /\ UNCHANGED <<pack, run, records, oracle, invalidated, commits, generation, scorer, score, edits>>

\* A write fails: the files it created are removed, one after the other.
RollBack(p) ==
  /\ \/ /\ At(p, "oracle open") \/ At(p, "oracle written")
        /\ oracle' = NoFile /\ Stop(p) /\ UNCHANGED release
     \/ /\ At(p, "release open")
        /\ oracle' = NoFile /\ Step(p, "rolling back") /\ UNCHANGED release
     \/ /\ At(p, "rolling back")
        /\ release' = NoFile /\ Stop(p) /\ UNCHANGED oracle
  /\ UNCHANGED <<pack, run, records, invalidated, commits, generation, scorer, score, edits>>

\* A check fails, or the process is killed.
ReleaserDies(p) ==
  /\ releaser[p] # None
  /\ Stop(p)
  /\ UNCHANGED <<files, invalidated, commits, generation, scorer, score, edits>>

-----------------------------------------------------------------------------
(* Scoring.                                                                *)

ReadRun(r) ==
  /\ scorer = None
  /\ run[r] # NoFile /\ ~invalidated
  /\ scorer' = [step |-> "read", run |-> r, meta |-> run[r]]
  /\ UNCHANGED <<files, invalidated, commits, generation, releaser, score, edits>>

\* Mutant: the records are not compared with those of the release.
MutMatches(meta, rec) ==
  /\ Bound(meta) /\ oracle = meta.pack
  /\ <<release.run, release.version>> = <<meta.run, meta.version>>
  /\ release.material = meta.pack
  /\ release.rec <= release.at

\* The snapshots agree with the run manifest and with the release.
Matches(meta, rec) ==
  /\ Bound(meta) /\ oracle = meta.pack
  /\ <<release.run, release.version>> = <<meta.run, meta.version>>
  /\ release.material = meta.pack
  /\ rec = release.records
  /\ release.rec <= release.at

\* All files are read.
Snapshot ==
  /\ scorer # None /\ scorer.step = "read"
  /\ Released
  /\ Matches(scorer.meta, records[scorer.run])
  /\ scorer' = [step |-> "matched", run |-> scorer.run, meta |-> scorer.meta,
                release |-> release, oracle |-> oracle, records |-> records[scorer.run]]
  /\ UNCHANGED <<files, invalidated, commits, generation, releaser, score, edits>>

\* The manifest and the records template of the preparation commit.
PreparationAnchor(r, prep) ==
  [commit |-> prep, manifest |-> commits[prep].run[r],
   template |-> commits[prep].records[r]]

AnchorHolds(anchor, meta, rec) ==
  anchor.manifest = meta /\ anchor.template = Blank /\ anchor.commit <= rec.start

\* What is scored, and what the summary says of its provenance.
Summary(c) ==
  [run |-> c.run, meta |-> c.meta, oracle |-> c.oracle, records |-> c.records,
   prep |-> c.release.prep, rec |-> c.release.rec, at |-> c.release.at]

\* The freeze is loaded again, and the summary of the records read before is
\* written.
ScoreRun ==
  /\ scorer # None /\ scorer.step = "matched"
  /\ LET rel == scorer.release IN
       /\ Frozen(scorer.run, rel.prep, rel.rec, scorer.meta)
       /\ commits[rel.rec].records[scorer.run] = rel.records
       /\ CompletedAfter(scorer.records, scorer.meta)
       /\ AnchorHolds(PreparationAnchor(scorer.run, rel.prep), scorer.meta, scorer.records)
  /\ score' = Summary(scorer)
  /\ scorer' = None
  /\ UNCHANGED <<files, invalidated, commits, generation, releaser, edits>>

\* A check fails, or the process is killed.
ScorerStops ==
  /\ scorer # None
  /\ scorer' = None
  /\ UNCHANGED <<files, invalidated, commits, generation, releaser, score, edits>>

-----------------------------------------------------------------------------
\* A repository without pack or runs.
Init ==
  /\ pack = [f \in Files |-> NoFile]
  /\ run = [r \in Runs |-> NoFile] /\ records = [r \in Runs |-> NoFile]
  /\ oracle = NoFile /\ release = NoFile
  /\ invalidated = FALSE
  /\ commits = <<Tree>>
  /\ generator = [g \in Generators |-> None]
  /\ relied = {} /\ undercut = FALSE
  /\ releaser = [p \in Releasers |-> None]
  /\ scorer = None /\ score = None
  /\ generations = 0 /\ edits = 0

Next ==
  \/ \E g \in Generators : StartGenerate(g) \/ WriteNewOrEqual(g) \/ GeneratorStops(g)
  \/ \E r \in Runs : Prepare(r) \/ Handle(r) \/ EditRun(r) \/ ReadRun(r)
  \/ Commit
  \/ Invalidate
  \/ \E p \in Releasers, r \in Runs : Bind(p, r)
  \/ \E p \in Releasers :
       \/ Anchor(p) \/ CreateOracle(p) \/ FillOracle(p) \/ CreateRelease(p) \/ FillRelease(p)
       \/ RollBack(p) \/ ReleaserDies(p)
  \/ Snapshot \/ ScoreRun \/ ScorerStops

Spec == Init /\ [][Next]_vars

-----------------------------------------------------------------------------
(* Correctness.                                                            *)

Missing == {NoFile, Torn}
CompletedRecords == [start : Nat, end : Nat, blind : BOOLEAN]
RunManifest ==
  [run : Runs, version : 0..MaxEdits, pack : Materials, prepared : 1..MaxCommits]
ReleaseManifest ==
  [run : Runs, version : 0..MaxEdits, material : Materials, prep : 1..MaxCommits,
   rec : 1..MaxCommits, at : 1..MaxCommits, records : CompletedRecords]
Trees ==
  [pack : [Public -> Materials \cup Missing], run : [Runs -> RunManifest \cup {NoFile}],
   records : [Runs -> CompletedRecords \cup {NoFile, Blank}],
   oracle : Materials \cup Missing, release : ReleaseManifest \cup Missing]

\* Types; a whole release manifest stands for completed records (load_-
\* records_freeze_anchor refuses the template).
TypeOK ==
  /\ pack \in [Files -> Materials \cup Missing]
  /\ Tree \in Trees
  /\ invalidated \in BOOLEAN
  /\ commits \in Seq(Trees) /\ Now \in 1..MaxCommits
  /\ generations \in 0..MaxGenerations /\ edits \in 0..MaxEdits
  /\ relied \subseteq Premises /\ undercut \in BOOLEAN

\* Once the public manifest is written, the pack it commits to is there and
\* can be reproduced: whoever wrote which file, wherever a generator failed or
\* was killed, and whichever two of them met, the cases and the private
\* material are whole and of its material, and the oracles are of no other
\* (_write_new_or_equal, generate_heldout_artifacts).  The one exception: a
\* generator found the material or the cases complete while their writer had
\* them open, went on, and the writer then failed and removed them
\* (stage1_heldout.py:471-476 and 483-488).
PackReproduces ==
  Whole(pack["manifest"]) /\ ~undercut =>
    /\ \A f \in Premises : pack[f] = pack["manifest"]
    /\ pack["oracle"] \in {pack["manifest"], NoFile, Torn}
    /\ oracle \in {pack["manifest"], NoFile, Torn}

\* What is scored was decided blind: the summary is about the very records
\* the freezing commit holds, entered after the preparation was committed and
\* before any oracle was released, for the manifest committed with the blank
\* template, and the oracle is the one that manifest commits to
\* (score_heldout_run, load_records_freeze_anchor, _write_release_pair).  The
\* committed cases are those of that oracle, except when they could be removed
\* under the reader, as above.
ScoredBlind ==
  score # None =>
    LET P == commits[score.prep]
        R == commits[score.rec]
        r == score.run
    IN  /\ score.rec = score.prep + 1
        /\ R.records[r] = score.records /\ score.records.blind
        /\ P.records[r] = Blank /\ P.run[r] = score.meta
        /\ {P.oracle, R.oracle, P.release, R.release} = {NoFile}
        /\ score.oracle = score.meta.pack
        /\ undercut \/ P.pack["cases"] = score.oracle
        /\ score.prep <= score.records.start /\ score.records.end <= score.rec
        /\ score.rec <= score.at
=============================================================================

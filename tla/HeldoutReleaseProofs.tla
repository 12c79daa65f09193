------------------------ MODULE HeldoutReleaseProofs ------------------------
(***************************************************************************)
(* Proofs about HeldoutRelease, for any runs, materials, generators and    *)
(* releasers and without bounds on what they do.  HeldoutInv is shown      *)
(* inductive, action by action; PackReproduces and ScoredBlind follow.     *)
(***************************************************************************)
EXTENDS HeldoutRelease, TLAPS

-----------------------------------------------------------------------------
(* The inductive invariant.                                                *)

Writing == [next : 1..4, open : BOOLEAN, material : Materials]
Steps == {"anchored", "oracle open", "oracle written", "release open", "rolling back"}
BoundJob == [step : {"bound"}, run : Runs, meta : RunManifest, at : 1..MaxCommits]
ReleaseJob == [step : Steps, oracle : Materials, release : ReleaseManifest]
ReadJob == [step : {"read"}, run : Runs, meta : RunManifest]
MatchedJob ==
  [step : {"matched"}, run : Runs, meta : RunManifest, release : ReleaseManifest,
   oracle : Materials, records : CompletedRecords]

\* What each process remembers.
JobsTyped ==
  /\ generator \in [Generators -> Writing \cup {None}]
  /\ releaser \in [Releasers -> BoundJob \cup ReleaseJob \cup {None}]
  /\ scorer \in ReadJob \cup MatchedJob \cup {None}

\* The file is whole, and if its writer removed it after all, that would be
\* noticed in "undercut".
Sound(f) == Whole(pack[f]) /\ (Opened(f) => f \in relied)

\* The materials a file may be counted on to be of: its own if it is sound, and
\* any once a file was removed that someone counted on.
Firm(f) == IF undercut THEN Materials ELSE IF Sound(f) THEN {pack[f]} ELSE {}

\* A later file of the pack is of the material of the first two.
PackOrder ==
  /\ \A j \in 2..4 : Whole(pack[Row[j]]) => pack[Row[j]] \in Firm("material")
  /\ \A j \in 3..4 : Whole(pack[Row[j]]) => pack[Row[j]] \in Firm("cases")

\* What a generator has left behind it, and the file it has open, which is its.
GeneratorsOK ==
  /\ \A g \in Generators : generator[g] # None =>
       LET w == generator[g] IN
       /\ w.open => pack[Row[w.next]] \in {Torn, w.material}
       /\ w.next > 1 => w.material \in Firm("material")
       /\ w.next > 2 => w.material \in Firm("cases")
  /\ \A g, h \in Generators :
       /\ generator[g] # None /\ generator[h] # None
       /\ generator[g].open /\ generator[h].open
       /\ generator[g].next = generator[h].next
       => g = h

\* The commits a release manifest names are there.
Names(rel) == rel.prep \in 1..Now /\ rel.rec \in 1..Now

\* What a releaser knows of the files at each of its steps.
ReleaserOK(p) ==
  LET c == releaser[p] IN
  /\ c.step = "bound" => c.meta.pack \in Firm("material")
  /\ c.step \in Steps =>
       c.oracle \in Firm("material") /\ Names(c.release) /\ c.release.rec <= c.release.at
  /\ c.step = "anchored" => c.release.records.blind \/ Released
  /\ c.step \in {"oracle open", "oracle written", "release open"} => c.release.records.blind
  /\ c.step = "oracle open" => oracle = Torn
  /\ c.step \in {"oracle written", "release open"} => oracle = c.oracle
  /\ c.step \in {"release open", "rolling back"} => release = Torn

\* Each of the two files has one writer at a time, and once both are whole
\* neither has any.
OneReleaser ==
  /\ \A p \in Releasers : releaser[p] # None => ReleaserOK(p)
  /\ \A p, q \in Releasers, S \in {{"oracle open", "oracle written", "release open"},
                                    {"release open", "rolling back"}} :
       /\ releaser[p] # None /\ releaser[q] # None
       /\ releaser[p].step \in S /\ releaser[q].step \in S
       => p = q
  /\ Whole(release) =>
       /\ Whole(oracle) /\ release.records.blind
       /\ Names(release) /\ release.rec <= release.at
       /\ \A p \in Releasers : releaser[p] # None => releaser[p].step # "oracle written"

\* The released oracle is that of the pack.
OracleOfPack == Whole(oracle) => oracle \in Firm("material")

\* Before a release all records are blind, those in the repository too.
BlindSoFar ==
  ~Released =>
    \A r \in Runs :
      /\ records[r] \notin {NoFile, Blank} => records[r].blind
      /\ \A i \in 1..Now :
           commits[i].records[r] \notin {NoFile, Blank} => commits[i].records[r].blind

\* What the scorer has matched.
ScorerOK ==
  scorer # None /\ scorer.step = "matched" =>
    /\ scorer.records = scorer.release.records /\ scorer.records.blind
    /\ scorer.oracle = scorer.meta.pack /\ scorer.oracle \in Firm("cases")
    /\ Names(scorer.release) /\ scorer.release.rec <= scorer.release.at

\* The summary is about records the repository has.
ScoreOK ==
  score # None => score.run \in Runs /\ Names(score)

HeldoutInv ==
  /\ TypeOK /\ JobsTyped
  /\ PackOrder /\ GeneratorsOK
  /\ OneReleaser /\ OracleOfPack
  /\ BlindSoFar /\ ScorerOK /\ ScoreOK /\ ScoredBlind

-----------------------------------------------------------------------------
(* What an action may change without anyone else noticing.                 *)

\* The pack has four files, written in this order.
LEMMA RowFacts ==
  /\ Row[1] = "material" /\ Row[2] = "cases" /\ Row[3] = "manifest" /\ Row[4] = "oracle"
  /\ DOMAIN Row = 1..4 /\ Len(Row) = 4
  /\ Files = {"material", "cases", "manifest", "oracle"}
  /\ \A i \in 1..4 : Row[i] \in Files
  /\ \A i, j \in 1..4 : Row[i] = Row[j] => i = j
<1>1. /\ Row[1] = "material" /\ Row[2] = "cases" /\ Row[3] = "manifest" /\ Row[4] = "oracle"
      /\ DOMAIN Row = 1..4 /\ Len(Row) = 4
  BY DEF Row
<1>2. Files = {"material", "cases", "manifest", "oracle"}
  BY <1>1 DEF Files
<1>3. \A i \in 1..4 : i = 1 \/ i = 2 \/ i = 3 \/ i = 4
  OBVIOUS
<1>4. \A i \in 1..4 : Row[i] \in Files
  BY <1>1, <1>2, <1>3
<1>5. \A i, j \in 1..4 : Row[i] = Row[j] => i = j
  BY <1>1, <1>3
<1> QED
  BY <1>1, <1>2, <1>4, <1>5

\* What could be counted on still can, what was undercut was, commits stay, a release stays.
Kept ==
  /\ Firm("material") \subseteq Firm("material")' /\ Firm("cases") \subseteq Firm("cases")'
  /\ undercut => undercut'
  /\ Now' \in Nat /\ Now <= Now'
  /\ \A i \in 1..Now : commits'[i] = commits[i]
  /\ Released => Released'

\* A file of some material is whole.
LEMMA MaterialIsWhole == \A m \in Materials : Whole(m)
BY HeldoutAssumption DEF Whole

\* As long as nothing was undercut, what can be counted on is there.
LEMMA FirmIsWhole ==
  ASSUME NEW f \in Premises, NEW m \in Firm(f), ~undercut
  PROVE  pack[f] = m /\ Whole(pack[f])
BY DEF Firm, Sound

\* A step takes nothing away that can be counted on: it leaves the file alone
\* and opens it for no one, or it finds it unsound, or it undercuts someone.
LEMMA FirmKept ==
  ASSUME TypeOK, NEW f \in Premises, undercut => undercut',
         \/ /\ pack'[f] = pack[f]
            /\ Opened(f)' => Opened(f) /\ (f \in relied => f \in relied')
         \/ undercut'
         \/ ~undercut /\ ~Sound(f)
  PROVE  Firm(f) \subseteq Firm(f)'
<1>1. Sound(f) => pack[f] \in Materials
  BY RowFacts DEF Sound, Whole, TypeOK, Missing, Premises
<1>2. Firm(f) \subseteq Materials
  BY <1>1 DEF Firm
<1>3. CASE undercut'
  BY <1>2, <1>3 DEF Firm
<1>4. CASE ~undercut /\ ~Sound(f)
  BY <1>4 DEF Firm
<1>5. CASE /\ ~undercut' /\ pack'[f] = pack[f]
           /\ Opened(f)' => Opened(f) /\ (f \in relied => f \in relied')
  <2>1. Sound(f) => Sound(f)'
    BY <1>5 DEF Sound, Whole
  <2> QED
    BY <1>5, <2>1 DEF Firm
<1> QED
  BY <1>3, <1>4, <1>5

\* The same when only other variables change.
LEMMA FirmSame ==
  ASSUME UNCHANGED <<pack, generation>>
  PROVE  Firm("material")' = Firm("material") /\ Firm("cases")' = Firm("cases")
BY DEF Firm, Sound, Opened, Whole, generation

LEMMA ReleaserFrame ==
  ASSUME TypeOK, JobsTyped, OneReleaser, OracleOfPack, Kept,
         UNCHANGED <<oracle, release, releaser>>
  PROVE  OneReleaser' /\ OracleOfPack'
<1>1. ASSUME NEW p \in Releasers, releaser[p] # None
      PROVE  ReleaserOK(p)'
  <2>1. ReleaserOK(p)
    BY <1>1 DEF OneReleaser
  <2>2. releaser[p] \in BoundJob \/ releaser[p] \in ReleaseJob
    BY <1>1 DEF JobsTyped
  <2>3. Now \in Nat
    BY DEF TypeOK
  <2>4. CASE releaser[p] \in BoundJob
    <3>1. releaser[p].step = "bound"
      BY <2>4 DEF BoundJob
    <3> QED
      BY <2>1, <3>1 DEF ReleaserOK, Steps, Kept
  <2>5. CASE releaser[p] \in ReleaseJob
    <3>1. releaser[p].step \in Steps
      BY <2>5 DEF ReleaseJob
    <3>3. Names(releaser[p].release)'
      <4>1. Names(releaser[p].release)
        BY <2>1, <3>1 DEF ReleaserOK
      <4> QED
        BY <2>3, <4>1 DEF Names, Kept
    <3> QED
      BY <2>1, <3>1, <3>3 DEF ReleaserOK, Steps, Kept
  <2> QED
    BY <2>2, <2>4, <2>5
<1>2. OracleOfPack'
  BY DEF OracleOfPack, Kept, Whole
<1>3. Names(release) => Names(release)'
  <2>1. Now \in Nat
    BY DEF TypeOK
  <2> QED
    BY <2>1 DEF Names, Kept
<1> QED
  BY <1>1, <1>2, <1>3 DEF OneReleaser, Whole

LEMMA ScorerFrame ==
  ASSUME TypeOK, JobsTyped, ScorerOK, Kept, UNCHANGED scorer
  PROVE  ScorerOK'
<1>1. Now \in Nat
  BY DEF TypeOK
<1>2. CASE scorer # None /\ scorer.step = "matched"
  <2>4. Names(scorer.release)'
    BY <1>1, <1>2 DEF ScorerOK, Names, Kept
  <2> QED
    BY <1>2, <2>4 DEF ScorerOK, Kept
<1>3. CASE ~(scorer # None /\ scorer.step = "matched")
  BY <1>3 DEF ScorerOK
<1> QED
  BY <1>2, <1>3

LEMMA ScoreFrame ==
  ASSUME TypeOK, ScoreOK, ScoredBlind, Kept, UNCHANGED score
  PROVE  ScoreOK' /\ ScoredBlind'
<1>1. Now \in Nat
  BY DEF TypeOK
<1>2. CASE score = None
  BY <1>2 DEF ScoreOK, ScoredBlind
<1>3. CASE score # None
  <2>1. Names(score) /\ Names(score)' /\ score.run \in Runs
    BY <1>1, <1>3 DEF ScoreOK, Names, Kept
  <2>2. commits'[score.prep] = commits[score.prep] /\ commits'[score.rec] = commits[score.rec]
    BY <2>1 DEF Names, Kept
  <2> QED
    BY <1>3, <2>1, <2>2 DEF ScoreOK, ScoredBlind, Kept
<1> QED
  BY <1>2, <1>3

LEMMA BlindFrame ==
  ASSUME BlindSoFar, Kept, UNCHANGED <<records, commits>>
  PROVE  BlindSoFar'
BY DEF BlindSoFar, Kept, Now

\* Nothing to notice when only other variables change.
LEMMA KeptSame ==
  ASSUME TypeOK, UNCHANGED <<pack, generation, commits, oracle, release>>
  PROVE  Kept
BY FirmSame DEF TypeOK, Kept, Now, Released, Whole, generation

\* A typed pack gives a typed tree.
LEMMA PackTyped ==
  ASSUME Tree \in Trees, pack' \in [Files -> Materials \cup Missing],
         UNCHANGED <<run, records, oracle, release>>
  PROVE  Tree' \in Trees
<1>1. Public \subseteq Files
  BY RowFacts DEF Public
<1> QED
  BY <1>1 DEF Tree, Trees

LEMMA PackFrame ==
  ASSUME PackOrder, GeneratorsOK, UNCHANGED <<pack, generation>>
  PROVE  PackOrder' /\ GeneratorsOK'
BY FirmSame DEF PackOrder, GeneratorsOK, Whole, generation

-----------------------------------------------------------------------------
(* The beginning.                                                          *)

LEMMA InitInv == Init => HeldoutInv
<1> SUFFICES ASSUME Init PROVE HeldoutInv
  OBVIOUS
<1> USE DEF Init
<1>1. TypeOK
  <2>1. pack \in [Files -> Materials \cup Missing]
    BY DEF Missing
  <2>2. Public \subseteq Files
    BY RowFacts DEF Public
  <2>3. Tree \in Trees
    BY <2>1, <2>2 DEF Tree, Trees, Missing
  <2>4. commits \in Seq(Trees) /\ Now = 1
    BY <2>3 DEF Now
  <2>5. invalidated \in BOOLEAN
    OBVIOUS
  <2>6. generations \in 0..MaxGenerations /\ edits \in 0..MaxEdits /\ 1 \in 1..MaxCommits
    BY HeldoutAssumption
  <2>7. relied \subseteq Premises /\ undercut \in BOOLEAN
    OBVIOUS
  <2> QED
    BY <2>1, <2>3, <2>4, <2>5, <2>6, <2>7 DEF TypeOK
<1>2. JobsTyped
  BY DEF JobsTyped
<1>3. PackOrder
  BY RowFacts DEF PackOrder, Whole
<1>4. GeneratorsOK
  BY DEF GeneratorsOK
<1>5. OneReleaser
  BY DEF OneReleaser, Whole
<1>6. OracleOfPack
  BY DEF OracleOfPack, Whole
<1>7. BlindSoFar
  <2>1. \A r \in Runs : records[r] = NoFile
    OBVIOUS
  <2>2. \A i \in 1..Now, r \in Runs : commits[i].records[r] = NoFile
    BY DEF Now, Tree
  <2> QED
    BY <2>1, <2>2 DEF BlindSoFar
<1>8. ScorerOK /\ ScoreOK /\ ScoredBlind
  BY DEF ScorerOK, ScoreOK, ScoredBlind
<1> QED
  BY <1>1, <1>2, <1>3, <1>4, <1>5, <1>6, <1>7, <1>8 DEF HeldoutInv

-----------------------------------------------------------------------------
(* Generation.                                                             *)

LEMMA RelyTyped ==
  ASSUME TypeOK, NEW f \in Files, TakesAsGiven(f)
  PROVE  relied' \subseteq Premises /\ relied \subseteq relied'
BY DEF TypeOK, TakesAsGiven

\* The rest of the invariant, when only generators and their files change.
LEMMA GeneratorStepKeeps ==
  ASSUME HeldoutInv,
         UNCHANGED <<run, records, oracle, release, invalidated, commits,
                     releaser, scorer, score, edits>>,
         generations' \in 0..MaxGenerations,
         generator' \in [Generators -> Writing \cup {None}],
         pack' \in [Files -> Materials \cup Missing],
         relied' \subseteq Premises, undercut' \in BOOLEAN, undercut => undercut',
         Firm("material") \subseteq Firm("material")', Firm("cases") \subseteq Firm("cases")',
         PackOrder', GeneratorsOK'
  PROVE  HeldoutInv'
<1> USE DEF HeldoutInv
<1>k. Kept
  BY DEF Kept, TypeOK, Now, Released, Whole
<1>1. TypeOK'
  BY PackTyped DEF TypeOK, Tree, Trees, Now
<1>2. JobsTyped'
  BY DEF JobsTyped
<1>3. OneReleaser' /\ OracleOfPack'
  BY <1>k, ReleaserFrame
<1>4. BlindSoFar' /\ ScorerOK' /\ ScoreOK' /\ ScoredBlind'
  BY <1>k, BlindFrame, ScorerFrame, ScoreFrame
<1> QED
  BY <1>1, <1>2, <1>3, <1>4

\* A generator changes at most the file it is at, as its writer, and moves past
\* it only when it can be counted on to be of its material.
LEMMA GeneratorStep ==
  ASSUME TypeOK, JobsTyped, PackOrder, GeneratorsOK,
         NEW g \in Generators, generator[g] # None,
         \A i \in 1..4 : i # generator[g].next => pack'[Row[i]] = pack[Row[i]],
         pack'[Row[generator[g].next]] \in
           {pack[Row[generator[g].next]], NoFile, Torn, generator[g].material},
         \A h \in Generators \ {g} : generator'[h] = generator[h],
         \/ generator[g].open \/ pack[Row[generator[g].next]] = NoFile
         \/ pack' = pack /\ (generator'[g] = None \/ ~generator'[g].open),
         generator'[g] # None =>
           /\ generator'[g].material = generator[g].material
           /\ generator'[g].open =>
                /\ pack'[Row[generator[g].next]] \in {Torn, generator[g].material}
                /\ generator'[g].next = generator[g].next
           /\ \/ generator'[g].next = generator[g].next
              \/ /\ generator'[g].next = generator[g].next + 1
                 /\ generator[g].next = 1 => generator[g].material \in Firm("material")'
                 /\ generator[g].next = 2 => generator[g].material \in Firm("cases")',
         Firm("material") \subseteq Firm("material")', Firm("cases") \subseteq Firm("cases")'
  PROVE  PackOrder' /\ GeneratorsOK'
<1> DEFINE w == generator[g]
           k == w.next
<1>1. w \in Writing /\ k \in 1..4 /\ w.material \in Materials
  BY DEF JobsTyped, Writing
<1>2. /\ k > 1 => w.material \in Firm("material")
      /\ k > 2 => w.material \in Firm("cases")
  BY DEF GeneratorsOK
<1>3. ASSUME NEW j \in 1..4, Whole(pack'[Row[j]]), pack'[Row[j]] # pack[Row[j]]
      PROVE  j = k /\ pack'[Row[j]] = w.material
  BY <1>3 DEF Whole
<1>4. PackOrder'
  <2>1. ASSUME NEW j \in 2..4, Whole(pack'[Row[j]])
        PROVE  pack'[Row[j]] \in Firm("material")'
    <3>1. CASE pack'[Row[j]] = pack[Row[j]]
      BY <2>1, <3>1 DEF PackOrder
    <3>2. CASE pack'[Row[j]] # pack[Row[j]]
      <4>1. j \in 1..4
        OBVIOUS
      <4>2. j = k /\ pack'[Row[j]] = w.material
        BY <1>3, <2>1, <3>2, <4>1
      <4> QED
        BY <1>2, <4>2
    <3> QED
      BY <3>1, <3>2
  <2>2. ASSUME NEW j \in 3..4, Whole(pack'[Row[j]])
        PROVE  pack'[Row[j]] \in Firm("cases")'
    <3>1. CASE pack'[Row[j]] = pack[Row[j]]
      BY <2>2, <3>1 DEF PackOrder
    <3>2. CASE pack'[Row[j]] # pack[Row[j]]
      <4>1. j \in 1..4
        OBVIOUS
      <4>2. j = k /\ pack'[Row[j]] = w.material
        BY <1>3, <2>2, <3>2, <4>1
      <4> QED
        BY <1>2, <4>2
    <3> QED
      BY <3>1, <3>2
  <2> QED
    BY <2>1, <2>2 DEF PackOrder, Whole
<1>5. ASSUME NEW h \in Generators, h # g, generator[h] # None, generator[h].open
      PROVE  /\ pack'[Row[generator[h].next]] = pack[Row[generator[h].next]]
             /\ generator'[g] # None /\ generator'[g].open => generator'[g].next # generator[h].next
  <2>1. generator[h].next \in 1..4 /\ generator[h].material \in Materials
    BY <1>5 DEF JobsTyped, Writing
  <2>2. pack[Row[generator[h].next]] # NoFile
    BY <1>5, <2>1, HeldoutAssumption DEF GeneratorsOK
  <2>3. w.open => generator[h].next # k
    BY <1>5 DEF GeneratorsOK
  <2> QED
    BY <1>1, <2>1, <2>2, <2>3
<1>6. ASSUME NEW h \in Generators, generator'[h] # None
      PROVE  /\ generator'[h].open =>
                  pack'[Row[generator'[h].next]] \in {Torn, generator'[h].material}
             /\ generator'[h].next > 1 => generator'[h].material \in Firm("material")'
             /\ generator'[h].next > 2 => generator'[h].material \in Firm("cases")'
  <2>1. CASE h = g
    <3>1. CASE generator'[g].next = k
      BY <1>2, <1>6, <2>1, <3>1
    <3>2. CASE generator'[g].next = k + 1
      <4>1. k > 1 \/ k = 1
        BY <1>1
      <4>2. k > 2 \/ k = 2 \/ k = 1
        BY <1>1
      <4>3. ~generator'[g].open
        BY <1>1, <1>6, <2>1, <3>2
      <4>4. generator'[g].material = w.material /\ (k = 1 => w.material \in Firm("material")')
            /\ (k = 2 => w.material \in Firm("cases")')
        BY <1>1, <1>6, <2>1, <3>2
      <4> QED
        BY <1>2, <2>1, <3>2, <4>1, <4>2, <4>3, <4>4
    <3> QED
      BY <1>6, <2>1, <3>1, <3>2
  <2>2. CASE h # g
    <3>1. generator'[h] = generator[h] /\ generator[h] # None
      BY <1>6, <2>2
    <3>2. /\ generator[h].open => pack[Row[generator[h].next]] \in {Torn, generator[h].material}
          /\ generator[h].next > 1 => generator[h].material \in Firm("material")
          /\ generator[h].next > 2 => generator[h].material \in Firm("cases")
      BY <3>1 DEF GeneratorsOK
    <3> QED
      BY <1>5, <2>2, <3>1, <3>2
  <2> QED
    BY <2>1, <2>2
<1>7. ASSUME NEW e \in Generators, NEW h \in Generators,
             generator'[e] # None, generator'[h] # None,
             generator'[e].open, generator'[h].open,
             generator'[e].next = generator'[h].next
      PROVE  e = h
  <2>1. CASE e # g /\ h # g
    BY <1>7, <2>1 DEF GeneratorsOK
  <2>2. CASE e = g \/ h = g
    BY <1>5, <1>7, <2>2
  <2> QED
    BY <2>1, <2>2
<1> QED
  BY <1>4, <1>6, <1>7 DEF GeneratorsOK

LEMMA StartGenerateKeeps ==
  ASSUME HeldoutInv, NEW g \in Generators, StartGenerate(g)
  PROVE  HeldoutInv'
<1> USE DEF HeldoutInv
<1>u. UNCHANGED <<files, invalidated, commits, undercut, releaser, scorer, score, edits>>
  BY DEF StartGenerate
<1>w. PICK m \in Materials :
        /\ pack["material"] \in {m, NoFile}
        /\ generator' = [generator EXCEPT ![g] =
             [next |-> IF pack["material"] = NoFile THEN 1 ELSE 2, open |-> FALSE, material |-> m]]
  BY DEF StartGenerate
<1>1. /\ generator' \in [Generators -> Writing \cup {None}]
      /\ generator'[g] \in Writing /\ ~generator'[g].open /\ generator'[g].material = m
      /\ generator'[g].next = IF pack["material"] = NoFile THEN 1 ELSE 2
      /\ \A h \in Generators \ {g} : generator'[h] = generator[h]
  <2>1. [next |-> IF pack["material"] = NoFile THEN 1 ELSE 2, open |-> FALSE, material |-> m]
          \in Writing
    BY DEF Writing
  <2> QED
    BY <1>w, <2>1 DEF JobsTyped
<1>2. /\ generations' \in 0..MaxGenerations /\ relied' \subseteq Premises
      /\ relied \subseteq relied'
  <2>1. generations' \in 0..MaxGenerations
    BY HeldoutAssumption DEF StartGenerate, TypeOK
  <2> QED
    BY <2>1, RelyTyped, RowFacts DEF StartGenerate
<1>3. \A f \in Premises : Opened(f)' => Opened(f)
  BY <1>1 DEF Opened
<1>4. Firm("material") \subseteq Firm("material")' /\ Firm("cases") \subseteq Firm("cases")'
  <2>1. /\ pack' = pack /\ undercut' = undercut
        /\ "material" \in Premises /\ "cases" \in Premises
    BY <1>u DEF files, Premises
  <2>2. /\ Opened("material")' => Opened("material")
        /\ Opened("cases")' => Opened("cases")
    BY <1>3, <2>1
  <2>3. Firm("material") \subseteq Firm("material")'
    BY <1>2, <2>1, <2>2, FirmKept
  <2>4. Firm("cases") \subseteq Firm("cases")'
    BY <1>2, <2>1, <2>2, FirmKept
  <2> QED
    BY <2>3, <2>4
<1>5. generator'[g].next > 1 => m \in Firm("material")'
  <2> SUFFICES ASSUME generator'[g].next > 1 PROVE m \in Firm("material")'
    OBVIOUS
  <2>1. pack["material"] = m /\ pack' = pack
    BY <1>1, <1>u, <1>w DEF files
  <2>2. Opened("material")' => "material" \in relied'
    BY <1>3 DEF StartGenerate, TakesAsGiven, Premises
  <2>3. Sound("material")'
    BY <2>1, <2>2, MaterialIsWhole DEF Sound, Whole
  <2> QED
    BY <2>1, <2>3 DEF Firm
<1>6. PackOrder'
  BY <1>4, <1>u DEF PackOrder, Whole, files
<1>7. GeneratorsOK'
  <2>1. ASSUME NEW h \in Generators, generator'[h] # None
        PROVE  /\ generator'[h].open =>
                    pack'[Row[generator'[h].next]] \in {Torn, generator'[h].material}
               /\ generator'[h].next > 1 => generator'[h].material \in Firm("material")'
               /\ generator'[h].next > 2 => generator'[h].material \in Firm("cases")'
    <3>1. CASE h = g
      BY <1>1, <1>5, <3>1
    <3>2. CASE h # g
      <4>1. generator'[h] = generator[h] /\ pack' = pack
        BY <1>1, <1>u, <3>2 DEF files
      <4> QED
        BY <1>4, <2>1, <4>1 DEF GeneratorsOK
    <3> QED
      BY <3>1, <3>2
  <2>2. \A h \in Generators :
          generator'[h] # None /\ generator'[h].open => generator'[h] = generator[h]
    BY <1>1
  <2>3. \A e, h \in Generators :
          /\ generator'[e] # None /\ generator'[h] # None
          /\ generator'[e].open /\ generator'[h].open
          /\ generator'[e].next = generator'[h].next
          => e = h
    BY <2>2 DEF GeneratorsOK
  <2> QED
    BY <2>1, <2>3 DEF GeneratorsOK
<1> QED
  BY <1>1, <1>2, <1>4, <1>6, <1>7, <1>u, GeneratorStepKeeps DEF files, TypeOK

\* The next file, or none.
LEMMA AdvancedTyped ==
  ASSUME NEW w \in Writing
  PROVE  /\ Advanced(w) \in Writing \cup {None}
         /\ Advanced(w) # None => /\ Advanced(w).open = FALSE
                                  /\ Advanced(w).material = w.material
                                  /\ Advanced(w).next = w.next + 1
<1>1. CASE w.next = 4
  BY <1>1, RowFacts DEF Advanced
<1>2. CASE w.next # 4
  <2>1. Advanced(w) = [w EXCEPT !.next = w.next + 1, !.open = FALSE]
    BY <1>2, RowFacts DEF Advanced
  <2>2. w.next + 1 \in 1..4
    BY <1>2 DEF Writing
  <2> QED
    BY <2>1, <2>2 DEF Writing
<1> QED
  BY <1>1, <1>2

\* Who opens no file, and leaves what others opened alone, opens none.
LEMMA OpenedByOthers ==
  ASSUME JobsTyped, GeneratorsOK, NEW g \in Generators, generator[g] # None,
         \A h \in Generators \ {g} : generator'[h] = generator[h],
         generator'[g] # None => ~generator'[g].open,
         NEW f \in Files
  PROVE  Opened(f)' => /\ Opened(f)
                       /\ ~(generator[g].open /\ f = Row[generator[g].next])
<1> SUFFICES ASSUME Opened(f)'
             PROVE  Opened(f) /\ ~(generator[g].open /\ f = Row[generator[g].next])
  OBVIOUS
<1>1. PICK h \in Generators :
        generator'[h] # None /\ generator'[h].open /\ Row[generator'[h].next] = f
  BY DEF Opened
<1>2. h # g /\ generator'[h] = generator[h]
  BY <1>1
<1>3. Opened(f)
  BY <1>1, <1>2 DEF Opened
<1>4. ASSUME generator[g].open, f = Row[generator[g].next] PROVE FALSE
  <2>1. generator[h].next \in 1..4 /\ generator[g].next \in 1..4
    BY <1>1, <1>2 DEF JobsTyped, Writing
  <2>2. generator[h].next = generator[g].next
    BY <1>1, <1>2, <1>4, <2>1, RowFacts
  <2> QED
    BY <1>1, <1>2, <1>4, <2>2 DEF GeneratorsOK
<1> QED
  BY <1>3, <1>4

LEMMA WriteNewOrEqualKeeps ==
  ASSUME HeldoutInv, NEW g \in Generators, WriteNewOrEqual(g)
  PROVE  HeldoutInv'
<1> USE DEF HeldoutInv
<1> DEFINE w == generator[g]
           k == w.next
           f == Row[k]
<1>0. /\ w \in Writing /\ k \in 1..4 /\ w.material \in Materials /\ w # None
      /\ f \in Files /\ pack \in [Files -> Materials \cup Missing]
      /\ \A i \in 1..4 : i # k => Row[i] \in Files /\ Row[i] # f
      /\ generator \in [Generators -> Writing \cup {None}]
      /\ f = "material" <=> k = 1
      /\ f = "cases" <=> k = 2
      /\ "material" \in Premises /\ "cases" \in Premises /\ Premises \subseteq Files
      /\ relied \subseteq Premises
  BY RowFacts DEF WriteNewOrEqual, JobsTyped, Writing, TypeOK, Premises
<1>u. UNCHANGED <<run, records, oracle, release, invalidated, commits, generations,
                  undercut, releaser, scorer, score, edits>>
  BY DEF WriteNewOrEqual
<1>e. w.open => pack[f] \in {Torn, w.material}
  BY <1>0 DEF GeneratorsOK
<1>a. /\ Advanced(w) \in Writing \cup {None}
      /\ Advanced(w) # None => /\ Advanced(w).open = FALSE
                               /\ Advanced(w).material = w.material
                               /\ Advanced(w).next = k + 1
  BY <1>0, AdvancedTyped
<1>1. CASE /\ ~w.open /\ pack[f] = NoFile
           /\ pack' = [pack EXCEPT ![f] = Torn]
           /\ generator' = [generator EXCEPT ![g] = [w EXCEPT !.open = TRUE]]
           /\ UNCHANGED relied
  <2>1. /\ pack' \in [Files -> Materials \cup Missing] /\ pack'[f] = Torn
        /\ \A i \in 1..4 : i # k => pack'[Row[i]] = pack[Row[i]]
        /\ \A x \in Files : x # f => pack'[x] = pack[x]
    BY <1>0, <1>1 DEF Missing
  <2>2. [w EXCEPT !.open = TRUE] \in Writing
    BY <1>0 DEF Writing
  <2>3. /\ generator' \in [Generators -> Writing \cup {None}]
        /\ generator'[g].next = k /\ generator'[g].material = w.material
        /\ \A h \in Generators \ {g} : generator'[h] = generator[h]
    BY <1>0, <1>1, <2>2 DEF Writing
  <2>4. ~Sound(f)
    BY <1>1 DEF Sound, Whole
  <2>5. ASSUME NEW x \in Premises, x # f PROVE Opened(x)' => Opened(x)
    <3>1. generator'[g].next = k
      BY <2>3
    <3> QED
      BY <2>3, <2>5, <3>1 DEF Opened
  <2>6. ASSUME NEW x \in Premises PROVE Firm(x) \subseteq Firm(x)'
    <3>1. CASE x = f
      <4>1. undercut => undercut'
        BY <1>u
      <4>2. undercut' \/ (~undercut /\ ~Sound(x))
        BY <1>u, <2>4, <3>1
      <4> QED
        BY <4>1, <4>2, FirmKept
    <3>2. CASE x # f
      <4>1. pack'[x] = pack[x] /\ (Opened(x)' => Opened(x)) /\ undercut' = undercut
        BY <1>0, <1>u, <2>1, <2>5, <3>2
      <4> QED
        BY <1>1, <4>1, FirmKept
    <3> QED
      BY <3>1, <3>2
  <2>7. Firm("material") \subseteq Firm("material")' /\ Firm("cases") \subseteq Firm("cases")'
    BY <1>0, <2>6
  <2>8. PackOrder' /\ GeneratorsOK'
    BY <1>0, <1>1, <2>1, <2>3, <2>7, GeneratorStep
  <2> QED
    BY <1>0, <1>1, <1>u, <2>1, <2>3, <2>7, <2>8, GeneratorStepKeeps DEF TypeOK
<1>2. CASE /\ w.open /\ pack[f] = Torn
           /\ pack' = [pack EXCEPT ![f] = w.material]
           /\ UNCHANGED <<generator, relied>>
  <2>1. /\ pack' \in [Files -> Materials \cup Missing] /\ pack'[f] = w.material
        /\ \A i \in 1..4 : i # k => pack'[Row[i]] = pack[Row[i]]
        /\ \A x \in Files : x # f => pack'[x] = pack[x]
    BY <1>0, <1>2
  <2>2. ~Sound(f)
    BY <1>2 DEF Sound, Whole
  <2>3. ASSUME NEW x \in Premises PROVE Firm(x) \subseteq Firm(x)'
    <3>1. CASE x = f
      <4>1. undercut => undercut'
        BY <1>u
      <4>2. undercut' \/ (~undercut /\ ~Sound(x))
        BY <1>u, <2>2, <3>1
      <4> QED
        BY <4>1, <4>2, FirmKept
    <3>2. CASE x # f
      <4>1. pack'[x] = pack[x] /\ undercut' = undercut /\ (Opened(x)' => Opened(x))
        BY <1>0, <1>2, <1>u, <2>1, <3>2 DEF Opened
      <4> QED
        BY <1>2, <4>1, FirmKept
    <3> QED
      BY <3>1, <3>2
  <2>4. Firm("material") \subseteq Firm("material")' /\ Firm("cases") \subseteq Firm("cases")'
    BY <1>0, <2>3
  <2>5. PackOrder' /\ GeneratorsOK'
    BY <1>0, <1>2, <2>1, <2>4, GeneratorStep
  <2> QED
    BY <1>0, <1>2, <1>u, <2>1, <2>4, <2>5, GeneratorStepKeeps DEF TypeOK
<1>3. CASE /\ w.open /\ pack[f] # Torn
           /\ generator' = [generator EXCEPT ![g] = Advanced(w)]
           /\ relied' = relied \ {f} /\ UNCHANGED pack
  <2>1. /\ generator' \in [Generators -> Writing \cup {None}]
        /\ generator'[g] = Advanced(w)
        /\ \A h \in Generators \ {g} : generator'[h] = generator[h]
    BY <1>0, <1>3, <1>a
  <2>2. ASSUME NEW x \in Files PROVE Opened(x)' => Opened(x) /\ x # f
    BY <1>0, <1>3, <1>a, <2>1, OpenedByOthers
  <2>3. ASSUME NEW x \in Premises PROVE Firm(x) \subseteq Firm(x)'
    <3>1. Opened(x)' => Opened(x) /\ (x \in relied => x \in relied')
      BY <1>0, <1>3, <2>2
    <3>2. pack'[x] = pack[x] /\ (undercut => undercut')
      BY <1>3, <1>u
    <3> QED
      BY <3>1, <3>2, FirmKept
  <2>4. Firm("material") \subseteq Firm("material")' /\ Firm("cases") \subseteq Firm("cases")'
    BY <1>0, <2>3
  <2>5. pack'[f] = w.material
    BY <1>3, <1>e
  <2>6. ASSUME NEW x \in Premises, x = f PROVE w.material \in Firm(x)'
    <3>1. ~Opened(x)'
      BY <1>0, <2>2, <2>6
    <3>2. pack'[x] = w.material /\ Whole(w.material)
      BY <1>0, <2>5, <2>6, MaterialIsWhole
    <3>3. Sound(x)'
      BY <3>1, <3>2 DEF Sound, Whole
    <3> QED
      BY <1>0, <3>2, <3>3 DEF Firm
  <2>9. PackOrder' /\ GeneratorsOK'
    <3>1. k = 1 => w.material \in Firm("material")'
      BY <1>0, <2>6
    <3>2. k = 2 => w.material \in Firm("cases")'
      BY <1>0, <2>6
    <3> QED
      BY <1>0, <1>3, <1>a, <2>1, <2>4, <3>1, <3>2, GeneratorStep
  <2> QED
    BY <1>0, <1>3, <1>u, <2>1, <2>4, <2>9, GeneratorStepKeeps DEF TypeOK
<1>4. CASE /\ ~w.open /\ pack[f] # NoFile
           /\ IF Same(pack[f], w.material)
              THEN /\ generator' = [generator EXCEPT ![g] = Advanced(w)]
                   /\ TakesAsGiven(f)
              ELSE generator' = [generator EXCEPT ![g] = None] /\ UNCHANGED relied
           /\ UNCHANGED pack
  <2>1. /\ generator' \in [Generators -> Writing \cup {None}]
        /\ generator'[g] \in {Advanced(w), None}
        /\ \A h \in Generators \ {g} : generator'[h] = generator[h]
    BY <1>0, <1>4, <1>a
  <2>2. relied' \subseteq Premises /\ relied \subseteq relied'
    BY <1>0, <1>4, RelyTyped
  <2>3. ASSUME NEW x \in Files PROVE Opened(x)' => Opened(x)
    BY <1>0, <1>4, <1>a, <2>1, OpenedByOthers
  <2>4. ASSUME NEW x \in Premises PROVE Firm(x) \subseteq Firm(x)'
    <3>1. Opened(x)' => Opened(x) /\ (x \in relied => x \in relied')
      BY <1>0, <2>2, <2>3
    <3>2. pack'[x] = pack[x] /\ (undercut => undercut')
      BY <1>4, <1>u
    <3> QED
      BY <3>1, <3>2, FirmKept
  <2>5. Firm("material") \subseteq Firm("material")' /\ Firm("cases") \subseteq Firm("cases")'
    BY <1>0, <2>4
  <2>6. ASSUME generator'[g] # None, NEW x \in Premises, x = f
        PROVE  w.material \in Firm(x)'
    <3>1. pack[x] = w.material /\ TakesAsGiven(x)
      BY <1>0, <1>4, <2>6 DEF Same
    <3>2. Opened(x)' => x \in relied'
      BY <1>0, <2>3, <3>1 DEF TakesAsGiven
    <3>3. pack'[x] = w.material /\ Whole(w.material)
      BY <1>0, <1>4, <3>1, MaterialIsWhole
    <3>4. Sound(x)'
      BY <3>2, <3>3 DEF Sound, Whole
    <3> QED
      BY <1>0, <3>3, <3>4 DEF Firm
  <2>7. PackOrder' /\ GeneratorsOK'
    <3>1. generator'[g] # None /\ k = 1 => w.material \in Firm("material")'
      BY <1>0, <2>6
    <3>2. generator'[g] # None /\ k = 2 => w.material \in Firm("cases")'
      BY <1>0, <2>6
    <3>3. generator'[g] # None => generator'[g] = Advanced(w)
      BY <2>1
    <3> QED
      BY <1>0, <1>4, <1>a, <2>1, <2>5, <3>1, <3>2, <3>3, GeneratorStep
  <2> QED
    BY <1>0, <1>4, <1>u, <2>1, <2>2, <2>5, <2>7, GeneratorStepKeeps DEF TypeOK
<1> QED
  BY <1>1, <1>2, <1>3, <1>4 DEF WriteNewOrEqual

LEMMA GeneratorStopsKeeps ==
  ASSUME HeldoutInv, NEW g \in Generators, GeneratorStops(g)
  PROVE  HeldoutInv'
<1> USE DEF HeldoutInv
<1> DEFINE w == generator[g]
           k == w.next
           f == Row[k]
<1>0. /\ w \in Writing /\ k \in 1..4 /\ w.material \in Materials /\ w # None
      /\ f \in Files /\ pack \in [Files -> Materials \cup Missing]
      /\ \A i \in 1..4 : i # k => Row[i] \in Files /\ Row[i] # f
      /\ "material" \in Premises /\ "cases" \in Premises /\ Premises \subseteq Files
  BY RowFacts DEF GeneratorStops, JobsTyped, Writing, TypeOK, Premises
<1>u. /\ UNCHANGED <<run, records, oracle, release, invalidated, commits, generations,
                     releaser, scorer, score, edits>>
      /\ relied' = IF w.open THEN relied \ {f} ELSE relied
  BY DEF GeneratorStops
<1>g. /\ generator' \in [Generators -> Writing \cup {None}]
      /\ generator'[g] = None
      /\ \A h \in Generators \ {g} : generator'[h] = generator[h]
  BY DEF GeneratorStops, JobsTyped
<1>o. ASSUME NEW x \in Files
      PROVE  Opened(x)' => Opened(x) /\ (x \in relied => x \in relied')
  BY <1>0, <1>g, <1>u, <1>o, OpenedByOthers
<1>1. CASE w.open /\ pack' = [pack EXCEPT ![f] = NoFile] /\ undercut' = (undercut \/ f \in relied)
  <2>1. /\ pack' \in [Files -> Materials \cup Missing] /\ pack'[f] = NoFile
        /\ \A i \in 1..4 : i # k => pack'[Row[i]] = pack[Row[i]]
        /\ \A x \in Files : x # f => pack'[x] = pack[x]
    BY <1>0, <1>1 DEF Missing
  <2>2. Opened(f)
    BY <1>0, <1>1 DEF Opened
  <2>3. f \notin relied => ~Sound(f)
    BY <2>2 DEF Sound
  <2>4. undercut => undercut'
    BY <1>1
  <2>5. ASSUME NEW x \in Premises PROVE Firm(x) \subseteq Firm(x)'
    <3>1. CASE x = f
      <4>1. undercut' \/ (~undercut /\ ~Sound(x))
        BY <1>1, <2>3, <3>1
      <4> QED
        BY <2>4, <4>1, FirmKept
    <3>2. CASE x # f
      BY <1>0, <1>o, <2>1, <2>4, <3>2, FirmKept
    <3> QED
      BY <3>1, <3>2
  <2>6. Firm("material") \subseteq Firm("material")' /\ Firm("cases") \subseteq Firm("cases")'
    BY <1>0, <2>5
  <2>7. PackOrder' /\ GeneratorsOK'
    BY <1>0, <1>1, <1>g, <2>1, <2>6, GeneratorStep
  <2>8. undercut' \in BOOLEAN
    BY <1>1 DEF TypeOK
  <2>9. relied' \subseteq Premises
    BY <1>u DEF TypeOK
  <2> QED
    BY <1>g, <1>u, <2>1, <2>4, <2>6, <2>7, <2>8, <2>9, GeneratorStepKeeps DEF TypeOK
<1>2. CASE UNCHANGED <<pack, undercut>>
  <2>1. ASSUME NEW x \in Premises PROVE Firm(x) \subseteq Firm(x)'
    BY <1>0, <1>2, <1>o, FirmKept
  <2>2. Firm("material") \subseteq Firm("material")' /\ Firm("cases") \subseteq Firm("cases")'
    BY <1>0, <2>1
  <2>3. PackOrder' /\ GeneratorsOK'
    BY <1>0, <1>2, <1>g, <2>2, GeneratorStep
  <2>4. relied' \subseteq Premises
    BY <1>u DEF TypeOK
  <2> QED
    BY <1>2, <1>g, <1>u, <2>2, <2>3, <2>4, GeneratorStepKeeps DEF TypeOK
<1> QED
  BY <1>1, <1>2 DEF GeneratorStops

-----------------------------------------------------------------------------
(* The run, its records and the repository.                                *)

LEMMA InvalidateKeeps ==
  ASSUME HeldoutInv, Invalidate
  PROVE  HeldoutInv'
<1> USE DEF HeldoutInv, Invalidate, files, generation
<1>k. Kept
  BY KeptSame
<1>1. TypeOK' /\ JobsTyped'
  <2>1. edits' \in 0..MaxEdits
    BY HeldoutAssumption DEF TypeOK
  <2> QED
    BY <2>1 DEF TypeOK, JobsTyped, Tree, Now
<1>2. PackOrder' /\ GeneratorsOK' /\ OneReleaser' /\ OracleOfPack'
  BY <1>k, PackFrame, ReleaserFrame
<1>3. BlindSoFar' /\ ScorerOK' /\ ScoreOK' /\ ScoredBlind'
  BY <1>k, BlindFrame, ScorerFrame, ScoreFrame
<1> QED
  BY <1>1, <1>2, <1>3

LEMMA PrepareKeeps ==
  ASSUME HeldoutInv, NEW r \in Runs, Prepare(r)
  PROVE  HeldoutInv'
<1> USE DEF HeldoutInv, Prepare, generation
<1>k. Kept
  BY KeptSame
<1>1. TypeOK'
  <2>1. PICK m \in Materials :
          run' = [run EXCEPT ![r] = [run |-> r, version |-> 0, pack |-> m, prepared |-> Now]]
    OBVIOUS
  <2>2. [run |-> r, version |-> 0, pack |-> m, prepared |-> Now] \in RunManifest
    BY HeldoutAssumption DEF TypeOK, RunManifest
  <2>3. run \in [Runs -> RunManifest \cup {NoFile}]
    BY DEF TypeOK, Tree, Trees
  <2>4. run' \in [Runs -> RunManifest \cup {NoFile}]
    BY <2>1, <2>2, <2>3
  <2>5. records' \in [Runs -> CompletedRecords \cup {NoFile, Blank}]
    BY DEF TypeOK, Tree, Trees
  <2> QED
    BY <2>4, <2>5 DEF TypeOK, Tree, Trees, Now
<1>2. JobsTyped'
  BY DEF JobsTyped
<1>3. PackOrder' /\ GeneratorsOK' /\ OneReleaser' /\ OracleOfPack'
  BY <1>k, PackFrame, ReleaserFrame
<1>4. BlindSoFar'
  <2>1. records' = [records EXCEPT ![r] = Blank] /\ DOMAIN records = Runs
    BY DEF TypeOK, Tree, Trees
  <2>2. Released' = Released /\ Now' = Now
    BY DEF Released, Whole, Now
  <2> QED
    BY <2>1, <2>2 DEF BlindSoFar
<1>5. ScorerOK' /\ ScoreOK' /\ ScoredBlind'
  BY <1>k, ScorerFrame, ScoreFrame
<1> QED
  BY <1>1, <1>2, <1>3, <1>4, <1>5

LEMMA HandleKeeps ==
  ASSUME HeldoutInv, NEW r \in Runs, Handle(r)
  PROVE  HeldoutInv'
<1> USE DEF HeldoutInv, Handle, generation
<1>k. Kept
  BY KeptSame
<1>h. PICK h \in Handlings :
        records' = [records EXCEPT ![r] = [start |-> h[1], end |-> h[2], blind |-> ~Released]]
  OBVIOUS
<1>d. records \in [Runs -> CompletedRecords \cup {NoFile, Blank}]
  BY DEF TypeOK, Tree, Trees
<1>1. TypeOK'
  <2>1. h \in Nat \X Nat
    BY HeldoutAssumption
  <2>2. [start |-> h[1], end |-> h[2], blind |-> ~Released] \in CompletedRecords
    <3>1. h[1] \in Nat /\ h[2] \in Nat
      BY <2>1
    <3>2. (~Released) \in BOOLEAN
      OBVIOUS
    <3> QED
      BY <3>1, <3>2 DEF CompletedRecords
  <2>3. records' \in [Runs -> CompletedRecords \cup {NoFile, Blank}]
    BY <1>d, <1>h, <2>2
  <2> QED
    BY <2>3 DEF TypeOK, Tree, Trees, Now
<1>2. JobsTyped'
  BY DEF JobsTyped
<1>3. PackOrder' /\ GeneratorsOK' /\ OneReleaser' /\ OracleOfPack'
  BY <1>k, PackFrame, ReleaserFrame
<1>4. BlindSoFar'
  <2>1. Released' = Released /\ Now' = Now
    BY DEF Released, Whole, Now
  <2>2. records'[r].blind = ~Released /\ \A s \in Runs : s # r => records'[s] = records[s]
    BY <1>d, <1>h
  <2> QED
    BY <2>1, <2>2 DEF BlindSoFar
<1>5. ScorerOK' /\ ScoreOK' /\ ScoredBlind'
  BY <1>k, ScorerFrame, ScoreFrame
<1> QED
  BY <1>1, <1>2, <1>3, <1>4, <1>5

LEMMA EditRunKeeps ==
  ASSUME HeldoutInv, NEW r \in Runs, EditRun(r)
  PROVE  HeldoutInv'
<1> USE DEF HeldoutInv, EditRun, generation
<1>k. Kept
  BY KeptSame
<1>1. TypeOK'
  <2>1. run \in [Runs -> RunManifest \cup {NoFile}] /\ run[r] \in RunManifest
    BY DEF TypeOK, Tree, Trees
  <2>2. edits' \in 0..MaxEdits
    BY HeldoutAssumption DEF TypeOK
  <2>3. [run[r] EXCEPT !.version = edits'] \in RunManifest
    BY <2>1, <2>2 DEF RunManifest
  <2>4. run' \in [Runs -> RunManifest \cup {NoFile}]
    BY <2>1, <2>3
  <2> QED
    BY <2>2, <2>4 DEF TypeOK, Tree, Trees, Now
<1>2. JobsTyped'
  BY DEF JobsTyped
<1>3. PackOrder' /\ GeneratorsOK' /\ OneReleaser' /\ OracleOfPack'
  BY <1>k, PackFrame, ReleaserFrame
<1>4. BlindSoFar' /\ ScorerOK' /\ ScoreOK' /\ ScoredBlind'
  BY <1>k, BlindFrame, ScorerFrame, ScoreFrame
<1> QED
  BY <1>1, <1>2, <1>3, <1>4

LEMMA CommitKeeps ==
  ASSUME HeldoutInv, Commit
  PROVE  HeldoutInv'
<1> USE DEF HeldoutInv, files, generation
<1>u. UNCHANGED <<files, invalidated, generation, releaser, scorer, score, edits>>
  BY DEF Commit
<1>0. commits \in Seq(Trees) /\ Len(commits) \in Nat /\ Len(commits) \in 1..MaxCommits
  BY DEF TypeOK, Now
<1>n. PICK new \in {Tree} \cup {[commits[Now] EXCEPT !.records[r] = records[r]] : r \in Runs} :
        commits' = Append(commits, new)
  BY DEF Commit
<1>r. commits[Now] \in Trees /\ Tree \in Trees
  BY <1>0 DEF Now, TypeOK
<1>t. /\ new \in Trees
      /\ \A r \in Runs : new.records[r] \in {records[r], commits[Now].records[r]}
  <2>1. CASE new = Tree
    BY <1>r, <2>1 DEF Tree
  <2>2. ASSUME NEW r \in Runs, new = [commits[Now] EXCEPT !.records[r] = records[r]]
        PROVE  /\ new \in Trees
               /\ \A s \in Runs : new.records[s] \in {records[s], commits[Now].records[s]}
    <3>1. records[r] \in CompletedRecords \cup {NoFile, Blank}
      BY <1>r DEF Tree, Trees
    <3> QED
      BY <1>r, <2>2, <3>1 DEF Trees
  <2> QED
    BY <1>n, <2>1, <2>2
<1>s. /\ commits' \in Seq(Trees) /\ Len(commits') = Len(commits) + 1
      /\ \A i \in 1..Len(commits) : commits'[i] = commits[i]
      /\ commits'[Len(commits) + 1] = new
  BY <1>0, <1>n, <1>t
<1>k. Kept
  BY <1>0, <1>s, <1>u, FirmSame DEF Kept, Now, Released, Whole
<1>1. TypeOK'
  <2>1. Now' \in 1..MaxCommits
    BY <1>0, <1>s, HeldoutAssumption DEF Commit, Now
  <2> QED
    BY <1>s, <1>u, <2>1 DEF TypeOK, Tree
<1>2. JobsTyped'
  BY <1>u DEF JobsTyped
<1>3. PackOrder' /\ GeneratorsOK' /\ OneReleaser' /\ OracleOfPack'
  BY <1>k, <1>u, PackFrame, ReleaserFrame
<1>4. BlindSoFar'
  <2> SUFFICES ASSUME ~Released', NEW r \in Runs
               PROVE  /\ records'[r] \notin {NoFile, Blank} => records'[r].blind
                      /\ \A i \in 1..Now' : commits'[i].records[r] \notin {NoFile, Blank}
                                              => commits'[i].records[r].blind
    BY DEF BlindSoFar
  <2>1. ~Released
    BY <1>k DEF Kept
  <2>2. /\ records[r] \notin {NoFile, Blank} => records[r].blind
        /\ \A i \in 1..Now : commits[i].records[r] \notin {NoFile, Blank}
                               => commits[i].records[r].blind
    BY <2>1 DEF BlindSoFar
  <2>3. new.records[r] \notin {NoFile, Blank} => new.records[r].blind
    BY <1>0, <1>t, <2>2 DEF Now
  <2>4. \A i \in 1..Now' : i \in 1..Now \/ i = Now'
    BY <1>0, <1>s DEF Now
  <2>5. commits'[Now'] = new /\ \A i \in 1..Now : commits'[i] = commits[i]
    BY <1>s DEF Now
  <2> QED
    BY <1>u, <2>2, <2>3, <2>4, <2>5
<1>5. ScorerOK' /\ ScoreOK' /\ ScoredBlind'
  BY <1>k, <1>u, ScorerFrame, ScoreFrame
<1> QED
  BY <1>1, <1>2, <1>3, <1>4, <1>5

-----------------------------------------------------------------------------
(* Release.                                                                *)

OracleWriters == {"oracle open", "oracle written", "release open"}
ReleaseWriters == {"release open", "rolling back"}

\* The third part of OneReleaser.
Settled ==
  Whole(release) =>
    /\ Whole(oracle) /\ release.records.blind
    /\ Names(release) /\ release.rec <= release.at
    /\ \A p \in Releasers : releaser[p] # None => releaser[p].step # "oracle written"

\* A releaser that has come so far has a release.
LEMMA AtTyped ==
  ASSUME JobsTyped, NEW p \in Releasers, NEW s \in Steps, At(p, s)
  PROVE  releaser[p] \in ReleaseJob /\ releaser[p] # None /\ releaser[p].step = s
BY DEF JobsTyped, At, Steps, BoundJob

LEMMA Stepped ==
  ASSUME JobsTyped, NEW p \in Releasers, releaser[p] \in ReleaseJob,
         NEW s \in Steps, Step(p, s)
  PROVE  /\ releaser' \in [Releasers -> BoundJob \cup ReleaseJob \cup {None}]
         /\ releaser'[p].step = s
         /\ releaser'[p].oracle = releaser[p].oracle
         /\ releaser'[p].release = releaser[p].release
         /\ \A q \in Releasers \ {p} : releaser'[q] = releaser[q]
<1>1. [releaser[p] EXCEPT !.step = s] \in ReleaseJob
  BY DEF ReleaseJob
<1>2. releaser' = [releaser EXCEPT ![p] = [releaser[p] EXCEPT !.step = s]]
  BY DEF Step, JobsTyped
<1>3. releaser'[p] = [releaser[p] EXCEPT !.step = s]
  BY <1>2 DEF JobsTyped
<1> QED
  BY <1>1, <1>2, <1>3 DEF JobsTyped, ReleaseJob

LEMMA Stopped ==
  ASSUME JobsTyped, NEW p \in Releasers, Stop(p)
  PROVE  /\ releaser' \in [Releasers -> BoundJob \cup ReleaseJob \cup {None}]
         /\ releaser'[p] = None
         /\ \A q \in Releasers \ {p} : releaser'[q] = releaser[q]
BY DEF Stop, JobsTyped

\* A step of one releaser leaves the others as they are if it changes a file
\* only as its writer, or when there is no such file.
LEMMA OthersKeep ==
  ASSUME TypeOK, JobsTyped, OneReleaser, NEW p \in Releasers,
         UNCHANGED <<pack, generation, commits>>, Released => Released',
         \A q \in Releasers \ {p} : releaser'[q] = releaser[q],
         oracle' # oracle =>
           oracle = NoFile \/ (releaser[p] # None /\ releaser[p].step \in OracleWriters),
         release' # release =>
           release = NoFile \/ (releaser[p] # None /\ releaser[p].step \in ReleaseWriters),
         releaser'[p] # None =>
           /\ ReleaserOK(p)'
           /\ releaser'[p].step \in OracleWriters =>
                oracle = NoFile \/ (releaser[p] # None /\ releaser[p].step \in OracleWriters)
           /\ releaser'[p].step \in ReleaseWriters =>
                release = NoFile \/ (releaser[p] # None /\ releaser[p].step \in ReleaseWriters),
         Settled'
  PROVE  OneReleaser'
<1>1. ASSUME NEW q \in Releasers \ {p}, releaser[q] # None
      PROVE  /\ releaser[q].step \in OracleWriters =>
                  oracle # NoFile /\ ~(releaser[p] # None /\ releaser[p].step \in OracleWriters)
             /\ releaser[q].step \in ReleaseWriters =>
                  release # NoFile /\ ~(releaser[p] # None /\ releaser[p].step \in ReleaseWriters)
  <2>1. ReleaserOK(q)
    BY <1>1 DEF OneReleaser
  <2>2. NoFile # Torn /\ NoFile \notin Materials
    BY HeldoutAssumption
  <2>3. ASSUME releaser[q].step \in OracleWriters
        PROVE  oracle # NoFile /\ ~(releaser[p] # None /\ releaser[p].step \in OracleWriters)
    <3>1. releaser[q].oracle \in Materials
      BY <1>1, <2>3 DEF JobsTyped, BoundJob, ReleaseJob, OracleWriters
    <3>2. oracle # NoFile
      BY <2>1, <2>2, <2>3, <3>1 DEF ReleaserOK, OracleWriters
    <3> QED
      BY <1>1, <2>3, <3>2 DEF OneReleaser, OracleWriters
  <2>4. ASSUME releaser[q].step \in ReleaseWriters
        PROVE  release # NoFile /\ ~(releaser[p] # None /\ releaser[p].step \in ReleaseWriters)
    <3>1. release # NoFile
      BY <2>1, <2>2, <2>4 DEF ReleaserOK, ReleaseWriters
    <3> QED
      BY <1>1, <2>4, <3>1 DEF OneReleaser, ReleaseWriters
  <2> QED
    BY <2>3, <2>4
<1>2. ASSUME NEW q \in Releasers, releaser'[q] # None
      PROVE  ReleaserOK(q)'
  <2>1. CASE q = p
    BY <1>2, <2>1
  <2>2. CASE q # p
    <3>1. releaser'[q] = releaser[q] /\ releaser[q] # None /\ ReleaserOK(q)
      BY <1>2, <2>2 DEF OneReleaser
    <3>2. releaser[q].step \in OracleWriters => oracle' = oracle
      BY <1>1, <2>2, <3>1
    <3>3. releaser[q].step \in ReleaseWriters => release' = release
      BY <1>1, <2>2, <3>1
    <3>4. Now' = Now
      BY DEF Now
    <3> QED
      BY <3>1, <3>2, <3>3, <3>4, FirmSame DEF ReleaserOK, Names, OracleWriters, ReleaseWriters
  <2> QED
    BY <2>1, <2>2
<1>3. ASSUME NEW q \in Releasers, NEW o \in Releasers,
             NEW S \in {OracleWriters, ReleaseWriters},
             releaser'[q] # None, releaser'[o] # None,
             releaser'[q].step \in S, releaser'[o].step \in S
      PROVE  q = o
  <2>1. ASSUME NEW e \in Releasers, e # p, releaser'[e] # None, releaser'[p] # None,
               releaser'[e].step \in S, releaser'[p].step \in S
        PROVE  FALSE
    <3>1. releaser'[e] = releaser[e]
      BY <2>1
    <3>2. CASE S = OracleWriters
      BY <1>1, <2>1, <3>1, <3>2
    <3>3. CASE S = ReleaseWriters
      BY <1>1, <2>1, <3>1, <3>3
    <3> QED
      BY <3>2, <3>3
  <2>2. CASE q # p /\ o # p
    BY <1>3, <2>2 DEF OneReleaser, OracleWriters, ReleaseWriters
  <2>3. CASE q = p \/ o = p
    BY <1>3, <2>1, <2>3
  <2> QED
    BY <2>2, <2>3
<1> QED
  BY <1>2, <1>3 DEF OneReleaser, Settled, OracleWriters, ReleaseWriters

\* The rest of the invariant, when only releasers and their files change.
LEMMA ReleaserStepKeeps ==
  ASSUME HeldoutInv,
         UNCHANGED <<pack, run, records, invalidated, commits, generation, scorer, score, edits>>,
         Released => Released',
         oracle' \in Materials \cup Missing, release' \in ReleaseManifest \cup Missing,
         releaser' \in [Releasers -> BoundJob \cup ReleaseJob \cup {None}],
         OneReleaser', OracleOfPack'
  PROVE  HeldoutInv'
<1> USE DEF HeldoutInv, generation
<1>k. Kept
  BY FirmSame DEF TypeOK, Kept, Now
<1>1. TypeOK'
  BY DEF TypeOK, Tree, Trees, Now
<1>2. JobsTyped'
  BY DEF JobsTyped
<1>3. PackOrder' /\ GeneratorsOK'
  BY PackFrame
<1>4. BlindSoFar'
  BY <1>k, BlindFrame
<1>5. ScorerOK' /\ ScoreOK' /\ ScoredBlind'
  BY <1>k, ScorerFrame, ScoreFrame
<1> QED
  BY <1>1, <1>2, <1>3, <1>4, <1>5

LEMMA BindKeeps ==
  ASSUME HeldoutInv, NEW p \in Releasers, NEW r \in Runs, Bind(p, r)
  PROVE  HeldoutInv'
<1> USE DEF HeldoutInv
<1> DEFINE c == [step |-> "bound", run |-> r, meta |-> run[r], at |-> Now]
<1>u. UNCHANGED <<files, invalidated, commits, generation, scorer, score, edits>>
  BY DEF Bind
<1>1. releaser' = [releaser EXCEPT ![p] = c]
  BY DEF Bind
<1>2. c \in BoundJob /\ c.step = "bound" /\ c.meta = run[r]
  <2>1. run \in [Runs -> RunManifest \cup {NoFile}] /\ Now \in 1..MaxCommits
    BY DEF TypeOK, Tree, Trees
  <2>2. run[r] \in RunManifest
    BY <2>1 DEF Bind
  <2> QED
    BY <2>1, <2>2 DEF BoundJob
<1>3. /\ releaser' \in [Releasers -> BoundJob \cup ReleaseJob \cup {None}]
      /\ releaser'[p] = c
      /\ \A q \in Releasers \ {p} : releaser'[q] = releaser[q]
  BY <1>1, <1>2 DEF JobsTyped
<1>4. ReleaserOK(p)'
  <2>1. pack["manifest"] = run[r].pack
    BY DEF Bind, Bound, PublicPack, Public
  <2>2. Whole(pack["manifest"])
    BY <1>2, <2>1, MaterialIsWhole DEF BoundJob, RunManifest
  <2>3. run[r].pack \in Firm("material")
    BY <2>1, <2>2, RowFacts DEF PackOrder
  <2>4. run[r].pack \in Firm("material")'
    BY <1>u, <2>3, FirmSame DEF files
  <2> QED
    BY <1>2, <1>3, <2>4 DEF ReleaserOK, Steps
<1>5. Settled'
  BY <1>1, <1>2, <1>3, <1>u DEF Settled, OneReleaser, Names, Now, Whole, files
<1>6. OneReleaser'
  BY <1>2, <1>3, <1>4, <1>5, <1>u, OthersKeep
     DEF OracleWriters, ReleaseWriters, files, Released, Whole
<1>7. OracleOfPack'
  BY <1>u, FirmSame DEF OracleOfPack, Whole, files
<1> QED
  BY <1>3, <1>6, <1>7, <1>u, ReleaserStepKeeps DEF files, Released, Whole, TypeOK, Tree, Trees

LEMMA AnchorKeeps ==
  ASSUME HeldoutInv, NEW p \in Releasers, Anchor(p)
  PROVE  HeldoutInv'
<1> USE DEF HeldoutInv
<1> DEFINE c == releaser[p]
<1>u. UNCHANGED <<files, invalidated, commits, generation, scorer, score, edits>>
  BY DEF Anchor
<1>0. c \in BoundJob /\ c # None /\ c.step = "bound"
  BY DEF Anchor, JobsTyped, ReleaseJob, Steps
<1>w. PICK prep \in 1..Now, rec \in 1..Now :
        /\ Frozen(c.run, prep, rec, c.meta)
        /\ rec <= c.at
        /\ releaser' = [releaser EXCEPT ![p] =
             [step |-> "anchored", oracle |-> c.meta.pack, release |-> Release(c, prep, rec)]]
  BY DEF Anchor
<1> DEFINE d == [step |-> "anchored", oracle |-> c.meta.pack, release |-> Release(c, prep, rec)]
           frozen == commits[rec].records[c.run]
<1>1. frozen \in CompletedRecords /\ frozen \notin {NoFile, Blank}
  <2>1. commits[rec] \in Trees
    BY <1>w DEF TypeOK, Now
  <2>2. frozen \in CompletedRecords \cup {NoFile, Blank}
    BY <1>0, <2>1 DEF BoundJob, Trees
  <2>3. frozen \notin {NoFile, Blank}
    BY <1>w DEF Frozen, CompletedAfter, Normal
  <2> QED
    BY <2>2, <2>3
<1>2. frozen.blind \/ Released
  BY <1>0, <1>1, <1>w DEF BlindSoFar, BoundJob
<1>3. Release(c, prep, rec) \in ReleaseManifest
  <2>1. /\ c.meta \in RunManifest /\ c.at \in 1..MaxCommits
        /\ prep \in 1..MaxCommits /\ rec \in 1..MaxCommits
    <3>1. c.meta \in RunManifest /\ c.at \in 1..MaxCommits
      BY <1>0 DEF BoundJob
    <3>2. Now \in 1..MaxCommits /\ MaxCommits \in Nat
      BY HeldoutAssumption DEF TypeOK
    <3>3. prep \in 1..Now /\ rec \in 1..Now
      BY <1>w
    <3> QED
      BY <3>1, <3>2, <3>3
  <2> QED
    BY <1>1, <2>1 DEF Release, ReleaseManifest, RunManifest
<1>4. /\ Release(c, prep, rec).prep = prep /\ Release(c, prep, rec).rec = rec
      /\ Release(c, prep, rec).at = c.at /\ Release(c, prep, rec).records = frozen
  BY DEF Release
<1>5. /\ d \in ReleaseJob /\ d.step = "anchored"
      /\ d.oracle = c.meta.pack /\ d.release = Release(c, prep, rec)
  <2>1. c.meta.pack \in Materials
    BY <1>0 DEF BoundJob, RunManifest
  <2> QED
    BY <1>3, <2>1 DEF ReleaseJob, Steps
<1>6. /\ releaser' \in [Releasers -> BoundJob \cup ReleaseJob \cup {None}]
      /\ releaser'[p] = d
      /\ \A q \in Releasers \ {p} : releaser'[q] = releaser[q]
  BY <1>5, <1>w DEF JobsTyped
<1>7. ReleaserOK(p)'
  <2>1. c.meta.pack \in Firm("material") /\ Firm("material")' = Firm("material")
    BY <1>0, <1>u, FirmSame DEF OneReleaser, ReleaserOK, files
  <2>2. Released' = Released /\ Now' = Now /\ pack' = pack
    BY <1>u DEF Released, Whole, Now, files
  <2> QED
    BY <1>2, <1>4, <1>5, <1>6, <1>w, <2>1, <2>2 DEF ReleaserOK, Names
<1>8. Settled'
  BY <1>5, <1>6, <1>u DEF Settled, OneReleaser, Names, Now, Whole, files
<1>9. OneReleaser'
  BY <1>5, <1>6, <1>7, <1>8, <1>u, OthersKeep
     DEF OracleWriters, ReleaseWriters, files, Released, Whole
<1>10. OracleOfPack'
  BY <1>u, FirmSame DEF OracleOfPack, Whole, files
<1> QED
  BY <1>6, <1>9, <1>10, <1>u, ReleaserStepKeeps DEF files, Released, Whole, TypeOK, Tree, Trees

LEMMA ReleaserDiesKeeps ==
  ASSUME HeldoutInv, NEW p \in Releasers, ReleaserDies(p)
  PROVE  HeldoutInv'
<1> USE DEF HeldoutInv
<1>u. UNCHANGED <<files, invalidated, commits, generation, scorer, score, edits>>
  BY DEF ReleaserDies
<1>1. /\ releaser' \in [Releasers -> BoundJob \cup ReleaseJob \cup {None}]
      /\ releaser'[p] = None
      /\ \A q \in Releasers \ {p} : releaser'[q] = releaser[q]
  BY Stopped DEF ReleaserDies
<1>2. Settled'
  BY <1>1, <1>u DEF Settled, OneReleaser, Names, Now, Whole, files
<1>3. OneReleaser'
  BY <1>1, <1>2, <1>u, OthersKeep DEF files, Released, Whole
<1>4. OracleOfPack'
  BY <1>u, FirmSame DEF OracleOfPack, Whole, files
<1> QED
  BY <1>1, <1>3, <1>4, <1>u, ReleaserStepKeeps DEF files, Released, Whole, TypeOK, Tree, Trees

LEMMA CreateOracleKeeps ==
  ASSUME HeldoutInv, NEW p \in Releasers, CreateOracle(p)
  PROVE  HeldoutInv'
<1> USE DEF HeldoutInv
<1> DEFINE c == releaser[p]
<1>u. UNCHANGED <<pack, run, records, release, invalidated, commits, generation, scorer, score, edits>>
  BY DEF CreateOracle
<1>0. c \in ReleaseJob /\ c # None /\ c.step = "anchored" /\ ReleaserOK(p)
  BY AtTyped DEF CreateOracle, OneReleaser, Steps
<1>t. Torn \in Missing /\ Torn \notin Materials /\ ~Whole(Torn) /\ ~Whole(NoFile)
  BY HeldoutAssumption DEF Missing, Whole
<1>y. oracle \in Materials \cup Missing /\ release \in ReleaseManifest \cup Missing
  BY DEF TypeOK, Tree, Trees
<1>1. CASE oracle = NoFile /\ oracle' = Torn /\ Step(p, "oracle open")
  <2>1. /\ releaser' \in [Releasers -> BoundJob \cup ReleaseJob \cup {None}]
        /\ releaser'[p].step = "oracle open"
        /\ releaser'[p].oracle = c.oracle /\ releaser'[p].release = c.release
        /\ \A q \in Releasers \ {p} : releaser'[q] = releaser[q]
    BY <1>0, <1>1, Stepped DEF Steps
  <2>2. ~Released /\ ~Whole(release)
    BY <1>1, <1>t DEF Released, OneReleaser
  <2>3. ReleaserOK(p)'
    <3>1. c.oracle \in Firm("material") /\ Names(c.release) /\ c.release.rec <= c.release.at
      BY <1>0 DEF ReleaserOK, Steps
    <3>2. c.release.records.blind
      BY <1>0, <2>2 DEF ReleaserOK
    <3> QED
      BY <1>1, <1>u, <2>1, <3>1, <3>2, FirmSame DEF ReleaserOK, Names, Now
  <2>4. Settled'
    BY <1>u, <2>2 DEF Settled, Whole
  <2>5. OneReleaser'
    BY <1>1, <1>u, <2>1, <2>2, <2>3, <2>4, OthersKeep DEF ReleaseWriters
  <2>6. OracleOfPack'
    BY <1>1, <1>t, FirmSame DEF OracleOfPack, Whole
  <2> QED
    BY <1>1, <1>t, <1>u, <1>y, <2>1, <2>2, <2>5, <2>6, ReleaserStepKeeps
<1>2. CASE oracle # NoFile /\ UNCHANGED oracle /\ Stop(p)
  <2>1. ReleaserDies(p)
    BY <1>0, <1>2, <1>u DEF ReleaserDies, files
  <2> QED
    BY <2>1, ReleaserDiesKeeps
<1> QED
  BY <1>1, <1>2 DEF CreateOracle

LEMMA FillOracleKeeps ==
  ASSUME HeldoutInv, NEW p \in Releasers, FillOracle(p)
  PROVE  HeldoutInv'
<1> USE DEF HeldoutInv
<1> DEFINE c == releaser[p]
<1>u. UNCHANGED <<pack, run, records, release, invalidated, commits, generation, scorer, score, edits>>
  BY DEF FillOracle
<1>0. c \in ReleaseJob /\ c # None /\ c.step = "oracle open" /\ ReleaserOK(p)
  BY AtTyped DEF FillOracle, OneReleaser, Steps
<1>y. c.oracle \in Materials /\ release \in ReleaseManifest \cup Missing
  BY <1>0 DEF TypeOK, Tree, Trees, ReleaseJob
<1>1. /\ releaser' \in [Releasers -> BoundJob \cup ReleaseJob \cup {None}]
      /\ releaser'[p].step = "oracle written"
      /\ releaser'[p].oracle = c.oracle /\ releaser'[p].release = c.release
      /\ \A q \in Releasers \ {p} : releaser'[q] = releaser[q]
  BY <1>0, Stepped DEF Steps, FillOracle
<1>2. ~Released /\ ~Whole(release)
  <2>1. oracle = Torn
    BY <1>0 DEF ReleaserOK
  <2> QED
    BY <2>1 DEF Released, Whole, OneReleaser
<1>3. oracle' = c.oracle
  BY DEF FillOracle
<1>4. ReleaserOK(p)'
  <2>1. c.oracle \in Firm("material") /\ Names(c.release) /\ c.release.rec <= c.release.at
    BY <1>0 DEF ReleaserOK, Steps
  <2>2. c.release.records.blind
    BY <1>0 DEF ReleaserOK
  <2> QED
    BY <1>1, <1>3, <1>u, <2>1, <2>2, FirmSame DEF ReleaserOK, Names, Now
<1>5. Settled'
  BY <1>u, <1>2 DEF Settled, Whole
<1>6. OneReleaser'
  BY <1>0, <1>1, <1>2, <1>4, <1>5, <1>u, OthersKeep DEF OracleWriters, ReleaseWriters
<1>7. OracleOfPack'
  BY <1>0, <1>3, <1>u, FirmSame DEF OracleOfPack, ReleaserOK, Steps
<1> QED
  BY <1>1, <1>2, <1>3, <1>6, <1>7, <1>u, <1>y, ReleaserStepKeeps

LEMMA CreateReleaseKeeps ==
  ASSUME HeldoutInv, NEW p \in Releasers, CreateRelease(p)
  PROVE  HeldoutInv'
<1> USE DEF HeldoutInv
<1> DEFINE c == releaser[p]
<1>u. UNCHANGED <<pack, run, records, invalidated, commits, generation, scorer, score, edits>>
  BY DEF CreateRelease
<1>0. c \in ReleaseJob /\ c # None /\ c.step = "oracle written" /\ ReleaserOK(p)
  BY AtTyped DEF CreateRelease, OneReleaser, Steps
<1>t. /\ Torn \in Missing /\ NoFile \in Missing /\ ~Whole(Torn) /\ ~Whole(NoFile)
  BY DEF Missing, Whole
<1>y. oracle \in Materials \cup Missing /\ release \in ReleaseManifest \cup Missing
  BY DEF TypeOK, Tree, Trees
<1>2. ~Released /\ ~Whole(release)
  BY <1>0 DEF Released, OneReleaser
<1>3. CASE release = NoFile /\ release' = Torn /\ Step(p, "release open") /\ UNCHANGED oracle
  <2>1. /\ releaser' \in [Releasers -> BoundJob \cup ReleaseJob \cup {None}]
        /\ releaser'[p].step = "release open"
        /\ releaser'[p].oracle = c.oracle /\ releaser'[p].release = c.release
        /\ \A q \in Releasers \ {p} : releaser'[q] = releaser[q]
    BY <1>0, <1>3, Stepped DEF Steps
  <2>2. ReleaserOK(p)'
    <3>1. c.oracle \in Firm("material") /\ Names(c.release) /\ c.release.rec <= c.release.at
      BY <1>0 DEF ReleaserOK, Steps
    <3>2. c.release.records.blind /\ oracle = c.oracle
      BY <1>0 DEF ReleaserOK
    <3> QED
      BY <1>3, <1>u, <2>1, <3>1, <3>2, FirmSame DEF ReleaserOK, Names, Now
  <2>3. Settled'
    BY <1>3, <1>t DEF Settled, Whole
  <2>4. OneReleaser'
    BY <1>0, <1>2, <1>3, <1>u, <2>1, <2>2, <2>3, OthersKeep DEF OracleWriters, ReleaseWriters
  <2>5. OracleOfPack'
    BY <1>3, <1>u, FirmSame DEF OracleOfPack, Whole
  <2> QED
    BY <1>2, <1>3, <1>t, <1>u, <1>y, <2>1, <2>4, <2>5, ReleaserStepKeeps
<1>4. CASE release # NoFile /\ oracle' = NoFile /\ Stop(p) /\ UNCHANGED release
  <2>1. /\ releaser' \in [Releasers -> BoundJob \cup ReleaseJob \cup {None}]
        /\ releaser'[p] = None
        /\ \A q \in Releasers \ {p} : releaser'[q] = releaser[q]
    BY <1>4, Stopped
  <2>2. Settled'
    BY <1>2, <1>4 DEF Settled, Whole
  <2>3. OneReleaser'
    BY <1>0, <1>2, <1>4, <1>u, <2>1, <2>2, OthersKeep DEF OracleWriters
  <2>4. OracleOfPack'
    BY <1>4, <1>t, FirmSame DEF OracleOfPack, Whole
  <2> QED
    BY <1>2, <1>4, <1>t, <1>u, <1>y, <2>1, <2>3, <2>4, ReleaserStepKeeps
<1> QED
  BY <1>3, <1>4 DEF CreateRelease

LEMMA FillReleaseKeeps ==
  ASSUME HeldoutInv, NEW p \in Releasers, FillRelease(p)
  PROVE  HeldoutInv'
<1> USE DEF HeldoutInv
<1> DEFINE c == releaser[p]
<1>u. UNCHANGED <<pack, run, records, oracle, invalidated, commits, generation, scorer, score, edits>>
  BY DEF FillRelease
<1>0. c \in ReleaseJob /\ c # None /\ c.step = "release open" /\ ReleaserOK(p)
  BY AtTyped DEF FillRelease, OneReleaser, Steps
<1>y. oracle \in Materials \cup Missing /\ c.oracle \in Materials /\ c.release \in ReleaseManifest
  BY <1>0 DEF TypeOK, Tree, Trees, ReleaseJob
<1>1. release' = c.release
  BY DEF FillRelease
<1>2. /\ releaser' \in [Releasers -> BoundJob \cup ReleaseJob \cup {None}]
      /\ releaser'[p] = None
      /\ \A q \in Releasers \ {p} : releaser'[q] = releaser[q]
  BY Stopped DEF FillRelease
<1>3. release = Torn /\ ~Released /\ Whole(oracle)
  <2>1. release = Torn /\ oracle = c.oracle
    BY <1>0 DEF ReleaserOK
  <2> QED
    BY <1>y, <2>1, MaterialIsWhole DEF Released, Whole
<1>4. Settled'
  <2>1. c.release.records.blind /\ Names(c.release) /\ c.release.rec <= c.release.at
    BY <1>0 DEF ReleaserOK, Steps
  <2>2. \A q \in Releasers \ {p} : releaser[q] # None => releaser[q].step # "oracle written"
    BY <1>0 DEF OneReleaser
  <2>3. \A q \in Releasers : releaser'[q] # None => releaser'[q].step # "oracle written"
    BY <1>2, <2>2
  <2> QED
    BY <1>1, <1>3, <1>u, <2>1, <2>3 DEF Settled, Names, Now, Whole
<1>5. OneReleaser'
  BY <1>0, <1>2, <1>3, <1>4, <1>u, OthersKeep DEF ReleaseWriters
<1>6. OracleOfPack'
  BY <1>u, FirmSame DEF OracleOfPack, Whole
<1> QED
  BY <1>1, <1>2, <1>3, <1>5, <1>6, <1>u, <1>y, ReleaserStepKeeps

LEMMA RollBackKeeps ==
  ASSUME HeldoutInv, NEW p \in Releasers, RollBack(p)
  PROVE  HeldoutInv'
<1> USE DEF HeldoutInv
<1> DEFINE c == releaser[p]
<1>u. UNCHANGED <<pack, run, records, invalidated, commits, generation, scorer, score, edits>>
  BY DEF RollBack
<1>t. NoFile \in Missing /\ ~Whole(Torn) /\ ~Whole(NoFile)
  BY DEF Missing, Whole
<1>y. oracle \in Materials \cup Missing /\ release \in ReleaseManifest \cup Missing
  BY DEF TypeOK, Tree, Trees
<1>1. CASE /\ At(p, "oracle open") \/ At(p, "oracle written")
           /\ oracle' = NoFile /\ Stop(p) /\ UNCHANGED release
  <2>0. c # None /\ c.step \in {"oracle open", "oracle written"} /\ ReleaserOK(p)
    BY <1>1 DEF At, OneReleaser
  <2>1. /\ releaser' \in [Releasers -> BoundJob \cup ReleaseJob \cup {None}]
        /\ releaser'[p] = None
        /\ \A q \in Releasers \ {p} : releaser'[q] = releaser[q]
    BY <1>1, Stopped
  <2>2. ~Released /\ ~Whole(release)
    BY <1>t, <2>0 DEF Released, ReleaserOK, OneReleaser
  <2>3. Settled'
    BY <1>1, <2>2 DEF Settled, Whole
  <2>4. OneReleaser'
    BY <1>1, <1>u, <2>0, <2>1, <2>2, <2>3, OthersKeep DEF OracleWriters
  <2>5. OracleOfPack'
    BY <1>1, <1>t, FirmSame DEF OracleOfPack, Whole
  <2> QED
    BY <1>1, <1>t, <1>u, <1>y, <2>1, <2>2, <2>4, <2>5, ReleaserStepKeeps
<1>2. CASE /\ At(p, "release open")
           /\ oracle' = NoFile /\ Step(p, "rolling back") /\ UNCHANGED release
  <2>0. c \in ReleaseJob /\ c # None /\ c.step = "release open" /\ ReleaserOK(p)
    BY <1>2, AtTyped DEF OneReleaser, Steps
  <2>1. /\ releaser' \in [Releasers -> BoundJob \cup ReleaseJob \cup {None}]
        /\ releaser'[p].step = "rolling back"
        /\ releaser'[p].oracle = c.oracle /\ releaser'[p].release = c.release
        /\ \A q \in Releasers \ {p} : releaser'[q] = releaser[q]
    BY <1>2, <2>0, Stepped DEF Steps
  <2>2. release = Torn /\ ~Released
    BY <1>t, <2>0 DEF Released, ReleaserOK
  <2>3. Settled'
    BY <1>2, <1>t, <2>2 DEF Settled, Whole
  <2>4. ReleaserOK(p)'
    <3>1. c.oracle \in Firm("material") /\ Names(c.release) /\ c.release.rec <= c.release.at
      BY <2>0 DEF ReleaserOK, Steps
    <3> QED
      BY <1>2, <1>u, <2>1, <2>2, <3>1, FirmSame DEF ReleaserOK, Names, Now
  <2>5. OneReleaser'
    BY <1>2, <1>u, <2>0, <2>1, <2>2, <2>3, <2>4, OthersKeep DEF OracleWriters, ReleaseWriters
  <2>6. OracleOfPack'
    BY <1>2, <1>t, FirmSame DEF OracleOfPack, Whole
  <2> QED
    BY <1>2, <1>t, <1>u, <1>y, <2>1, <2>2, <2>5, <2>6, ReleaserStepKeeps
<1>3. CASE At(p, "rolling back") /\ release' = NoFile /\ Stop(p) /\ UNCHANGED oracle
  <2>0. c # None /\ c.step = "rolling back" /\ ReleaserOK(p)
    BY <1>3 DEF At, OneReleaser
  <2>1. /\ releaser' \in [Releasers -> BoundJob \cup ReleaseJob \cup {None}]
        /\ releaser'[p] = None
        /\ \A q \in Releasers \ {p} : releaser'[q] = releaser[q]
    BY <1>3, Stopped
  <2>2. ~Released
    BY <1>t, <2>0 DEF Released, ReleaserOK
  <2>3. Settled'
    BY <1>3, <1>t DEF Settled, Whole
  <2>4. OneReleaser'
    BY <1>3, <1>u, <2>0, <2>1, <2>2, <2>3, OthersKeep DEF ReleaseWriters
  <2>5. OracleOfPack'
    BY <1>3, <1>u, FirmSame DEF OracleOfPack, Whole
  <2> QED
    BY <1>3, <1>t, <1>u, <1>y, <2>1, <2>2, <2>4, <2>5, ReleaserStepKeeps
<1> QED
  BY <1>1, <1>2, <1>3 DEF RollBack

-----------------------------------------------------------------------------
(* Scoring.                                                                *)

\* The rest of the invariant, when only the scorer and its summary change.
LEMMA ScorerStepKeeps ==
  ASSUME HeldoutInv,
         UNCHANGED <<files, invalidated, commits, generation, releaser, edits>>,
         scorer' \in ReadJob \cup MatchedJob \cup {None},
         ScorerOK', ScoreOK', ScoredBlind'
  PROVE  HeldoutInv'
<1> USE DEF HeldoutInv, files, generation
<1>k. Kept
  BY KeptSame
<1>1. TypeOK' /\ JobsTyped'
  BY DEF TypeOK, JobsTyped, Tree, Now
<1>2. PackOrder' /\ GeneratorsOK' /\ OneReleaser' /\ OracleOfPack'
  BY <1>k, PackFrame, ReleaserFrame
<1>3. BlindSoFar'
  BY <1>k, BlindFrame
<1> QED
  BY <1>1, <1>2, <1>3

LEMMA ReadRunKeeps ==
  ASSUME HeldoutInv, NEW r \in Runs, ReadRun(r)
  PROVE  HeldoutInv'
<1> USE DEF HeldoutInv
<1>u. UNCHANGED <<files, invalidated, commits, generation, releaser, score, edits>>
  BY DEF ReadRun
<1>1. /\ scorer' = [step |-> "read", run |-> r, meta |-> run[r]]
      /\ scorer' \in ReadJob /\ scorer'.step = "read"
  <2>1. run[r] \in RunManifest
    BY DEF ReadRun, TypeOK, Tree, Trees
  <2> QED
    BY <2>1 DEF ReadRun, ReadJob
<1>2. ScorerOK'
  BY <1>1 DEF ScorerOK
<1>3. ScoreOK' /\ ScoredBlind'
  BY <1>u, KeptSame, ScoreFrame DEF files
<1> QED
  BY <1>1, <1>2, <1>3, <1>u, ScorerStepKeeps

LEMMA ScorerStopsKeeps ==
  ASSUME HeldoutInv, ScorerStops
  PROVE  HeldoutInv'
<1> USE DEF HeldoutInv
<1>u. UNCHANGED <<files, invalidated, commits, generation, releaser, score, edits>> /\ scorer' = None
  BY DEF ScorerStops
<1>1. ScorerOK'
  BY <1>u DEF ScorerOK
<1>2. ScoreOK' /\ ScoredBlind'
  BY <1>u, KeptSame, ScoreFrame DEF files
<1> QED
  BY <1>1, <1>2, <1>u, ScorerStepKeeps

LEMMA SnapshotKeeps ==
  ASSUME HeldoutInv, Snapshot
  PROVE  HeldoutInv'
<1> USE DEF HeldoutInv
<1> DEFINE s == [step |-> "matched", run |-> scorer.run, meta |-> scorer.meta,
                 release |-> release, oracle |-> oracle, records |-> records[scorer.run]]
<1>u. UNCHANGED <<files, invalidated, commits, generation, releaser, score, edits>>
  BY DEF Snapshot
<1>0. scorer \in ReadJob /\ Whole(oracle) /\ Whole(release) /\ scorer' = s
  BY DEF Snapshot, JobsTyped, MatchedJob, Released
<1>1. /\ release \in ReleaseManifest /\ oracle \in Materials
      /\ records[scorer.run] = release.records /\ oracle = scorer.meta.pack
  BY <1>0 DEF TypeOK, Tree, Trees, Whole, Missing, Snapshot, Matches
<1>2. s \in MatchedJob
  <2>1. release.records \in CompletedRecords
    BY <1>1 DEF ReleaseManifest
  <2> QED
    BY <1>0, <1>1, <2>1 DEF ReadJob, MatchedJob
<1>3. ScorerOK'
  <2>1. release.records.blind /\ Names(release) /\ release.rec <= release.at
    BY <1>0 DEF OneReleaser
  <2>2. oracle \in Firm("cases") /\ Firm("cases")' = Firm("cases")
    <3>1. pack["manifest"] = oracle
      BY <1>1 DEF Snapshot, Matches, Bound, PublicPack, Public
    <3> QED
      BY <1>0, <1>u, <3>1, FirmSame, RowFacts DEF PackOrder, files
  <2>3. /\ s.records = release.records /\ s.release = release
        /\ s.oracle = oracle /\ s.meta = scorer.meta
    BY <1>1
  <2> QED
    BY <1>0, <1>1, <1>u, <2>1, <2>2, <2>3 DEF ScorerOK, Names, Now, files
<1>4. ScoreOK' /\ ScoredBlind'
  BY <1>u, KeptSame, ScoreFrame DEF files
<1> QED
  BY <1>0, <1>2, <1>3, <1>4, <1>u, ScorerStepKeeps

LEMMA ScoreRunKeeps ==
  ASSUME HeldoutInv, ScoreRun
  PROVE  HeldoutInv'
<1> USE DEF HeldoutInv
<1> DEFINE rel == scorer.release
           r == scorer.run
           P == commits[rel.prep]
           R == commits[rel.rec]
<1>u. UNCHANGED <<files, invalidated, commits, generation, releaser, edits>> /\ scorer' = None
  BY DEF ScoreRun
<1>0. scorer \in MatchedJob /\ scorer # None /\ scorer.step = "matched" /\ r \in Runs
  BY DEF ScoreRun, JobsTyped, ReadJob, MatchedJob
<1>1. /\ scorer.records = rel.records /\ scorer.records.blind
      /\ scorer.oracle = scorer.meta.pack /\ scorer.oracle \in Firm("cases")
      /\ Names(rel) /\ rel.rec <= rel.at
  BY <1>0 DEF ScorerOK
<1>2. /\ Frozen(r, rel.prep, rel.rec, scorer.meta)
      /\ R.records[r] = rel.records
      /\ AnchorHolds(PreparationAnchor(r, rel.prep), scorer.meta, scorer.records)
  BY DEF ScoreRun
<1>3. /\ score' = Summary(scorer)
      /\ score'.run = r /\ score'.meta = scorer.meta /\ score'.oracle = scorer.oracle
      /\ score'.records = scorer.records /\ score'.prep = rel.prep
      /\ score'.rec = rel.rec /\ score'.at = rel.at
  BY DEF ScoreRun, Summary
<1>4. /\ rel.rec = rel.prep + 1
      /\ P.records[r] = Blank
      /\ {P.oracle, R.oracle, P.release, R.release} = {NoFile}
      /\ P.pack = Tree.pack
      /\ rel.prep <= R.records[r].start /\ R.records[r].end <= rel.rec
  BY <1>2 DEF Frozen
<1>5. P.run[r] = scorer.meta
  BY <1>2 DEF AnchorHolds, PreparationAnchor
<1>6. undercut \/ P.pack["cases"] = scorer.oracle
  <2>1. ~undercut => pack["cases"] = scorer.oracle
    BY <1>1, FirmIsWhole DEF Premises
  <2>2. Tree.pack["cases"] = pack["cases"]
    BY DEF Tree, Public
  <2> QED
    BY <1>4, <2>1, <2>2
<1>7. ScorerOK'
  BY <1>u DEF ScorerOK
<1>8. ScoreOK'
  BY <1>0, <1>1, <1>3, <1>u DEF ScoreOK, Names, Now
<1>9. ScoredBlind'
  BY <1>1, <1>2, <1>3, <1>4, <1>5, <1>6, <1>u DEF ScoredBlind, generation
<1> QED
  BY <1>7, <1>8, <1>9, <1>u, ScorerStepKeeps

-----------------------------------------------------------------------------
(* The theorems.                                                           *)

\* Every step of the held-out protocol (stage1_heldout.py, stage1_heldout_-
\* release.py, score_stage1_heldout_manual.py) keeps HeldoutInv.
LEMMA StepInv ==
  ASSUME HeldoutInv, [Next]_vars
  PROVE  HeldoutInv'
<1>1. ASSUME NEW g \in Generators, StartGenerate(g) PROVE HeldoutInv'
  BY <1>1, StartGenerateKeeps
<1>2. ASSUME NEW g \in Generators, WriteNewOrEqual(g) PROVE HeldoutInv'
  BY <1>2, WriteNewOrEqualKeeps
<1>3. ASSUME NEW g \in Generators, GeneratorStops(g) PROVE HeldoutInv'
  BY <1>3, GeneratorStopsKeeps
<1>4. ASSUME NEW r \in Runs, Prepare(r) \/ Handle(r) \/ EditRun(r) \/ ReadRun(r)
      PROVE  HeldoutInv'
  BY <1>4, PrepareKeeps, HandleKeeps, EditRunKeeps, ReadRunKeeps
<1>5. CASE Commit \/ Invalidate
  BY <1>5, CommitKeeps, InvalidateKeeps
<1>6. ASSUME NEW p \in Releasers, NEW r \in Runs, Bind(p, r) PROVE HeldoutInv'
  BY <1>6, BindKeeps
<1>7. ASSUME NEW p \in Releasers,
             Anchor(p) \/ CreateOracle(p) \/ FillOracle(p) \/ CreateRelease(p)
      PROVE  HeldoutInv'
  BY <1>7, AnchorKeeps, CreateOracleKeeps, FillOracleKeeps, CreateReleaseKeeps
<1>8. ASSUME NEW p \in Releasers, FillRelease(p) \/ RollBack(p) \/ ReleaserDies(p)
      PROVE  HeldoutInv'
  BY <1>8, FillReleaseKeeps, RollBackKeeps, ReleaserDiesKeeps
<1>9. CASE Snapshot \/ ScoreRun \/ ScorerStops
  BY <1>9, SnapshotKeeps, ScoreRunKeeps, ScorerStopsKeeps
<1>10. CASE UNCHANGED vars
  <2> USE <1>10 DEF vars, files, generation, HeldoutInv
  <2>1. Kept
    BY KeptSame
  <2>2. TypeOK' /\ JobsTyped'
    BY DEF TypeOK, JobsTyped, Tree, Now
  <2>3. PackOrder' /\ GeneratorsOK' /\ OneReleaser' /\ OracleOfPack'
    BY <2>1, PackFrame, ReleaserFrame
  <2>4. BlindSoFar' /\ ScorerOK' /\ ScoreOK' /\ ScoredBlind'
    BY <2>1, BlindFrame, ScorerFrame, ScoreFrame
  <2> QED
    BY <2>2, <2>3, <2>4
<1> QED
  BY <1>1, <1>2, <1>3, <1>4, <1>5, <1>6, <1>7, <1>8, <1>9, <1>10 DEF Next

\* HeldoutInv always holds: whatever generators, people, releasers and the
\* scorer do, in whatever order, and wherever they are killed.
THEOREM HeldoutInvariant == Spec => []HeldoutInv
<1>1. Init => HeldoutInv
  BY InitInv
<1>2. HeldoutInv /\ [Next]_vars => HeldoutInv'
  BY StepInv
<1> QED
  BY <1>1, <1>2, PTL DEF Spec

\* Files and commits are of their types; a whole release manifest holds
\* completed records (_write_release_pair, load_records_freeze_anchor).
THEOREM HeldoutTyping == Spec => []TypeOK
<1>1. HeldoutInv => TypeOK
  BY DEF HeldoutInv
<1> QED
  BY <1>1, HeldoutInvariant, PTL

\* A written public manifest stands for one material that gives every file of
\* the pack: the order in which _write_new_or_equal is called makes the pack
\* whole up to its manifest, no one writes over a file, and a file may be
\* removed whole, but not one that others took as given, unless undercut says.
THEOREM PackAlwaysReproduces == Spec => []PackReproduces
<1>1. HeldoutInv => PackReproduces
  <2> SUFFICES ASSUME HeldoutInv, Whole(pack["manifest"]), ~undercut PROVE PackReproduces
    BY DEF PackReproduces
  <2> USE DEF HeldoutInv
  <2>0. "material" \in Premises /\ "cases" \in Premises
    BY DEF Premises
  <2>1. pack["cases"] = pack["manifest"] /\ pack["material"] = pack["manifest"]
    BY <2>0, FirmIsWhole, RowFacts DEF PackOrder
  <2>2. pack["oracle"] \in {pack["manifest"], NoFile, Torn}
    BY <2>0, <2>1, FirmIsWhole, RowFacts DEF PackOrder, Whole
  <2>3. oracle \in {pack["manifest"], NoFile, Torn}
    BY <2>0, <2>1, FirmIsWhole DEF OracleOfPack, Whole
  <2> QED
    BY <2>1, <2>2, <2>3 DEF PackReproduces, Premises
<1> QED
  BY <1>1, HeldoutInvariant, PTL

\* Every summary the scorer writes is about records committed, right after
\* the blank template, before any oracle was there (load_records_freeze_anchor,
\* score_heldout_run).
THEOREM ScoresAreBlind == Spec => []ScoredBlind
<1>1. HeldoutInv => ScoredBlind
  BY DEF HeldoutInv
<1> QED
  BY <1>1, HeldoutInvariant, PTL
=============================================================================

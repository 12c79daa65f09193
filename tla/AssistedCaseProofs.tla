------------------------- MODULE AssistedCaseProofs -------------------------
(***************************************************************************)
(* Proofs about AssistedCase and the policy it applies, for every value of *)
(* the constants: that no authority covers less than what was done with    *)
(* it, that worse evidence grants nothing more, and that the evaluation    *)
(* reports what happened.                                                  *)
(*                                                                         *)
(* Quantities and amounts are sums over the order lines, of which there    *)
(* may be any number: the first part is about sums.                        *)
(***************************************************************************)
EXTENDS AssistedCase, FiniteSetTheorems, WellFoundedInduction, TLAPS

-----------------------------------------------------------------------------
(* Induction.                                                              *)

\* A set of natural numbers has a least one.
LEMMA LeastNumber ==
  ASSUME NEW T \in SUBSET Nat, T # {}
  PROVE  \E x \in T : \A y \in T : x <= y
<1> DEFINE R == OpToRel(<, Nat)
<1>1. PICK x \in T : \A y \in T : ~ (<<y, x>> \in R)
  <2> HIDE DEF R
  <2>1. IsWellFoundedOn(R, Nat)
    BY NatLessThanWellFounded DEF R
  <2> QED
    BY <2>1, WFMin
<1>2. \A y \in T : ~ (y < x)
  BY <1>1 DEF OpToRel
<1> QED
  BY <1>2

\* A set of natural numbers that has 0, and with every number the next, has
\* all of them.
LEMMA SetInduction ==
  ASSUME NEW T \in SUBSET Nat, 0 \in T, \A n \in T : n + 1 \in T
  PROVE  T = Nat
<1>1. SUFFICES ASSUME Nat \ T # {} PROVE FALSE
  OBVIOUS
<1>2. PICK x \in Nat \ T : \A y \in Nat \ T : x <= y
  <2>1. Nat \ T \in SUBSET Nat
    OBVIOUS
  <2> QED
    BY <1>1, <2>1, LeastNumber
<1>3. x \in Nat /\ x # 0
  BY <1>2
<1>4. x - 1 \in Nat /\ (x - 1) + 1 = x /\ ~ (x <= x - 1)
  BY <1>3
<1> QED
  BY <1>2, <1>4

-----------------------------------------------------------------------------
(* Sums over a finite set.                                                 *)

\* The element a sum over s takes next.
Pick(s) == CHOOSE x \in s : TRUE

\* F[s] is the sum of f over s, for every s in S.
SumsUp(F, f, S) ==
  F = [s \in S |-> IF s = {} THEN 0 ELSE f[Pick(s)] + F[s \ {Pick(s)}]]

PartialSums(f) == CHOOSE F : SumsUp(F, f, SUBSET DOMAIN f)

LEMMA SumIsPartialSum ==
  ASSUME NEW f
  PROVE  SumFunction(f) = PartialSums(f)[DOMAIN f]
BY DEF SumFunction, SumFunctionOnSet, FoldFunctionOnSet, MapThenFoldSet,
       PartialSums, SumsUp, Pick

\* A set of the subsets of a finite set that has the empty one, and every
\* subset whose rest it has, has all of them.
LEMMA SubsetInduction ==
  ASSUME NEW D, IsFiniteSet(D), NEW A \in SUBSET SUBSET D,
         {} \in A,
         \A s \in SUBSET D : s # {} /\ s \ {Pick(s)} \in A => s \in A
  PROVE  A = SUBSET D
<1> DEFINE T == {n \in Nat : \A s \in SUBSET D : Cardinality(s) <= n => s \in A}
<1>1. \A s \in SUBSET D : IsFiniteSet(s) /\ Cardinality(s) \in Nat
  BY FS_Subset, FS_CardinalityType
<1>2. 0 \in T
  <2>1. ASSUME NEW s \in SUBSET D, Cardinality(s) <= 0 PROVE s = {}
    BY <1>1, <2>1, FS_EmptySet
  <2> QED
    BY <2>1
<1>3. ASSUME NEW n \in T PROVE n + 1 \in T
  <2>1. SUFFICES ASSUME NEW s \in SUBSET D, Cardinality(s) <= n + 1, s # {}
                 PROVE  s \in A
    BY <1>3
  <2>2. Pick(s) \in s
    BY <2>1 DEF Pick
  <2>3. Cardinality(s \ {Pick(s)}) = Cardinality(s) - 1
    BY <2>2, <1>1, FS_RemoveElement
  <2>4. s \ {Pick(s)} \in A
    BY <2>1, <2>3, <1>1, <1>3
  <2> QED
    BY <2>1, <2>4
<1>4. T = Nat
  <2> HIDE DEF T
  <2>1. T \in SUBSET Nat
    BY DEF T
  <2> QED
    BY <1>2, <1>3, <2>1, SetInduction
<1>5. ASSUME NEW s \in SUBSET D PROVE s \in A
  <2>1. Cardinality(s) \in T
    BY <1>1, <1>4
  <2> QED
    BY <2>1, <1>1
<1> QED
  BY <1>5

\* The recursion of a sum over a finite set has a solution.
LEMMA SumsExist ==
  ASSUME NEW f, IsFiniteSet(DOMAIN f)
  PROVE  SumsUp(PartialSums(f), f, SUBSET DOMAIN f)
<1> DEFINE D == DOMAIN f
           Below(n) == {s \in SUBSET D : Cardinality(s) <= n}
           T == {n \in Nat : \E F : SumsUp(F, f, Below(n))}
<1>1. \A s \in SUBSET D : IsFiniteSet(s) /\ Cardinality(s) \in Nat
  BY FS_Subset, FS_CardinalityType
<1>2. 0 \in T
  <2> DEFINE F == [s \in Below(0) |-> 0]
  <2>1. \A s \in Below(0) : s = {}
    BY <1>1, FS_EmptySet
  <2>2. SumsUp(F, f, Below(0))
    BY <2>1 DEF SumsUp
  <2> QED
    BY <2>2
<1>3. ASSUME NEW n \in T PROVE n + 1 \in T
  <2>1. PICK F : SumsUp(F, f, Below(n))
    BY <1>3
  <2> DEFINE G == [s \in Below(n + 1) |->
                     IF s = {} THEN 0 ELSE f[Pick(s)] + F[s \ {Pick(s)}]]
  <2>2. ASSUME NEW s \in Below(n) PROVE s \in Below(n + 1) /\ G[s] = F[s]
    <3>1. s \in Below(n + 1)
      BY <1>1, <1>3
    <3>2. F[s] = IF s = {} THEN 0 ELSE f[Pick(s)] + F[s \ {Pick(s)}]
      BY <2>1, <2>2 DEF SumsUp
    <3> HIDE DEF Below
    <3> QED
      BY <3>1, <3>2
  <2>3. ASSUME NEW s \in Below(n + 1), s # {}
        PROVE  s \ {Pick(s)} \in Below(n)
    <3>1. Pick(s) \in s
      BY <2>3 DEF Pick
    <3>2. Cardinality(s \ {Pick(s)}) = Cardinality(s) - 1
      BY <3>1, <1>1, FS_RemoveElement
    <3> QED
      BY <3>2, <1>1, <1>3
  <2>4. SumsUp(G, f, Below(n + 1))
    <3>1. ASSUME NEW s \in Below(n + 1), s # {}
          PROVE  F[s \ {Pick(s)}] = G[s \ {Pick(s)}]
      BY <3>1, <2>2, <2>3
    <3> HIDE DEF Below
    <3>2. G = [s \in Below(n + 1) |->
                 IF s = {} THEN 0 ELSE f[Pick(s)] + G[s \ {Pick(s)}]]
      BY <3>1
    <3> QED
      BY <3>2 DEF SumsUp
  <2>5. n + 1 \in Nat
    BY <1>3
  <2> HIDE DEF Below, G
  <2> QED
    BY <2>4, <2>5
<1>4. T = Nat
  <2> HIDE DEF T
  <2>1. T \in SUBSET Nat
    BY DEF T
  <2> QED
    BY <1>2, <1>3, <2>1, SetInduction
<1>5. Cardinality(D) \in T
  BY <1>1, <1>4
<1>6. Below(Cardinality(D)) = SUBSET D
  BY <1>1, FS_Subset
<1>7. \E F : SumsUp(F, f, SUBSET D)
  BY <1>5, <1>6
<1> QED
  BY <1>7 DEF PartialSums

\* The sums of f, one element after the other.
LEMMA PartialSumStep ==
  ASSUME NEW f, IsFiniteSet(DOMAIN f)
  PROVE  /\ PartialSums(f)[{}] = 0
         /\ \A s \in SUBSET DOMAIN f : s # {} =>
              /\ Pick(s) \in s
              /\ PartialSums(f)[s] = f[Pick(s)] + PartialSums(f)[s \ {Pick(s)}]
<1>1. SumsUp(PartialSums(f), f, SUBSET DOMAIN f)
  BY SumsExist
<1>2. \A s \in SUBSET DOMAIN f : s # {} => Pick(s) \in s
  BY DEF Pick
<1> HIDE DEF PartialSums, Pick
<1> QED
  BY <1>1, <1>2 DEF SumsUp

\* A sum of quantities is a quantity, and grows with them.
LEMMA SumOfQuantities ==
  ASSUME NEW D, IsFiniteSet(D), NEW f \in [D -> Nat]
  PROVE  SumFunction(f) \in Nat
<1> DEFINE A == {s \in SUBSET D : PartialSums(f)[s] \in Nat}
<1>1. {} \in A
  BY PartialSumStep
<1>2. ASSUME NEW s \in SUBSET D, s # {}, s \ {Pick(s)} \in A
      PROVE  s \in A
  <2>1. PartialSums(f)[s] = f[Pick(s)] + PartialSums(f)[s \ {Pick(s)}] /\ Pick(s) \in D
    BY <1>2, PartialSumStep
  <2> QED
    BY <2>1, <1>2
<1>3. A = SUBSET D
  <2> HIDE DEF A
  <2>1. A \in SUBSET SUBSET D
    BY DEF A
  <2> QED
    BY <1>1, <1>2, <2>1, SubsetInduction
<1> QED
  BY <1>3, SumIsPartialSum

LEMMA SumGrows ==
  ASSUME NEW D, IsFiniteSet(D), NEW f \in [D -> Nat], NEW g \in [D -> Nat],
         \A x \in D : f[x] <= g[x]
  PROVE  SumFunction(f) <= SumFunction(g)
<1> DEFINE F == PartialSums(f)
           G == PartialSums(g)
           A == {s \in SUBSET D : F[s] \in Nat /\ G[s] \in Nat /\ F[s] <= G[s]}
<1>1. {} \in A
  BY PartialSumStep
<1>2. ASSUME NEW s \in SUBSET D, s # {}, s \ {Pick(s)} \in A
      PROVE  s \in A
  <2>1. /\ F[s] = f[Pick(s)] + F[s \ {Pick(s)}] /\ Pick(s) \in D
        /\ G[s] = g[Pick(s)] + G[s \ {Pick(s)}]
    BY <1>2, PartialSumStep
  <2>2. f[Pick(s)] \in Nat /\ g[Pick(s)] \in Nat /\ f[Pick(s)] <= g[Pick(s)]
    BY <2>1
  <2> HIDE DEF F, G
  <2> QED
    BY <2>1, <2>2, <1>2
<1>3. A = SUBSET D
  <2> HIDE DEF A
  <2>1. A \in SUBSET SUBSET D
    BY DEF A
  <2> QED
    BY <1>1, <1>2, <2>1, SubsetInduction
<1> QED
  BY <1>3, SumIsPartialSum

\* Nothing is due in a sum exactly if nothing is due in any of its parts.
LEMMA SumIsZero ==
  ASSUME NEW D, IsFiniteSet(D), NEW f \in [D -> Nat]
  PROVE  SumFunction(f) = 0 <=> \A x \in D : f[x] = 0
<1> DEFINE F == PartialSums(f)
           A == {s \in SUBSET D : F[s] \in Nat /\ (F[s] = 0 <=> \A x \in s : f[x] = 0)}
<1>1. {} \in A
  BY PartialSumStep
<1>2. ASSUME NEW s \in SUBSET D, s # {}, s \ {Pick(s)} \in A
      PROVE  s \in A
  <2>1. /\ F[s] = f[Pick(s)] + F[s \ {Pick(s)}] /\ Pick(s) \in s
        /\ f[Pick(s)] \in Nat
    BY <1>2, PartialSumStep
  <2> HIDE DEF F
  <2>2. F[s] \in Nat /\ (F[s] = 0 <=> f[Pick(s)] = 0 /\ F[s \ {Pick(s)}] = 0)
    BY <2>1, <1>2
  <2> QED
    BY <2>1, <2>2, <1>2
<1>3. A = SUBSET D
  <2> HIDE DEF A
  <2>1. A \in SUBSET SUBSET D
    BY DEF A
  <2> QED
    BY <1>1, <1>2, <2>1, SubsetInduction
<1> QED
  BY <1>3, SumIsPartialSum

-----------------------------------------------------------------------------
(* The policy.                                                             *)

DueQuantities(b) == [l \in Lines |-> Undelivered(b, l)]
DueAmounts(b)    == [l \in Lines |-> Undelivered(b, l) * b.unit[l]]

LEMMA ProductOfQuantities ==
  \A m, n \in Nat : m * n \in Nat /\ (m * n = 0 <=> m = 0 \/ n = 0)
OBVIOUS

LEMMA ProductGrows ==
  \A m, n \in Nat : m * n <= m * (n + 1)
OBVIOUS

\* What remains of a batch and its value are quantities.
LEMMA DueAreQuantities ==
  ASSUME NEW b \in Batch
  PROVE  /\ DueQuantities(b) \in [Lines -> Nat] /\ Remaining(b) = SumFunction(DueQuantities(b))
         /\ DueAmounts(b) \in [Lines -> Nat] /\ Affected(b) = SumFunction(DueAmounts(b))
         /\ Remaining(b) \in Nat /\ Affected(b) \in Nat
<1>1. ASSUME NEW l \in Lines
      PROVE  /\ Undelivered(b, l) \in Nat /\ b.unit[l] \in Nat
             /\ Undelivered(b, l) * b.unit[l] \in Nat
  <2>1. b.ordered[l] \in Nat /\ b.delivered[l] \in Nat /\ b.unit[l] \in Nat
    BY DEF Batch
  <2>2. Undelivered(b, l) \in Nat
    BY <2>1 DEF Undelivered
  <2> QED
    BY <2>1, <2>2, ProductOfQuantities
<1>2. DueQuantities(b) \in [Lines -> Nat] /\ DueAmounts(b) \in [Lines -> Nat]
  BY <1>1 DEF DueQuantities, DueAmounts
<1>3. SumFunction(DueQuantities(b)) \in Nat /\ SumFunction(DueAmounts(b)) \in Nat
  BY <1>2, SumOfQuantities, LinesAssumption
<1> QED
  BY <1>2, <1>3 DEF Remaining, Affected, DueQuantities, DueAmounts

\* What remains of a valid batch has a value.
LEMMA DueHasValue ==
  ASSUME NEW b, ValidBatch(b)
  PROVE  Remaining(b) # 0 => Affected(b) # 0
<1>1. b \in Batch /\ \A l \in Lines : b.unit[l] \in Nat /\ b.unit[l] # 0
  BY DEF ValidBatch, Batch
<1>2. SUFFICES ASSUME Affected(b) = 0 PROVE Remaining(b) = 0
  OBVIOUS
<1>3. \A l \in Lines : DueAmounts(b)[l] = 0
  BY <1>1, <1>2, DueAreQuantities, SumIsZero, LinesAssumption
<1>4. ASSUME NEW l \in Lines PROVE DueQuantities(b)[l] = 0
  <2>1. Undelivered(b, l) \in Nat /\ Undelivered(b, l) * b.unit[l] = 0
    BY <1>1, <1>3, DueAreQuantities DEF DueQuantities, DueAmounts
  <2>2. Undelivered(b, l) = 0
    BY <1>1, <2>1, ProductOfQuantities
  <2> QED
    BY <2>2 DEF DueQuantities
<1> QED
  BY <1>1, <1>4, DueAreQuantities, SumIsZero, LinesAssumption

\* Rows of three tables, read as one.
LEMMA RowsInOrder ==
  ASSUME NEW a1, NEW a2, NEW a3, NEW a4, NEW a5, NEW a6, NEW a7,
         NEW b1, NEW b2, NEW c1, NEW c2, NEW c3, NEW m,
         m = <<a1, a2, a3, a4, a5, a6, a7>> \o <<b1, b2>> \o <<c1, c2, c3>>
  PROVE  /\ DOMAIN m = 1..12
         /\ m[1] = a1 /\ m[2] = a2 /\ m[3] = a3 /\ m[4] = a4 /\ m[5] = a5 /\ m[6] = a6
         /\ m[7] = a7 /\ m[8] = b1 /\ m[9] = b2 /\ m[10] = c1 /\ m[11] = c2 /\ m[12] = c3
OBVIOUS

\* One of the rules up to one that applies is the first that does.
LEMMA FirstRule ==
  ASSUME NEW m, NEW k \in 1..12, DOMAIN m = 1..12, m[k][1]
  PROVE  \E i \in 1..k : m[i][1] /\ \A j \in 1..(i - 1) : ~m[j][1]
<1> DEFINE A == {i \in 1..12 : m[i][1]}
<1>1. A \in SUBSET Nat /\ k \in A
  OBVIOUS
<1>2. PICK i \in A : \A j \in A : i <= j
  <2> HIDE DEF A
  <2> QED
    BY <1>1, LeastNumber
<1>3. i \in 1..k /\ m[i][1]
  BY <1>1, <1>2
<1>4. ASSUME NEW j \in 1..(i - 1) PROVE ~m[j][1]
  BY <1>2, <1>3
<1> QED
  BY <1>3, <1>4

\* The conditions of the rules before the last one.
Barred(b) ==
  \/ b.chargeback \/ StopFlags(b) # {}
  \/ Covered(b) \/ b.pending \/ Conflict(b) \/ Duplicate(b)
  \/ b.choice = NoChoice
  \/ \E s \in RequiredSources(b.choice) : ~Fresh(b, s)
  \/ b.choice = "WAIT"
  \/ Remaining(b) = 0
  \/ b.choice = "RESHIP" /\ b.stock < Remaining(b)

\* The rules, in their order: the last one grants the remedy, and applies
\* to whatever is not barred by one before it, none of which grants one.
LEMMA MatrixReads ==
  ASSUME NEW b
  PROVE  /\ DOMAIN Matrix(b) = 1..12
         /\ Matrix(b)[12][1] /\ Matrix(b)[12][2] = Remedy(b)
         /\ Barred(b) <=> \E i \in 1..11 : Matrix(b)[i][1]
         /\ \A i \in 1..11 : /\ Matrix(b)[i][2].route \notin ConsequentialRoutes
                           /\ Matrix(b)[i][2].action \in Actions
                           /\ DOMAIN Matrix(b)[i][2] = {"action", "route", "facts"}
<1> DEFINE p1  == b.chargeback \/ StopFlags(b) # {}
           p2  == Covered(b)
           p3  == b.pending
           p4  == Conflict(b)
           p5  == Duplicate(b)
           p6  == b.choice = NoChoice
           p7  == \E s \in RequiredSources(b.choice) : ~Fresh(b, s)
           p8  == b.choice = "WAIT" /\ ~b.eta
           p9  == b.choice = "WAIT"
           p10 == Remaining(b) = 0
           p11 == b.choice = "RESHIP" /\ b.stock < Remaining(b)
           d1  == Decision("CONTROL_STOP", "SPECIALIST_STOP", {"SPECIALIST_REVIEW_REQUIRED"})
           d2  == NoNewAction("PRIOR_REMEDY_CONFIRMED")
           d3  == Decision("ACTION_RECOVERY", "RECOVERY_RECONCILIATION",
                           {"ACTION_STATUS_UNRESOLVED"})
           d5  == NoNewAction("DUPLICATE_SIGNAL_SUPPRESSED")
           d6  == Decision("AWAITING_CHOICE", "AWAITING_CHOICE", {"CUSTOMER_CHOICE_REQUIRED"})
           d9  == Decision("WAIT_VERIFIED_ETA", "DIRECT_NO_ACTION", {"WAIT_ESTIMATE_QUALIFIED"})
           d10 == NoNewAction("NO_ELIGIBLE_QUANTITY_REMAINS")
           m   == Matrix(b)
<1>1. CaseRules(b) = << <<p1, d1>>, <<p2, d2>>, <<p3, d3>>, <<p4, Blocked>>, <<p5, d5>>,
                        <<p6, d6>>, <<p7, Blocked>> >>
  BY DEF CaseRules
<1>2. WaitRules(b) = << <<p8, Blocked>>, <<p9, d9>> >>
  BY DEF WaitRules
<1>3. RemedyRules(b) = << <<p10, d10>>, <<p11, Blocked>>, <<TRUE, Remedy(b)>> >>
  BY DEF RemedyRules
<1>4. m = CaseRules(b) \o WaitRules(b) \o RemedyRules(b)
  BY DEF Matrix
<1>5. ASSUME NEW i \in 1..11, m[i][2] \in {d1, d2, d3, Blocked, d5, d6, d9, d10}
      PROVE  /\ m[i][2].route \notin ConsequentialRoutes
             /\ m[i][2].action \in Actions
             /\ DOMAIN m[i][2] = {"action", "route", "facts"}
  BY <1>5 DEF NoNewAction, Blocked, Decision, ConsequentialRoutes, Actions
<1>6. Barred(b) <=> \/ p1 \/ p2 \/ p3 \/ p4 \/ p5 \/ p6 \/ p7 \/ p8 \/ p9 \/ p10 \/ p11
  BY DEF Barred
<1> HIDE DEF m, p1, p2, p3, p4, p5, p6, p7, p8, p9, p10, p11, d1, d2, d3, d5, d6, d9, d10
<1>7. /\ DOMAIN m = 1..12
      /\ m[1][1] = p1 /\ m[2][1] = p2 /\ m[3][1] = p3 /\ m[4][1] = p4
      /\ m[5][1] = p5 /\ m[6][1] = p6 /\ m[7][1] = p7 /\ m[8][1] = p8
      /\ m[9][1] = p9 /\ m[10][1] = p10 /\ m[11][1] = p11 /\ m[12][1] = TRUE
      /\ m[1][2] = d1 /\ m[2][2] = d2 /\ m[3][2] = d3 /\ m[4][2] = Blocked
      /\ m[5][2] = d5 /\ m[6][2] = d6 /\ m[7][2] = Blocked /\ m[8][2] = Blocked
      /\ m[9][2] = d9 /\ m[10][2] = d10 /\ m[11][2] = Blocked /\ m[12][2] = Remedy(b)
  <2> DEFINE r1  == <<p1, d1>>
             r2  == <<p2, d2>>
             r3  == <<p3, d3>>
             r4  == <<p4, Blocked>>
             r5  == <<p5, d5>>
             r6  == <<p6, d6>>
             r7  == <<p7, Blocked>>
             r8  == <<p8, Blocked>>
             r9  == <<p9, d9>>
             r10 == <<p10, d10>>
             r11 == <<p11, Blocked>>
             r12 == <<TRUE, Remedy(b)>>
  <2>1. /\ r1[1] = p1 /\ r2[1] = p2 /\ r3[1] = p3 /\ r4[1] = p4 /\ r5[1] = p5 /\ r6[1] = p6
        /\ r7[1] = p7 /\ r8[1] = p8 /\ r9[1] = p9 /\ r10[1] = p10 /\ r11[1] = p11
        /\ r12[1] = TRUE
        /\ r1[2] = d1 /\ r2[2] = d2 /\ r3[2] = d3 /\ r4[2] = Blocked /\ r5[2] = d5
        /\ r6[2] = d6 /\ r7[2] = Blocked /\ r8[2] = Blocked /\ r9[2] = d9 /\ r10[2] = d10
        /\ r11[2] = Blocked /\ r12[2] = Remedy(b)
    OBVIOUS
  <2>2. m = <<r1, r2, r3, r4, r5, r6, r7>> \o <<r8, r9>> \o <<r10, r11, r12>>
    BY <1>1, <1>2, <1>3, <1>4
  <2> HIDE DEF r1, r2, r3, r4, r5, r6, r7, r8, r9, r10, r11, r12
  <2>3. /\ DOMAIN m = 1..12
        /\ m[1] = r1 /\ m[2] = r2 /\ m[3] = r3 /\ m[4] = r4 /\ m[5] = r5 /\ m[6] = r6
        /\ m[7] = r7 /\ m[8] = r8 /\ m[9] = r9 /\ m[10] = r10 /\ m[11] = r11 /\ m[12] = r12
    BY <2>2, RowsInOrder
  <2> QED
    BY <2>1, <2>3
<1>8. \A i \in 1..11 : m[i][2] \in {d1, d2, d3, Blocked, d5, d6, d9, d10}
  BY <1>7
<1>9. Barred(b) <=> \E i \in 1..11 : m[i][1]
  <2>1. Barred(b) => \E i \in 1..11 : m[i][1]
    BY <1>6, <1>7
  <2>2. ASSUME NEW i \in 1..11, m[i][1] PROVE Barred(b)
    BY <1>6, <1>7, <2>2
  <2> QED
    BY <2>1, <2>2
<1> QED
  BY <1>5, <1>7, <1>8, <1>9 DEF m

\* The decision is a refusal or the remedy, as the conditions have it.
LEMMA DecisionReads ==
  ASSUME NEW b
  PROVE  /\ Barred(b) => /\ Decide(b).route \notin ConsequentialRoutes
                         /\ Decide(b).action \in Actions
         /\ ~Barred(b) => Decide(b) = Remedy(b)
         /\ DOMAIN Decide(b) = {"action", "route", "facts"}
<1> DEFINE m == Matrix(b)
           Applies(i) == m[i][1] /\ \A j \in 1..(i - 1) : ~m[j][1]
           first == CHOOSE i \in DOMAIN m : Applies(i)
<1>1. Decide(b) = m[first][2]
  BY DEF Decide
<1>2. /\ DOMAIN m = 1..12
      /\ m[12][1] /\ m[12][2] = Remedy(b)
      /\ Barred(b) <=> \E i \in 1..11 : m[i][1]
      /\ \A i \in 1..11 : /\ m[i][2].route \notin ConsequentialRoutes
                          /\ m[i][2].action \in Actions
                          /\ DOMAIN m[i][2] = {"action", "route", "facts"}
  BY MatrixReads
<1> HIDE DEF m
<1>3. \E i \in DOMAIN m : Applies(i)
  BY <1>2, FirstRule
<1>4. first \in 1..12 /\ Applies(first)
  BY <1>2, <1>3
<1> HIDE DEF first
<1>5. ASSUME Barred(b) PROVE first \in 1..11
  <2>1. PICK k \in 1..11 : m[k][1]
    BY <1>2, <1>5
  <2>2. ~ (first > k)
    BY <1>4, <2>1
  <2> QED
    BY <1>4, <2>1, <2>2
<1>6. ASSUME ~Barred(b) PROVE first = 12
  BY <1>2, <1>4, <1>6
<1>7. DOMAIN Remedy(b) = {"action", "route", "facts"}
  BY DEF Remedy, Decision
<1> QED
  BY <1>1, <1>2, <1>5, <1>6, <1>7

\* A remedy is granted only on evidence that calls for it.
LEMMA GrantedReads ==
  ASSUME NEW b \in Batch, Decide(b).route \in ConsequentialRoutes
  PROVE  /\ ~Barred(b) /\ ~Unsafe(b)
         /\ Decide(b).action = b.choice /\ Decide(b).route = ApprovalRoute(b)
         /\ b.choice \in {"RESHIP", "REFUND"}
         /\ Remaining(b) # 0
         /\ b.choice = "RESHIP" => b.stock >= Remaining(b)
<1>1. ~Barred(b) /\ Decide(b) = Remedy(b)
  BY DecisionReads
<1>2. b.choice \in CustomerChoices \cup {NoChoice} /\ b.stock \in Nat /\ Remaining(b) \in Nat
  BY DueAreQuantities DEF Batch
<1>3. b.choice \in {"RESHIP", "REFUND"}
  BY <1>1, <1>2 DEF Barred, CustomerChoices
<1>4. b.choice = "RESHIP" => b.stock >= Remaining(b)
  BY <1>1, <1>2 DEF Barred
<1>5. ~Unsafe(b) /\ Remaining(b) # 0
  BY <1>1 DEF Barred, Unsafe
<1>6. Decide(b).action = b.choice /\ Decide(b).route = ApprovalRoute(b)
  BY <1>1 DEF Remedy, Decision
<1> QED
  BY <1>1, <1>3, <1>4, <1>5, <1>6

\* Evidence that does not bar the remedy gets it.
LEMMA UnbarredIsGranted ==
  ASSUME NEW b, ~Barred(b)
  PROVE  Decide(b).route = ApprovalRoute(b) /\ Decide(b).route \in ConsequentialRoutes
BY DecisionReads DEF Remedy, Decision, ApprovalRoute, ConsequentialRoutes

-----------------------------------------------------------------------------
(* Worse evidence.                                                         *)

\* What the conditions of the matrix read, other than what is due.
SameFacts(b, w) ==
  /\ w.ordered = b.ordered /\ w.delivered = b.delivered
  /\ w.reshipped = b.reshipped /\ w.refunded_quantity = b.refunded_quantity
  /\ w.refunded_cents = b.refunded_cents
  /\ w.choice = b.choice /\ w.limit = b.limit /\ w.stop_flags = b.stop_flags

LEMMA SameRemaining ==
  ASSUME NEW b, NEW w, SameFacts(b, w)
  PROVE  Remaining(w) = Remaining(b) /\ (Covered(w) <=> Covered(b))
<1>1. \A l \in Lines : Undelivered(w, l) = Undelivered(b, l)
  BY DEF SameFacts, Undelivered
<1>2. DueQuantities(w) = DueQuantities(b)
  BY <1>1 DEF DueQuantities
<1>3. Remaining(w) = Remaining(b)
  BY <1>2 DEF Remaining, DueQuantities
<1> QED
  BY <1>3 DEF Covered, Recovered, SameFacts

LEMMA SameAffected ==
  ASSUME NEW b, NEW w, SameFacts(b, w), w.unit = b.unit
  PROVE  Affected(w) = Affected(b)
<1>1. \A l \in Lines : Undelivered(w, l) * w.unit[l] = Undelivered(b, l) * b.unit[l]
  BY DEF SameFacts, Undelivered
<1>2. DueAmounts(w) = DueAmounts(b)
  BY <1>1 DEF DueAmounts
<1> QED
  BY <1>2 DEF Affected, DueAmounts

\* A dearer line makes the exposure no smaller.
LEMMA DearerAffects ==
  ASSUME NEW b \in Batch, NEW w \in Batch, SameFacts(b, w),
         NEW l \in Lines, w.unit = Bump(b.unit, l)
  PROVE  Affected(w) >= Affected(b)
<1>1. ASSUME NEW k \in Lines
      PROVE  DueAmounts(b)[k] <= DueAmounts(w)[k]
  <2>1. /\ Undelivered(w, k) = Undelivered(b, k) /\ Undelivered(b, k) \in Nat
        /\ b.unit[k] \in Nat /\ Undelivered(b, k) * b.unit[k] \in Nat
    <3>1. DueQuantities(b)[k] \in Nat /\ DueAmounts(b)[k] \in Nat
      BY DueAreQuantities
    <3> QED
      BY <3>1 DEF SameFacts, Undelivered, DueQuantities, DueAmounts, Batch
  <2>2. w.unit[k] = b.unit[k] \/ w.unit[k] = b.unit[k] + 1
    BY DEF Bump, Batch
  <2>3. Undelivered(b, k) * b.unit[k] <= Undelivered(w, k) * w.unit[k]
    BY <2>1, <2>2, ProductGrows
  <2> QED
    BY <2>3 DEF DueAmounts
<1>2. DueAmounts(b) \in [Lines -> Nat] /\ DueAmounts(w) \in [Lines -> Nat]
  BY DueAreQuantities
<1>3. SumFunction(DueAmounts(b)) <= SumFunction(DueAmounts(w))
  BY <1>1, <1>2, SumGrows, LinesAssumption
<1>4. /\ Affected(b) = SumFunction(DueAmounts(b)) /\ Affected(b) \in Nat
      /\ Affected(w) = SumFunction(DueAmounts(w)) /\ Affected(w) \in Nat
  BY DueAreQuantities
<1> QED
  BY <1>3, <1>4

\* The limits of w are no higher, and its exposure no lower, than those of b.
Tighter(b, w) ==
  /\ w.delegated <= b.delegated /\ w.owner_max <= b.owner_max
  /\ w.finance_order <= b.finance_order
  /\ w.order_value >= b.order_value /\ Affected(w) >= Affected(b)

LEMMA TighterRanksHigher ==
  ASSUME NEW b \in Batch, NEW w, Tighter(b, w), Affected(w) \in Int,
         /\ w.delegated \in Int /\ w.owner_max \in Int
         /\ w.finance_order \in Int /\ w.order_value \in Int
  PROVE  Rank(ApprovalRoute(w)) >= Rank(ApprovalRoute(b))
<1>1. /\ b.delegated \in Nat /\ b.owner_max \in Nat /\ b.finance_order \in Nat
      /\ b.order_value \in Nat /\ Affected(b) \in Nat
  BY DueAreQuantities DEF Batch
<1> QED
  BY <1>1 DEF Tighter, ApprovalRoute, Rank

\* Where w is no less barred than b, its facts can be derived only if those of
\* b can, and its limits are tighter, it grants nothing that b does not.
LEMMA NoLessBarred ==
  ASSUME NEW b, ValidBatch(b), NEW w, Grants(w),
         Barred(b) => Barred(w), Derivable(b), Consistent(b), Tighter(b, w)
  PROVE  Grants(b) /\ Rank(Decide(w).route) >= Rank(Decide(b).route)
<1>1. b \in Batch /\ w \in Batch /\ Decide(w).route \in ConsequentialRoutes
  BY DEF Grants, Decidable, ValidBatch
<1>2. ~Barred(w) /\ Decide(w).route = ApprovalRoute(w)
  BY <1>1, GrantedReads
<1>3. Decide(b).route = ApprovalRoute(b) /\ Decide(b).route \in ConsequentialRoutes
  BY <1>2, UnbarredIsGranted
<1>4. Rank(ApprovalRoute(w)) >= Rank(ApprovalRoute(b))
  <2>1. /\ w.delegated \in Int /\ w.owner_max \in Int /\ w.finance_order \in Int
        /\ w.order_value \in Int /\ Affected(w) \in Int
    BY <1>1, DueAreQuantities DEF Batch
  <2> QED
    BY <1>1, <2>1, TighterRanksHigher
<1> QED
  BY <1>2, <1>3, <1>4 DEF Grants, Decidable

\* In every other respect w is no better than b.
NoBetter(b, w) ==
  /\ SameFacts(b, w)
  /\ b.chargeback => w.chargeback
  /\ b.risk \subseteq w.risk
  /\ b.pending => w.pending
  /\ Conflict(b) => Conflict(w)
  /\ w.signals >= b.signals
  /\ \A s \in Sources : w.age[s] >= b.age[s]
  /\ w.stock <= b.stock

LEMMA NoBetterIsBarred ==
  ASSUME NEW b \in Batch, NEW w \in Batch, NoBetter(b, w), Barred(b)
  PROVE  Barred(w)
<1>1. Remaining(w) = Remaining(b) /\ (Covered(w) <=> Covered(b)) /\ Remaining(b) \in Nat
  BY SameRemaining, DueAreQuantities DEF NoBetter
<1>2. /\ b.stock \in Nat /\ w.stock \in Nat /\ b.signals \in Nat /\ w.signals \in Nat
      /\ \A s \in Sources : b.age[s] \in Int /\ w.age[s] \in Int /\ b.limit[s] \in Nat
  BY DEF Batch
<1>3. StopFlags(b) # {} => StopFlags(w) # {}
  BY DEF NoBetter, SameFacts, StopFlags
<1>4. Duplicate(b) => Duplicate(w)
  BY <1>2 DEF NoBetter, Duplicate
<1>5. \A s \in Sources : ~Fresh(b, s) => ~Fresh(w, s)
  BY <1>2 DEF NoBetter, SameFacts, Fresh
<1>6. b.stock < Remaining(b) => w.stock < Remaining(w)
  BY <1>1, <1>2 DEF NoBetter
<1>7. w.choice = b.choice /\ RequiredSources(b.choice) \subseteq Sources
  BY DEF NoBetter, SameFacts, RequiredSources, Sources
<1> QED
  BY <1>1, <1>3, <1>4, <1>5, <1>6, <1>7 DEF Barred, NoBetter

\* The facts of b can be derived if those of w can and nothing due differs.
LEMMA SameDerivable ==
  ASSUME NEW b, NEW w, SameFacts(b, w), w.unit = b.unit, Derivable(w)
  PROVE  Derivable(b)
BY SameRemaining, SameAffected DEF Derivable, Recovered, SameFacts

\* The fields of w but those in F are those of b.
SameBut(b, w, F) == \A f \in DOMAIN b \ F : w[f] = b[f]

LEMMA SameFields ==
  ASSUME NEW b \in Batch, NEW w, NEW F, SameBut(b, w, F)
  PROVE  /\ F \cap {"ordered", "delivered", "reshipped", "refunded_quantity", "refunded_cents",
                    "choice", "limit", "stop_flags"} = {} => SameFacts(b, w)
         /\ F \cap {"ordered", "shipped", "parcelled", "delivered", "captured", "order_value"} = {}
              => (Conflict(b) <=> Conflict(w))
         /\ "chargeback" \notin F => w.chargeback = b.chargeback
         /\ "risk" \notin F => w.risk = b.risk
         /\ "pending" \notin F => w.pending = b.pending
         /\ "signals" \notin F => w.signals = b.signals
         /\ "age" \notin F => w.age = b.age
         /\ "stock" \notin F => w.stock = b.stock
         /\ "unit" \notin F => w.unit = b.unit
         /\ "delegated" \notin F => w.delegated = b.delegated
         /\ "owner_max" \notin F => w.owner_max = b.owner_max
         /\ "finance_order" \notin F => w.finance_order = b.finance_order
         /\ "order_value" \notin F => w.order_value = b.order_value
         /\ "shipped" \notin F => w.shipped = b.shipped
<1>1. DOMAIN b = {"ordered", "shipped", "parcelled", "delivered", "unit", "order_value",
                  "captured", "stock", "refunded_quantity", "refunded_cents", "reshipped",
                  "pending", "choice", "signals", "risk", "stop_flags", "chargeback", "eta",
                  "age", "limit", "delegated", "owner_max", "finance_order"}
  BY DEF Batch
<1>2. \A f \in DOMAIN b : f \notin F => w[f] = b[f]
  BY DEF SameBut
<1>3. F \cap {"ordered", "delivered", "reshipped", "refunded_quantity", "refunded_cents",
             "choice", "limit", "stop_flags"} = {} => SameFacts(b, w)
  BY <1>1, <1>2 DEF SameFacts
<1>4. F \cap {"ordered", "shipped", "parcelled", "delivered", "captured", "order_value"} = {}
        => (Conflict(b) <=> Conflict(w))
  <2>1. SUFFICES ASSUME F \cap {"ordered", "shipped", "parcelled", "delivered", "captured",
                                "order_value"} = {}
                 PROVE  Conflict(b) <=> Conflict(w)
    OBVIOUS
  <2>2. /\ w.ordered = b.ordered /\ w.shipped = b.shipped /\ w.parcelled = b.parcelled
        /\ w.delivered = b.delivered /\ w.captured = b.captured
        /\ w.order_value = b.order_value
    BY <1>1, <1>2, <2>1
  <2> QED
    BY <2>2 DEF Conflict
<1> QED
  BY <1>1, <1>2, <1>3, <1>4

\* One field given another value.
LEMMA OneFieldChanges ==
  ASSUME NEW b \in Batch, NEW x \in DOMAIN b, NEW v
  PROVE  /\ SameBut(b, [b EXCEPT ![x] = v], {x})
         /\ [b EXCEPT ![x] = v][x] = v
BY DEF SameBut, Batch

\* Worse evidence never opens the way to a remedy that was closed, and never
\* moves it to an approver with a lower limit, whatever the numbers are
\* (decide_policy).
THEOREM WorseEvidenceGrantsNoMore ==
  ASSUME NEW b, ValidBatch(b), NEW w \in Worse(b), Grants(w)
  PROVE  Grants(b) /\ Rank(Decide(w).route) >= Rank(Decide(b).route)
<1>1. b \in Batch /\ w \in Batch /\ Derivable(w) /\ Decide(w).route \in ConsequentialRoutes
      /\ Consistent(w)
  BY DEF Grants, Decidable, ValidBatch
<1>2. /\ b.delegated \in Int /\ b.owner_max \in Int /\ b.finance_order \in Int
      /\ b.order_value \in Int /\ b.signals \in Int /\ b.stock \in Int /\ b.captured \in Int
      /\ \A s \in Sources : b.age[s] \in Int
      /\ b.age \in [Sources -> Int] /\ b.parcelled \in [Lines -> Nat]
      /\ b.shipped \in [Lines -> Nat]
      /\ Affected(b) \in Int /\ Affected(w) \in Int
  BY <1>1, DueAreQuantities DEF Batch
<1>3. ~Barred(w) /\ ~Unsafe(w)
  BY <1>1, GrantedReads
\* Nothing that bounds the remedy differs.
<1>4. ASSUME SameFacts(b, w), w.unit = b.unit, w.delegated = b.delegated,
             w.owner_max = b.owner_max, w.finance_order = b.finance_order,
             w.order_value >= b.order_value,
             Barred(b) => Barred(w)
      PROVE  Grants(b) /\ Rank(Decide(w).route) >= Rank(Decide(b).route)
  <2>1. Derivable(b)
    BY <1>1, <1>4, SameDerivable
  <2>2. Consistent(b)
    BY <1>1, <1>4 DEF Consistent
  <2>3. Tighter(b, w)
    BY <1>2, <1>4, SameAffected DEF Tighter
  <2> QED
    BY <1>4, <2>1, <2>2, <2>3, NoLessBarred
<1>5. CASE \E s \in Sources : w = [b EXCEPT !.age = Bump(@, s)]
  <2>1. PICK s \in Sources : w = [b EXCEPT !.age = Bump(@, s)]
    BY <1>5
  <2>2. SameBut(b, w, {"age"}) /\ w.age = Bump(b.age, s)
    BY <1>1, <2>1 DEF SameBut, Batch
  <2>3. \A t \in Sources : w.age[t] >= b.age[t]
    BY <1>2, <2>2 DEF Bump
  <2>4. NoBetter(b, w)
    BY <1>1, <1>2, <2>2, <2>3, SameFields DEF NoBetter
  <2> QED
    BY <1>1, <1>2, <1>4, <2>2, <2>4, NoBetterIsBarred, SameFields DEF NoBetter
<1>6. CASE w = [b EXCEPT !.chargeback = TRUE]
  <2>1. SameBut(b, w, {"chargeback"}) /\ w.chargeback = TRUE
    BY <1>1, <1>6 DEF SameBut, Batch
  <2>2. NoBetter(b, w)
    BY <1>1, <1>2, <2>1, SameFields DEF NoBetter
  <2> QED
    BY <1>1, <1>2, <1>4, <2>1, <2>2, NoBetterIsBarred, SameFields DEF NoBetter
<1>7. CASE w = [b EXCEPT !.pending = TRUE]
  <2>1. SameBut(b, w, {"pending"}) /\ w.pending = TRUE
    BY <1>1, <1>7 DEF SameBut, Batch
  <2>2. NoBetter(b, w)
    BY <1>1, <1>2, <2>1, SameFields DEF NoBetter
  <2> QED
    BY <1>1, <1>2, <1>4, <2>1, <2>2, NoBetterIsBarred, SameFields DEF NoBetter
<1>8. CASE w = [b EXCEPT !.eta = FALSE]
  <2>1. SameBut(b, w, {"eta"}) /\ w.eta = FALSE
    BY <1>1, <1>8 DEF SameBut, Batch
  <2>2. NoBetter(b, w)
    BY <1>1, <1>2, <2>1, SameFields DEF NoBetter
  <2> QED
    BY <1>1, <1>2, <1>4, <2>1, <2>2, NoBetterIsBarred, SameFields DEF NoBetter
<1>9. CASE \E f \in RiskFlags : w = [b EXCEPT !.risk = @ \cup {f}]
  <2>1. SameBut(b, w, {"risk"}) /\ b.risk \subseteq w.risk
    BY <1>1, <1>9 DEF SameBut, Batch
  <2>2. NoBetter(b, w)
    BY <1>1, <1>2, <2>1, SameFields DEF NoBetter
  <2> QED
    BY <1>1, <1>2, <1>4, <2>1, <2>2, NoBetterIsBarred, SameFields DEF NoBetter
<1>10. CASE w = [b EXCEPT !.signals = @ + 1]
  <2>1. SameBut(b, w, {"signals"}) /\ w.signals = b.signals + 1
    BY <1>1, <1>10 DEF SameBut, Batch
  <2>2. NoBetter(b, w)
    BY <1>1, <1>2, <2>1, SameFields DEF NoBetter
  <2> QED
    BY <1>1, <1>2, <1>4, <2>1, <2>2, NoBetterIsBarred, SameFields DEF NoBetter
<1>11. CASE w = [b EXCEPT !.stock = @ - 1]
  <2>1. SameBut(b, w, {"stock"}) /\ w.stock = b.stock - 1
    BY <1>1, <1>11 DEF SameBut, Batch
  <2>2. NoBetter(b, w)
    BY <1>1, <1>2, <2>1, SameFields DEF NoBetter
  <2> QED
    BY <1>1, <1>2, <1>4, <2>1, <2>2, NoBetterIsBarred, SameFields DEF NoBetter
\* A conflict appears, and with it the way is closed.
<1>12. CASE b.captured = b.order_value /\ w = [b EXCEPT !.captured = @ + 1]
  <2>1. SameBut(b, w, {"captured"}) /\ w.captured = b.captured + 1
    BY <1>1, <1>12 DEF SameBut, Batch
  <2>2. w.captured # w.order_value
    BY <1>1, <1>2, <1>12, <2>1, SameFields
  <2> QED
    BY <1>3, <2>2 DEF Barred, Conflict
<1>13. CASE \E l \in {k \in Lines : b.parcelled[k] = b.shipped[k]} :
             w = [b EXCEPT !.parcelled = Bump(@, l)]
  <2>1. PICK l \in Lines : b.parcelled[l] = b.shipped[l] /\ w = [b EXCEPT !.parcelled = Bump(@, l)]
    BY <1>13
  <2>2. SameBut(b, w, {"parcelled"}) /\ w.parcelled = Bump(b.parcelled, l)
    BY <1>1, <2>1 DEF SameBut, Batch
  <2>3. w.parcelled[l] # w.shipped[l]
    BY <1>1, <1>2, <2>1, <2>2, SameFields DEF Bump
  <2> QED
    BY <1>3, <2>3 DEF Barred, Conflict
\* An approver is passed over, or the exposure grows.
<1>14. CASE b.captured = b.order_value
            /\ w = [b EXCEPT !.captured = @ + 1, !.order_value = @ + 1]
  <2>1. /\ SameBut(b, w, {"captured", "order_value"})
        /\ w.captured = b.captured + 1 /\ w.order_value = b.order_value + 1
    BY <1>1, <1>14 DEF SameBut, Batch
  <2>2. w.order_value >= b.order_value
    BY <1>2, <2>1
  <2>3. Conflict(b) => Conflict(w)
    <3>1. /\ w.ordered = b.ordered /\ w.shipped = b.shipped /\ w.parcelled = b.parcelled
          /\ w.delivered = b.delivered
      BY <1>1, <2>1 DEF SameBut, Batch
    <3> QED
      BY <3>1, <1>14 DEF Conflict
  <2>4. NoBetter(b, w)
    BY <1>1, <1>2, <2>1, <2>3, SameFields DEF NoBetter
  <2> QED
    BY <1>1, <1>2, <1>4, <2>1, <2>2, <2>4, NoBetterIsBarred, SameFields DEF NoBetter
<1>15. CASE Derivable(b) /\ \E l \in Lines : w = [b EXCEPT !.unit = Bump(@, l)]
  <2>1. PICK l \in Lines : w = [b EXCEPT !.unit = Bump(@, l)]
    BY <1>15
  <2>2. SameBut(b, w, {"unit"}) /\ w.unit = Bump(b.unit, l)
    BY <1>1, <2>1 DEF SameBut, Batch
  <2>3. NoBetter(b, w)
    BY <1>1, <1>2, <2>2, SameFields DEF NoBetter
  <2>4. Affected(w) >= Affected(b)
    BY <1>1, <2>2, <2>3, DearerAffects DEF NoBetter
  <2>5. Tighter(b, w) /\ Consistent(b)
    BY <1>1, <1>2, <2>2, <2>4, SameFields DEF Tighter, Consistent
  <2> QED
    BY <1>1, <1>15, <2>3, <2>5, NoBetterIsBarred, NoLessBarred
<1>16. CASE Consistent(b) /\ w = [b EXCEPT !.delegated = @ - 1]
  <2>1. SameBut(b, w, {"delegated"}) /\ w.delegated = b.delegated - 1
    BY <1>1, <1>16 DEF SameBut, Batch
  <2>2. NoBetter(b, w)
    BY <1>1, <1>2, <2>1, SameFields DEF NoBetter
  <2>3. Tighter(b, w)
    BY <1>1, <1>2, <2>1, <2>2, SameAffected, SameFields DEF Tighter, NoBetter
  <2>4. Derivable(b)
    BY <1>1, <2>1, <2>2, SameDerivable, SameFields DEF NoBetter
  <2> QED
    BY <1>1, <1>16, <2>2, <2>3, <2>4, NoBetterIsBarred, NoLessBarred
<1>17. CASE Consistent(b) /\ w = [b EXCEPT !.owner_max = @ - 1]
  <2>1. SameBut(b, w, {"owner_max"}) /\ w.owner_max = b.owner_max - 1
    BY <1>1, <1>17 DEF SameBut, Batch
  <2>2. NoBetter(b, w)
    BY <1>1, <1>2, <2>1, SameFields DEF NoBetter
  <2>3. Tighter(b, w)
    BY <1>1, <1>2, <2>1, <2>2, SameAffected, SameFields DEF Tighter, NoBetter
  <2>4. Derivable(b)
    BY <1>1, <2>1, <2>2, SameDerivable, SameFields DEF NoBetter
  <2> QED
    BY <1>1, <1>17, <2>2, <2>3, <2>4, NoBetterIsBarred, NoLessBarred
<1>18. CASE Consistent(b) /\ w = [b EXCEPT !.finance_order = @ - 1]
  <2>1. SameBut(b, w, {"finance_order"}) /\ w.finance_order = b.finance_order - 1
    BY <1>1, <1>18 DEF SameBut, Batch
  <2>2. NoBetter(b, w)
    BY <1>1, <1>2, <2>1, SameFields DEF NoBetter
  <2>3. Tighter(b, w)
    BY <1>1, <1>2, <2>1, <2>2, SameAffected, SameFields DEF Tighter, NoBetter
  <2>4. Derivable(b)
    BY <1>1, <2>1, <2>2, SameDerivable, SameFields DEF NoBetter
  <2> QED
    BY <1>1, <1>18, <2>2, <2>3, <2>4, NoBetterIsBarred, NoLessBarred
<1> QED
  BY <1>5, <1>6, <1>7, <1>8, <1>9, <1>10, <1>11, <1>12, <1>13, <1>14, <1>15, <1>16, <1>17, <1>18 DEF Worse

-----------------------------------------------------------------------------
(* The inductive invariant of a case.                                      *)

\* No decision is in force, and the states from which the contract is there.
Undecided == {"CONTEXT_READY", "EVIDENCE_BLOCKED"}
Reserved ==
  {"ACTION_RESERVED", "ACTION_RECOVERY", "VERIFYING", "VERIFIED_REMEDY", "VERIFICATION_FAILED"}
Concluded == {"COMMUNICATION_READY", "CLOSED"}

\* The decision in force is that of the evidence in force.
DecisionOK ==
  /\ state \in Undecided => decision = NoDecision
  /\ state \notin Undecided => decision = Decide(evidence) /\ Decidable(evidence)
  /\ state = "AWAITING_APPROVAL" => decision.route \in ConsequentialRoutes

\* The contract in force is for the evidence in force.
ContractOK ==
  /\ contract # NoContract =>
       /\ contract = Contract /\ ValidContract(contract)
       /\ state \in Reserved \cup Concluded \cup {"ACTION_PREPARED"}
  /\ state \in Reserved \cup {"ACTION_PREPARED"} => contract # NoContract

\* r was issued for a contract on this route, by who may, in its window.
Authorised(r, route) ==
  /\ r # NoReservation
  /\ r.role = Role(route) /\ r.issuer = Actor(r.role) /\ r.at < r.expires

ReservationOK == state \in Reserved => Authorised(reservation[rev], contract.route)

\* What AuthorityCoversExposure says of the effects of contract c.
CoveredBy(c, b, r) ==
  /\ ~Unsafe(b) /\ Derivable(b)
  /\ c.operation = b.choice
  /\ c.quantity = Remaining(b) /\ c.amount = Affected(b)
  /\ c.operation = "RESHIP" => b.stock >= c.quantity
  /\ r # NoReservation /\ MayAllow(r.role, b, c.amount)
  /\ r.issuer = Actor(r.role) /\ r.at < r.expires

EffectsOK ==
  \A e \in effects :
    /\ e.contract.rev \in 1..rev
    /\ CoveredBy(e.contract, batches[e.contract.rev], reservation[e.contract.rev])
    /\ e.contract.rev = rev => contract # NoContract /\ e.contract = contract

\* A class is of the contract in force, or of its absence.
ClassOK ==
  /\ class \in {"VERIFIED_REMEDY", "VERIFICATION_FAILED"} => contract # NoContract
  /\ class \in {"VERIFIED_WAIT_CONDITION", "VERIFIED_NO_NEW_ACTION"} => contract = NoContract
  /\ class # NoClass <=> state \in {"VERIFIED_REMEDY", "VERIFICATION_FAILED"} \cup Concluded

CaseInv ==
  /\ TypeOK
  /\ batches \in Seq(Batch) /\ rev \in 1..MaxRevision
  /\ DecisionOK /\ ContractOK /\ ReservationOK /\ EffectsOK /\ ClassOK

LEMMA InitCase == Init => CaseInv
<1> SUFFICES ASSUME Init PROVE CaseInv
  OBVIOUS
<1>1. PICK b \in Batches : batches = <<b>>
  BY DEF Init
<1>2. ValidBatch(b) /\ b \in Batch
  BY CaseAssumption DEF ValidBatch
<1>3. batches \in Seq(Batch) /\ Len(batches) = 1 /\ batches # <<>>
      /\ \A r \in DOMAIN batches : ValidBatch(batches[r])
  BY <1>1, <1>2
<1>4. rev \in 1..MaxRevision /\ runs \in 0..MaxRuns
  BY <1>3, CaseAssumption DEF rev, Init
<1>5. TypeOK
  BY <1>3, <1>4, FS_EmptySet DEF Init, TypeOK, WorkflowState
<1>6. DecisionOK /\ ContractOK /\ ReservationOK /\ EffectsOK /\ ClassOK
  BY AbsenceAssumption
  DEF Init, DecisionOK, Undecided, ContractOK, Reserved, Concluded, ReservationOK,
         EffectsOK, ClassOK, Classes
<1> QED
  BY <1>3, <1>4, <1>5, <1>6 DEF CaseInv

-----------------------------------------------------------------------------
(* One step.                                                               *)

\* The evidence in force is a valid batch.
LEMMA EvidenceIsValid ==
  ASSUME CaseInv
  PROVE  /\ ValidBatch(evidence) /\ evidence \in Batch
         /\ rev \in 1..MaxRevision /\ rev \in DOMAIN batches /\ evidence = batches[rev]
         /\ Remaining(evidence) \in Nat /\ Affected(evidence) \in Nat
<1>1. rev \in 1..MaxRevision /\ rev = Len(batches) /\ batches \in Seq(Batch)
      /\ evidence = batches[rev]
  BY DEF CaseInv, rev, evidence
<1>2. rev \in DOMAIN batches
  BY <1>1
<1>3. ValidBatch(evidence) /\ evidence \in Batch
  BY <1>1, <1>2 DEF CaseInv, TypeOK, ValidBatch
<1> QED
  BY <1>1, <1>2, <1>3, DueAreQuantities

\* The contract for a remedy the policy grants can be built.
LEMMA GrantedCanBeBuilt ==
  ASSUME CaseInv, decision = Decide(evidence), decision.route \in ConsequentialRoutes
  PROVE  ValidContract(Contract) /\ Contract \in ContractType /\ Contract # NoContract
<1>1. /\ ValidBatch(evidence) /\ evidence \in Batch /\ rev \in 1..MaxRevision
      /\ Remaining(evidence) \in Nat /\ Affected(evidence) \in Nat
  BY EvidenceIsValid
<1>2. decision.action \in {"RESHIP", "REFUND"} /\ Remaining(evidence) # 0
  BY <1>1, GrantedReads
<1>3. Affected(evidence) # 0
  BY <1>1, <1>2, DueHasValue
<1>4. /\ Contract.rev = rev /\ Contract.operation = decision.action
      /\ Contract.quantity = Remaining(evidence) /\ Contract.amount = Affected(evidence)
      /\ Contract.route = decision.route
  BY DEF Contract
<1>5. Contract \in ContractType
  BY <1>1, <1>2, <1>3 DEF Contract, ContractType
<1> QED
  BY <1>1, <1>2, <1>3, <1>4, <1>5, AbsenceAssumption DEF ValidContract

\* A step that leaves the batches leaves the evidence and the revision.
LEMMA SameBatches ==
  ASSUME CaseInv, batches' = batches
  PROVE  /\ evidence' = evidence /\ rev' = rev
         /\ batches' \in Seq(Batch) /\ rev' \in 1..MaxRevision
         /\ batches' # <<>> /\ \A r \in DOMAIN batches' : ValidBatch(batches'[r])
BY DEF CaseInv, TypeOK, evidence, rev

LEMMA EffectsStay ==
  ASSUME CaseInv, batches' = batches, effects' = effects, reservation' = reservation,
         contract' = contract \/ contract = NoContract
  PROVE  EffectsOK'
<1>1. rev' = rev
  BY SameBatches
<1> QED
  BY <1>1 DEF CaseInv, EffectsOK

LEMMA ContractStays ==
  ASSUME CaseInv, batches' = batches, decision' = decision
  PROVE  Contract' = Contract
BY SameBatches DEF Contract

LEMMA RecommendKeeps ==
  ASSUME CaseInv, NEW c \in Proposals, Recommend(c)
  PROVE  CaseInv'
<1>1. /\ evidence' = evidence /\ rev' = rev
      /\ batches' \in Seq(Batch) /\ rev' \in 1..MaxRevision
      /\ batches' # <<>> /\ \A r \in DOMAIN batches' : ValidBatch(batches'[r])
  BY SameBatches DEF Recommend
<1>2. state = "CONTEXT_READY" /\ state' = "RECOMMENDATION_READY"
  BY DEF Recommend
<1>3. contract = NoContract /\ class = NoClass
  BY <1>2 DEF CaseInv, ContractOK, ClassOK, Reserved, Concluded
<1>4. TypeOK'
  <2>1. decision' = NoDecision \/ DOMAIN decision' = {"action", "route", "facts"}
    BY DecisionReads DEF Recommend
  <2>2. proposal' \in Candidates \cup {NoCandidate}
    BY DEF Recommend, Proposals
  <2> QED
    BY <1>1, <1>2, <2>1, <2>2 DEF Recommend, CaseInv, TypeOK, WorkflowState
<1>5. DecisionOK'
  BY <1>1, <1>2 DEF Recommend, DecisionOK, Undecided
<1>6. ContractOK' /\ ReservationOK' /\ ClassOK'
  BY AbsenceAssumption, <1>1, <1>2, <1>3 DEF Recommend, ContractOK, ReservationOK, ClassOK, Reserved, Concluded,
                          Classes
<1>7. EffectsOK'
  BY <1>3, EffectsStay DEF Recommend
<1> QED
  BY <1>1, <1>4, <1>5, <1>6, <1>7 DEF CaseInv

LEMMA RouteKeeps ==
  ASSUME CaseInv, Route
  PROVE  CaseInv'
<1>1. /\ evidence' = evidence /\ rev' = rev
      /\ batches' \in Seq(Batch) /\ rev' \in 1..MaxRevision
      /\ batches' # <<>> /\ \A r \in DOMAIN batches' : ValidBatch(batches'[r])
  BY SameBatches DEF Route
<1>2. /\ state = "RECOMMENDATION_READY"
      /\ state' \in {"CONTROL_STOPPED", "AWAITING_CHOICE", "AWAITING_APPROVAL"}
      /\ state' = "AWAITING_APPROVAL" => decision.route \in ConsequentialRoutes
  BY DEF Route, RouteTarget, ConsequentialRoutes
<1>3. contract = NoContract /\ class = NoClass
  BY <1>2 DEF CaseInv, ContractOK, ClassOK, Reserved, Concluded
<1>4. TypeOK'
  BY <1>1, <1>2 DEF Route, objects, CaseInv, TypeOK, WorkflowState
<1>5. DecisionOK'
  BY <1>1, <1>2 DEF Route, objects, CaseInv, DecisionOK, Undecided
<1>6. ContractOK' /\ ReservationOK' /\ ClassOK'
  BY AbsenceAssumption, <1>1, <1>2, <1>3 DEF Route, objects, ContractOK, ReservationOK, ClassOK, Reserved,
                          Concluded, Classes
<1>7. EffectsOK'
  BY <1>3, EffectsStay DEF Route, objects
<1> QED
  BY <1>1, <1>4, <1>5, <1>6, <1>7 DEF CaseInv

LEMMA PrepareKeeps ==
  ASSUME CaseInv, Prepare
  PROVE  CaseInv'
<1>1. /\ evidence' = evidence /\ rev' = rev
      /\ batches' \in Seq(Batch) /\ rev' \in 1..MaxRevision
      /\ batches' # <<>> /\ \A r \in DOMAIN batches' : ValidBatch(batches'[r])
  BY SameBatches DEF Prepare
<1>2. state = "AWAITING_APPROVAL" /\ state' = "ACTION_PREPARED" /\ decision' = decision
  BY DEF Prepare
<1>3. contract = NoContract /\ class = NoClass
  BY <1>2 DEF CaseInv, ContractOK, ClassOK, Reserved, Concluded
<1>4. decision = Decide(evidence) /\ decision.route \in ConsequentialRoutes
  BY <1>2 DEF CaseInv, DecisionOK, Undecided
<1>5. /\ contract' = Contract /\ ValidContract(Contract)
      /\ Contract \in ContractType /\ Contract # NoContract
  BY <1>4, GrantedCanBeBuilt DEF Prepare
<1>6. Contract' = Contract
  BY <1>2, ContractStays DEF Prepare
<1>7. TypeOK'
  <2>1. runs' \in 0..MaxRuns
    BY CaseAssumption DEF Prepare
  <2> QED
    BY <1>1, <1>2, <1>5, <2>1 DEF Prepare, CaseInv, TypeOK, WorkflowState
<1>8. DecisionOK'
  BY <1>1, <1>2 DEF Prepare, CaseInv, DecisionOK, Undecided
<1>9. ContractOK' /\ ReservationOK' /\ ClassOK'
  BY AbsenceAssumption, <1>1, <1>2, <1>3, <1>5, <1>6
  DEF Prepare, ContractOK, ReservationOK, ClassOK, Reserved, Concluded, Classes, ValidContract
<1>10. EffectsOK'
  BY <1>3, EffectsStay DEF Prepare
<1> QED
  BY <1>1, <1>7, <1>8, <1>9, <1>10 DEF CaseInv

LEMMA ReserveKeeps ==
  ASSUME CaseInv, Reserve
  PROVE  CaseInv'
<1>1. /\ evidence' = evidence /\ rev' = rev
      /\ batches' \in Seq(Batch) /\ rev' \in 1..MaxRevision
      /\ batches' # <<>> /\ \A r \in DOMAIN batches' : ValidBatch(batches'[r])
  BY SameBatches DEF Reserve
<1>2. /\ state = "ACTION_PREPARED" /\ state' = "ACTION_RESERVED"
      /\ UNCHANGED <<decision, proposal, contract, class, message, runs, effects>>
  BY DEF Reserve, objects
<1>3. PICK e \in AuthorityEvents, now \in Instants :
        /\ Capability(e, now)
        /\ reservation' = [reservation EXCEPT ![rev] =
             [role |-> e.role, issuer |-> e.issuer, at |-> now, expires |-> e.expires]]
  BY DEF Reserve
<1> DEFINE r == [role |-> e.role, issuer |-> e.issuer, at |-> now, expires |-> e.expires]
<1>4. /\ r \in ReservationType /\ r # NoReservation
      /\ r.role = Role(contract.route) /\ r.issuer = Actor(r.role) /\ r.at < r.expires
  <2>1. /\ e.role \in Roles /\ e.expires \in Instants
        /\ e.role = Role(contract.route) /\ e.issuer = Actor(e.role) /\ now < e.expires
    BY <1>3 DEF AuthorityEvents, Capability
  <2>2. r \in ReservationType
    BY <2>1 DEF ReservationType
  <2> QED
    BY <2>1, <2>2, AbsenceAssumption
<1> HIDE DEF r
<1>5. reservation \in [1..MaxRevision -> ReservationType \cup {NoReservation}] /\ rev \in 1..MaxRevision
  BY DEF CaseInv, TypeOK
<1>6. /\ reservation' \in [1..MaxRevision -> ReservationType \cup {NoReservation}]
      /\ reservation'[rev] = r
  <2>1. reservation' = [reservation EXCEPT ![rev] = r]
    BY <1>3 DEF r
  <2> QED
    BY <2>1, <1>4, <1>5
<1>7. TypeOK'
  BY <1>1, <1>2, <1>6 DEF CaseInv, TypeOK, WorkflowState
<1>8. DecisionOK'
  BY <1>1, <1>2 DEF CaseInv, DecisionOK, Undecided
<1>9. ContractOK' /\ ClassOK'
  BY <1>1, <1>2, ContractStays, AbsenceAssumption
  DEF CaseInv, ContractOK, ClassOK, Reserved, Concluded, Classes, Reserve
<1>10. ReservationOK'
  BY <1>1, <1>2, <1>4, <1>6 DEF ReservationOK, Authorised
\* Nothing was reserved before, so nothing was done.
<1>11. effects = {}
  <2>1. SUFFICES ASSUME NEW x \in effects PROVE FALSE
    OBVIOUS
  <2>2. /\ x.contract.rev \in 1..rev
        /\ CoveredBy(x.contract, batches[x.contract.rev], reservation[x.contract.rev])
    BY DEF CaseInv, EffectsOK
  <2>3. reservation[x.contract.rev] # NoReservation
    BY <2>2 DEF CoveredBy
  <2>4. x.contract.rev \in DOMAIN reservation
    BY <2>2, <1>5, CaseAssumption
  <2> QED
    BY <2>3, <2>4 DEF Reserve
<1>12. EffectsOK'
  BY <1>2, <1>11 DEF EffectsOK
<1> QED
  BY <1>1, <1>7, <1>8, <1>9, <1>10, <1>12 DEF CaseInv

\* Effects of a contract are of that contract, in a known source.
LEMMA EffectsRead ==
  ASSUME NEW c, NEW n \in 0..Len(EffectSources(c)), NEW e \in FirstEffects(c, n)
  PROVE  e.contract = c /\ e.source \in {"OMS", "INVENTORY", "WMS", "PAYMENT"}
<1>1. \A i \in 1..Len(EffectSources(c)) :
        EffectSources(c)[i] \in {"OMS", "INVENTORY", "WMS", "PAYMENT"}
  BY DEF EffectSources
<1>2. Len(EffectSources(c)) \in Nat
  BY DEF EffectSources
<1> QED
  BY <1>1, <1>2 DEF FirstEffects

\* Whoever was found for the decided route may allow the exposure.
LEMMA ApproverMayAllow ==
  ASSUME NEW b \in Batch, NEW role, role = Role(ApprovalRoute(b))
  PROVE  MayAllow(role, b, Affected(b))
<1>1. /\ b.delegated \in Nat /\ b.owner_max \in Nat /\ b.finance_order \in Nat
      /\ b.order_value \in Nat /\ Affected(b) \in Nat
  BY DueAreQuantities DEF Batch
<1>2. CASE ApprovalRoute(b) = "DELEGATED_DECISION"
  <2>1. role = "SYNTHETIC_RECOVERY_SPECIALIST"
    BY <1>2 DEF Role
  <2>2. Affected(b) <= b.delegated /\ b.order_value <= b.finance_order
    BY <1>1, <1>2 DEF ApprovalRoute
  <2> QED
    BY <2>1, <2>2 DEF MayAllow
<1>3. CASE ApprovalRoute(b) = "WORKFLOW_OWNER_APPROVAL"
  <2>1. role = "SYNTHETIC_WORKFLOW_OWNER"
    BY <1>3 DEF Role
  <2>2. Affected(b) <= b.owner_max /\ b.order_value <= b.finance_order
    BY <1>1, <1>3 DEF ApprovalRoute
  <2> QED
    BY <2>1, <2>2 DEF MayAllow
<1>4. CASE ApprovalRoute(b) = "FINANCE_APPROVAL"
  <2>1. role = "SYNTHETIC_FINANCE_APPROVER"
    BY <1>4 DEF Role
  <2> QED
    BY <2>1 DEF MayAllow
<1> QED
  BY <1>2, <1>3, <1>4 DEF ApprovalRoute

\* What is done for a reserved contract is covered.
LEMMA ReservedIsCovered ==
  ASSUME CaseInv, state \in Reserved
  PROVE  /\ contract # NoContract /\ contract \in ContractType /\ contract.rev = rev
         /\ CoveredBy(contract, evidence, reservation[rev])
<1>1. /\ contract # NoContract /\ contract \in ContractType
      /\ contract.rev = rev /\ contract.operation = decision.action
      /\ contract.quantity = Remaining(evidence) /\ contract.amount = Affected(evidence)
      /\ contract.route = decision.route /\ contract.route \in ConsequentialRoutes
  BY DEF CaseInv, TypeOK, ContractOK, ValidContract, Contract
<1>2. decision = Decide(evidence) /\ Derivable(evidence)
  BY DEF CaseInv, DecisionOK, Decidable, Reserved, Undecided
<1>3. /\ evidence \in Batch /\ Remaining(evidence) \in Nat
  BY EvidenceIsValid
<1>4. /\ ~Unsafe(evidence) /\ decision.action = evidence.choice
      /\ decision.route = ApprovalRoute(evidence)
      /\ evidence.choice = "RESHIP" => evidence.stock >= Remaining(evidence)
  BY <1>1, <1>2, <1>3, GrantedReads
<1>5. Authorised(reservation[rev], contract.route)
  BY DEF CaseInv, ReservationOK
<1>6. MayAllow(reservation[rev].role, evidence, contract.amount)
  BY <1>1, <1>3, <1>4, <1>5, ApproverMayAllow DEF Authorised
<1> QED
  BY <1>1, <1>2, <1>4, <1>5, <1>6 DEF CoveredBy, Authorised

LEMMA ExecuteKeeps ==
  ASSUME CaseInv, Execute
  PROVE  CaseInv'
<1>1. /\ evidence' = evidence /\ rev' = rev
      /\ batches' \in Seq(Batch) /\ rev' \in 1..MaxRevision
      /\ batches' # <<>> /\ \A r \in DOMAIN batches' : ValidBatch(batches'[r])
  BY SameBatches DEF Execute
<1>2. /\ state \in {"ACTION_RESERVED", "ACTION_RECOVERY"}
      /\ state' \in {"VERIFYING", "ACTION_RECOVERY"}
      /\ UNCHANGED <<batches, decision, proposal, contract, class, message, reservation>>
  BY DEF Execute, ExecuteReturns, ExecuteFails
<1>3. /\ contract # NoContract /\ contract \in ContractType /\ contract.rev = rev
      /\ CoveredBy(contract, evidence, reservation[rev])
  BY <1>2, ReservedIsCovered DEF Reserved
<1>4. \A e \in effects' : \/ e \in effects
                          \/ /\ e.contract = contract
                             /\ e.source \in {"OMS", "INVENTORY", "WMS", "PAYMENT"}
  <2>1. Len(EffectSources(contract)) \in Nat
    BY DEF EffectSources
  <2>2. PICK n \in 0..Len(EffectSources(contract)) :
          effects' = effects \cup FirstEffects(contract, n) \/ effects' = effects
    BY <2>1 DEF Execute, ExecuteReturns, ExecuteFails, AllEffects
  <2> QED
    BY <2>2, EffectsRead
<1>5. TypeOK'
  <2>1. runs' \in 0..MaxRuns
    BY CaseAssumption DEF Execute, CaseInv, TypeOK
  <2> QED
    BY <1>1, <1>2, <1>3, <1>4, <2>1 DEF CaseInv, TypeOK, WorkflowState
<1>6. DecisionOK'
  BY <1>1, <1>2 DEF CaseInv, DecisionOK, Undecided
<1>7. ContractOK' /\ ClassOK'
  BY <1>1, <1>2, <1>3, ContractStays, AbsenceAssumption
  DEF CaseInv, ContractOK, ClassOK, Reserved, Concluded, Classes
<1>8. ReservationOK'
  BY <1>1, <1>2 DEF CaseInv, ReservationOK, Reserved
<1>9. EffectsOK'
  <2>1. SUFFICES ASSUME NEW e \in effects'
                 PROVE  /\ e.contract.rev \in 1..rev
                        /\ CoveredBy(e.contract, batches[e.contract.rev],
                                     reservation[e.contract.rev])
                        /\ e.contract.rev = rev => contract # NoContract /\ e.contract = contract
    BY <1>1, <1>2 DEF EffectsOK
  <2>2. CASE e \in effects
    BY <2>2 DEF CaseInv, EffectsOK
  <2>3. CASE e.contract = contract
    BY <2>3, <1>3, EvidenceIsValid
  <2> QED
    BY <1>4, <2>2, <2>3
<1> QED
  BY <1>1, <1>5, <1>6, <1>7, <1>8, <1>9 DEF CaseInv

LEMMA VerifyKeeps ==
  ASSUME CaseInv, Verify
  PROVE  CaseInv'
<1>1. /\ evidence' = evidence /\ rev' = rev
      /\ batches' \in Seq(Batch) /\ rev' \in 1..MaxRevision
      /\ batches' # <<>> /\ \A r \in DOMAIN batches' : ValidBatch(batches'[r])
  BY SameBatches DEF Verify
<1>2. /\ state = "VERIFYING" /\ class' \in {"VERIFIED_REMEDY", "VERIFICATION_FAILED"}
      /\ state' = class'
      /\ UNCHANGED <<batches, decision, proposal, contract, message, runs, reservation, effects>>
  BY DEF Verify
<1>3. contract # NoContract
  BY <1>2 DEF CaseInv, ContractOK, Reserved
<1>4. TypeOK'
  BY <1>1, <1>2, <1>3 DEF CaseInv, TypeOK, WorkflowState, Classes
<1>5. DecisionOK'
  BY <1>1, <1>2 DEF CaseInv, DecisionOK, Undecided
<1>6. ContractOK' /\ ClassOK'
  BY <1>1, <1>2, <1>3, ContractStays, AbsenceAssumption
  DEF CaseInv, ContractOK, ClassOK, Reserved, Concluded, Classes
<1>7. ReservationOK'
  BY <1>1, <1>2 DEF CaseInv, ReservationOK, Reserved
<1>8. EffectsOK'
  BY <1>2, EffectsStay
<1> QED
  BY <1>1, <1>4, <1>5, <1>6, <1>7, <1>8 DEF CaseInv

LEMMA VerifyDirectKeeps ==
  ASSUME CaseInv, VerifyDirect
  PROVE  CaseInv'
<1>1. /\ evidence' = evidence /\ rev' = rev
      /\ batches' \in Seq(Batch) /\ rev' \in 1..MaxRevision
      /\ batches' # <<>> /\ \A r \in DOMAIN batches' : ValidBatch(batches'[r])
  BY SameBatches DEF VerifyDirect
<1>2. /\ state = "RECOMMENDATION_READY" /\ state' = "COMMUNICATION_READY"
      /\ class' \in {"VERIFIED_WAIT_CONDITION", "VERIFIED_NO_NEW_ACTION"}
      /\ UNCHANGED <<batches, decision, proposal, contract, message, runs, reservation, effects>>
  BY DEF VerifyDirect
<1>3. contract = NoContract
  BY <1>2 DEF CaseInv, ContractOK, Reserved, Concluded
<1>4. TypeOK'
  BY <1>1, <1>2, <1>3 DEF CaseInv, TypeOK, WorkflowState, Classes
<1>5. DecisionOK'
  BY <1>1, <1>2 DEF CaseInv, DecisionOK, Undecided
<1>6. ContractOK' /\ ClassOK' /\ ReservationOK'
  BY <1>1, <1>2, <1>3, AbsenceAssumption
  DEF ContractOK, ClassOK, ReservationOK, Reserved, Concluded, Classes
<1>7. EffectsOK'
  BY <1>2, EffectsStay
<1> QED
  BY <1>1, <1>4, <1>5, <1>6, <1>7 DEF CaseInv

LEMMA CommunicateKeeps ==
  ASSUME CaseInv, Communicate
  PROVE  CaseInv'
<1>1. /\ evidence' = evidence /\ rev' = rev
      /\ batches' \in Seq(Batch) /\ rev' \in 1..MaxRevision
      /\ batches' # <<>> /\ \A r \in DOMAIN batches' : ValidBatch(batches'[r])
  BY SameBatches DEF Communicate
<1>2. /\ state \in {"VERIFIED_REMEDY", "COMMUNICATION_READY"} /\ state' = "COMMUNICATION_READY"
      /\ message' = {Fact}
      /\ UNCHANGED <<batches, decision, proposal, contract, class, runs, reservation, effects>>
  BY DEF Communicate
<1>3. Cardinality(message') <= 1
  <2>1. PICK f : message' = {f}
    BY <1>2
  <2>2. Cardinality({f}) = 1
    BY FS_Singleton
  <2> QED
    BY <2>1, <2>2
<1>4. TypeOK'
  BY <1>1, <1>2, <1>3 DEF CaseInv, TypeOK, WorkflowState
<1>5. DecisionOK'
  BY <1>1, <1>2 DEF CaseInv, DecisionOK, Undecided
<1>6. ContractOK' /\ ClassOK' /\ ReservationOK'
  BY <1>1, <1>2, ContractStays
  DEF CaseInv, ContractOK, ClassOK, ReservationOK, Reserved, Concluded
<1>7. EffectsOK'
  BY <1>2, EffectsStay
<1> QED
  BY <1>1, <1>4, <1>5, <1>6, <1>7 DEF CaseInv

LEMMA CloseKeeps ==
  ASSUME CaseInv, Close
  PROVE  CaseInv'
<1>1. /\ evidence' = evidence /\ rev' = rev
      /\ batches' \in Seq(Batch) /\ rev' \in 1..MaxRevision
      /\ batches' # <<>> /\ \A r \in DOMAIN batches' : ValidBatch(batches'[r])
  BY SameBatches DEF Close
<1>2. /\ state = "COMMUNICATION_READY" /\ state' = "CLOSED"
      /\ UNCHANGED <<batches, decision, proposal, contract, class, message, runs,
                     reservation, effects>>
  BY DEF Close, objects
<1>3. TypeOK'
  BY <1>1, <1>2 DEF CaseInv, TypeOK, WorkflowState
<1>4. DecisionOK'
  BY <1>1, <1>2 DEF CaseInv, DecisionOK, Undecided
<1>5. ContractOK' /\ ClassOK' /\ ReservationOK'
  BY <1>1, <1>2, ContractStays
  DEF CaseInv, ContractOK, ClassOK, ReservationOK, Reserved, Concluded
<1>6. EffectsOK'
  BY <1>2, EffectsStay
<1> QED
  BY <1>1, <1>3, <1>4, <1>5, <1>6 DEF CaseInv

LEMMA ReassembleKeeps ==
  ASSUME CaseInv, Reassemble
  PROVE  CaseInv'
<1>1. /\ evidence' = evidence /\ rev' = rev
      /\ batches' \in Seq(Batch) /\ rev' \in 1..MaxRevision
      /\ batches' # <<>> /\ \A r \in DOMAIN batches' : ValidBatch(batches'[r])
  BY SameBatches DEF Reassemble
<1>2. /\ state = "EVIDENCE_BLOCKED" /\ state' = "CONTEXT_READY"
      /\ UNCHANGED <<batches, decision, proposal, contract, class, message, runs,
                     reservation, effects>>
  BY DEF Reassemble, objects
<1>3. TypeOK'
  BY <1>1, <1>2 DEF CaseInv, TypeOK, WorkflowState
<1>4. DecisionOK'
  BY <1>1, <1>2 DEF CaseInv, DecisionOK, Undecided
<1>5. ContractOK' /\ ClassOK' /\ ReservationOK'
  BY <1>1, <1>2, ContractStays
  DEF CaseInv, ContractOK, ClassOK, ReservationOK, Reserved, Concluded
<1>6. EffectsOK'
  BY <1>2, EffectsStay
<1> QED
  BY <1>1, <1>3, <1>4, <1>5, <1>6 DEF CaseInv

\* A revision takes everything that was decided out of force, and leaves what
\* was done to the revision it was done under.
LEMMA ReviseKeeps ==
  ASSUME CaseInv, Revise
  PROVE  CaseInv'
<1>1. PICK b : ValidBatch(b) /\ batches' = Append(batches, b)
  BY DEF Revise
<1>2. /\ batches \in Seq(Batch) /\ rev = Len(batches) /\ rev \in 1..MaxRevision
      /\ rev < MaxRevision /\ b \in Batch /\ MaxRevision \in Nat
  BY <1>1, CaseAssumption DEF CaseInv, Revise, rev, ValidBatch
<1>3. /\ batches' \in Seq(Batch) /\ batches' # <<>> /\ rev' = rev + 1
      /\ \A r \in 1..rev : batches'[r] = batches[r]
      /\ \A r \in DOMAIN batches' : batches'[r] = b \/ r \in DOMAIN batches
    BY <1>1, <1>2 DEF rev
<1>4. \A r \in DOMAIN batches' : ValidBatch(batches'[r])
  BY <1>1, <1>2, <1>3 DEF CaseInv, TypeOK
<1>5. /\ state' = "EVIDENCE_BLOCKED"
      /\ decision' = NoDecision /\ proposal' = NoCandidate /\ contract' = NoContract
      /\ class' = NoClass /\ message' = {} /\ runs' = 0
      /\ UNCHANGED <<reservation, effects>>
  BY DEF Revise
<1>6. TypeOK'
  <2>1. Cardinality(message') <= 1 /\ runs' \in 0..MaxRuns
    BY <1>5, FS_EmptySet, CaseAssumption
  <2> QED
    BY <1>3, <1>4, <1>5, <2>1 DEF CaseInv, TypeOK, WorkflowState
<1>7. DecisionOK'
  BY <1>5 DEF DecisionOK, Undecided
<1>8. ContractOK' /\ ClassOK' /\ ReservationOK'
  BY <1>5, AbsenceAssumption DEF ContractOK, ClassOK, ReservationOK, Reserved, Concluded, Classes
<1>9. EffectsOK'
  <2>1. SUFFICES ASSUME NEW e \in effects
                 PROVE  /\ e.contract.rev \in 1..rev' /\ e.contract.rev # rev'
                        /\ CoveredBy(e.contract, batches'[e.contract.rev],
                                     reservation[e.contract.rev])
    BY <1>5 DEF EffectsOK
  <2>2. /\ e.contract.rev \in 1..rev
        /\ CoveredBy(e.contract, batches[e.contract.rev], reservation[e.contract.rev])
    BY DEF CaseInv, EffectsOK
  <2>3. batches'[e.contract.rev] = batches[e.contract.rev]
    BY <1>3, <2>2
  <2>4. e.contract.rev \in 1..rev' /\ e.contract.rev # rev'
    BY <1>2, <1>3, <2>2
  <2> QED
    BY <2>2, <2>3, <2>4
<1>10. rev' \in 1..MaxRevision
  BY <1>2, <1>3
<1> QED
  BY <1>3, <1>6, <1>7, <1>8, <1>9, <1>10 DEF CaseInv

LEMMA NextKeeps == CaseInv /\ [Next]_vars => CaseInv'
<1> SUFFICES ASSUME CaseInv, [Next]_vars PROVE CaseInv'
  OBVIOUS
<1>1. CASE UNCHANGED vars
  BY <1>1 DEF vars, objects, CaseInv, TypeOK, DecisionOK, ContractOK, ReservationOK, EffectsOK,
              ClassOK, evidence, rev, Contract
<1>2. CASE Next
  BY <1>2, RecommendKeeps, RouteKeeps, PrepareKeeps, ReserveKeeps, ExecuteKeeps, VerifyKeeps,
     VerifyDirectKeeps, CommunicateKeeps, CloseKeeps, ReviseKeeps, ReassembleKeeps DEF Next
<1> QED
  BY <1>1, <1>2

\* The inductive invariant: what is decided, contracted, reserved and done is
\* of the evidence it says it is of.
THEOREM CaseInvariant == Spec => []CaseInv
BY InitCase, NextKeeps, PTL DEF Spec

-----------------------------------------------------------------------------
(* What a case promises.                                                   *)

\* Every variable of a case has its shape, and no granted remedy is one for
\* which no contract can be built (build_action_contract).
THEOREM CaseTyping == Spec => []TypeOK
<1>1. CaseInv => TypeOK
  BY DEF CaseInv
<1> QED
  BY <1>1, CaseInvariant, PTL

\* Whatever stands in a source was allowed by somebody who may allow that
\* much, on evidence of that revision that calls for exactly this, for any
\* order lines, batches and limits.
THEOREM ExposureIsCovered == Spec => []AuthorityCoversExposure
<1>1. CaseInv => AuthorityCoversExposure
  BY DEF CaseInv, EffectsOK, CoveredBy, AuthorityCoversExposure
<1> QED
  BY <1>1, CaseInvariant, PTL

\* Evidence that gets worse in any respect grants nothing more, at any state
\* in which a case is about to be decided.
THEOREM WorseGrantsNoMore == Spec => []WorseNeverGrants
<1>1. CaseInv => WorseNeverGrants
  <2> SUFFICES ASSUME CaseInv, NEW w \in Worse(evidence), Grants(w)
      PROVE  /\ Grants(evidence)
             /\ Rank(Decide(w).route) >= Rank(Decide(evidence).route)
    BY DEF WorseNeverGrants
  <2>1. ValidBatch(evidence)
    BY EvidenceIsValid
  <2> QED
    BY <2>1, WorseEvidenceGrantsNoMore
<1> QED
  BY <1>1, CaseInvariant, PTL

\* The decision in force names an action the policy knows.
LEMMA DecidedActions ==
  ASSUME CaseInv, decision # NoDecision
  PROVE  /\ decision = Decide(evidence) /\ decision.action \in Actions
         /\ state \notin Undecided
<1>1. decision = Decide(evidence) /\ state \notin Undecided
  BY DEF CaseInv, DecisionOK
<1>2. evidence \in Batch
  BY EvidenceIsValid
<1>3. Decide(evidence).action \in Actions
  <2>1. CASE Barred(evidence)
    BY <2>1, DecisionReads
  <2>2. CASE ~Barred(evidence)
    <3>1. Decide(evidence).route \in ConsequentialRoutes
      BY <2>2, UnbarredIsGranted
    <3> QED
      BY <1>2, <3>1, GrantedReads DEF Actions
  <2> QED
    BY <2>1, <2>2
<1> QED
  BY <1>1, <1>3

\* The evaluation reports what happened: a remedy only if all of it, and
\* nothing else, was done under an authority; a legal end without one only if
\* no source was touched; and the policy's decision (_derive_assisted).
THEOREM EvaluationsAreTrue == Spec => []JudgedAsItHappened
<1>1. CaseInv => JudgedAsItHappened
  <2> SUFFICES ASSUME CaseInv, rev = 1, decision # NoDecision
      PROVE  /\ JudgedClass = "VERIFIED_REMEDY" =>
                  effects = AllEffects(contract) /\ reservation[1] # NoReservation
             /\ ClosedLegally /\ JudgedClass \notin {"VERIFIED_REMEDY", "ACTION_RECOVERY"}
                  => effects = {}
             /\ JudgedRecommendation.action = Decide(evidence).action
             /\ JudgedRecommendation.route = Decide(evidence).route
    BY DEF JudgedAsItHappened, Judgeable
  <2>1. /\ decision = Decide(evidence) /\ decision.action \in Actions /\ state \notin Undecided
        /\ state \in WorkflowState
    BY DecidedActions DEF CaseInv, TypeOK
  \* Of the only revision, nothing was done but for the contract in force.
  <2>2. /\ \A e \in effects : /\ contract # NoContract /\ e.contract = contract
                              /\ reservation[1] # NoReservation
        /\ effects = Committed(contract)
    <3>1. ASSUME NEW e \in effects
          PROVE  /\ contract # NoContract /\ e.contract = contract
                 /\ reservation[1] # NoReservation
      <4>1. e.contract.rev = 1
        BY DEF CaseInv, EffectsOK
      <4> QED
        BY <4>1 DEF CaseInv, EffectsOK, CoveredBy
    <3> QED
      BY <3>1 DEF Committed
  <2>3. contract = NoContract => effects = {}
    BY <2>2
  <2>4. Outcome(decision) # "VERIFIED_REMEDY"
    BY <2>1 DEF Outcome, Actions
  <2>5. ASSUME JudgedClass = "VERIFIED_REMEDY"
        PROVE  effects = AllEffects(contract) /\ reservation[1] # NoReservation
    <3>1. contract # NoContract /\ Committed(contract) = AllEffects(contract)
      BY <2>4, <2>5 DEF JudgedClass, CaseInv, ClassOK
    <3>2. AllEffects(contract) # {}
      <4>1. Len(EffectSources(contract)) \in Nat /\ Len(EffectSources(contract)) >= 1
        BY DEF EffectSources
      <4>2. [contract |-> contract, source |-> EffectSources(contract)[1]] \in AllEffects(contract)
        BY <4>1 DEF AllEffects, FirstEffects
      <4> QED
        BY <4>2
    <3> QED
      BY <2>2, <3>1, <3>2
  <2>6. ASSUME ClosedLegally, JudgedClass \notin {"VERIFIED_REMEDY", "ACTION_RECOVERY"}
        PROVE  effects = {}
    <3>1. state = LegalEnd(JudgedClass)
      BY <2>6 DEF ClosedLegally
    <3>2. CASE class # NoClass
      <4>1. CASE contract = NoContract
        BY <2>3, <4>1
      <4>2. CASE contract # NoContract
        <5>1. JudgedClass = "VERIFICATION_FAILED"
          BY <2>6, <3>2, <4>2 DEF JudgedClass
        <5>2. LegalEnd("VERIFICATION_FAILED") = "NONE"
          BY DEF LegalEnd
        <5> QED
          BY <2>1, <3>1, <5>1, <5>2 DEF WorkflowState
      <4> QED
        BY <4>1, <4>2
    <3>3. CASE class = NoClass
      <4>1. state # "CLOSED" /\ state # "NONE"
        BY <2>1, <3>3 DEF CaseInv, ClassOK, Concluded, WorkflowState
      <4>2. CASE state \in {"CONTROL_STOPPED", "RECOMMENDATION_READY"}
        BY <2>3, <4>2 DEF CaseInv, ContractOK, Reserved, Concluded
      <4>3. CASE state \notin {"CONTROL_STOPPED", "RECOMMENDATION_READY"}
        <5>1. state # "ACTION_RECOVERY"
          BY <2>6, <3>3 DEF JudgedClass
        <5>2. LegalEnd(JudgedClass) \in {"CLOSED", "RECOMMENDATION_READY", "NONE",
                                         "CONTROL_STOPPED", "ACTION_RECOVERY"}
          BY DEF LegalEnd
        <5> QED
          BY <3>1, <4>1, <4>3, <5>1, <5>2
      <4> QED
        BY <4>2, <4>3
    <3> QED
      BY <3>2, <3>3
  <2>7. /\ JudgedRecommendation.action = Decide(evidence).action
        /\ JudgedRecommendation.route = Decide(evidence).route
    BY <2>1 DEF JudgedRecommendation, Accepts
  <2> QED
    BY <2>5, <2>6, <2>7
<1> QED
  BY <1>1, CaseInvariant, PTL
=============================================================================

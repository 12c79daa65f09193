------------------------ MODULE ActionAdapterProofs ------------------------
(***************************************************************************)
(* Proofs about ActionAdapter, for any actions, eligible quantities,       *)
(* faults and bounds.  AdapterInv is shown inductive, action by action;    *)
(* the safety properties and the refinement of SimulatedRemedy follow.     *)
(***************************************************************************)
EXTENDS ActionAdapter, SequenceTheorems, FiniteSetTheorems, TLAPS

-----------------------------------------------------------------------------
(* One journal, as a record.                                               *)

JournalType ==
  [lines : Seq(Entry), tail : TornTail \cup {NoTail}, markers : Seq(Entry \cup {TornFile})]

\* A crash has left the last marker half written.
TornIn(x) == x.markers # <<>> /\ x.markers[Len(x.markers)] = TornFile

CountIn(x) == IF TornIn(x) THEN Len(x.markers) - 1 ELSE Len(x.markers)

\* Every marker binds the line at its place, but for one half written.
ShapeIn(x) ==
  /\ Len(x.markers) <= Len(x.lines)
  /\ \A i \in 1..Len(x.markers) :
       \/ x.markers[i] = x.lines[i]
       \/ i = Len(x.markers) /\ x.markers[i] = TornFile

CommittedIn(x) ==
  LET WholeMarkers == {i \in DOMAIN x.markers : x.markers[i] # TornFile}
  IN  SubSeq(x.lines, 1, Cardinality(WholeMarkers))

ReadyIn(x) == ~TornIn(x) /\ x.tail = NoTail /\ Len(x.lines) = Len(x.markers)

\* A line has been appended, and waits for its marker.
PendingIn(x, line) ==
  /\ ~TornIn(x) /\ x.tail = NoTail
  /\ Len(x.lines) = Len(x.markers) + 1 /\ x.lines[Len(x.lines)] = line

LEMMA JournalFields ==
  ASSUME NEW x \in JournalType
  PROVE  /\ x.lines \in Seq(Entry) /\ Len(x.lines) \in Nat /\ DOMAIN x.lines = 1..Len(x.lines)
         /\ x.markers \in Seq(Entry \cup {TornFile}) /\ Len(x.markers) \in Nat
         /\ DOMAIN x.markers = 1..Len(x.markers)
         /\ \A i \in 1..Len(x.lines) : x.lines[i] \in Entry /\ x.lines[i] # TornFile
         /\ x.tail \in TornTail \cup {NoTail}
         /\ x = [lines |-> x.lines, tail |-> x.tail, markers |-> x.markers]
         /\ x.markers # <<>> => Len(x.markers) > 0
<1> HIDE DEF Entry, TornTail
<1>1. /\ x.lines \in Seq(Entry) /\ x.markers \in Seq(Entry \cup {TornFile})
      /\ x.tail \in TornTail \cup {NoTail}
      /\ x = [lines |-> x.lines, tail |-> x.tail, markers |-> x.markers]
  BY DEF JournalType
<1>2. \A i \in 1..Len(x.lines) : x.lines[i] \in Entry /\ x.lines[i] # TornFile
  BY <1>1, AdapterAssumption
<1> QED BY <1>1, <1>2

LEMMA LinesSet ==
  ASSUME NEW x \in JournalType, NEW v
  PROVE  [x EXCEPT !.lines = v] = [lines |-> v, tail |-> x.tail, markers |-> x.markers]
<1>1. DOMAIN x = {"lines", "tail", "markers"}
  BY DEF JournalType
<1> QED BY <1>1

LEMMA TailSet ==
  ASSUME NEW x \in JournalType, NEW v
  PROVE  [x EXCEPT !.tail = v] = [lines |-> x.lines, tail |-> v, markers |-> x.markers]
<1>1. DOMAIN x = {"lines", "tail", "markers"}
  BY DEF JournalType
<1> QED BY <1>1

LEMMA MarkersSet ==
  ASSUME NEW x \in JournalType, NEW v
  PROVE  [x EXCEPT !.markers = v] = [lines |-> x.lines, tail |-> x.tail, markers |-> v]
<1>1. DOMAIN x = {"lines", "tail", "markers"}
  BY DEF JournalType
<1> QED BY <1>1

LEMMA LinesAndTailSet ==
  ASSUME NEW x \in JournalType, NEW v, NEW t
  PROVE  [x EXCEPT !.lines = v, !.tail = t] = [lines |-> v, tail |-> t, markers |-> x.markers]
<1>1. DOMAIN x = {"lines", "tail", "markers"}
  BY DEF JournalType
<1> DEFINE y == [x EXCEPT !.lines = v, !.tail = t]
<1>2. /\ DOMAIN y = {"lines", "tail", "markers"}
      /\ y.lines = v /\ y.tail = t /\ y.markers = x.markers
  BY <1>1
<1>3. y = [k \in {"lines", "tail", "markers"} |-> y[k]]
  BY <1>1
<1> HIDE DEF y
<1>4. y = [lines |-> v, tail |-> t, markers |-> x.markers]
  BY <1>2, <1>3
<1> QED BY <1>4 DEF y

\* The committed lines are the lines up to the last whole marker.
LEMMA CommittedLines ==
  ASSUME NEW x \in JournalType, ShapeIn(x)
  PROVE  /\ CountIn(x) \in Nat /\ CountIn(x) <= Len(x.markers) /\ CountIn(x) <= Len(x.lines)
         /\ CommittedIn(x) \in Seq(Entry) /\ Len(CommittedIn(x)) = CountIn(x)
         /\ DOMAIN CommittedIn(x) = 1..CountIn(x)
         /\ \A i \in 1..CountIn(x) : CommittedIn(x)[i] = x.lines[i]
<1> DEFINE W == {i \in DOMAIN x.markers : x.markers[i] # TornFile}
<1>1. /\ CountIn(x) \in Nat /\ CountIn(x) <= Len(x.markers) /\ CountIn(x) <= Len(x.lines)
      /\ W = 1..CountIn(x)
  <2>1. CASE TornIn(x)
    <3>1. Len(x.markers) > 0 /\ CountIn(x) = Len(x.markers) - 1
      BY <2>1, JournalFields DEF TornIn, CountIn
    <3> QED BY <2>1, <3>1, JournalFields DEF TornIn, ShapeIn
  <2>2. CASE ~TornIn(x)
    <3>1. CountIn(x) = Len(x.markers)
      BY <2>2 DEF CountIn
    <3> QED BY <2>2, <3>1, JournalFields DEF TornIn, ShapeIn
  <2> QED BY <2>1, <2>2
<1>2. Cardinality(W) = CountIn(x)
  <2>1. Cardinality(1..CountIn(x)) = CountIn(x)
    <3> HIDE DEF CountIn
    <3> QED BY <1>1, FS_Interval
  <2> HIDE DEF W
  <2> QED BY <1>1, <2>1
<1>3. CommittedIn(x) = SubSeq(x.lines, 1, CountIn(x))
  BY <1>2 DEF CommittedIn
<1>4. \A i \in 1..CountIn(x) : x.lines[i] \in Entry
  BY <1>1, JournalFields
<1>5. /\ SubSeq(x.lines, 1, CountIn(x)) \in Seq(Entry)
      /\ Len(SubSeq(x.lines, 1, CountIn(x))) = CountIn(x)
      /\ \A i \in 1..CountIn(x) : SubSeq(x.lines, 1, CountIn(x))[i] = x.lines[i]
  <2> HIDE DEF Entry, CountIn
  <2> QED BY <1>1, <1>4, SubSeqProperties
<1> QED BY <1>1, <1>3, <1>5

LEMMA SameLines ==
  ASSUME NEW x \in JournalType, ShapeIn(x), NEW y \in JournalType, ShapeIn(y),
         CountIn(y) = CountIn(x), \A i \in 1..CountIn(x) : y.lines[i] = x.lines[i]
  PROVE  CommittedIn(y) = CommittedIn(x)
<1>1. /\ CommittedIn(x) \in Seq(Entry) /\ CommittedIn(y) \in Seq(Entry)
      /\ Len(CommittedIn(y)) = Len(CommittedIn(x)) /\ Len(CommittedIn(x)) = CountIn(x)
      /\ \A i \in 1..CountIn(x) : CommittedIn(y)[i] = CommittedIn(x)[i]
  BY CommittedLines
<1> HIDE DEF Entry, CommittedIn
<1> QED BY <1>1, SeqEqual

\* What the adapter does to a journal: it appends a line, ...
LEMMA LineAppended ==
  ASSUME NEW x \in JournalType, ShapeIn(x), ReadyIn(x), NEW e \in Entry,
         NEW y, y = [x EXCEPT !.lines = Append(x.lines, e)]
  PROVE  /\ y \in JournalType /\ ShapeIn(y) /\ PendingIn(y, e)
         /\ CommittedIn(y) = CommittedIn(x)
         /\ Len(y.lines) = Len(x.lines) + 1
         /\ \A i \in 1..Len(x.lines) : y.lines[i] = x.lines[i]
<1>1. /\ y.lines = Append(x.lines, e) /\ y.markers = x.markers /\ y.tail = x.tail
      /\ y = [lines |-> y.lines, tail |-> y.tail, markers |-> y.markers]
  BY LinesSet
<1> HIDE DEF Entry, TornTail
<1>2. /\ y.lines \in Seq(Entry) /\ Len(y.lines) = Len(x.lines) + 1
      /\ \A i \in 1..Len(x.lines) : y.lines[i] = x.lines[i]
      /\ y.lines[Len(y.lines)] = e
  BY <1>1, JournalFields
<1>3. y \in JournalType
  BY <1>1, <1>2, JournalFields DEF JournalType
<1>4. ShapeIn(y)
  BY <1>1, <1>2, JournalFields DEF ShapeIn
<1>5. PendingIn(y, e) /\ CountIn(y) = CountIn(x)
  BY <1>1, <1>2, JournalFields DEF PendingIn, ReadyIn, TornIn, CountIn
<1>6. CommittedIn(y) = CommittedIn(x)
  <2>1. \A i \in 1..CountIn(x) : y.lines[i] = x.lines[i]
    BY <1>2, CommittedLines, JournalFields
  <2> QED BY <1>3, <1>4, <1>5, <2>1, SameLines
<1> QED BY <1>2, <1>3, <1>4, <1>5, <1>6

\* ... or half a line, ...
LEMMA LineTorn ==
  ASSUME NEW x \in JournalType, ShapeIn(x), NEW t \in TornTail,
         NEW y, y = [x EXCEPT !.tail = t]
  PROVE  y \in JournalType /\ ShapeIn(y) /\ CommittedIn(y) = CommittedIn(x) /\ y.lines = x.lines
<1>1. /\ y.lines = x.lines /\ y.markers = x.markers /\ y.tail = t
      /\ y = [lines |-> y.lines, tail |-> y.tail, markers |-> y.markers]
  BY TailSet
<1>2. y \in JournalType
  <2> HIDE DEF Entry, TornTail
  <2> QED BY <1>1, JournalFields DEF JournalType
<1> QED BY <1>1, <1>2 DEF ShapeIn, CommittedIn

\* ... cuts the bytes after the committed prefix, ...
LEMMA SuffixCut ==
  ASSUME NEW x \in JournalType, ShapeIn(x), ~TornIn(x),
         NEW y, y = [lines |-> SubSeq(x.lines, 1, Len(x.markers)), tail |-> NoTail,
                     markers |-> x.markers]
  PROVE  /\ y \in JournalType /\ ShapeIn(y) /\ ReadyIn(y)
         /\ CommittedIn(y) = CommittedIn(x)
         /\ Len(y.lines) <= Len(x.lines)
         /\ \A i \in 1..Len(y.lines) : y.lines[i] = x.lines[i]
<1>1. /\ y.lines = SubSeq(x.lines, 1, Len(x.markers)) /\ y.markers = x.markers /\ y.tail = NoTail
      /\ y = [lines |-> y.lines, tail |-> y.tail, markers |-> y.markers]
  OBVIOUS
<1> HIDE DEF Entry, TornTail
<1>2. Len(x.markers) \in Nat /\ Len(x.markers) <= Len(x.lines)
  BY JournalFields DEF ShapeIn
<1>3. \A i \in 1..Len(x.markers) : x.lines[i] \in Entry
  BY <1>2, JournalFields
<1>4. /\ y.lines \in Seq(Entry) /\ Len(y.lines) = Len(x.markers)
      /\ \A i \in 1..Len(x.markers) : y.lines[i] = x.lines[i]
  BY <1>1, <1>2, <1>3, SubSeqProperties
<1>5. y \in JournalType
  BY <1>1, <1>4, JournalFields DEF JournalType
<1>6. ShapeIn(y) /\ ReadyIn(y) /\ CountIn(y) = CountIn(x) /\ CountIn(x) = Len(x.markers)
  BY <1>1, <1>2, <1>4 DEF ShapeIn, ReadyIn, TornIn, CountIn
<1>7. CommittedIn(y) = CommittedIn(x)
  BY <1>4, <1>5, <1>6, SameLines
<1> QED BY <1>2, <1>4, <1>5, <1>6, <1>7, JournalFields

\* ... writes the marker of a pending line, ...
LEMMA LineMarked ==
  ASSUME NEW x \in JournalType, ShapeIn(x), NEW e \in Entry, PendingIn(x, e),
         NEW y, y = [x EXCEPT !.markers = Append(x.markers, e)]
  PROVE  /\ y \in JournalType /\ ShapeIn(y) /\ ReadyIn(y)
         /\ CommittedIn(y) = Append(CommittedIn(x), e) /\ y.lines = x.lines
<1>1. /\ y.lines = x.lines /\ y.markers = Append(x.markers, e) /\ y.tail = x.tail
      /\ y = [lines |-> y.lines, tail |-> y.tail, markers |-> y.markers]
  BY MarkersSet
<1>2. e # TornFile
  BY AdapterAssumption
<1> HIDE DEF Entry, TornTail
<1>3. /\ y.markers \in Seq(Entry \cup {TornFile}) /\ Len(y.markers) = Len(x.markers) + 1
      /\ \A i \in 1..Len(x.markers) : y.markers[i] = x.markers[i]
      /\ y.markers[Len(y.markers)] = e
  BY <1>1, JournalFields
<1>4. y \in JournalType
  BY <1>1, <1>3, JournalFields DEF JournalType
<1>5. ~TornIn(x) /\ ~TornIn(y) /\ x.lines[Len(x.markers) + 1] = e
  BY <1>2, <1>3 DEF PendingIn, TornIn
<1>6. ShapeIn(y)
  <2>1. \A i \in 1..Len(x.markers) : x.markers[i] = x.lines[i]
    BY <1>5, JournalFields DEF ShapeIn, TornIn
  <2> QED BY <1>1, <1>3, <1>5, <2>1, JournalFields DEF ShapeIn, PendingIn
<1>7. ReadyIn(y)
  BY <1>1, <1>3, <1>5 DEF ReadyIn, PendingIn
<1>8. CountIn(x) = Len(x.markers) /\ CountIn(y) = Len(x.markers) + 1
  BY <1>3, <1>5 DEF CountIn
<1>9. CommittedIn(y) = Append(CommittedIn(x), e)
  <2>1. /\ CommittedIn(x) \in Seq(Entry) /\ CommittedIn(y) \in Seq(Entry)
        /\ Len(CommittedIn(x)) = Len(x.markers) /\ Len(CommittedIn(y)) = Len(x.markers) + 1
        /\ \A i \in 1..Len(x.markers) : CommittedIn(x)[i] = x.lines[i]
        /\ \A i \in 1..(Len(x.markers) + 1) : CommittedIn(y)[i] = x.lines[i]
        /\ Len(x.markers) \in Nat
    BY <1>1, <1>4, <1>6, <1>8, CommittedLines, JournalFields
  <2>2. /\ Append(CommittedIn(x), e) \in Seq(Entry)
        /\ Len(Append(CommittedIn(x), e)) = Len(x.markers) + 1
        /\ \A i \in 1..(Len(x.markers) + 1) : Append(CommittedIn(x), e)[i] = x.lines[i]
    BY <1>5, <2>1
  <2> HIDE DEF CommittedIn
  <2> QED BY <2>1, <2>2, SeqEqual
<1> QED BY <1>1, <1>4, <1>6, <1>7, <1>9

\* ... or half of the marker.
LEMMA MarkerTorn ==
  ASSUME NEW x \in JournalType, ShapeIn(x), NEW e \in Entry, PendingIn(x, e),
         NEW y, y = [x EXCEPT !.markers = Append(x.markers, TornFile)]
  PROVE  /\ y \in JournalType /\ ShapeIn(y) /\ CommittedIn(y) = CommittedIn(x)
         /\ y.lines = x.lines
<1>1. /\ y.lines = x.lines /\ y.markers = Append(x.markers, TornFile) /\ y.tail = x.tail
      /\ y = [lines |-> y.lines, tail |-> y.tail, markers |-> y.markers]
  BY MarkersSet
<1> HIDE DEF Entry, TornTail
<1>2. /\ y.markers \in Seq(Entry \cup {TornFile}) /\ Len(y.markers) = Len(x.markers) + 1
      /\ \A i \in 1..Len(x.markers) : y.markers[i] = x.markers[i]
      /\ y.markers[Len(y.markers)] = TornFile /\ y.markers # <<>>
  <2>1. /\ x.markers \in Seq(Entry \cup {TornFile}) /\ Len(x.markers) \in Nat
        /\ TornFile \in Entry \cup {TornFile}
    BY JournalFields
  <2>2. /\ Append(x.markers, TornFile) \in Seq(Entry \cup {TornFile})
        /\ Len(Append(x.markers, TornFile)) = Len(x.markers) + 1
        /\ \A i \in 1..Len(x.markers) : Append(x.markers, TornFile)[i] = x.markers[i]
        /\ Append(x.markers, TornFile)[Len(x.markers) + 1] = TornFile
    BY <2>1
  <2> QED BY <1>1, <2>1, <2>2
<1>3. y \in JournalType
  BY <1>1, <1>2, JournalFields DEF JournalType
<1>4. ~TornIn(x) /\ TornIn(y)
  BY <1>2 DEF PendingIn, TornIn
<1>5. ShapeIn(y)
  <2>1. \A i \in 1..Len(x.markers) : x.markers[i] = x.lines[i]
    BY <1>4, JournalFields DEF ShapeIn, TornIn
  <2> QED BY <1>1, <1>2, <2>1, JournalFields DEF ShapeIn, PendingIn
<1>6. CountIn(y) = CountIn(x)
  BY <1>2, <1>4, JournalFields DEF CountIn
<1>7. CommittedIn(y) = CommittedIn(x)
  BY <1>1, <1>3, <1>5, <1>6, SameLines
<1> QED BY <1>1, <1>3, <1>5, <1>7

-----------------------------------------------------------------------------
(* Journals and sources by name.                                           *)

LEMMA JournalNames ==
  /\ Journals = {"ATTEMPTS", "PAYMENT", "OMS", "INVENTORY", "WMS"}
  /\ Sources = {"PAYMENT", "OMS", "INVENTORY", "WMS"}
  /\ DOMAIN RecoveryOrder = 1..5
  /\ \A m, n \in 1..5 : RecoveryOrder[m] = RecoveryOrder[n] => m = n
<1>1. /\ DOMAIN RecoveryOrder = 1..5
      /\ RecoveryOrder[1] = "ATTEMPTS" /\ RecoveryOrder[2] = "PAYMENT" /\ RecoveryOrder[3] = "OMS"
      /\ RecoveryOrder[4] = "INVENTORY" /\ RecoveryOrder[5] = "WMS"
  BY DEF RecoveryOrder
<1>2. \A m \in 1..5 : m = 1 \/ m = 2 \/ m = 3 \/ m = 4 \/ m = 5
  OBVIOUS
<1>3. Journals = {"ATTEMPTS", "PAYMENT", "OMS", "INVENTORY", "WMS"}
  <2>1. Journals = {RecoveryOrder[i] : i \in 1..5}
    BY <1>1 DEF Journals
  <2>2. 1 \in 1..5 /\ 2 \in 1..5 /\ 3 \in 1..5 /\ 4 \in 1..5 /\ 5 \in 1..5
    OBVIOUS
  <2> QED BY <1>1, <1>2, <2>1, <2>2
<1>4. Sources = {"PAYMENT", "OMS", "INVENTORY", "WMS"}
  BY <1>3 DEF Sources
<1>5. \A m, n \in 1..5 : RecoveryOrder[m] = RecoveryOrder[n] => m = n
  BY <1>1, <1>2
<1> QED BY <1>1, <1>3, <1>4, <1>5

LEMMA RequiredNames ==
  ASSUME NEW a \in Actions
  PROVE  /\ \/ Required(a) = <<"PAYMENT">> /\ RequiredSources(a) = {"PAYMENT"}
            \/ /\ Required(a) = <<"OMS", "INVENTORY", "WMS">>
               /\ RequiredSources(a) = {"OMS", "INVENTORY", "WMS"}
         /\ RequiredSources(a) \subseteq Sources
         /\ IsFiniteSet(RequiredSources(a))
         /\ Cardinality(RequiredSources(a)) = Len(Required(a))
<1>1. \/ Required(a) = <<"PAYMENT">> /\ RequiredSources(a) = {"PAYMENT"}
      \/ /\ Required(a) = <<"OMS", "INVENTORY", "WMS">>
         /\ RequiredSources(a) = {"OMS", "INVENTORY", "WMS"}
  <2>1. Operation[a] \in {"REFUND", "RESHIP"}
    BY AdapterAssumption
  <2>2. CASE Operation[a] = "REFUND"
    <3>1. Required(a) = <<"PAYMENT">>
      BY <2>2 DEF Required, SourceByOperation
    <3>2. DOMAIN Required(a) = {1} /\ Required(a)[1] = "PAYMENT"
      BY <3>1
    <3>3. RequiredSources(a) = {"PAYMENT"}
      BY <3>2 DEF RequiredSources
    <3> QED BY <3>1, <3>3
  <2>3. CASE Operation[a] = "RESHIP"
    <3>1. Required(a) = <<"OMS", "INVENTORY", "WMS">>
      BY <2>3 DEF Required, SourceByOperation
    <3>2. /\ DOMAIN Required(a) = {1, 2, 3}
          /\ Required(a)[1] = "OMS" /\ Required(a)[2] = "INVENTORY" /\ Required(a)[3] = "WMS"
      BY <3>1
    <3>3. RequiredSources(a) = {"OMS", "INVENTORY", "WMS"}
      BY <3>2 DEF RequiredSources
    <3> QED BY <3>1, <3>3
  <2> QED BY <2>1, <2>2, <2>3
<1>2. RequiredSources(a) \subseteq Sources
  BY <1>1, JournalNames
<1>3. IsFiniteSet({"PAYMENT"}) /\ Cardinality({"PAYMENT"}) = 1
  BY FS_Singleton
<1>4. /\ IsFiniteSet({"OMS", "INVENTORY", "WMS"})
      /\ Cardinality({"OMS", "INVENTORY", "WMS"}) = 3
  <2>1. IsFiniteSet({"OMS"}) /\ Cardinality({"OMS"}) = 1
    BY FS_Singleton
  <2>2. IsFiniteSet({"OMS"} \cup {"INVENTORY"}) /\ Cardinality({"OMS"} \cup {"INVENTORY"}) = 2
    BY <2>1, FS_AddElement
  <2>3. /\ IsFiniteSet(({"OMS"} \cup {"INVENTORY"}) \cup {"WMS"})
        /\ Cardinality(({"OMS"} \cup {"INVENTORY"}) \cup {"WMS"}) = 3
    BY <2>2, FS_AddElement
  <2>4. ({"OMS"} \cup {"INVENTORY"}) \cup {"WMS"} = {"OMS", "INVENTORY", "WMS"}
    OBVIOUS
  <2> QED BY <2>3, <2>4
<1>5. Len(<<"PAYMENT">>) = 1 /\ Len(<<"OMS", "INVENTORY", "WMS">>) = 3
  OBVIOUS
<1> QED BY <1>1, <1>2, <1>3, <1>4, <1>5

\* The next source of an action of which the effects in P are there.
NextIn(a, P) ==
  Required(a)[CHOOSE i \in DOMAIN Required(a) :
                /\ Required(a)[i] \notin P
                /\ \A k \in 1..i-1 : Required(a)[k] \in P]

LEMMA NextIsMissing ==
  ASSUME NEW a \in Actions, NEW P \in SUBSET RequiredSources(a), P # RequiredSources(a)
  PROVE  NextIn(a, P) \in RequiredSources(a) \ P
<1>1. \E i \in DOMAIN Required(a) : /\ Required(a)[i] \notin P
                                    /\ \A k \in 1..i-1 : Required(a)[k] \in P
  <2>1. CASE Required(a) = <<"PAYMENT">> /\ RequiredSources(a) = {"PAYMENT"}
    <3>1. 1 \in DOMAIN Required(a) /\ Required(a)[1] = "PAYMENT"
      BY <2>1
    <3>2. "PAYMENT" \notin P
      BY <2>1
    <3> QED BY <3>1, <3>2
  <2>2. CASE /\ Required(a) = <<"OMS", "INVENTORY", "WMS">>
             /\ RequiredSources(a) = {"OMS", "INVENTORY", "WMS"}
    <3>1. /\ 1 \in DOMAIN Required(a) /\ 2 \in DOMAIN Required(a) /\ 3 \in DOMAIN Required(a)
          /\ Required(a)[1] = "OMS" /\ Required(a)[2] = "INVENTORY" /\ Required(a)[3] = "WMS"
      BY <2>2
    <3>2. CASE "OMS" \notin P
      BY <3>1, <3>2
    <3>3. CASE "OMS" \in P /\ "INVENTORY" \notin P
      <4>1. \A k \in 1..2-1 : k = 1
        OBVIOUS
      <4> QED BY <3>1, <3>3, <4>1
    <3>4. CASE "OMS" \in P /\ "INVENTORY" \in P
      <4>1. "WMS" \notin P
        BY <2>2, <3>4
      <4>2. \A k \in 1..3-1 : k = 1 \/ k = 2
        OBVIOUS
      <4> QED BY <3>1, <3>4, <4>1, <4>2
    <3> QED BY <3>2, <3>3, <3>4
  <2> QED BY <2>1, <2>2, RequiredNames
<1> DEFINE n == CHOOSE i \in DOMAIN Required(a) :
                  /\ Required(a)[i] \notin P
                  /\ \A k \in 1..i-1 : Required(a)[k] \in P
<1>2. n \in DOMAIN Required(a) /\ Required(a)[n] \notin P
  BY <1>1
<1>3. NextIn(a, P) = Required(a)[n]
  BY DEF NextIn
<1> HIDE DEF n
<1>4. Required(a)[n] \in RequiredSources(a)
  BY <1>2 DEF RequiredSources
<1> QED BY <1>2, <1>3, <1>4

\* One more effect makes a remedy complete exactly when it is the last one.
LEMMA LastCompletes ==
  ASSUME NEW a \in Actions, NEW P \in SUBSET RequiredSources(a),
         NEW s \in RequiredSources(a) \ P
  PROVE  Cardinality(P) + 1 = Len(Required(a)) <=> P \cup {s} = RequiredSources(a)
<1>1. IsFiniteSet(RequiredSources(a)) /\ Cardinality(RequiredSources(a)) = Len(Required(a))
  BY RequiredNames
<1>2. IsFiniteSet(P)
  BY <1>1, FS_Subset
<1>3. Cardinality(P \cup {s}) = Cardinality(P) + 1
  BY <1>2, FS_AddElement
<1>4. P \cup {s} \in SUBSET RequiredSources(a)
  OBVIOUS
<1>5. Cardinality(RequiredSources(a)) = Cardinality(P \cup {s})
        => RequiredSources(a) = P \cup {s}
  BY <1>1, <1>4, FS_Subset
<1> QED BY <1>1, <1>3, <1>5

-----------------------------------------------------------------------------
(* The inductive invariant.                                                *)

Torn(j)  == TornIn(journal[j])
Ready(j) == ReadyIn(journal[j])

Shapes == \A j \in Journals : ShapeIn(journal[j])

\* The action has a committed attempt that announces its effects.
Started(a) ==
  \E k \in DOMAIN Committed("ATTEMPTS") :
    Committed("ATTEMPTS")[k] \in {Line(a, "EFFECT_STARTED", r) : r \in BOOLEAN}

ReservedOnce == \A a, b \in reserved : BusinessKey[a] = BusinessKey[b] => a = b

\* The sources have lines of reserved actions only.
OnlyReserved ==
  \A s \in Sources : \A i \in DOMAIN journal[s].lines : journal[s].lines[i].act \in reserved

\* Between the copy of a suffix and its truncation the copy is there.
Repairing ==
  At("truncate") =>
    \E j \in Journals : /\ FirstUnclean(j) /\ Readable(j)
                        /\ [bytes |-> Suffix(j), whole |-> TRUE] \in quarantine

Conclusive == {"SIMULATED_EFFECT_COMMITTED", "RECONCILED_COMMITTED_EFFECT"}

\* Between appends the journals are clean, and within one only its line waits.
JournalsOK ==
  /\ job.step \in {"log", "effect", "receipt"} => \A j \in Journals : Ready(j)
  /\ job.step \in {"log_mark", "effect_mark"} =>
       /\ \A j \in Journals \ {Target} : Ready(j)
       /\ PendingIn(journal[Target], NextLine)

\* What the execution has decided still holds of the effects.
DecisionOK ==
  /\ job.step \in {"log", "log_mark"} =>
       /\ job.status = "EFFECT_STARTED" =>
            /\ job.act \in reserved /\ Present(job.act) = {}
            /\ Attempted(job.act) => job.reconciled = TRUE
       /\ job.status \in Conclusive => Complete(job.act)
  /\ job.step = "receipt" => Complete(job.act) /\ job.status \in Conclusive
  /\ job.step \in {"effect", "effect_mark"} =>
       /\ job.act \in reserved /\ Started(job.act)
       /\ Present(job.act) # RequiredSources(job.act)

JobOK == job # NoJob => JournalsOK /\ DecisionOK

AdapterInv ==
  /\ TypeOK
  /\ Shapes
  /\ ReservedOnce
  /\ OnlyReserved
  /\ OneRemedyPerQuantity
  /\ IntentBeforeEffect
  /\ NoBlindRetry
  /\ ReceiptMeansEffects
  /\ JobOK
  /\ Repairing

-----------------------------------------------------------------------------
(* What can be read off the journals.                                      *)

LEMMA Typed ==
  ASSUME TypeOK
  PROVE  /\ journal \in [Journals -> JournalType]
         /\ \A j \in Journals : journal[j] \in JournalType
BY DEF TypeOK, JournalType

LEMMA Evidence ==
  ASSUME TypeOK, Shapes, NEW j \in Journals
  PROVE  /\ Committed(j) = CommittedIn(journal[j])
         /\ Committed(j) \in Seq(Entry)
         /\ DOMAIN Committed(j) = 1..Len(Committed(j)) /\ Len(Committed(j)) \in Nat
         /\ Len(Committed(j)) <= Len(journal[j].lines)
         /\ \A i \in 1..Len(Committed(j)) :
              i \in DOMAIN journal[j].lines /\ Committed(j)[i] = journal[j].lines[i]
<1>1. Committed(j) = CommittedIn(journal[j])
  BY DEF Committed, CommittedIn
<1>2. journal[j] \in JournalType /\ ShapeIn(journal[j])
  BY Typed DEF Shapes
<1>3. DOMAIN journal[j].lines = 1..Len(journal[j].lines) /\ Len(journal[j].lines) \in Nat
  BY <1>2, JournalFields
<1> QED BY <1>1, <1>2, <1>3, CommittedLines

\* A journal without suffix is its evidence.
LEMMA ReadyIsCommitted ==
  ASSUME TypeOK, Shapes, NEW j \in Journals, Ready(j)
  PROVE  /\ Len(Committed(j)) = Len(journal[j].lines)
         /\ DOMAIN journal[j].lines = 1..Len(journal[j].lines)
<1>1. journal[j] \in JournalType /\ ShapeIn(journal[j])
  BY Typed DEF Shapes
<1>2. CountIn(journal[j]) = Len(journal[j].lines)
  BY DEF Ready, ReadyIn, CountIn
<1> QED BY <1>1, <1>2, Evidence, CommittedLines, JournalFields

LEMMA ReadableIsWhole ==
  ASSUME TypeOK, NEW j \in Journals, Readable(j)
  PROVE  ~Torn(j) /\ (~HasSuffix(j) => Ready(j))
<1>1. journal[j] \in JournalType
  BY Typed
<1>2. /\ Len(journal[j].markers) \in Nat /\ Len(journal[j].markers) <= Len(journal[j].lines)
      /\ \A i \in 1..Len(journal[j].markers) : journal[j].markers[i] = journal[j].lines[i]
      /\ \A i \in 1..Len(journal[j].lines) : journal[j].lines[i] # TornFile
      /\ journal[j].markers # <<>> => Len(journal[j].markers) > 0
      /\ Len(journal[j].lines) \in Nat
  BY <1>1, JournalFields DEF Readable
<1>3. ~Torn(j)
  BY <1>2 DEF Torn, TornIn
<1> QED BY <1>2, <1>3 DEF HasSuffix, Ready, ReadyIn, Torn

LEMMA CleanIsReady ==
  ASSUME TypeOK, Clean
  PROVE  \A j \in Journals : Ready(j)
BY ReadableIsWhole DEF Clean

LEMMA FirstIsOne ==
  ASSUME NEW j \in Journals, NEW k \in Journals, FirstUnclean(j), FirstUnclean(k)
  PROVE  j = k
<1>1. PICK n \in 1..5 :
        /\ RecoveryOrder[n] = j
        /\ ~Readable(j) \/ HasSuffix(j)
        /\ \A m \in 1..n-1 : Readable(RecoveryOrder[m]) /\ ~HasSuffix(RecoveryOrder[m])
  BY JournalNames DEF FirstUnclean
<1>2. PICK o \in 1..5 :
        /\ RecoveryOrder[o] = k
        /\ ~Readable(k) \/ HasSuffix(k)
        /\ \A m \in 1..o-1 : Readable(RecoveryOrder[m]) /\ ~HasSuffix(RecoveryOrder[m])
  BY JournalNames DEF FirstUnclean
<1>3. ~(n < o) /\ ~(o < n)
  <2>1. n < o => n \in 1..o-1
    OBVIOUS
  <2>2. o < n => o \in 1..n-1
    OBVIOUS
  <2> QED BY <1>1, <1>2, <2>1, <2>2
<1> QED BY <1>1, <1>2, <1>3

LEMMA SuffixTyped ==
  ASSUME TypeOK, NEW j \in Journals, HasSuffix(j)
  PROVE  Suffix(j) \in Bytes
<1>1. /\ journal[j] \in JournalType
      /\ Len(journal[j].lines) \in Nat /\ Len(journal[j].markers) \in Nat
      /\ \A i \in 1..Len(journal[j].lines) : journal[j].lines[i] \in Entry
      /\ journal[j].tail \in TornTail \cup {NoTail}
  BY Typed, JournalFields
<1> HIDE DEF Entry
<1>2. CASE journal[j].tail = NoTail
  <2>1. Len(journal[j].lines) \in Nat \ {0}
    BY <1>1, <1>2 DEF HasSuffix
  <2>2. journal[j].lines[Len(journal[j].lines)] \in Entry
    BY <1>1, <2>1
  <2> QED BY <1>2, <2>1, <2>2 DEF Suffix, Bytes
<1>3. CASE journal[j].tail # NoTail
  <2>1. journal[j].tail \in [form : {"short"}] \cup [form : {"long"}, entry : Entry]
    BY <1>1, <1>3 DEF TornTail
  <2>2. CASE journal[j].tail.form = "short"
    BY <1>3, <2>2 DEF Suffix, Bytes
  <2>3. CASE journal[j].tail.form # "short"
    <3>1. journal[j].tail.entry \in Entry
      BY <2>1, <2>3
    <3>2. Len(journal[j].lines) + 1 \in Nat \ {0}
      BY <1>1
    <3> QED BY <1>3, <2>3, <3>1, <3>2 DEF Suffix, Bytes
  <2> QED BY <2>2, <2>3
<1> QED BY <1>2, <1>3

-----------------------------------------------------------------------------
(* What a step does to the evidence.                                       *)

\* The step changes one journal, to y.
LEMMA OneJournal ==
  ASSUME TypeOK, Shapes, NEW t \in Journals, NEW y \in JournalType, ShapeIn(y),
         journal' = [journal EXCEPT ![t] = y]
  PROVE  /\ journal' \in [Journals -> JournalType] /\ Shapes' /\ journal'[t] = y
         /\ \A j \in Journals \ {t} : journal'[j] = journal[j] /\ Committed(j)' = Committed(j)
         /\ Committed(t)' = CommittedIn(y)
<1>1. /\ journal' \in [Journals -> JournalType] /\ journal'[t] = y
      /\ \A j \in Journals \ {t} : journal'[j] = journal[j]
  <2> HIDE DEF JournalType
  <2> QED BY Typed
<1>2. Shapes'
  BY <1>1 DEF Shapes
<1>3. \A j \in Journals \ {t} : Committed(j)' = Committed(j)
  BY <1>1 DEF Committed
<1>4. Committed(t)' = CommittedIn(y)
  BY <1>1 DEF Committed, CommittedIn
<1> QED BY <1>1, <1>2, <1>3, <1>4

LEMMA NextSourceIs == \A a \in Actions : NextSource(a) = NextIn(a, Present(a))
BY DEF NextSource, NextIn

\* Without new evidence all that is read off it stays.
LEMMA SameEvidence ==
  ASSUME \A j \in Journals : Committed(j)' = Committed(j), NEW a \in Actions
  PROVE  /\ Present(a)' = Present(a) /\ (Attempted(a)' <=> Attempted(a))
         /\ (Started(a)' <=> Started(a)) /\ (Complete(a)' <=> Complete(a))
         /\ NextSource(a)' = NextSource(a)
<1>1. RequiredSources(a) \subseteq Journals /\ "ATTEMPTS" \in Journals
  BY RequiredNames, JournalNames
<1>2. Present(a)' = Present(a)
  BY <1>1 DEF Present, EffectIn
<1>3. (Attempted(a)' <=> Attempted(a)) /\ (Started(a)' <=> Started(a))
  BY <1>1 DEF Attempted, Started
<1>4. Complete(a)' <=> Complete(a)
  BY <1>2 DEF Complete
<1>5. NextSource(a)' = NextSource(a)
  <2>1. NextSource(a) = NextIn(a, Present(a)) /\ NextSource(a)' = NextIn(a, Present(a)')
    BY DEF NextSource, NextIn
  <2> QED BY <1>2, <2>1
<1> QED BY <1>2, <1>3, <1>4, <1>5

\* One more attempt takes nothing back.
LEMMA OneMoreAttempt ==
  ASSUME TypeOK, Shapes, NEW e \in Entry,
         Committed("ATTEMPTS")' = Append(Committed("ATTEMPTS"), e),
         \A s \in Sources : Committed(s)' = Committed(s), NEW a \in Actions
  PROVE  /\ Present(a)' = Present(a) /\ (Complete(a)' <=> Complete(a))
         /\ NextSource(a)' = NextSource(a)
         /\ Started(a) => Started(a)'
         /\ e \in {Line(a, "EFFECT_STARTED", r) : r \in BOOLEAN} => Started(a)'
<1>1. RequiredSources(a) \subseteq Sources /\ "ATTEMPTS" \in Journals
  BY RequiredNames, JournalNames
<1>2. Present(a)' = Present(a)
  BY <1>1 DEF Present, EffectIn
<1>3. Complete(a)' <=> Complete(a)
  BY <1>2 DEF Complete
<1>4. NextSource(a)' = NextSource(a)
  <2>1. NextSource(a) = NextIn(a, Present(a)) /\ NextSource(a)' = NextIn(a, Present(a)')
    BY DEF NextSource, NextIn
  <2> QED BY <1>2, <2>1
<1>5. PICK c : c = Committed("ATTEMPTS")
  OBVIOUS
<1>6. c \in Seq(Entry) /\ DOMAIN c = 1..Len(c) /\ Len(c) \in Nat
  BY <1>1, <1>5, Evidence
<1>7. /\ DOMAIN Append(c, e) = 1..(Len(c) + 1) /\ Append(c, e)[Len(c) + 1] = e
      /\ \A i \in 1..Len(c) : Append(c, e)[i] = c[i]
  <2> HIDE DEF Entry
  <2> QED BY <1>6
<1>8. Committed("ATTEMPTS")' = Append(c, e)
  BY <1>5
<1>9. Started(a) => Started(a)'
  <2> HIDE DEF Line
  <2> QED BY <1>5, <1>6, <1>7, <1>8 DEF Started
<1>10. e \in {Line(a, "EFFECT_STARTED", r) : r \in BOOLEAN} => Started(a)'
  <2>1. Len(c) + 1 \in 1..(Len(c) + 1)
    BY <1>6
  <2> HIDE DEF Line
  <2> QED BY <1>7, <1>8, <2>1 DEF Started
<1> QED BY <1>2, <1>3, <1>4, <1>9, <1>10

\* One more effect in the source t is one of its action, and only of it.
LEMMA OneMoreEffect ==
  ASSUME TypeOK, Shapes, NEW t \in Sources, NEW e \in Entry,
         Committed(t)' = Append(Committed(t), e),
         \A j \in Journals \ {t} : Committed(j)' = Committed(j), NEW a \in Actions
  PROVE  /\ Present(a) \subseteq Present(a)' /\ (Complete(a) => Complete(a)')
         /\ a # e.act => Present(a)' = Present(a)
         /\ a = e.act /\ t \in RequiredSources(a) => Present(a)' = Present(a) \cup {t}
         /\ (Started(a)' <=> Started(a)) /\ (Attempted(a)' <=> Attempted(a))
<1>1. /\ RequiredSources(a) \subseteq Journals /\ "ATTEMPTS" \in Journals \ {t}
      /\ t \in Journals
  BY RequiredNames, JournalNames
<1>2. PICK c : c = Committed(t)
  OBVIOUS
<1>3. c \in Seq(Entry) /\ DOMAIN c = 1..Len(c) /\ Len(c) \in Nat
  BY <1>1, <1>2, Evidence
<1>4. /\ DOMAIN Append(c, e) = 1..(Len(c) + 1) /\ Append(c, e)[Len(c) + 1] = e
      /\ \A i \in 1..Len(c) : Append(c, e)[i] = c[i]
  <2> HIDE DEF Entry
  <2> QED BY <1>3
<1>5. EffectIn(a, t)' <=> EffectIn(a, t) \/ a = e.act
  <2>1. Len(c) + 1 \in 1..(Len(c) + 1) /\ 1..(Len(c) + 1) = 1..Len(c) \cup {Len(c) + 1}
    BY <1>3
  <2>2. Committed(t)' = Append(c, e)
    BY <1>2
  <2> QED BY <1>2, <1>3, <1>4, <2>1, <2>2 DEF EffectIn
<1>6. \A s \in RequiredSources(a) \ {t} : EffectIn(a, s)' <=> EffectIn(a, s)
  BY <1>1 DEF EffectIn
<1>7. /\ Present(a) \subseteq Present(a)'
      /\ a # e.act => Present(a)' = Present(a)
      /\ a = e.act /\ t \in RequiredSources(a) => Present(a)' = Present(a) \cup {t}
  BY <1>5, <1>6 DEF Present
<1>8. Complete(a) => Complete(a)'
  BY <1>7 DEF Complete, Present
<1>9. (Started(a)' <=> Started(a)) /\ (Attempted(a)' <=> Attempted(a))
  BY <1>1 DEF Started, Attempted
<1> QED BY <1>7, <1>8, <1>9

-----------------------------------------------------------------------------
(* What each action owes the invariant.                                    *)

\* Reservations and announcements stay, lines are at most cut.
LEMMA InvariantKept ==
  ASSUME AdapterInv, TypeOK', Shapes', reserved \subseteq reserved', ReservedOnce',
         \A s \in Sources : \A i \in DOMAIN journal'[s].lines :
           i \in DOMAIN journal[s].lines /\ journal'[s].lines[i] = journal[s].lines[i],
         \A a \in Actions : Started(a) => Started(a)',
         NoBlindRetry', ReceiptMeansEffects', JobOK', Repairing'
  PROVE  AdapterInv'
<1>1. OnlyReserved'
  BY DEF AdapterInv, OnlyReserved
<1>2. OneRemedyPerQuantity'
  BY DEF AdapterInv, OneRemedyPerQuantity
<1>3. IntentBeforeEffect'
  <2> SUFFICES ASSUME NEW s \in Sources, NEW i \in DOMAIN journal'[s].lines,
                      NEW a, a = journal'[s].lines[i].act
               PROVE  Started(a)'
    BY DEF IntentBeforeEffect, Started
  <2>1. s \in Journals /\ TypeOK
    BY JournalNames DEF AdapterInv
  <2>2. i \in DOMAIN journal[s].lines /\ a = journal[s].lines[i].act
    OBVIOUS
  <2>3. a \in Actions
    <3>1. journal[s] \in JournalType
      BY <2>1, Typed
    <3>2. journal[s].lines[i] \in Entry
      BY <2>2, <3>1, JournalFields
    <3> QED BY <2>2, <3>2 DEF Entry
  <2>4. Started(a)
    BY <2>2 DEF AdapterInv, IntentBeforeEffect, Started
  <2> QED BY <2>3, <2>4
<1> QED BY <1>1, <1>2, <1>3 DEF AdapterInv

\* A step without new evidence.
LEMMA QuietKeeps ==
  ASSUME AdapterInv, TypeOK', Shapes', reserved \subseteq reserved', ReservedOnce',
         \A s \in Sources : \A i \in DOMAIN journal'[s].lines :
           i \in DOMAIN journal[s].lines /\ journal'[s].lines[i] = journal[s].lines[i],
         \A j \in Journals : Committed(j)' = Committed(j),
         \A a \in Actions : receipts'[a] = WholeFile \/ a \in answered' => Complete(a),
         JobOK', Repairing'
  PROVE  AdapterInv'
<1>1. \A a \in Actions : Started(a) => Started(a)'
  BY SameEvidence
<1>2. NoBlindRetry'
  <2>1. Committed("ATTEMPTS")' = Committed("ATTEMPTS")
    BY JournalNames
  <2> QED BY <2>1 DEF AdapterInv, NoBlindRetry
<1>3. ReceiptMeansEffects'
  BY SameEvidence DEF ReceiptMeansEffects
<1> QED BY <1>1, <1>2, <1>3, InvariantKept

\* A step that leaves the journals and the reservations alone.
LEMMA SameJournals ==
  ASSUME AdapterInv, UNCHANGED <<reserved, journal>>
  PROVE  /\ Shapes' /\ reserved \subseteq reserved' /\ ReservedOnce'
         /\ \A s \in Sources : \A i \in DOMAIN journal'[s].lines :
              i \in DOMAIN journal[s].lines /\ journal'[s].lines[i] = journal[s].lines[i]
         /\ \A j \in Journals : Committed(j)' = Committed(j)
         /\ \A j \in Journals : /\ Ready(j)' <=> Ready(j)
                                /\ HasSuffix(j)' <=> HasSuffix(j)
                                /\ Readable(j)' <=> Readable(j)
                                /\ FirstUnclean(j)' <=> FirstUnclean(j)
                                /\ Suffix(j)' = Suffix(j)
<1>1. Shapes' /\ reserved \subseteq reserved' /\ ReservedOnce'
  BY DEF AdapterInv, Shapes, ReservedOnce
<1>2. \A s \in Sources : \A i \in DOMAIN journal'[s].lines :
        i \in DOMAIN journal[s].lines /\ journal'[s].lines[i] = journal[s].lines[i]
  OBVIOUS
<1>3. \A j \in Journals : Committed(j)' = Committed(j)
  BY DEF Committed
<1>4. \A j \in Journals : /\ Ready(j)' <=> Ready(j)
                          /\ HasSuffix(j)' <=> HasSuffix(j)
                          /\ Readable(j)' <=> Readable(j)
                          /\ FirstUnclean(j)' <=> FirstUnclean(j)
                          /\ Suffix(j)' = Suffix(j)
  BY DEF Ready, HasSuffix, Readable, FirstUnclean, Suffix
<1> QED BY <1>1, <1>2, <1>3, <1>4

\* Nothing is asked of an execution that is gone, nor of one that repairs.
LEMMA NoJobOK == job' = NoJob => JobOK' /\ Repairing'
BY DEF JobOK, Repairing, At

LEMMA RecoverOK ==
  ASSUME job'.step = "recover" PROVE JobOK' /\ Repairing'
BY DEF JobOK, JournalsOK, DecisionOK, Repairing, At

\* The job, field by field.
LEMMA JobFields ==
  ASSUME TypeOK, job # NoJob
  PROVE  /\ job \in Job /\ job.act \in Actions /\ job.fault \in Faults
         /\ job.step \in Steps /\ job.status \in Statuses /\ job.reconciled \in BOOLEAN
         /\ DOMAIN job = {"act", "fault", "step", "status", "reconciled"}
BY DEF TypeOK, Job

LEMMA JobBuilt ==
  ASSUME TypeOK, job # NoJob, NEW st \in Steps, NEW su \in Statuses, NEW r \in BOOLEAN,
         NEW y, y = [act |-> job.act, fault |-> job.fault, step |-> st,
                     status |-> su, reconciled |-> r]
  PROVE  /\ y \in Job /\ y # NoJob /\ y.act = job.act /\ y.fault = job.fault
         /\ y.step = st /\ y.status = su /\ y.reconciled = r
<1>1. y \in Job
  BY JobFields DEF Job
<1> QED BY <1>1, AdapterAssumption

LEMMA GoneTo ==
  ASSUME TypeOK, job # NoJob, NEW st \in Steps, Goto(st)
  PROVE  /\ job' \in Job /\ job' # NoJob /\ job'.act = job.act /\ job'.fault = job.fault
         /\ job'.step = st /\ job'.status = job.status /\ job'.reconciled = job.reconciled
<1>1. job' = [act |-> job.act, fault |-> job.fault, step |-> st,
              status |-> job.status, reconciled |-> job.reconciled]
  BY JobFields DEF Goto
<1> QED BY <1>1, JobFields, JobBuilt

LEMMA Logged ==
  ASSUME TypeOK, job # NoJob, NEW su \in Statuses, NEW r \in BOOLEAN, Log(su, r)
  PROVE  /\ job' \in Job /\ job' # NoJob /\ job'.act = job.act /\ job'.fault = job.fault
         /\ job'.step = "log" /\ job'.status = su /\ job'.reconciled = r
<1>1. /\ DOMAIN job' = {"act", "fault", "step", "status", "reconciled"}
      /\ job'.act = job.act /\ job'.fault = job.fault /\ job'.step = "log"
      /\ job'.status = su /\ job'.reconciled = r
      /\ job' = [k \in {"act", "fault", "step", "status", "reconciled"} |-> job'[k]]
  BY JobFields DEF Log
<1>2. job' = [act |-> job.act, fault |-> job.fault, step |-> "log",
              status |-> su, reconciled |-> r]
  BY <1>1
<1>3. "log" \in Steps
  BY DEF Steps
<1> QED BY <1>2, <1>3, JobBuilt

LEMMA ToReceipt ==
  ASSUME TypeOK, job # NoJob, NEW su \in Statuses, NEW r \in BOOLEAN,
         \/ job' = [job EXCEPT !.step = "receipt", !.reconciled = r, !.status = su]
         \/ r = job.reconciled /\ job' = [job EXCEPT !.step = "receipt", !.status = su]
  PROVE  /\ job' \in Job /\ job' # NoJob /\ job'.act = job.act /\ job'.fault = job.fault
         /\ job'.step = "receipt" /\ job'.status = su /\ job'.reconciled = r
<1>1. /\ DOMAIN job' = {"act", "fault", "step", "status", "reconciled"}
      /\ job'.act = job.act /\ job'.fault = job.fault /\ job'.step = "receipt"
      /\ job'.status = su /\ job'.reconciled = r
      /\ job' = [k \in {"act", "fault", "step", "status", "reconciled"} |-> job'[k]]
  BY JobFields
<1>2. job' = [act |-> job.act, fault |-> job.fault, step |-> "receipt",
              status |-> su, reconciled |-> r]
  BY <1>1
<1>3. "receipt" \in Steps
  BY DEF Steps
<1> QED BY <1>2, <1>3, JobBuilt

-----------------------------------------------------------------------------
(* Steps that touch no journal.                                            *)

LEMMA InitHolds == Init => AdapterInv
<1> SUFFICES ASSUME Init PROVE AdapterInv
  OBVIOUS
<1>1. \A j \in Journals : /\ journal[j] = [lines |-> <<>>, tail |-> NoTail, markers |-> <<>>]
                          /\ journal[j].lines = <<>> /\ journal[j].markers = <<>>
  BY DEF Init
<1>2. TypeOK
  <2> HIDE DEF Entry, TornTail, Job, Bytes
  <2>1. journal \in [Journals -> [lines   : Seq(Entry),
                                  tail    : TornTail \cup {NoTail},
                                  markers : Seq(Entry \cup {TornFile})]]
    <3>1. [lines |-> <<>>, tail |-> NoTail, markers |-> <<>>]
            \in [lines   : Seq(Entry), tail : TornTail \cup {NoTail},
                 markers : Seq(Entry \cup {TornFile})]
      OBVIOUS
    <3> QED BY <3>1 DEF Init
  <2>2. crashes \in 0..MaxCrashes
    BY AdapterAssumption DEF Init
  <2> QED BY <2>1, <2>2 DEF Init, TypeOK
<1>3. Shapes
  BY <1>1 DEF Shapes, ShapeIn
<1>4. \A s \in Sources : DOMAIN journal[s].lines = {} /\ s \in Journals
  BY <1>1, JournalNames
<1>5. DOMAIN Committed("ATTEMPTS") = {}
  <2>1. "ATTEMPTS" \in Journals
    BY JournalNames
  <2>2. Len(Committed("ATTEMPTS")) <= 0 /\ Len(Committed("ATTEMPTS")) \in Nat
    BY <1>1, <1>2, <1>3, <2>1, Evidence
  <2> QED BY <1>2, <1>3, <2>1, <2>2, Evidence
<1>6. ReservedOnce /\ OnlyReserved /\ OneRemedyPerQuantity /\ IntentBeforeEffect /\ NoBlindRetry
  BY <1>4, <1>5 DEF Init, ReservedOnce, OnlyReserved, OneRemedyPerQuantity,
     IntentBeforeEffect, NoBlindRetry
<1>7. ReceiptMeansEffects
  BY AdapterAssumption DEF Init, ReceiptMeansEffects
<1>8. JobOK /\ Repairing
  BY DEF Init, JobOK, Repairing, At
<1> QED BY <1>2, <1>3, <1>6, <1>7, <1>8 DEF AdapterInv

LEMMA ReserveKeeps ==
  ASSUME AdapterInv, NEW a \in Actions, Reserve(a)
  PROVE  AdapterInv'
<1>1. TypeOK'
  BY DEF AdapterInv, Reserve, TypeOK
<1>2. ReservedOnce'
  BY DEF AdapterInv, Reserve, Reservable, ReservedOnce
<1>3. /\ Shapes' /\ reserved \subseteq reserved'
      /\ \A j \in Journals : Committed(j)' = Committed(j)
  BY DEF AdapterInv, Reserve, Shapes, Committed
<1>4. \A b \in Actions : receipts'[b] = WholeFile \/ b \in answered' => Complete(b)
  BY DEF AdapterInv, Reserve, ReceiptMeansEffects
<1>5. JobOK' /\ Repairing'
  BY NoJobOK DEF Reserve
<1>6. journal' = journal
  BY DEF Reserve
<1> QED BY <1>1, <1>2, <1>3, <1>4, <1>5, <1>6, QuietKeeps

\* A step that leaves journals, reservations and answers alone owes only what
\* the job asks for.
LEMMA OnlyJob ==
  ASSUME AdapterInv, UNCHANGED <<reserved, journal, receipts, answered>>,
         TypeOK', JobOK', Repairing'
  PROVE  AdapterInv'
<1>1. \A a \in Actions : receipts'[a] = WholeFile \/ a \in answered' => Complete(a)
  BY DEF AdapterInv, ReceiptMeansEffects
<1> QED BY <1>1, SameJournals, QuietKeeps

LEMMA ExecuteKeeps ==
  ASSUME AdapterInv, NEW a \in Actions, NEW f \in Faults, Execute(a, f)
  PROVE  AdapterInv'
<1>1. /\ job' = [act |-> a, fault |-> f, step |-> "recover",
                 status |-> "EFFECT_STARTED", reconciled |-> FALSE]
      /\ job'.step = "recover"
  BY DEF Execute
<1>2. job' \in Job
  BY <1>1 DEF Job, Steps, Statuses
<1>3. TypeOK'
  BY <1>2 DEF AdapterInv, Execute, TypeOK
<1>4. JobOK' /\ Repairing'
  BY <1>1, RecoverOK
<1> QED BY <1>3, <1>4, OnlyJob DEF Execute

LEMMA QuarantineSuffixKeeps ==
  ASSUME AdapterInv, QuarantineSuffix
  PROVE  AdapterInv'
<1>1. PICK j \in Journals :
        /\ FirstUnclean(j) /\ Readable(j) /\ ~NameTaken(j)
        /\ quarantine' = quarantine \cup {[bytes |-> Suffix(j), whole |-> TRUE]}
  BY DEF QuarantineSuffix
<1>2. TypeOK /\ job # NoJob /\ Goto("truncate") /\ "truncate" \in Steps
  BY DEF AdapterInv, QuarantineSuffix, At, Steps
<1>3. job' \in Job /\ job' # NoJob /\ job'.step = "truncate"
  BY <1>2, GoneTo
<1>4. HasSuffix(j)
  BY <1>1 DEF FirstUnclean
<1>5. Suffix(j) \in Bytes
  BY <1>2, <1>4, SuffixTyped
<1>6. TypeOK'
  <2> HIDE DEF Bytes, Job
  <2>1. quarantine' \in SUBSET [bytes : Bytes, whole : BOOLEAN]
    <3>1. [bytes |-> Suffix(j), whole |-> TRUE] \in [bytes : Bytes, whole : BOOLEAN]
      BY <1>5
    <3>2. quarantine \in SUBSET [bytes : Bytes, whole : BOOLEAN]
      BY <1>2 DEF TypeOK
    <3> QED BY <1>1, <3>1, <3>2
  <2> QED BY <1>2, <1>3, <2>1 DEF QuarantineSuffix, TypeOK
<1>7. JobOK'
  BY <1>3 DEF JobOK, JournalsOK, DecisionOK
<1>8. Repairing'
  <2>1. FirstUnclean(j)' /\ Readable(j)' /\ Suffix(j)' = Suffix(j)
    BY <1>1, SameJournals DEF QuarantineSuffix
  <2> QED BY <1>1, <2>1 DEF Repairing
<1> QED BY <1>6, <1>7, <1>8, OnlyJob DEF QuarantineSuffix

LEMMA LeaveKeeps ==
  ASSUME AdapterInv, job' = NoJob, UNCHANGED <<reserved, journal, receipts, quarantine, answered>>,
         crashes' \in 0..MaxCrashes
  PROVE  AdapterInv'
<1>1. TypeOK'
  BY DEF AdapterInv, TypeOK
<1> QED BY <1>1, NoJobOK, OnlyJob

LEMMA RefuseKeeps ==
  ASSUME AdapterInv, RecoveryFails \/ Refuse
  PROVE  AdapterInv'
<1>1. crashes' \in 0..MaxCrashes
  BY DEF AdapterInv, TypeOK, RecoveryFails, Refuse
<1> QED BY <1>1, LeaveKeeps DEF RecoveryFails, Refuse, Leave

LEMMA CrashBetweenKeeps ==
  ASSUME AdapterInv, CrashBetweenWrites
  PROVE  AdapterInv'
<1>1. crashes' \in 0..MaxCrashes
  BY AdapterAssumption DEF AdapterInv, TypeOK, CrashBetweenWrites, Crash
<1> QED BY <1>1, LeaveKeeps DEF CrashBetweenWrites, Crash, Leave

LEMMA ReturnReceiptKeeps ==
  ASSUME AdapterInv, ReturnReceipt
  PROVE  AdapterInv'
<1>1. TypeOK /\ job # NoJob /\ job' = NoJob
  BY DEF AdapterInv, ReturnReceipt, At, Leave
<1>2. TypeOK'
  BY <1>1, JobFields DEF ReturnReceipt, TypeOK
<1>3. \A a \in Actions : receipts'[a] = WholeFile \/ a \in answered' => Complete(a)
  BY DEF AdapterInv, ReturnReceipt, ReceiptMeansEffects
<1>4. UNCHANGED <<reserved, journal>>
  BY DEF ReturnReceipt
<1> QED BY <1>1, <1>2, <1>3, <1>4, NoJobOK, SameJournals, QuietKeeps

LEMMA DecideKeeps ==
  ASSUME AdapterInv, Decide
  PROVE  AdapterInv'
<1>1. TypeOK /\ job # NoJob /\ ~Refused(job.act) /\ Clean
  BY DEF AdapterInv, Decide, At
<1>2. /\ job.act \in reserved
      /\ UNCHANGED <<reserved, journal, receipts, quarantine, answered, crashes>>
  BY <1>1 DEF Refused, Decide
<1>3. \A j \in Journals : Ready(j)'
  BY <1>1, <1>2, CleanIsReady, SameJournals
<1>4. \A j \in Journals : Committed(j)' = Committed(j)
  BY <1>2, SameJournals
<1>5. PICK a : a = job.act
  OBVIOUS
<1>6. a \in Actions
  BY <1>1, <1>5, JobFields
<1>7. /\ Present(a)' = Present(a) /\ (Attempted(a)' <=> Attempted(a))
      /\ (Complete(a)' <=> Complete(a))
  BY <1>4, <1>6, SameEvidence
<1>8. CASE Partial(job.act) /\ Log("PARTIAL_EFFECT_REQUIRES_RECOVERY", TRUE)
  <2>1. "PARTIAL_EFFECT_REQUIRES_RECOVERY" \in Statuses
    BY DEF Statuses
  <2>2. /\ job' \in Job /\ job' # NoJob /\ job'.step = "log"
        /\ job'.status = "PARTIAL_EFFECT_REQUIRES_RECOVERY"
    BY <1>1, <1>8, <2>1, Logged
  <2>3. JobOK' /\ Repairing'
    BY <1>3, <2>2 DEF JobOK, JournalsOK, DecisionOK, Conclusive, Repairing, At
  <2>4. TypeOK'
    BY <1>1, <1>2, <2>2 DEF TypeOK
  <2> QED BY <1>2, <2>3, <2>4, OnlyJob
<1>9. CASE /\ Complete(job.act)
           /\ job' = [job EXCEPT !.step = "receipt", !.reconciled = TRUE,
                                 !.status = "RECONCILED_COMMITTED_EFFECT"]
  <2>1. "RECONCILED_COMMITTED_EFFECT" \in Statuses
    BY DEF Statuses
  <2>2. /\ job' \in Job /\ job' # NoJob /\ job'.step = "receipt" /\ job'.act = a
        /\ job'.status = "RECONCILED_COMMITTED_EFFECT"
    BY <1>1, <1>5, <1>9, <2>1, ToReceipt
  <2>3. JobOK' /\ Repairing'
    BY <1>3, <1>5, <1>7, <1>9, <2>2 DEF JobOK, JournalsOK, DecisionOK, Conclusive, Repairing, At
  <2>4. TypeOK'
    BY <1>1, <1>2, <2>2 DEF TypeOK
  <2> QED BY <1>2, <2>3, <2>4, OnlyJob
<1>10. CASE Present(job.act) = {} /\ Log("EFFECT_STARTED", Attempted(job.act))
  <2>1. "EFFECT_STARTED" \in Statuses /\ Attempted(job.act) \in BOOLEAN
    BY DEF Statuses, Attempted
  <2>2. /\ job' \in Job /\ job' # NoJob /\ job'.step = "log" /\ job'.act = a
        /\ job'.status = "EFFECT_STARTED" /\ job'.reconciled = Attempted(a)
    BY <1>1, <1>5, <1>10, <2>1, Logged
  <2>3. JournalsOK' /\ Repairing'
    BY <1>3, <2>2 DEF JournalsOK, Repairing, At
  <2>4. DecisionOK'
    <3>1. Attempted(a)' => job'.reconciled = TRUE
      BY <1>7, <2>1, <1>5, <2>2
    <3>2. a \in reserved' /\ Present(a)' = {}
      BY <1>2, <1>5, <1>7, <1>10
    <3> QED BY <2>2, <3>1, <3>2 DEF DecisionOK, Conclusive
  <2>5. TypeOK'
    BY <1>1, <1>2, <2>2 DEF TypeOK
  <2> QED BY <1>2, <2>3, <2>4, <2>5, OnlyJob DEF JobOK
<1> QED BY <1>8, <1>9, <1>10 DEF Decide

LEMMA WriteReceiptKeeps ==
  ASSUME AdapterInv, WriteReceipt
  PROVE  AdapterInv'
<1>1. /\ TypeOK /\ job # NoJob /\ job.step = "receipt" /\ Goto("log") /\ "log" \in Steps
      /\ UNCHANGED <<reserved, journal, quarantine, answered, crashes>>
  BY DEF AdapterInv, WriteReceipt, At, Steps
<1>2. /\ job' \in Job /\ job' # NoJob /\ job'.act = job.act /\ job'.step = "log"
      /\ job'.status = job.status
  BY <1>1, GoneTo
<1>3. \A j \in Journals : Ready(j)
  BY <1>1 DEF AdapterInv, JobOK, JournalsOK
<1>4. Complete(job.act) /\ job.status \in Conclusive
  BY <1>1 DEF AdapterInv, JobOK, DecisionOK
<1>5. \A j \in Journals : Ready(j)' /\ Committed(j)' = Committed(j)
  BY <1>1, <1>3, SameJournals
<1>6. PICK a : a = job.act
  OBVIOUS
<1>7. a \in Actions /\ Complete(a)'
  BY <1>1, <1>4, <1>5, <1>6, JobFields, SameEvidence
<1>8. JobOK' /\ Repairing'
  BY <1>2, <1>4, <1>5, <1>6, <1>7
     DEF JobOK, JournalsOK, DecisionOK, Conclusive, Repairing, At
<1>9. /\ receipts' = [receipts EXCEPT ![a] = WholeFile]
      /\ receipts \in [Actions -> {NoFile, WholeFile, TornFile}]
  BY <1>1, <1>6 DEF WriteReceipt, TypeOK
<1>10. TypeOK'
  BY <1>1, <1>2, <1>9 DEF TypeOK
<1>11. \A b \in Actions : receipts'[b] = WholeFile \/ b \in answered' => Complete(b)
  BY <1>1, <1>4, <1>6, <1>9 DEF AdapterInv, ReceiptMeansEffects
<1> QED BY <1>1, <1>8, <1>10, <1>11, SameJournals, QuietKeeps

-----------------------------------------------------------------------------
(* Steps that touch one journal.                                           *)

LEMMA LinesOf ==
  ASSUME TypeOK, NEW t \in Journals, NEW v, journal' = [journal EXCEPT ![t].lines = v]
  PROVE  journal' = [journal EXCEPT ![t] = [journal[t] EXCEPT !.lines = v]]
BY Typed

LEMMA TailOf ==
  ASSUME TypeOK, NEW t \in Journals, NEW v, journal' = [journal EXCEPT ![t].tail = v]
  PROVE  journal' = [journal EXCEPT ![t] = [journal[t] EXCEPT !.tail = v]]
BY Typed

LEMMA MarkersOf ==
  ASSUME TypeOK, NEW t \in Journals, NEW v, journal' = [journal EXCEPT ![t].markers = v]
  PROVE  journal' = [journal EXCEPT ![t] = [journal[t] EXCEPT !.markers = v]]
BY Typed

\* What truncation leaves.
Cut(j) ==
  journal' = [journal EXCEPT ![j].lines = SubSeq(@, 1, Len(journal[j].markers)),
                             ![j].tail = NoTail]

LEMMA CutLeaves ==
  ASSUME AdapterInv, NEW j \in Journals, Readable(j), Cut(j)
  PROVE  /\ journal' \in [Journals -> JournalType] /\ Shapes'
         /\ \A i \in Journals : Committed(i)' = Committed(i)
         /\ \A i \in Journals \ {j} : journal'[i] = journal[i]
         /\ \A s \in Sources : \A i \in DOMAIN journal'[s].lines :
              i \in DOMAIN journal[s].lines /\ journal'[s].lines[i] = journal[s].lines[i]
<1>1. TypeOK /\ Shapes /\ journal \in [Journals -> JournalType] /\ journal[j] \in JournalType
  BY Typed DEF AdapterInv
<1> PICK x : x = journal[j]
  OBVIOUS
<1>2. PICK y : y = [lines |-> SubSeq(x.lines, 1, Len(x.markers)), tail |-> NoTail,
                    markers |-> x.markers]
  OBVIOUS
<1>3. journal' = [journal EXCEPT ![j] = y]
  <2>1. y = [x EXCEPT !.lines = SubSeq(x.lines, 1, Len(x.markers)), !.tail = NoTail]
    BY <1>1, <1>2, LinesAndTailSet
  <2> QED BY <1>1, <2>1 DEF Cut
<1>4. x \in JournalType /\ ~TornIn(x) /\ ShapeIn(x)
  BY <1>1, ReadableIsWhole DEF Torn, Shapes
<1>5. /\ y \in JournalType /\ ShapeIn(y)
      /\ CommittedIn(y) = CommittedIn(x)
      /\ Len(y.lines) <= Len(x.lines)
      /\ \A i \in 1..Len(y.lines) : y.lines[i] = x.lines[i]
  BY <1>2, <1>4, SuffixCut
<1>6. /\ journal' \in [Journals -> JournalType] /\ Shapes' /\ journal'[j] = y
      /\ \A i \in Journals \ {j} : journal'[i] = journal[i] /\ Committed(i)' = Committed(i)
      /\ Committed(j)' = CommittedIn(y)
  BY <1>1, <1>3, <1>5, OneJournal
<1>7. Committed(j)' = Committed(j)
  BY <1>1, <1>5, <1>6, Evidence
<1>8. \A i \in DOMAIN y.lines : i \in DOMAIN x.lines /\ y.lines[i] = x.lines[i]
  <2>1. /\ DOMAIN y.lines = 1..Len(y.lines) /\ DOMAIN x.lines = 1..Len(x.lines)
        /\ Len(y.lines) \in Nat /\ Len(x.lines) \in Nat
    BY <1>4, <1>5, JournalFields
  <2> QED BY <1>5, <2>1
<1>9. \A s \in Sources : s \in Journals
  BY JournalNames
<1> QED BY <1>6, <1>7, <1>8, <1>9

LEMMA TruncateKeeps ==
  ASSUME AdapterInv, TruncateSuffix
  PROVE  AdapterInv'
<1>1. PICK j \in Journals : FirstUnclean(j) /\ Cut(j)
  BY DEF TruncateSuffix, Cut
<1>2. /\ TypeOK /\ job # NoJob /\ Goto("recover") /\ "recover" \in Steps /\ At("truncate")
      /\ UNCHANGED <<reserved, receipts, quarantine, answered, crashes>>
  BY DEF AdapterInv, TruncateSuffix, At, Steps
<1>3. Readable(j)
  BY <1>1, <1>2, FirstIsOne DEF AdapterInv, Repairing
<1>4. job' \in Job /\ job'.step = "recover"
  BY <1>2, GoneTo
<1>5. TypeOK'
  <2>1. journal' \in [Journals -> JournalType]
    BY <1>1, <1>3, CutLeaves
  <2> QED BY <1>2, <1>4, <2>1 DEF TypeOK, JournalType
<1>6. ReservedOnce'
  BY <1>2 DEF AdapterInv, ReservedOnce
<1>7. \A a \in Actions : receipts'[a] = WholeFile \/ a \in answered' => Complete(a)
  BY <1>2 DEF AdapterInv, ReceiptMeansEffects
<1> QED BY <1>1, <1>2, <1>3, <1>4, <1>5, <1>6, <1>7, CutLeaves, RecoverOK, QuietKeeps

LEMMA RecoverTailKeeps ==
  ASSUME AdapterInv, NEW s \in Sources, RecoverSourceEffectTail(s)
  PROVE  AdapterInv'
<1>1. /\ TypeOK /\ Readable(s) /\ HasSuffix(s) /\ Cut(s) /\ s \in Journals /\ job' = NoJob
      /\ quarantine' = quarantine \cup {[bytes |-> Suffix(s), whole |-> TRUE]}
      /\ UNCHANGED <<reserved, receipts, job, answered, crashes>>
  BY JournalNames DEF AdapterInv, RecoverSourceEffectTail, Cut
<1>2. TypeOK'
  <2>1. journal' \in [Journals -> JournalType]
    BY <1>1, CutLeaves
  <2>2. Suffix(s) \in Bytes
    BY <1>1, SuffixTyped
  <2>3. quarantine' \in SUBSET [bytes : Bytes, whole : BOOLEAN]
    <3> HIDE DEF Bytes
    <3>1. [bytes |-> Suffix(s), whole |-> TRUE] \in [bytes : Bytes, whole : BOOLEAN]
      BY <2>2
    <3>2. quarantine \in SUBSET [bytes : Bytes, whole : BOOLEAN]
      BY <1>1 DEF TypeOK
    <3> QED BY <1>1, <3>1, <3>2
  <2> QED BY <1>1, <2>1, <2>3 DEF TypeOK, JournalType
<1>3. ReservedOnce'
  BY <1>1 DEF AdapterInv, ReservedOnce
<1>4. \A a \in Actions : receipts'[a] = WholeFile \/ a \in answered' => Complete(a)
  BY <1>1 DEF AdapterInv, ReceiptMeansEffects
<1> QED BY <1>1, <1>2, <1>3, <1>4, CutLeaves, NoJobOK, QuietKeeps

\* Where the execution writes next, and what.
LEMMA AttemptTarget ==
  ASSUME AdapterInv, job # NoJob, job.step \in {"log", "log_mark"}
  PROVE  /\ Target = "ATTEMPTS" /\ Target \in Journals /\ Target \notin Sources
         /\ NextLine = Line(job.act, job.status, job.reconciled) /\ NextLine \in Entry
<1>1. NextLine = Line(job.act, job.status, job.reconciled) /\ Target = "ATTEMPTS"
  BY DEF Target, NextLine
<1>2. NextLine \in Entry
  BY <1>1, JobFields DEF AdapterInv, Line, Entry
<1> QED BY <1>1, <1>2, JournalNames

LEMMA EffectTarget ==
  ASSUME AdapterInv, job # NoJob, job.step \in {"effect", "effect_mark"}
  PROVE  /\ Target = NextSource(job.act) /\ Target \in Journals /\ Target \in Sources
         /\ Target \in RequiredSources(job.act) \ Present(job.act)
         /\ NextLine = Line(job.act, "EFFECT", FALSE) /\ NextLine \in Entry
<1>1. NextLine = Line(job.act, "EFFECT", FALSE) /\ Target = NextSource(job.act)
  BY DEF Target, NextLine
<1>2. job.act \in Actions
  BY JobFields DEF AdapterInv
<1>3. NextLine \in Entry
  BY <1>1, <1>2 DEF Line, Entry
<1>4. Present(job.act) # RequiredSources(job.act)
  BY DEF AdapterInv, JobOK, DecisionOK
<1>5. Present(job.act) \in SUBSET RequiredSources(job.act)
  BY DEF Present
<1>6. Target \in RequiredSources(job.act) \ Present(job.act)
  BY <1>1, <1>2, <1>4, <1>5, NextIsMissing, NextSourceIs
<1> QED BY <1>1, <1>2, <1>3, <1>6, RequiredNames, JournalNames

LEMMA WriteTarget ==
  ASSUME AdapterInv, job # NoJob, job.step \in {"log", "log_mark", "effect", "effect_mark"}
  PROVE  Target \in Journals /\ NextLine \in Entry
BY AttemptTarget, EffectTarget

\* The write point of a job stays where it is while the evidence does.
LEMMA SameTarget ==
  ASSUME job # NoJob, job' # NoJob, job.act \in Actions, job'.act = job.act,
         job'.status = job.status, job'.reconciled = job.reconciled,
         \/ job.step = "log" /\ job'.step = "log_mark"
         \/ job.step = "effect" /\ job'.step = "effect_mark",
         \A j \in Journals : Committed(j)' = Committed(j)
  PROVE  Target' = Target /\ NextLine' = NextLine
<1>1. PICK a : a = job.act
  OBVIOUS
<1>2. NextSource(a)' = NextSource(a)
  BY <1>1, SameEvidence
<1>3. NextSource(job.act)' = NextSource(job.act)
  BY <1>1, <1>2 DEF NextSource
<1> QED BY <1>3 DEF Target, NextLine

LEMMA AppendLeaves ==
  ASSUME AdapterInv, AppendLine
  PROVE  /\ journal' \in [Journals -> JournalType] /\ Shapes'
         /\ \A j \in Journals : Committed(j)' = Committed(j)
         /\ \A j \in Journals : Ready(j)
         /\ \A j \in Journals \ {Target} : journal'[j] = journal[j]
         /\ PendingIn(journal'[Target], NextLine)
         /\ Len(journal'[Target].lines) = Len(journal[Target].lines) + 1
         /\ \A i \in 1..Len(journal[Target].lines) :
              journal'[Target].lines[i] = journal[Target].lines[i]
<1>1. TypeOK /\ Shapes /\ job # NoJob /\ job.step \in {"log", "effect"}
  BY DEF AdapterInv, AppendLine, At
<1>2. PICK t, e : t = Target /\ e = NextLine
  OBVIOUS
<1>3. t \in Journals /\ e \in Entry
  BY <1>1, <1>2, WriteTarget
<1>4. \A j \in Journals : Ready(j)
  BY <1>1 DEF AdapterInv, JobOK, JournalsOK
<1>5. journal[t] \in JournalType /\ ShapeIn(journal[t]) /\ ReadyIn(journal[t])
  BY <1>1, <1>3, <1>4, Typed DEF Shapes, Ready
<1>6. PICK y : y = [journal[t] EXCEPT !.lines = Append(journal[t].lines, e)]
  OBVIOUS
<1>7. journal' = [journal EXCEPT ![t] = y]
  <2>1. journal' = [journal EXCEPT ![t].lines = Append(journal[t].lines, e)]
    BY <1>2 DEF AppendLine
  <2> QED BY <1>1, <1>3, <1>6, <2>1, LinesOf
<1>8. /\ y \in JournalType /\ ShapeIn(y) /\ PendingIn(y, e)
      /\ CommittedIn(y) = CommittedIn(journal[t])
      /\ Len(y.lines) = Len(journal[t].lines) + 1
      /\ \A i \in 1..Len(journal[t].lines) : y.lines[i] = journal[t].lines[i]
  BY <1>3, <1>5, <1>6, LineAppended
<1>9. /\ journal' \in [Journals -> JournalType] /\ Shapes' /\ journal'[t] = y
      /\ \A j \in Journals \ {t} : journal'[j] = journal[j] /\ Committed(j)' = Committed(j)
      /\ Committed(t)' = CommittedIn(y)
  BY <1>1, <1>3, <1>7, <1>8, OneJournal
<1>10. Committed(t)' = Committed(t)
  BY <1>1, <1>3, <1>8, <1>9, Evidence
<1> QED BY <1>2, <1>4, <1>8, <1>9, <1>10

LEMMA AppendJob ==
  ASSUME AdapterInv, AppendLine
  PROVE  /\ job # NoJob /\ job' \in Job /\ job' # NoJob /\ job'.act = job.act
         /\ job'.status = job.status /\ job'.reconciled = job.reconciled
         /\ \/ job.step = "log" /\ job'.step = "log_mark"
            \/ job.step = "effect" /\ job'.step = "effect_mark"
         /\ TypeOK' /\ JobOK' /\ Repairing'
<1>1. /\ TypeOK /\ Shapes /\ job # NoJob /\ job.step \in {"log", "effect"}
      /\ UNCHANGED <<reserved, receipts, quarantine, answered, crashes>>
  BY DEF AdapterInv, AppendLine, At
<1>2. "log_mark" \in Steps /\ "effect_mark" \in Steps
  BY DEF Steps
<1>3. /\ job' \in Job /\ job' # NoJob /\ job'.act = job.act
      /\ job'.status = job.status /\ job'.reconciled = job.reconciled
      /\ \/ job.step = "log" /\ job'.step = "log_mark"
         \/ job.step = "effect" /\ job'.step = "effect_mark"
  <2>1. CASE job.step = "log"
    <3>1. Goto("log_mark")
      BY <2>1 DEF AppendLine
    <3> QED BY <1>1, <1>2, <2>1, <3>1, GoneTo
  <2>2. CASE job.step = "effect"
    <3>1. Goto("effect_mark")
      BY <2>2 DEF AppendLine
    <3> QED BY <1>1, <1>2, <2>2, <3>1, GoneTo
  <2> QED BY <1>1, <2>1, <2>2
<1>4. /\ \A j \in Journals : Committed(j)' = Committed(j)
      /\ journal' \in [Journals -> JournalType]
  BY AppendLeaves
<1>5. TypeOK'
  BY <1>1, <1>3, <1>4 DEF TypeOK, JournalType
<1>6. Target' = Target /\ NextLine' = NextLine
  BY <1>1, <1>3, <1>4, JobFields, SameTarget
<1>7. JournalsOK'
  <2>1. \A j \in Journals \ {Target} : Ready(j)'
    BY AppendLeaves DEF Ready
  <2>2. PendingIn(journal[Target], NextLine)'
    BY <1>6, AppendLeaves DEF PendingIn, TornIn
  <2> QED BY <1>3, <1>6, <2>1, <2>2 DEF JournalsOK
<1>8. PICK a : a = job.act
  OBVIOUS
<1>9. /\ a \in Actions /\ Present(a)' = Present(a) /\ (Attempted(a)' <=> Attempted(a))
      /\ (Started(a)' <=> Started(a)) /\ (Complete(a)' <=> Complete(a))
  BY <1>1, <1>4, <1>8, JobFields, SameEvidence
<1>10. DecisionOK'
  <2>1. DecisionOK
    BY <1>1 DEF AdapterInv, JobOK
  <2> QED BY <1>1, <1>3, <1>8, <1>9, <2>1 DEF DecisionOK
<1>11. JobOK' /\ Repairing'
  BY <1>3, <1>7, <1>10 DEF JobOK, Repairing, At
<1> QED BY <1>1, <1>3, <1>5, <1>11

\* An attempt is appended: the sources are as before.
LEMMA AppendAttemptKeeps ==
  ASSUME AdapterInv, AppendLine, job.step = "log"
  PROVE  AdapterInv'
<1>1. Target \notin Sources
  BY AppendJob, AttemptTarget
<1>2. \A s \in Sources : journal'[s] = journal[s]
  BY <1>1, AppendLeaves, JournalNames
<1>3. UNCHANGED <<reserved, receipts, quarantine, answered, crashes>>
  BY DEF AppendLine
<1>4. ReservedOnce'
  BY <1>3 DEF AdapterInv, ReservedOnce
<1>5. \A a \in Actions : receipts'[a] = WholeFile \/ a \in answered' => Complete(a)
  BY <1>3 DEF AdapterInv, ReceiptMeansEffects
<1> QED BY <1>2, <1>3, <1>4, <1>5, AppendLeaves, AppendJob, QuietKeeps

\* An effect is appended: of a reserved and announced action, and no other
\* line of the source is of the same eligible quantity.
LEMMA AppendEffectKeeps ==
  ASSUME AdapterInv, AppendLine, job.step = "effect"
  PROVE  AdapterInv'
<1>1. /\ TypeOK /\ Shapes /\ job # NoJob
      /\ UNCHANGED <<reserved, receipts, quarantine, answered, crashes>>
  BY AppendJob DEF AdapterInv, AppendLine
<1>2. PICK a, t : a = job.act /\ t = Target
  OBVIOUS
<1>3. /\ a \in Actions /\ t \in Journals /\ t \in Sources
      /\ t \in RequiredSources(a) \ Present(a) /\ NextLine.act = a
  BY <1>1, <1>2, EffectTarget, JobFields DEF Line
<1>4. a \in reserved /\ Started(a)
  BY <1>1, <1>2 DEF AdapterInv, JobOK, DecisionOK
<1>5. PICK n : n = Len(journal[t].lines) + 1
  OBVIOUS
<1>6. /\ n \in Nat /\ n = Len(journal[t].lines) + 1
      /\ DOMAIN journal[t].lines = 1..(n - 1)
  BY <1>1, <1>3, <1>5, Typed, JournalFields
<1>7. /\ DOMAIN journal'[t].lines = 1..n /\ journal'[t].lines[n].act = a
      /\ \A i \in 1..(n - 1) : journal'[t].lines[i] = journal[t].lines[i]
  <2>1. journal'[t] \in JournalType /\ Len(journal'[t].lines) = n
    BY <1>2, <1>3, <1>6, AppendLeaves
  <2>2. DOMAIN journal'[t].lines = 1..n
    BY <2>1, JournalFields
  <2>3. journal'[t].lines[n] = NextLine
    BY <1>2, <2>1, AppendLeaves DEF PendingIn
  <2>4. \A i \in 1..(n - 1) : journal'[t].lines[i] = journal[t].lines[i]
    BY <1>2, <1>6, AppendLeaves
  <2> QED BY <1>3, <2>2, <2>3, <2>4
<1>8. \A i \in 1..n : i = n \/ i \in 1..(n - 1)
  BY <1>6
<1>9. \A s \in Sources \ {t} : journal'[s] = journal[s]
  BY <1>2, AppendLeaves, JournalNames
<1>10. OnlyReserved'
  <2>1. \A i \in 1..(n - 1) : journal'[t].lines[i].act \in reserved'
    BY <1>1, <1>3, <1>6, <1>7 DEF AdapterInv, OnlyReserved
  <2> QED BY <1>1, <1>4, <1>7, <1>8, <1>9, <2>1 DEF AdapterInv, OnlyReserved
<1>11. OneRemedyPerQuantity'
  <2>1. \A i \in 1..(n - 1) : BusinessKey[journal[t].lines[i].act] # BusinessKey[a]
    <3> SUFFICES ASSUME NEW i \in 1..(n - 1),
                        BusinessKey[journal[t].lines[i].act] = BusinessKey[a]
                 PROVE  FALSE
      OBVIOUS
    <3>1. journal[t].lines[i].act = a
      BY <1>3, <1>4, <1>6 DEF AdapterInv, OnlyReserved, ReservedOnce
    <3>2. Ready(t)
      BY <1>3, AppendLeaves
    <3>3. i \in DOMAIN Committed(t) /\ Committed(t)[i] = journal[t].lines[i]
      <4>1. Len(Committed(t)) = n - 1
        BY <1>1, <1>3, <1>6, <3>2, ReadyIsCommitted
      <4> QED BY <1>1, <1>3, <4>1, Evidence
    <3>4. EffectIn(a, t)
      BY <3>1, <3>3 DEF EffectIn
    <3> QED BY <1>3, <3>4 DEF Present
  <2>2. \A i, k \in 1..(n - 1) :
          BusinessKey[journal'[t].lines[i].act] = BusinessKey[journal'[t].lines[k].act] => i = k
    <3>1. \A i, k \in 1..(n - 1) :
            BusinessKey[journal[t].lines[i].act] = BusinessKey[journal[t].lines[k].act] => i = k
      BY <1>3, <1>6 DEF AdapterInv, OneRemedyPerQuantity
    <3> QED BY <1>7, <3>1
  <2>3. \A i, k \in 1..n :
          BusinessKey[journal'[t].lines[i].act] = BusinessKey[journal'[t].lines[k].act] => i = k
    BY <1>7, <1>8, <2>1, <2>2
  <2> SUFFICES ASSUME NEW s \in Sources
               PROVE  \A i, k \in DOMAIN journal'[s].lines :
                        BusinessKey[journal'[s].lines[i].act] =
                        BusinessKey[journal'[s].lines[k].act] => i = k
    BY DEF OneRemedyPerQuantity
  <2>4. CASE s = t
    BY <1>7, <2>3, <2>4
  <2>5. CASE s # t
    <3>1. journal'[s] = journal[s]
      BY <1>9, <2>5
    <3> QED BY <3>1 DEF AdapterInv, OneRemedyPerQuantity
  <2> QED BY <2>4, <2>5
<1>12. \A b \in Actions : (Started(b)' <=> Started(b)) /\ (Complete(b)' <=> Complete(b))
  BY AppendLeaves, SameEvidence
<1>13. IntentBeforeEffect'
  <2> SUFFICES ASSUME NEW s \in Sources, NEW i \in DOMAIN journal'[s].lines,
                      NEW b, b = journal'[s].lines[i].act
               PROVE  Started(b)'
    BY DEF IntentBeforeEffect, Started
  <2>1. CASE s = t /\ i = n
    BY <1>3, <1>4, <1>7, <1>12, <2>1
  <2>2. CASE ~(s = t /\ i = n)
    <3>1. i \in DOMAIN journal[s].lines /\ b = journal[s].lines[i].act
      BY <1>6, <1>7, <1>8, <1>9, <2>2
    <3>2. Started(b)
      BY <3>1 DEF AdapterInv, IntentBeforeEffect, Started
    <3>3. b \in Actions
      <4>1. b \in reserved
        BY <3>1 DEF AdapterInv, OnlyReserved
      <4> QED BY <1>1, <4>1 DEF TypeOK
    <3> QED BY <1>12, <3>2, <3>3
  <2> QED BY <2>1, <2>2
<1>14. NoBlindRetry'
  <2>1. Committed("ATTEMPTS")' = Committed("ATTEMPTS")
    BY AppendLeaves, JournalNames
  <2> QED BY <2>1 DEF AdapterInv, NoBlindRetry
<1>15. ReceiptMeansEffects'
  BY <1>1, <1>12 DEF AdapterInv, ReceiptMeansEffects
<1>16. ReservedOnce'
  BY <1>1 DEF AdapterInv, ReservedOnce
<1> QED BY <1>10, <1>11, <1>13, <1>14, <1>15, <1>16, AppendLeaves, AppendJob DEF AdapterInv

LEMMA AppendKeeps ==
  ASSUME AdapterInv, AppendLine
  PROVE  AdapterInv'
BY AppendAttemptKeeps, AppendEffectKeeps DEF AppendLine, At

LEMMA MarkLeaves ==
  ASSUME AdapterInv, job # NoJob, job.step \in {"log_mark", "effect_mark"}, WriteMarker,
         NEW t, t = Target, NEW e, e = NextLine
  PROVE  /\ journal' \in [Journals -> JournalType] /\ Shapes'
         /\ \A j \in Journals \ {t} : journal'[j] = journal[j] /\ Committed(j)' = Committed(j)
         /\ Committed(t)' = Append(Committed(t), e)
         /\ \A j \in Journals : Ready(j)' /\ journal'[j].lines = journal[j].lines
<1>1. TypeOK /\ Shapes /\ JournalsOK
  BY DEF AdapterInv, JobOK
<1>2. t \in Journals /\ e \in Entry
  BY WriteTarget
<1>3. PICK x : x = journal[t]
  OBVIOUS
<1>4. /\ \A j \in Journals \ {t} : Ready(j)
      /\ x \in JournalType /\ ShapeIn(x) /\ PendingIn(x, e)
  BY <1>1, <1>2, <1>3, Typed DEF JournalsOK, Shapes
<1>5. PICK y : y = [x EXCEPT !.markers = Append(x.markers, e)]
  OBVIOUS
<1>6. journal' = [journal EXCEPT ![t] = y]
  <2>1. journal' = [journal EXCEPT ![t].markers = Append(journal[t].markers, e)]
    BY DEF WriteMarker
  <2> QED BY <1>1, <1>2, <1>3, <1>5, <2>1, MarkersOf
<1>7. /\ y \in JournalType /\ ShapeIn(y) /\ ReadyIn(y)
      /\ CommittedIn(y) = Append(CommittedIn(x), e) /\ y.lines = x.lines
  BY <1>2, <1>4, <1>5, LineMarked
<1>8. /\ journal' \in [Journals -> JournalType] /\ Shapes' /\ journal'[t] = y
      /\ \A j \in Journals \ {t} : journal'[j] = journal[j] /\ Committed(j)' = Committed(j)
      /\ Committed(t)' = CommittedIn(y)
  BY <1>1, <1>2, <1>6, <1>7, OneJournal
<1>9. Committed(t)' = Append(Committed(t), e)
  BY <1>1, <1>2, <1>3, <1>7, <1>8, Evidence
<1>10. \A j \in Journals : Ready(j)' /\ journal'[j].lines = journal[j].lines
  BY <1>3, <1>4, <1>7, <1>8 DEF Ready
<1> QED BY <1>8, <1>9, <1>10

LEMMA MarkAttemptKeeps ==
  ASSUME AdapterInv, MarkAttempt
  PROVE  AdapterInv'
<1>1. /\ TypeOK /\ Shapes /\ job # NoJob /\ job.step = "log_mark" /\ WriteMarker
      /\ UNCHANGED <<reserved, receipts, quarantine, crashes>>
      /\ JournalsOK /\ DecisionOK
  BY DEF AdapterInv, MarkAttempt, At, JobOK
<1>2. PICK a, e : a = job.act /\ e = NextLine
  OBVIOUS
<1>3. /\ a \in Actions /\ e \in Entry /\ Target = "ATTEMPTS" /\ "ATTEMPTS" \in Journals
      /\ e = Line(a, job.status, job.reconciled)
      /\ e.act = a /\ e.status = job.status /\ e.reconciled = job.reconciled
  BY <1>1, <1>2, AttemptTarget, JobFields DEF Line
<1>4. /\ journal' \in [Journals -> JournalType] /\ Shapes'
      /\ \A s \in Sources : Committed(s)' = Committed(s)
      /\ Committed("ATTEMPTS")' = Append(Committed("ATTEMPTS"), e)
      /\ \A j \in Journals : Ready(j)' /\ journal'[j].lines = journal[j].lines
      /\ \A s \in Sources : s \in Journals
  <2>1. "ATTEMPTS" = Target /\ "ATTEMPTS" \notin Sources /\ \A s \in Sources : s \in Journals
    BY <1>3, JournalNames
  <2> QED BY <1>1, <1>2, <2>1, MarkLeaves
<1>5. \A b \in Actions : /\ Present(b)' = Present(b) /\ (Complete(b)' <=> Complete(b))
                         /\ Started(b) => Started(b)'
                         /\ e \in {Line(b, "EFFECT_STARTED", r) : r \in BOOLEAN} => Started(b)'
  BY <1>1, <1>3, <1>4, OneMoreAttempt
<1>6. NoBlindRetry'
  <2>1. PICK c : c = Committed("ATTEMPTS")
    OBVIOUS
  <2>2. c \in Seq(Entry) /\ DOMAIN c = 1..Len(c) /\ Len(c) \in Nat
    BY <1>1, <1>3, <2>1, Evidence
  <2>3. /\ DOMAIN Append(c, e) = 1..(Len(c) + 1) /\ Append(c, e)[Len(c) + 1] = e
        /\ \A i \in 1..Len(c) : Append(c, e)[i] = c[i]
    <3> HIDE DEF Entry
    <3> QED BY <1>3, <2>2
  <2>4. Committed("ATTEMPTS")' = Append(c, e)
    BY <1>4, <2>1
  <2>5. ASSUME NEW i \in 1..(Len(c) + 1), NEW k \in 1..(Len(c) + 1), i < k,
               Append(c, e)[i].act = Append(c, e)[k].act,
               Append(c, e)[k].status = "EFFECT_STARTED"
        PROVE  Append(c, e)[k].reconciled
    <3>1. i \in 1..Len(c) /\ Append(c, e)[i] = c[i]
      BY <2>2, <2>3, <2>5
    <3>2. CASE k \in 1..Len(c)
      BY <2>1, <2>2, <2>3, <2>5, <3>1, <3>2 DEF AdapterInv, NoBlindRetry
    <3>3. CASE k = Len(c) + 1
      <4>1. c[i].act = a /\ job.status = "EFFECT_STARTED"
        BY <1>3, <2>3, <2>5, <3>1, <3>3
      <4>2. Attempted(a)
        BY <2>1, <2>2, <3>1, <4>1 DEF Attempted
      <4>3. job.reconciled = TRUE
        BY <1>1, <1>2, <4>1, <4>2 DEF DecisionOK
      <4> QED BY <1>3, <2>3, <3>3, <4>3
    <3> QED BY <2>2, <3>2, <3>3
  <2> QED BY <2>3, <2>4, <2>5 DEF NoBlindRetry
<1>7. ReservedOnce'
  BY <1>1 DEF AdapterInv, ReservedOnce
<1>8. job.status \in Conclusive => Complete(a)
  BY <1>1, <1>2 DEF DecisionOK
<1>9. answered' \in SUBSET Actions /\ ReceiptMeansEffects'
  <2>1. \/ answered' = answered
        \/ job.status \in Conclusive /\ answered' = answered \cup {a}
    BY <1>2 DEF MarkAttempt, Conclusive
  <2>2. answered' \in SUBSET Actions
    BY <1>1, <1>3, <2>1 DEF TypeOK
  <2>3. \A b \in Actions : receipts'[b] = WholeFile \/ b \in answered' => Complete(b)
    BY <1>1, <1>8, <2>1 DEF AdapterInv, ReceiptMeansEffects
  <2> QED BY <1>5, <2>2, <2>3 DEF ReceiptMeansEffects
<1>10. job' \in Job \cup {NoJob} /\ JobOK' /\ Repairing'
  <2>1. CASE job.status = "EFFECT_STARTED" /\ Goto("effect")
    <3>1. "effect" \in Steps
      BY DEF Steps
    <3>2. job' \in Job /\ job' # NoJob /\ job'.act = a /\ job'.step = "effect"
      BY <1>1, <1>2, <2>1, <3>1, GoneTo
    <3>3. a \in reserved /\ Present(a) = {}
      BY <1>1, <1>2, <2>1 DEF DecisionOK
    <3>4. e \in {Line(a, "EFFECT_STARTED", r) : r \in BOOLEAN}
      BY <1>1, <1>3, <2>1, JobFields
    <3>5. Started(a)' /\ Present(a)' = {}
      BY <1>3, <1>5, <3>3, <3>4
    <3>6. RequiredSources(a) # {}
      BY <1>3, RequiredNames
    <3> QED BY <1>1, <1>4, <3>2, <3>3, <3>5, <3>6
            DEF JobOK, JournalsOK, DecisionOK, Repairing, At
  <2>2. CASE Log("FAILED_BEFORE_MUTATION", FALSE)
    <3>1. "FAILED_BEFORE_MUTATION" \in Statuses
      BY DEF Statuses
    <3>2. /\ job' \in Job /\ job' # NoJob /\ job'.step = "log"
          /\ job'.status = "FAILED_BEFORE_MUTATION"
      BY <1>1, <2>2, <3>1, Logged
    <3> QED BY <1>4, <3>2 DEF JobOK, JournalsOK, DecisionOK, Conclusive, Repairing, At
  <2>3. CASE job' = NoJob
    BY <2>3, NoJobOK
  <2> QED BY <2>1, <2>2, <2>3 DEF MarkAttempt, Leave
<1>11. TypeOK'
  BY <1>1, <1>4, <1>9, <1>10 DEF TypeOK, JournalType
<1> QED BY <1>1, <1>4, <1>5, <1>6, <1>7, <1>9, <1>10, <1>11, InvariantKept

LEMMA MarkEffectKeeps ==
  ASSUME AdapterInv, MarkEffect
  PROVE  AdapterInv'
<1>1. /\ TypeOK /\ Shapes /\ job # NoJob /\ job.step = "effect_mark" /\ WriteMarker
      /\ UNCHANGED <<reserved, receipts, quarantine, answered, crashes>>
      /\ JournalsOK /\ DecisionOK
  BY DEF AdapterInv, MarkEffect, At, JobOK
<1>2. PICK a, t, e : a = job.act /\ t = Target /\ e = NextLine
  OBVIOUS
<1>3. /\ a \in Actions /\ e \in Entry /\ e.act = a /\ t \in Sources /\ t \in Journals
      /\ t \in RequiredSources(a) \ Present(a)
  BY <1>1, <1>2, EffectTarget, JobFields DEF Line
<1>4. /\ journal' \in [Journals -> JournalType] /\ Shapes'
      /\ \A j \in Journals \ {t} : journal'[j] = journal[j] /\ Committed(j)' = Committed(j)
      /\ Committed(t)' = Append(Committed(t), e)
      /\ \A j \in Journals : Ready(j)' /\ journal'[j].lines = journal[j].lines
  BY <1>1, <1>2, MarkLeaves
<1>5. \A b \in Actions : /\ Complete(b) => Complete(b)'
                         /\ Started(b)' <=> Started(b)
  BY <1>1, <1>3, <1>4, OneMoreEffect
<1>6. Present(a)' = Present(a) \cup {t}
  BY <1>1, <1>3, <1>4, OneMoreEffect
<1>7. LastEffect <=> Complete(a)'
  <2>1. Present(a) \in SUBSET RequiredSources(a)
    BY DEF Present
  <2>2. Cardinality(Present(a)) + 1 = Len(Required(a))
          <=> Present(a) \cup {t} = RequiredSources(a)
    BY <1>3, <2>1, LastCompletes
  <2>3. LastEffect <=> Cardinality(Present(a)) + 1 = Len(Required(a))
    BY <1>2 DEF LastEffect
  <2>4. Complete(a)' <=> Present(a)' = RequiredSources(a)
    BY DEF Complete, RequiredSources
  <2> QED BY <1>6, <2>2, <2>3, <2>4
<1>8. NoBlindRetry'
  <2>1. "ATTEMPTS" \in Journals \ {t}
    BY <1>3, JournalNames
  <2>2. Committed("ATTEMPTS")' = Committed("ATTEMPTS")
    BY <1>4, <2>1
  <2> QED BY <2>2 DEF AdapterInv, NoBlindRetry
<1>9. ReservedOnce' /\ ReceiptMeansEffects'
  BY <1>1, <1>5 DEF AdapterInv, ReservedOnce, ReceiptMeansEffects
<1>10. job' \in Job \cup {NoJob} /\ JobOK' /\ Repairing'
  <2>1. CASE Log("EFFECT_UNKNOWN", FALSE)
    <3>1. "EFFECT_UNKNOWN" \in Statuses
      BY DEF Statuses
    <3>2. job' \in Job /\ job' # NoJob /\ job'.step = "log" /\ job'.status = "EFFECT_UNKNOWN"
      BY <1>1, <2>1, <3>1, Logged
    <3> QED BY <1>4, <3>2 DEF JobOK, JournalsOK, DecisionOK, Conclusive, Repairing, At
  <2>2. CASE ~LastEffect /\ Goto("effect")
    <3>1. "effect" \in Steps
      BY DEF Steps
    <3>2. job' \in Job /\ job' # NoJob /\ job'.act = a /\ job'.step = "effect"
      BY <1>1, <1>2, <2>2, <3>1, GoneTo
    <3>3. a \in reserved /\ Started(a)'
      BY <1>1, <1>2, <1>3, <1>5 DEF DecisionOK
    <3>4. Present(a)' # RequiredSources(a)
      BY <1>7, <2>2 DEF Complete, RequiredSources
    <3> QED BY <1>1, <1>4, <3>2, <3>3, <3>4 DEF JobOK, JournalsOK, DecisionOK, Repairing, At
  <2>3. CASE /\ LastEffect
             /\ job' = [job EXCEPT !.step = "receipt", !.status = "SIMULATED_EFFECT_COMMITTED"]
    <3>1. "SIMULATED_EFFECT_COMMITTED" \in Statuses
      BY DEF Statuses
    <3>2. job.reconciled \in BOOLEAN
      BY <1>1, JobFields
    <3>3. /\ job' \in Job /\ job' # NoJob /\ job'.act = a /\ job'.step = "receipt"
          /\ job'.status = "SIMULATED_EFFECT_COMMITTED"
      BY <1>1, <1>2, <2>3, <3>1, <3>2, ToReceipt
    <3> QED BY <1>4, <1>7, <2>3, <3>3
            DEF JobOK, JournalsOK, DecisionOK, Conclusive, Repairing, At
  <2> QED BY <2>1, <2>2, <2>3 DEF MarkEffect
<1>11. TypeOK'
  BY <1>1, <1>4, <1>10 DEF TypeOK, JournalType
<1>12. \A s \in Sources : s \in Journals
  BY JournalNames
<1> QED BY <1>1, <1>4, <1>5, <1>8, <1>9, <1>10, <1>11, <1>12, InvariantKept

LEMMA CrashInAppendKeeps ==
  ASSUME AdapterInv, CrashInAppend
  PROVE  /\ AdapterInv'
         /\ \A j \in Journals : Committed(j)' = Committed(j) /\ Ready(j)
<1>1. /\ TypeOK /\ Shapes /\ job # NoJob /\ job.step \in {"log", "effect"}
      /\ job' = NoJob /\ crashes' = crashes + 1 /\ crashes < MaxCrashes
      /\ UNCHANGED <<reserved, receipts, quarantine, answered>>
  BY DEF AdapterInv, CrashInAppend, Crash, Leave, At
<1>2. PICK b \in {[form |-> "short"], [form |-> "long", entry |-> NextLine]} :
        journal' = [journal EXCEPT ![Target].tail = b]
  BY DEF CrashInAppend
<1>3. PICK t : t = Target
  OBVIOUS
<1>4. t \in Journals /\ NextLine \in Entry
  BY <1>1, <1>3, WriteTarget
<1>5. b \in TornTail
  <2> HIDE DEF Entry
  <2> QED BY <1>2, <1>4 DEF TornTail
<1>6. \A j \in Journals : Ready(j)
  BY <1>1 DEF AdapterInv, JobOK, JournalsOK
<1>7. PICK x : x = journal[t]
  OBVIOUS
<1>8. PICK y : y = [x EXCEPT !.tail = b]
  OBVIOUS
<1>9. journal' = [journal EXCEPT ![t] = y]
  BY <1>1, <1>2, <1>3, <1>4, <1>7, <1>8, TailOf
<1>10. x \in JournalType /\ ShapeIn(x)
  BY <1>1, <1>4, <1>7, Typed DEF Shapes
<1>11. y \in JournalType /\ ShapeIn(y) /\ CommittedIn(y) = CommittedIn(x) /\ y.lines = x.lines
  BY <1>5, <1>8, <1>10, LineTorn
<1>12. /\ journal' \in [Journals -> JournalType] /\ Shapes' /\ journal'[t] = y
       /\ \A j \in Journals \ {t} : journal'[j] = journal[j] /\ Committed(j)' = Committed(j)
       /\ Committed(t)' = CommittedIn(y)
  BY <1>1, <1>4, <1>9, <1>11, OneJournal
<1>13. \A j \in Journals : Committed(j)' = Committed(j) /\ journal'[j].lines = journal[j].lines
  BY <1>1, <1>4, <1>7, <1>11, <1>12, Evidence
<1>14. TypeOK'
  <2>1. crashes' \in 0..MaxCrashes
    BY <1>1, AdapterAssumption DEF TypeOK
  <2> QED BY <1>1, <1>12, <2>1 DEF TypeOK, JournalType
<1>15. ReservedOnce'
  BY <1>1 DEF AdapterInv, ReservedOnce
<1>16. \A a \in Actions : receipts'[a] = WholeFile \/ a \in answered' => Complete(a)
  BY <1>1 DEF AdapterInv, ReceiptMeansEffects
<1>17. \A s \in Sources : s \in Journals
  BY JournalNames
<1> QED BY <1>1, <1>6, <1>12, <1>13, <1>14, <1>15, <1>16, <1>17, NoJobOK, QuietKeeps

LEMMA CrashInWriteOnceKeeps ==
  ASSUME AdapterInv, CrashInWriteOnce
  PROVE  /\ AdapterInv'
         /\ \A j \in Journals : /\ Committed(j)' = Committed(j)
                                /\ journal'[j].lines = journal[j].lines
                                /\ journal'[j].tail = journal[j].tail
<1>1. /\ TypeOK /\ Shapes /\ job # NoJob
      /\ job' = NoJob /\ crashes' = crashes + 1 /\ crashes < MaxCrashes
      /\ UNCHANGED <<reserved, answered>>
  BY DEF AdapterInv, CrashInWriteOnce, Crash, Leave
<1>2. crashes' \in 0..MaxCrashes
  BY <1>1, AdapterAssumption DEF TypeOK
<1>3. ReservedOnce'
  BY <1>1 DEF AdapterInv, ReservedOnce
<1>4. \A s \in Sources : s \in Journals
  BY JournalNames
<1>5. CASE /\ job.step \in {"log_mark", "effect_mark"}
           /\ journal' = [journal EXCEPT ![Target].markers = Append(@, TornFile)]
           /\ UNCHANGED <<receipts, quarantine>>
  <2>1. PICK t, e : t = Target /\ e = NextLine
    OBVIOUS
  <2>2. t \in Journals /\ e \in Entry
    BY <1>1, <1>5, <2>1, WriteTarget
  <2>3. PICK x : x = journal[t]
    OBVIOUS
  <2>4. PICK y : y = [x EXCEPT !.markers = Append(x.markers, TornFile)]
    OBVIOUS
  <2>5. journal' = [journal EXCEPT ![t] = y]
    <3>1. journal' = [journal EXCEPT ![t].markers = Append(journal[t].markers, TornFile)]
      BY <1>5, <2>1
    <3> QED BY <1>1, <2>2, <2>3, <2>4, <3>1, MarkersOf
  <2>6. x \in JournalType /\ ShapeIn(x) /\ PendingIn(x, e)
    BY <1>1, <1>5, <2>1, <2>2, <2>3, Typed DEF AdapterInv, Shapes, JobOK, JournalsOK
  <2>7. y \in JournalType /\ ShapeIn(y) /\ CommittedIn(y) = CommittedIn(x) /\ y.lines = x.lines
    BY <2>2, <2>4, <2>6, MarkerTorn
  <2>8. y.tail = x.tail
    BY <2>4, <2>6, MarkersSet
  <2>9. /\ journal' \in [Journals -> JournalType] /\ Shapes' /\ journal'[t] = y
        /\ \A j \in Journals \ {t} : journal'[j] = journal[j] /\ Committed(j)' = Committed(j)
        /\ Committed(t)' = CommittedIn(y)
    BY <1>1, <2>2, <2>5, <2>7, OneJournal
  <2>10. \A j \in Journals : /\ Committed(j)' = Committed(j)
                             /\ journal'[j].lines = journal[j].lines
                             /\ journal'[j].tail = journal[j].tail
    BY <1>1, <2>2, <2>3, <2>7, <2>8, <2>9, Evidence
  <2>11. TypeOK'
    BY <1>1, <1>2, <1>5, <2>9 DEF TypeOK, JournalType
  <2>12. \A a \in Actions : receipts'[a] = WholeFile \/ a \in answered' => Complete(a)
    BY <1>1, <1>5 DEF AdapterInv, ReceiptMeansEffects
  <2> QED BY <1>1, <1>3, <1>4, <2>9, <2>10, <2>11, <2>12, NoJobOK, QuietKeeps
<1>6. CASE /\ receipts' = [receipts EXCEPT ![job.act] = TornFile]
           /\ UNCHANGED <<journal, quarantine>>
  <2>1. PICK a : a = job.act
    OBVIOUS
  <2>2. TypeOK'
    BY <1>1, <1>2, <1>6 DEF TypeOK
  <2>3. \A b \in Actions : receipts'[b] = WholeFile \/ b \in answered' => Complete(b)
    <3>1. receipts \in [Actions -> {NoFile, WholeFile, TornFile}]
      BY <1>1 DEF TypeOK
    <3>2. \A b \in Actions : receipts'[b] = WholeFile => receipts[b] = WholeFile
      BY <1>6, <3>1, AdapterAssumption
    <3> QED BY <1>1, <3>2 DEF AdapterInv, ReceiptMeansEffects
  <2> QED BY <1>1, <1>6, <2>2, <2>3, NoJobOK, SameJournals, QuietKeeps
<1>7. CASE /\ \E j \in Journals :
                /\ FirstUnclean(j) /\ Readable(j) /\ ~NameTaken(j)
                /\ quarantine' = quarantine \cup {[bytes |-> Suffix(j), whole |-> FALSE]}
           /\ UNCHANGED <<journal, receipts>>
  <2>1. PICK j \in Journals :
          /\ FirstUnclean(j) /\ Readable(j)
          /\ quarantine' = quarantine \cup {[bytes |-> Suffix(j), whole |-> FALSE]}
    BY <1>7
  <2>2. Suffix(j) \in Bytes
    <3>1. HasSuffix(j)
      BY <2>1 DEF FirstUnclean
    <3> QED BY <1>1, <3>1, SuffixTyped
  <2>3. quarantine' \in SUBSET [bytes : Bytes, whole : BOOLEAN]
    <3> HIDE DEF Bytes
    <3>1. [bytes |-> Suffix(j), whole |-> FALSE] \in [bytes : Bytes, whole : BOOLEAN]
      BY <2>2
    <3>2. quarantine \in SUBSET [bytes : Bytes, whole : BOOLEAN]
      BY <1>1 DEF TypeOK
    <3> QED BY <2>1, <3>1, <3>2
  <2>4. TypeOK'
    BY <1>1, <1>2, <1>7, <2>3 DEF TypeOK
  <2>5. AdapterInv'
    BY <1>1, <1>7, <2>4, NoJobOK, OnlyJob
  <2> QED BY <1>1, <1>7, <2>5, SameJournals
<1> QED BY <1>5, <1>6, <1>7 DEF CrashInWriteOnce, At

LEMMA NextKeeps == AdapterInv /\ [Next]_vars => AdapterInv'
<1> SUFFICES ASSUME AdapterInv, [Next]_vars PROVE AdapterInv'
  OBVIOUS
<1>1. CASE UNCHANGED vars
  <2>1. /\ UNCHANGED <<reserved, journal, receipts, quarantine, job, answered, crashes>>
        /\ \A j \in Journals : Committed(j)' = Committed(j)
        /\ \A j \in Journals : /\ FirstUnclean(j)' <=> FirstUnclean(j)
                               /\ Readable(j)' <=> Readable(j)
                               /\ Suffix(j)' = Suffix(j) /\ (Ready(j)' <=> Ready(j))
    BY <1>1, SameJournals DEF vars
  <2>2. TypeOK' /\ Repairing'
    BY <2>1 DEF AdapterInv, TypeOK, Repairing, At
  <2>3. JobOK'
    <3> SUFFICES ASSUME job # NoJob, NEW a, a = job.act
                 PROVE  JournalsOK' /\ DecisionOK'
      BY <2>1 DEF JobOK
    <3>1. JournalsOK /\ DecisionOK /\ a \in Actions
      BY JobFields DEF AdapterInv, JobOK
    <3>2. /\ Present(a)' = Present(a) /\ (Attempted(a)' <=> Attempted(a))
          /\ (Started(a)' <=> Started(a)) /\ (Complete(a)' <=> Complete(a))
          /\ NextSource(a)' = NextSource(a)
      BY <2>1, <3>1, SameEvidence
    <3>3. DecisionOK'
      BY <2>1, <3>1, <3>2 DEF DecisionOK
    <3>4. Target' = Target /\ NextLine' = NextLine
      <4>1. NextSource(job.act)' = NextSource(job.act)
        BY <2>1, <3>2 DEF NextSource
      <4> QED BY <2>1, <4>1 DEF Target, NextLine
    <3>5. JournalsOK'
      BY <2>1, <3>1, <3>4 DEF JournalsOK, PendingIn, TornIn
    <3> QED BY <3>3, <3>5
  <2> QED BY <2>1, <2>2, <2>3, OnlyJob
<1>2. CASE \E a \in Actions : Reserve(a) \/ \E f \in Faults : Execute(a, f)
  BY <1>2, ReserveKeeps, ExecuteKeeps
<1>3. CASE \E s \in Sources : RecoverSourceEffectTail(s)
  BY <1>3, RecoverTailKeeps
<1>4. CASE Run
  BY <1>4, QuarantineSuffixKeeps, TruncateKeeps, RefuseKeeps, ReturnReceiptKeeps, DecideKeeps,
     AppendKeeps, MarkAttemptKeeps, MarkEffectKeeps, WriteReceiptKeeps DEF Run
<1>5. CASE Fail
  BY <1>5, CrashBetweenKeeps, CrashInAppendKeeps, CrashInWriteOnceKeeps DEF Fail
<1> QED BY <1>1, <1>2, <1>3, <1>4, <1>5 DEF Next

-----------------------------------------------------------------------------
(* The theorems.                                                           *)

\* Whatever is interrupted, recovered and retried, the journals, the
\* reservations and the execution in progress agree.
THEOREM AdapterInvariant == Spec => []AdapterInv
BY InitHolds, NextKeeps, PTL DEF Spec

\* The variables keep their types.
THEOREM AdapterTyping == Spec => []TypeOK
<1>1. AdapterInv => TypeOK
  BY DEF AdapterInv
<1> QED BY <1>1, AdapterInvariant, PTL

\* A receipt, on disk or answered, is never ahead of the sources.
THEOREM ReceiptsAreBacked == Spec => []ReceiptMeansEffects
<1>1. AdapterInv => ReceiptMeansEffects
  BY DEF AdapterInv
<1> QED BY <1>1, AdapterInvariant, PTL

\* No effect is in a source before its action was announced in the attempts.
THEOREM IntentIsFirst == Spec => []IntentBeforeEffect
<1>1. AdapterInv => IntentBeforeEffect
  BY DEF AdapterInv
<1> QED BY <1>1, AdapterInvariant, PTL

\* No eligible quantity is remedied twice in a source.
THEOREM RemediedOnce == Spec => []OneRemedyPerQuantity
<1>1. AdapterInv => OneRemedyPerQuantity
  BY DEF AdapterInv
<1> QED BY <1>1, AdapterInvariant, PTL

\* No action is started again as if nothing had been tried.
THEOREM RetriesAreReconciled == Spec => []NoBlindRetry
<1>1. AdapterInv => NoBlindRetry
  BY DEF AdapterInv
<1> QED BY <1>1, AdapterInvariant, PTL

\* What a step may do to a journal with a suffix: nothing but cut it, once the
\* copy is there, or mark its line.
LEMMA CutStep ==
  ASSUME AdapterInv, [Next]_vars, NEW j \in Journals, HasSuffix(j)
  PROVE  \/ /\ journal'[j].lines = journal[j].lines
            /\ journal'[j].tail = journal[j].tail
         \/ [bytes |-> Suffix(j), whole |-> TRUE] \in quarantine'
<1>1. TypeOK /\ ~Ready(j)
  <2>1. TypeOK /\ journal[j] \in JournalType
    BY Typed DEF AdapterInv
  <2> QED BY <2>1, JournalFields DEF HasSuffix, Ready, ReadyIn
<1>2. CASE UNCHANGED journal
  BY <1>2
<1>3. CASE TruncateSuffix
  <2>1. PICK k \in Journals : FirstUnclean(k) /\ Cut(k)
    BY <1>3 DEF TruncateSuffix, Cut
  <2>2. /\ Readable(k) /\ [bytes |-> Suffix(k), whole |-> TRUE] \in quarantine
        /\ quarantine' = quarantine
    BY <1>3, <2>1, FirstIsOne DEF AdapterInv, Repairing, TruncateSuffix
  <2>3. k # j => journal'[j] = journal[j]
    BY <2>1, <2>2, CutLeaves
  <2> QED BY <2>2, <2>3
<1>4. ASSUME NEW s \in Sources, RecoverSourceEffectTail(s)
      PROVE  \/ journal'[j] = journal[j]
             \/ [bytes |-> Suffix(j), whole |-> TRUE] \in quarantine'
  <2>1. /\ Readable(s) /\ Cut(s) /\ s \in Journals
        /\ [bytes |-> Suffix(s), whole |-> TRUE] \in quarantine'
    BY <1>4, JournalNames DEF RecoverSourceEffectTail, Cut
  <2>2. s # j => journal'[j] = journal[j]
    BY <2>1, CutLeaves
  <2> QED BY <2>1, <2>2
<1>5. CASE AppendLine \/ CrashInAppend
  BY <1>1, <1>5, AppendLeaves, CrashInAppendKeeps
<1>6. CASE MarkAttempt \/ MarkEffect
  <2>1. job # NoJob /\ job.step \in {"log_mark", "effect_mark"} /\ WriteMarker
    BY <1>6 DEF MarkAttempt, MarkEffect, At
  <2>2. PICK t, e : t = Target /\ e = NextLine
    OBVIOUS
  <2>3. /\ t = j \/ journal'[j] = journal[j]
        /\ Ready(j)' /\ journal'[j].lines = journal[j].lines
    BY <2>1, <2>2, MarkLeaves
  <2>4. PendingIn(journal[t], e)
    BY <2>1, <2>2 DEF AdapterInv, JobOK, JournalsOK
  <2> QED BY <2>3, <2>4 DEF PendingIn, Ready, ReadyIn
<1>7. CASE CrashInWriteOnce
  BY <1>7, CrashInWriteOnceKeeps
<1>8. \/ UNCHANGED journal \/ TruncateSuffix
      \/ \E s \in Sources : RecoverSourceEffectTail(s)
      \/ AppendLine \/ CrashInAppend \/ MarkAttempt \/ MarkEffect \/ CrashInWriteOnce
  BY DEF Next, Run, Fail, vars, Reserve, Execute, QuarantineSuffix, RecoveryFails, Refuse,
     ReturnReceipt, Decide, WriteReceipt, CrashBetweenWrites
<1> QED BY <1>2, <1>3, <1>4, <1>5, <1>6, <1>7, <1>8

\* No bytes leave a journal unless the quarantine holds them, whole.
THEOREM CutsAreCopied == Spec => CutIsQuarantined
<1>1. AdapterInv /\ AdapterInv' /\ [Next]_vars
        => [ \A j \in Journals :
               HasSuffix(j) /\ Len(journal[j].lines) >= Len(journal'[j].lines)
                            /\ [journal'[j] EXCEPT !.markers = <<>>]
                                 # [journal[j] EXCEPT !.markers = <<>>]
                 => [bytes |-> Suffix(j), whole |-> TRUE] \in quarantine' ]_vars
  <2> SUFFICES ASSUME AdapterInv, AdapterInv', [Next]_vars, NEW j \in Journals, HasSuffix(j),
                      [journal'[j] EXCEPT !.markers = <<>>]
                        # [journal[j] EXCEPT !.markers = <<>>]
               PROVE  [bytes |-> Suffix(j), whole |-> TRUE] \in quarantine'
    OBVIOUS
  <2>1. PICK x, y : x = journal[j] /\ y = journal'[j]
    OBVIOUS
  <2>2. x \in JournalType /\ y \in JournalType
    BY <2>1 DEF AdapterInv, TypeOK, JournalType
  <2>3. /\ [x EXCEPT !.markers = <<>>] = [lines |-> x.lines, tail |-> x.tail, markers |-> <<>>]
        /\ [y EXCEPT !.markers = <<>>] = [lines |-> y.lines, tail |-> y.tail, markers |-> <<>>]
    BY <2>2, MarkersSet
  <2> QED BY <2>1, <2>3, CutStep
<1> QED BY <1>1, AdapterInvariant, PTL DEF Spec, CutIsQuarantined

-----------------------------------------------------------------------------
(* The adapter implements the abstract remedy.                             *)

\* Nothing happens to the effects: the abstract remedy stands or is stopped.
LEMMA RemedyStands ==
  ASSUME \A a \in Actions : Present(a)' = Present(a), answered' = answered,
         Opened' = Opened \/ Opened' = NoAction
  PROVE  Remedy!Next \/ UNCHANGED <<[a \in Actions |-> Present(a)], Opened, answered>>
<1>1. [a \in Actions |-> Present(a)]' = [a \in Actions |-> Present(a)]
  OBVIOUS
<1> QED BY <1>1 DEF Remedy!Next, Remedy!Stop

LEMMA RemedyAnswers ==
  ASSUME NEW a \in Actions, Complete(a), answered' = answered \cup {a}, Opened' = Opened,
         \A b \in Actions : Present(b)' = Present(b)
  PROVE  Remedy!Next
<1>1. [b \in Actions |-> Present(b)]' = [b \in Actions |-> Present(b)]
  OBVIOUS
<1>2. Remedy!Answer(a)
  BY <1>1 DEF Remedy!Answer, Complete
<1> QED BY <1>2 DEF Remedy!Next

\* A remedy is only opened while nothing of its quantity has been done.
LEMMA RemedyStarts ==
  ASSUME AdapterInv, NEW a \in reserved, Present(a) = {}, Opened = NoAction, Opened' = a,
         answered' = answered, \A b \in Actions : Present(b)' = Present(b)
  PROVE  Remedy!Next
<1>1. [b \in Actions |-> Present(b)]' = [b \in Actions |-> Present(b)]
  OBVIOUS
<1>2. TypeOK /\ Shapes /\ a \in Actions
  BY DEF AdapterInv, TypeOK
<1>3. ASSUME NEW b \in Actions \ {a}, BusinessKey[b] = BusinessKey[a]
      PROVE  Present(b) = {}
  <2> SUFFICES ASSUME NEW s \in RequiredSources(b), EffectIn(b, s)
               PROVE  FALSE
    BY DEF Present
  <2>1. s \in Sources /\ s \in Journals
    BY RequiredNames, JournalNames
  <2>2. PICK i \in DOMAIN Committed(s) : Committed(s)[i].act = b
    BY DEF EffectIn
  <2>3. i \in DOMAIN journal[s].lines /\ journal[s].lines[i].act = b
    BY <1>2, <2>1, <2>2, Evidence
  <2>4. b \in reserved
    BY <2>1, <2>3 DEF AdapterInv, OnlyReserved
  <2> QED BY <1>3, <2>4 DEF AdapterInv, ReservedOnce
<1>4. Remedy!Start(a)
  BY <1>1, <1>2, <1>3 DEF Remedy!Start
<1> QED BY <1>2, <1>4 DEF Remedy!Next

LEMMA RemedyTakesEffect ==
  ASSUME AdapterInv, MarkEffect
  PROVE  Remedy!Next
<1>1. /\ TypeOK /\ Shapes /\ job # NoJob /\ job.step = "effect_mark" /\ WriteMarker
      /\ answered' = answered
  BY DEF AdapterInv, MarkEffect, At
<1>2. PICK a, t, e : a = job.act /\ t = Target /\ e = NextLine
  OBVIOUS
<1>3. /\ a \in Actions /\ e \in Entry /\ e.act = a /\ t \in Sources
      /\ t \in RequiredSources(a) \ Present(a)
  BY <1>1, <1>2, EffectTarget, JobFields DEF Line
<1>4. /\ \A j \in Journals \ {t} : Committed(j)' = Committed(j)
      /\ Committed(t)' = Append(Committed(t), e)
  BY <1>1, <1>2, MarkLeaves
<1>5. /\ Present(a)' = Present(a) \cup {t}
      /\ \A b \in Actions \ {a} : Present(b)' = Present(b)
  BY <1>1, <1>3, <1>4, OneMoreEffect
<1>6. [b \in Actions |-> Present(b)]'
        = [[b \in Actions |-> Present(b)] EXCEPT ![a] = @ \cup {t}]
  BY <1>3, <1>5
<1>7. Opened = a
  BY <1>1, <1>2 DEF Opened, At
<1>8. Opened' \in {a, NoAction}
  <2>1. job'.step \in {"log", "receipt"} \/ Goto("effect")
    <3>1. job \in Job /\ DOMAIN job = {"act", "fault", "step", "status", "reconciled"}
      BY <1>1, JobFields
    <3> QED BY <3>1 DEF MarkEffect, Log
  <2>2. CASE job'.step \in {"log", "receipt"}
    BY <2>2 DEF Opened, At
  <2>3. CASE Goto("effect")
    <3>1. "effect" \in Steps
      BY DEF Steps
    <3>2. job'.act = a
      BY <1>1, <1>2, <2>3, <3>1, GoneTo
    <3> QED BY <3>2 DEF Opened
  <2> QED BY <2>1, <2>2, <2>3
<1>9. Remedy!Effect(a)
  BY <1>1, <1>3, <1>6, <1>7, <1>8 DEF Remedy!Effect
<1> QED BY <1>3, <1>9 DEF Remedy!Next

LEMMA RemedyAfterAttempt ==
  ASSUME AdapterInv, MarkAttempt
  PROVE  Remedy!Next \/ UNCHANGED <<[a \in Actions |-> Present(a)], Opened, answered>>
<1>1. /\ TypeOK /\ Shapes /\ job # NoJob /\ job.step = "log_mark" /\ WriteMarker
      /\ DecisionOK
  BY DEF AdapterInv, MarkAttempt, At, JobOK
<1>2. PICK a, e : a = job.act /\ e = NextLine
  OBVIOUS
<1>3. /\ a \in Actions /\ e \in Entry /\ Target = "ATTEMPTS"
  BY <1>1, <1>2, AttemptTarget, JobFields
<1>4. /\ \A s \in Sources : Committed(s)' = Committed(s)
      /\ Committed("ATTEMPTS")' = Append(Committed("ATTEMPTS"), e)
  <2>1. "ATTEMPTS" = Target /\ "ATTEMPTS" \notin Sources /\ \A s \in Sources : s \in Journals
    BY <1>3, JournalNames
  <2> QED BY <1>1, <1>2, <2>1, MarkLeaves
<1>5. \A b \in Actions : Present(b)' = Present(b)
  BY <1>1, <1>3, <1>4, OneMoreAttempt
<1>6. Opened = NoAction
  BY <1>1 DEF Opened, At
<1>7. CASE job.status = "EFFECT_STARTED" /\ Goto("effect") /\ UNCHANGED answered
  <2>1. "effect" \in Steps
    BY DEF Steps
  <2>2. job' # NoJob /\ job'.act = a /\ job'.step = "effect"
    BY <1>1, <1>2, <1>7, <2>1, GoneTo
  <2>3. Opened' = a
    BY <2>2 DEF Opened, At
  <2>4. a \in reserved /\ Present(a) = {}
    BY <1>1, <1>2, <1>7 DEF DecisionOK
  <2> QED BY <1>5, <1>6, <1>7, <2>3, <2>4, RemedyStarts
<1>8. CASE Log("FAILED_BEFORE_MUTATION", FALSE) /\ UNCHANGED answered
  <2>1. "FAILED_BEFORE_MUTATION" \in Statuses
    BY DEF Statuses
  <2>2. Opened' = NoAction
    BY <1>1, <1>8, <2>1, Logged DEF Opened, At
  <2> QED BY <1>5, <1>8, <2>2, RemedyStands
<1>9. CASE job.status \in Conclusive /\ answered' = answered \cup {a} /\ job' = NoJob
  <2>1. Opened' = NoAction
    BY <1>9 DEF Opened, At
  <2>2. Complete(a)
    BY <1>1, <1>2, <1>9 DEF DecisionOK
  <2> QED BY <1>3, <1>5, <1>6, <1>9, <2>1, <2>2, RemedyAnswers
<1>10. CASE job' = NoJob /\ UNCHANGED answered
  <2>1. Opened' = NoAction
    BY <1>10 DEF Opened, At
  <2> QED BY <1>5, <1>10, <2>1, RemedyStands
<1> QED BY <1>2, <1>7, <1>8, <1>9, <1>10 DEF MarkAttempt, Conclusive, Leave

LEMMA NextRemedy ==
  ASSUME AdapterInv, [Next]_vars
  PROVE  Remedy!Next \/ UNCHANGED <<[a \in Actions |-> Present(a)], Opened, answered>>
<1>1. ASSUME \A j \in Journals : Committed(j)' = Committed(j)
      PROVE  \A a \in Actions : Present(a)' = Present(a)
  BY <1>1, SameEvidence
<1>2. UNCHANGED <<reserved, journal>> => \A j \in Journals : Committed(j)' = Committed(j)
  BY SameJournals
<1>3. CASE UNCHANGED vars \/ \E a \in Actions : Reserve(a)
  <2>1. Opened' = Opened /\ journal' = journal /\ answered' = answered
    BY <1>3 DEF vars, Reserve, Opened, At
  <2>2. \A j \in Journals : Committed(j)' = Committed(j)
    BY <2>1 DEF Committed
  <2> QED BY <1>1, <2>1, <2>2, RemedyStands
<1>4. CASE \E a \in Actions, f \in Faults : Execute(a, f)
  <2>1. Opened' = NoAction /\ UNCHANGED <<reserved, journal, answered>>
    BY <1>4 DEF Execute, Opened, At
  <2> QED BY <1>1, <1>2, <2>1, RemedyStands
<1>5. CASE \E s \in Sources : RecoverSourceEffectTail(s)
  <2>1. PICK s \in Sources : RecoverSourceEffectTail(s)
    BY <1>5
  <2>2. /\ Readable(s) /\ Cut(s) /\ s \in Journals
        /\ Opened' = Opened /\ answered' = answered
    BY <2>1, JournalNames DEF RecoverSourceEffectTail, Cut, Opened, At
  <2> QED BY <1>1, <2>2, CutLeaves, RemedyStands
<1>6. CASE TruncateSuffix
  <2>1. PICK j \in Journals : FirstUnclean(j) /\ Cut(j)
    BY <1>6 DEF TruncateSuffix, Cut
  <2>2. Readable(j) /\ answered' = answered
    BY <1>6, <2>1, FirstIsOne DEF AdapterInv, Repairing, TruncateSuffix
  <2>3. Opened' = NoAction
    <3>1. TypeOK /\ job # NoJob /\ Goto("recover") /\ "recover" \in Steps
      BY <1>6 DEF AdapterInv, TruncateSuffix, At, Steps
    <3>2. job'.step = "recover"
      BY <3>1, GoneTo
    <3> QED BY <3>2 DEF Opened, At
  <2> QED BY <1>1, <2>1, <2>2, <2>3, CutLeaves, RemedyStands
<1>7. CASE QuarantineSuffix \/ WriteReceipt
  <2>1. UNCHANGED <<reserved, journal, answered>>
    BY <1>7 DEF QuarantineSuffix, WriteReceipt
  <2>2. Opened' = NoAction
    <3>1. /\ TypeOK /\ job # NoJob /\ {"truncate", "log"} \subseteq Steps
          /\ Goto("truncate") \/ Goto("log")
      BY <1>7 DEF AdapterInv, QuarantineSuffix, WriteReceipt, At, Steps
    <3>2. job'.step \in {"truncate", "log"}
      BY <3>1, GoneTo
    <3> QED BY <3>2 DEF Opened, At
  <2> QED BY <1>1, <1>2, <2>1, <2>2, RemedyStands
<1>8. CASE Decide
  <2>1. UNCHANGED <<reserved, journal, answered>>
    BY <1>8 DEF Decide
  <2>2. Opened' = NoAction
    <3>1. TypeOK /\ job # NoJob
      BY <1>8 DEF AdapterInv, Decide, At
    <3>2. DOMAIN job = {"act", "fault", "step", "status", "reconciled"}
      BY <3>1, JobFields
    <3>3. job'.step \in {"log", "receipt"}
      BY <1>8, <3>2 DEF Decide, Log
    <3> QED BY <3>3 DEF Opened, At
  <2> QED BY <1>1, <1>2, <2>1, <2>2, RemedyStands
<1>9. CASE RecoveryFails \/ Refuse \/ CrashBetweenWrites
  <2>1. Opened' = NoAction /\ journal' = journal /\ answered' = answered /\ reserved' = reserved
    BY <1>9 DEF RecoveryFails, Refuse, CrashBetweenWrites, Crash, Leave, Opened, At
  <2> QED BY <1>1, <1>2, <2>1, RemedyStands
<1>10. CASE ReturnReceipt
  <2>1. PICK a : a = job.act
    OBVIOUS
  <2>2. /\ a \in Actions /\ receipts[a] = WholeFile /\ answered' = answered \cup {a}
        /\ UNCHANGED <<reserved, journal>> /\ Opened = NoAction /\ Opened' = NoAction
    BY <1>10, <2>1, JobFields DEF AdapterInv, ReturnReceipt, Leave, At, Opened
  <2>3. Complete(a)
    BY <2>2 DEF AdapterInv, ReceiptMeansEffects
  <2> QED BY <1>1, <1>2, <2>2, <2>3, RemedyAnswers
<1>11. CASE AppendLine
  <2>1. Opened' = Opened /\ answered' = answered
    BY <1>11, AppendJob DEF Opened, At, AppendLine
  <2> QED BY <1>1, <1>11, <2>1, AppendLeaves, RemedyStands
<1>12. CASE MarkAttempt
  BY <1>12, RemedyAfterAttempt
<1>13. CASE MarkEffect
  BY <1>13, RemedyTakesEffect
<1>14. CASE CrashInAppend \/ CrashInWriteOnce
  <2>1. Opened' = NoAction /\ answered' = answered
    BY <1>14 DEF CrashInAppend, CrashInWriteOnce, Crash, Leave, Opened, At
  <2> QED BY <1>1, <1>14, <2>1, CrashInAppendKeeps, CrashInWriteOnceKeeps, RemedyStands
<1> QED BY <1>3, <1>4, <1>5, <1>6, <1>7, <1>8, <1>9, <1>10, <1>11, <1>12, <1>13, <1>14
        DEF Next, Run, Fail

\* Journals, markers and crashes hide nothing a caller could tell: effects
\* happen at most once each, of an action opened while nothing of it had
\* happened, and only a complete remedy is answered.
THEOREM AdapterIsARemedy == Spec => ImplementsRemedy
<1>1. Init => Remedy!Init
  <2> SUFFICES ASSUME Init PROVE Remedy!Init
    OBVIOUS
  <2>1. \A a \in Actions : Present(a) = {}
    <3> SUFFICES ASSUME NEW a \in Actions, NEW s \in RequiredSources(a), EffectIn(a, s)
                 PROVE  FALSE
      BY DEF Present
    <3>1. s \in Journals /\ TypeOK /\ Shapes
      BY InitHolds, RequiredNames, JournalNames DEF AdapterInv
    <3>2. Len(journal[s].lines) = 0
      BY <3>1 DEF Init
    <3>3. Len(Committed(s)) = 0
      BY <3>1, <3>2, Evidence
    <3> QED BY <3>1, <3>3, Evidence DEF EffectIn
  <2>2. Opened = NoAction
    BY DEF Init, Opened, At
  <2> QED BY <2>1, <2>2 DEF Init, Remedy!Init
<1>2. AdapterInv /\ [Next]_vars
        => [Remedy!Next]_<<[a \in Actions |-> Present(a)], Opened, answered>>
  BY NextRemedy
<1> QED BY <1>1, <1>2, AdapterInvariant, PTL DEF Spec, ImplementsRemedy, Remedy!Spec
=============================================================================

------------------------ MODULE LedgerHistoryProofs ------------------------
(***************************************************************************)
(* Proofs about the history RecoveryLedger commits, for every value of the *)
(* constants: that it is legal, consumes no authority twice, is what the   *)
(* callers decided on and what the checkpoints cache, and that the ledger  *)
(* implements DurableLog.                                                  *)
(*                                                                         *)
(* HistoryInv adds to LedgerInv what is true of the event being written:   *)
(* the history with it is as good as the one before.                       *)
(***************************************************************************)
EXTENDS RecoveryLedgerProofs, SequenceTheorems, WellFoundedInduction

-----------------------------------------------------------------------------
(* The inductive invariant.                                                *)

\* What the callers' operations ask for.  A revision is asked for under a
\* command id that is not in the history its caller read, unless ReuseIds.
Asked(r) ==
  /\ r.op \in {"advance", "reserve", "revise", "reopen"} => r.cmd > 0
  /\ r.op = "advance" =>
       r.type \notin RevisionEventTypes \cup RecoveryEventTypes
                       \cup {"ACTION_AUTHORITY_RESERVED"}
  /\ r.op = "reserve" =>
       r.type = "ACTION_AUTHORITY_RESERVED" /\ r.to = "ACTION_RESERVED"
  /\ r.op = "revise" => r.type = SourceRevised /\ r.to = "EVIDENCE_BLOCKED"
  /\ r.op = "reopen" => r.type = CaseReopened /\ r.to = "EVIDENCE_BLOCKED"
  /\ r.op \in {"revise", "reopen"} =>
       ReuseIds \/ \A i \in DOMAIN r.head : r.head[i].cmd # r.cmd

RequestsOK ==
  \A p \in Procs : pc[p] # "idle" \/ req[p] # NoRequest => Asked(req[p])

\* What a history never violates, whoever wrote it.
GoodHistory(l) ==
  /\ LegalHistory(l)
  /\ ReuseIds \/ UsedOnce(l)
  /\ ReservesOnce(l)
  /\ ReservesPrepared(l)

\* Every command id of l is a caller's, or that of a recovery so far.
Bounded(l) == \A i \in DOMAIN l : l[i].cmd >= 0 - Cardinality(quarantine)

\* The next recovery has an id of its own.
Fresh(l) == \A i \in DOMAIN l : l[i].cmd > 0 - Cardinality(quarantine)

DecidedOps == {"advance", "revise", "reopen"}

\* What the lock holder is about to write, at each step.
PendingAt(p, step) ==
  /\ step \in {"snapshot", "append"} =>
       /\ GoodHistory(Append(ledger, plan))
       /\ plan.cmd >= 0 - Cardinality(quarantine)
       /\ req[p].op \in DecidedOps => req[p].head = ledger
  /\ step = "snapshot" => req[p].op \in {"revise", "reopen"}
  /\ step = "append" => SnapshotsBind(Append(ledger, plan), snapshots)
  /\ step = "mark" =>
       (req[p].op \in DecidedOps => ledger = Append(req[p].head, plan))
  /\ step \in {"quarantine", "truncate"} => req[p].op = "recover"
  /\ step = "truncate" => Fresh(ledger)

PendingOK == \A p \in Procs : PendingAt(p, pc[p])

SnapshotsOK == snapshots[1] = <<>> /\ SnapshotsBind(ledger, snapshots)

HistoryInv ==
  /\ LedgerInv
  /\ RequestsOK
  /\ GoodHistory(ledger) /\ Bounded(ledger)
  /\ SnapshotsOK
  /\ PendingOK
  /\ Committed # <<>>

-----------------------------------------------------------------------------
(* Prefixes and extensions of a history.                                   *)

\* A prefix reads as the sequence does, and so do its prefixes.
LEMMA PrefixReads ==
  ASSUME NEW l \in Seq(Event), NEW n \in 0..Len(l)
  PROVE  /\ SubSeq(l, 1, n) \in Seq(Event) /\ Len(SubSeq(l, 1, n)) = n
         /\ DOMAIN SubSeq(l, 1, n) = 1..n
         /\ \A i \in 1..n : /\ SubSeq(l, 1, n)[i] = l[i]
                            /\ SubSeq(SubSeq(l, 1, n), 1, i - 1) = SubSeq(l, 1, i - 1)
<1> HIDE DEF Event
<1>1. SubSeq(l, 1, n) \in Seq(Event) /\ Len(SubSeq(l, 1, n)) = n
      /\ \A i \in 1..n : SubSeq(l, 1, n)[i] = l[i]
  OBVIOUS
<1>2. ASSUME NEW i \in 1..n
      PROVE  SubSeq(SubSeq(l, 1, n), 1, i - 1) = SubSeq(l, 1, i - 1)
  BY <1>1
<1> QED
  BY <1>1, <1>2

\* An appended history reads as the history, then as the event.
LEMMA AppendReads ==
  ASSUME NEW l \in Seq(Event), NEW e \in Event
  PROVE  /\ Append(l, e) \in Seq(Event) /\ Len(Append(l, e)) = Len(l) + 1
         /\ DOMAIN Append(l, e) = 1..Len(l) + 1
         /\ Append(l, e)[Len(l) + 1] = e
         /\ SubSeq(Append(l, e), 1, Len(l)) = l
         /\ \A i \in 1..Len(l) :
              /\ Append(l, e)[i] = l[i]
              /\ SubSeq(Append(l, e), 1, i - 1) = SubSeq(l, 1, i - 1)
<1> HIDE DEF Event
<1>1. /\ Append(l, e) \in Seq(Event) /\ Len(Append(l, e)) = Len(l) + 1
      /\ DOMAIN Append(l, e) = 1..Len(l) + 1
      /\ Append(l, e)[Len(l) + 1] = e
      /\ \A i \in 1..Len(l) : Append(l, e)[i] = l[i]
  OBVIOUS
<1>2. SubSeq(Append(l, e), 1, Len(l)) = l
  BY <1>1
<1>3. ASSUME NEW i \in 1..Len(l)
      PROVE  SubSeq(Append(l, e), 1, i - 1) = SubSeq(l, 1, i - 1)
  BY <1>1
<1> QED
  BY <1>1, <1>2, <1>3

\* A prefix of a good history is good.
LEMMA GoodPrefix ==
  ASSUME NEW l \in Seq(Event), NEW n \in 0..Len(l), GoodHistory(l)
  PROVE  GoodHistory(SubSeq(l, 1, n))
<1> DEFINE k == SubSeq(l, 1, n)
<1>1. /\ k \in Seq(Event) /\ DOMAIN k = 1..n
      /\ \A i \in 1..n : k[i] = l[i] /\ SubSeq(k, 1, i - 1) = SubSeq(l, 1, i - 1)
  BY PrefixReads
<1>2. DOMAIN l = 1..Len(l) /\ Len(l) \in Nat
  OBVIOUS
<1> HIDE DEF k
<1>3. LegalHistory(k)
  <2> SUFFICES ASSUME NEW i \in 1..n PROVE Extends(SubSeq(k, 1, i - 1), k[i])
    BY <1>1 DEF LegalHistory
  <2>1. Extends(SubSeq(l, 1, i - 1), l[i])
    BY <1>2 DEF GoodHistory, LegalHistory
  <2> QED
    BY <1>1, <2>1
<1>4. ReuseIds \/ UsedOnce(k)
  BY <1>1, <1>2 DEF GoodHistory, UsedOnce
<1>5. ReservesOnce(k)
  BY <1>1, <1>2 DEF GoodHistory, ReservesOnce, ReservedAt
<1>6. ReservesPrepared(k)
  BY <1>1, <1>2 DEF GoodHistory, ReservesPrepared, ReservedAt
<1> QED
  BY <1>3, <1>4, <1>5, <1>6 DEF GoodHistory, k

\* No command id of l is c.
IdIsNew(l, c) == \A i \in DOMAIN l : l[i].cmd # c

\* What makes an event a good reservation after l.
GoodReservation(l, e) ==
  /\ \A i \in DOMAIN l : ReservedAt(l, i) =>
       /\ IdempotencyKey[l[i].act] # IdempotencyKey[e.act]
       /\ BusinessKey[l[i].act] # BusinessKey[e.act]
       /\ Authority[l[i].act] # Authority[e.act]
  /\ e.at \in 1..Len(l)
  /\ l[e.at].to = "ACTION_PREPARED"
  /\ l[e.at].rev = e.rev
  /\ \A j \in e.at + 1 .. Len(l) : l[j].type \in RecoveryEventTypes

\* A good history stays good with a legal event under a new command id.
LEMMA GoodAppend ==
  ASSUME NEW l \in Seq(Event), NEW e \in Event, GoodHistory(l),
         Extends(l, e), ReuseIds \/ IdIsNew(l, e.cmd),
         e.type = "ACTION_AUTHORITY_RESERVED" => GoodReservation(l, e)
  PROVE  GoodHistory(Append(l, e))
<1> DEFINE k == Append(l, e)
<1>1. /\ k \in Seq(Event) /\ DOMAIN k = 1..Len(l) + 1
      /\ k[Len(l) + 1] = e /\ SubSeq(k, 1, Len(l)) = l
      /\ \A i \in 1..Len(l) : k[i] = l[i] /\ SubSeq(k, 1, i - 1) = SubSeq(l, 1, i - 1)
  BY AppendReads
<1>2. DOMAIN l = 1..Len(l) /\ Len(l) \in Nat /\ (Len(l) + 1) - 1 = Len(l)
  OBVIOUS
<1> HIDE DEF k
<1>3. LegalHistory(k)
  <2> SUFFICES ASSUME NEW i \in 1..Len(l) + 1 PROVE Extends(SubSeq(k, 1, i - 1), k[i])
    BY <1>1 DEF LegalHistory
  <2>1. CASE i = Len(l) + 1
    BY <1>1, <1>2, <2>1
  <2>2. CASE i \in 1..Len(l)
    BY <1>1, <1>2, <2>2 DEF GoodHistory, LegalHistory
  <2> QED
    BY <1>2, <2>1, <2>2
<1>4. ReuseIds \/ UsedOnce(k)
  BY <1>1, <1>2 DEF GoodHistory, UsedOnce, IdIsNew
<1>5. ReservesOnce(k)
  <2>1. ASSUME NEW i \in 1..Len(l), ReservedAt(k, i), ReservedAt(k, Len(l) + 1)
        PROVE  /\ IdempotencyKey[k[i].act] # IdempotencyKey[e.act]
               /\ BusinessKey[k[i].act] # BusinessKey[e.act]
               /\ Authority[k[i].act] # Authority[e.act]
    BY <1>1, <1>2, <2>1 DEF ReservedAt, GoodReservation
  <2>2. ASSUME NEW i \in 1..Len(l), NEW j \in 1..Len(l),
               ReservedAt(k, i), ReservedAt(k, j), i # j
        PROVE  /\ IdempotencyKey[k[i].act] # IdempotencyKey[k[j].act]
               /\ BusinessKey[k[i].act] # BusinessKey[k[j].act]
               /\ Authority[k[i].act] # Authority[k[j].act]
    BY <1>1, <1>2, <2>2 DEF GoodHistory, ReservesOnce, ReservedAt
  <2> QED
    BY <1>1, <1>2, <2>1, <2>2 DEF ReservesOnce
<1>6. ReservesPrepared(k)
  <2> SUFFICES ASSUME NEW i \in 1..Len(l) + 1, ReservedAt(k, i)
               PROVE  /\ k[i].at \in 1..i-1
                      /\ k[k[i].at].to = "ACTION_PREPARED"
                      /\ k[k[i].at].rev = k[i].rev
                      /\ \A j \in k[i].at + 1 .. i - 1 : k[j].type \in RecoveryEventTypes
    BY <1>1 DEF ReservesPrepared
  <2>1. CASE i = Len(l) + 1
    BY <1>1, <1>2, <2>1 DEF ReservedAt, GoodReservation
  <2>2. CASE i \in 1..Len(l)
    <3>1. k[i] = l[i] /\ ReservedAt(l, i)
      BY <1>1, <2>2 DEF ReservedAt
    <3>2. /\ l[i].at \in 1..i-1
          /\ l[l[i].at].to = "ACTION_PREPARED"
          /\ l[l[i].at].rev = l[i].rev
          /\ \A j \in l[i].at + 1 .. i - 1 : l[j].type \in RecoveryEventTypes
      BY <1>2, <2>2, <3>1 DEF GoodHistory, ReservesPrepared
    <3> QED
      BY <1>1, <1>2, <2>2, <3>1, <3>2
  <2> QED
    BY <1>2, <2>1, <2>2
<1> QED
  BY <1>3, <1>4, <1>5, <1>6 DEF GoodHistory, k

\* The snapshots that bind a history bind its prefixes.
LEMMA SnapshotsPrefix ==
  ASSUME NEW l \in Seq(Event), NEW n \in 0..Len(l), NEW ss, SnapshotsBind(l, ss)
  PROVE  SnapshotsBind(SubSeq(l, 1, n), ss)
<1>1. DOMAIN l = 1..Len(l) /\ Len(l) \in Nat
  OBVIOUS
<1> QED
  BY <1>1, PrefixReads DEF SnapshotsBind

\* ... and with an event, if that starts no revision or its head is kept.
LEMMA SnapshotsAppend ==
  ASSUME NEW l \in Seq(Event), NEW e \in Event, NEW ss, SnapshotsBind(l, ss),
         e.type \in RevisionEventTypes => ss[e.rev] = l
  PROVE  SnapshotsBind(Append(l, e), ss)
<1>1. DOMAIN l = 1..Len(l) /\ Len(l) \in Nat /\ (Len(l) + 1) - 1 = Len(l)
  OBVIOUS
<1>2. ASSUME NEW i \in 1..Len(l) + 1, Append(l, e)[i].type \in RevisionEventTypes
      PROVE  ss[Append(l, e)[i].rev] = SubSeq(Append(l, e), 1, i - 1)
  <2>1. CASE i = Len(l) + 1
    BY <1>1, <1>2, <2>1, AppendReads
  <2>2. CASE i \in 1..Len(l)
    BY <1>1, <1>2, <2>2, AppendReads DEF SnapshotsBind
  <2> QED
    BY <1>1, <2>1, <2>2
<1> QED
  BY <1>2, AppendReads DEF SnapshotsBind

-----------------------------------------------------------------------------
(* Initial states.                                                         *)

\* Every event is committed when every event has its whole marker.
LEMMA WholeIsCommitted ==
  ASSUME LedgerInv, AllMarked
  PROVE  Committed = ledger /\ CommittedLength = Len(ledger)
<1>1. ledger \in Seq(Event) /\ Len(ledger) \in Nat /\ Len(ledger) >= 1
      /\ markers \in Seq(Event \cup {TornFile}) /\ Len(markers) \in Nat
  BY DiskFacts
<1>2. markers[Len(markers)] # TornFile
  BY <1>1, MarkedIsWhole DEF AllMarked
<1>3. CommittedLength = Len(ledger)
  BY <1>2 DEF CommittedLength, AllMarked
<1>4. SubSeq(ledger, 1, Len(ledger)) = ledger
  BY <1>1, SubSeqFull
<1> QED
  BY <1>3, <1>4 DEF Committed

\* A revision of a legal history is not the first one.
LEMMA RevisionIsLater ==
  ASSUME NEW l \in Seq(Event), LegalHistory(l), NEW i \in DOMAIN l,
         l[i].type \in RevisionEventTypes
  PROVE  l[i].rev \in 2..MaxRevision
<1>1. i \in 1..Len(l) /\ Len(l) \in Nat /\ l[i] \in Event
  OBVIOUS
<1>2. SubSeq(l, 1, i - 1) \in Seq(Event)
  <2>1. i - 1 \in 0..Len(l)
    BY <1>1
  <2> QED
    BY <2>1, PrefixReads
<1>3. RevOf(SubSeq(l, 1, i - 1)) \in 1..MaxRevision
  BY <1>2, RevOfType
<1>4. l[i].rev = RevOf(SubSeq(l, 1, i - 1)) + 1
  BY DEF LegalHistory, Extends
<1>5. l[i].rev \in 1..MaxRevision /\ MaxRevision \in Nat
  BY <1>1, ConstantsAssumption DEF Event
<1> QED
  BY <1>3, <1>4, <1>5

\* A set of natural numbers has a least one.
LEMMA LeastNumber ==
  ASSUME NEW T \in SUBSET Nat, T # {}
  PROVE  \E x \in T : \A y \in T : x <= y
<1> DEFINE R == OpToRel(<, Nat)
<1>1. PICK x \in T : \A y \in T : ~ (<<y, x>> \in R)
  <2> HIDE DEF R
  <2>1. IsWellFoundedOn(R, Nat)
    BY NatLessThanWellFounded DEF R
  <2> QED
    BY <2>1, WFMin
<1>2. \A y \in T : ~ (y < x)
  BY <1>1 DEF OpToRel
<1> QED
  BY <1>2

LEMMA RevisionsAreNumbers ==
  ASSUME NEW l \in Seq(Event), NEW i \in DOMAIN l
  PROVE  l[i].rev \in Int
<1>1. l[i] \in Event
  <2> HIDE DEF Event
  <2> QED
    OBVIOUS
<1> QED
  BY <1>1, ConstantsAssumption DEF Event

\* The revision of a legal history never falls: the first event of an earlier
\* revision than one before it would follow one of a later revision.
LEMMA RevisionNeverFalls ==
  ASSUME NEW l \in Seq(Event), LegalHistory(l)
  PROVE  \A i, j \in DOMAIN l : i <= j => l[i].rev <= l[j].rev
<1> DEFINE T == {j \in DOMAIN l : \E i \in 1..j : l[i].rev > l[j].rev}
<1> HIDE DEF Event
<1>1. SUFFICES ASSUME T # {} PROVE FALSE
  <2>1. \A i \in DOMAIN l : l[i].rev \in Int
    BY RevisionsAreNumbers
  <2> QED
    BY <2>1
<1>2. T \in SUBSET Nat
  OBVIOUS
<1>3. PICK j \in T : \A k \in T : j <= k
  <2> HIDE DEF T
  <2> QED
    BY <1>1, <1>2, LeastNumber
<1>4. PICK i \in 1..j : l[i].rev > l[j].rev
  BY <1>3
<1>5. /\ j \in DOMAIN l /\ i \in DOMAIN l
      /\ l[i].rev \in Int /\ l[j].rev \in Int
  <2>1. j \in DOMAIN l /\ i \in DOMAIN l
    BY <1>3
  <2> QED
    BY <2>1, RevisionsAreNumbers
<1>6. i # j /\ j - 1 \in DOMAIN l /\ i \in 1..j-1
  BY <1>4, <1>5
<1>7. l[j].rev >= l[j - 1].rev /\ l[j - 1].rev \in Int
  <2>1. RevOf(SubSeq(l, 1, j - 1)) = l[j - 1].rev
    <3>1. SubSeq(l, 1, j - 1) # <<>> /\ Len(SubSeq(l, 1, j - 1)) = j - 1
          /\ SubSeq(l, 1, j - 1)[j - 1] = l[j - 1]
      BY <1>5, <1>6
    <3> QED
      BY <3>1 DEF RevOf
  <2>2. l[j - 1].rev \in Int
    BY <1>6, RevisionsAreNumbers
  <2> QED
    BY <1>5, <2>1, <2>2 DEF LegalHistory, Extends
<1>8. l[i].rev > l[j - 1].rev
  BY <1>4, <1>5, <1>7
<1>9. j - 1 \in T
  BY <1>6, <1>8
<1> QED
  BY <1>3, <1>9, <1>5

\* In a legal history every revision was made once.
LEMMA RevisedOnce ==
  ASSUME NEW l \in Seq(Event), LegalHistory(l), NEW i \in DOMAIN l, NEW j \in DOMAIN l,
         NEW r, Revises(l, i, r), Revises(l, j, r)
  PROVE  i = j
<1> HIDE DEF Event
<1>1. ASSUME NEW m \in DOMAIN l, NEW n \in DOMAIN l, m < n, l[n].type \in RevisionEventTypes
      PROVE  l[m].rev # l[n].rev
  <2>1. l[n].rev = RevOf(SubSeq(l, 1, n - 1)) + 1
    BY <1>1 DEF LegalHistory, Extends
  <2>2. n - 1 \in DOMAIN l /\ m <= n - 1 /\ l[n - 1].rev \in Int /\ l[m].rev \in Int
    <3>1. n - 1 \in DOMAIN l /\ m <= n - 1
      BY <1>1
    <3> QED
      BY <3>1, RevisionsAreNumbers
  <2>3. RevOf(SubSeq(l, 1, n - 1)) = l[n - 1].rev
    <3>1. SubSeq(l, 1, n - 1) # <<>> /\ Len(SubSeq(l, 1, n - 1)) = n - 1
          /\ SubSeq(l, 1, n - 1)[n - 1] = l[n - 1]
      BY <1>1, <2>2
    <3> QED
      BY <3>1 DEF RevOf
  <2>4. l[m].rev <= l[n - 1].rev
    BY <2>2, RevisionNeverFalls
  <2> QED
    BY <2>1, <2>2, <2>3, <2>4
<1>2. i \in Nat /\ j \in Nat
  OBVIOUS
<1> QED
  BY <1>1, <1>2 DEF Revises

LEMMA InitHistory == Init => HistoryInv
<1> SUFFICES ASSUME Init PROVE HistoryInv
  OBVIOUS
<1>1. LedgerInv
  BY InitInv
<1>2. /\ ledger \in Seq(Event) /\ LegalHistory(ledger) /\ UsedOnce(ledger)
      /\ ReservesOnce(ledger) /\ ReservesPrepared(ledger)
      /\ \A i \in DOMAIN ledger : ledger[i].cmd >= 0
  BY SeedsAssumption, HistoriesAssumption DEF Init
<1>3. GoodHistory(ledger)
  BY <1>2 DEF GoodHistory
<1>4. Bounded(ledger)
  <2>1. Cardinality(quarantine) = 0
    BY FS_EmptySet DEF Init
  <2>2. \A i \in DOMAIN ledger : ledger[i] \in Event
    BY <1>2
  <2>3. \A i \in DOMAIN ledger : ledger[i].cmd \in Int
    BY <2>2 DEF Event
  <2> QED
    BY <1>2, <2>1, <2>3 DEF Bounded
<1>5. SnapshotsOK
  <2>1. snapshots[1] = <<>>
    BY ConstantsAssumption DEF Init, SnapshotsOf
  <2>2. ASSUME NEW i \in DOMAIN ledger, ledger[i].type \in RevisionEventTypes
        PROVE  snapshots[ledger[i].rev] = SubSeq(ledger, 1, i - 1)
    <3> DEFINE r == ledger[i].rev
               w == CHOOSE j \in DOMAIN ledger : Revises(ledger, j, r)
    <3>1. r \in 2..MaxRevision /\ MaxRevision \in Nat
      BY <1>2, <2>2, RevisionIsLater, ConstantsAssumption
    <3>2. Revises(ledger, i, r)
      BY <2>2 DEF Revises
    <3>3. w \in DOMAIN ledger /\ Revises(ledger, w, r)
      BY <3>2
    <3>4. r \in 1..MaxRevision /\ r # 1
      BY <3>1
    <3>5. SnapshotsOf(ledger)[r] = SubSeq(ledger, 1, w - 1)
      BY <3>2, <3>4 DEF SnapshotsOf
    <3> HIDE DEF r, w
    <3>6. w = i
      BY <1>2, <3>2, <3>3, RevisedOnce
    <3> QED
      BY <3>5, <3>6 DEF Init, r
  <2> QED
    BY <2>1, <2>2 DEF SnapshotsOK, SnapshotsBind
<1>6. RequestsOK /\ PendingOK
  BY DEF Init, RequestsOK, PendingOK, PendingAt
<1>7. Committed # <<>>
  <2>1. AllMarked /\ ledger # <<>>
    BY <1>1, DiskFacts DEF Init, AllMarked, Marked
  <2> QED
    BY <1>1, <2>1, WholeIsCommitted
<1> QED
  BY <1>1, <1>3, <1>4, <1>5, <1>6, <1>7 DEF HistoryInv

-----------------------------------------------------------------------------
(* How steps keep the invariant.                                           *)

\* A caller moves, and the lock holder's write is as it was.
LEMMA CallerHistory ==
  ASSUME HistoryInv, LedgerInv', NEW p \in Procs, pc[p] \in {"idle", "want"},
         NEW s \in {"idle", "want"}, pc' = [pc EXCEPT ![p] = s],
         NEW r, req' = [req EXCEPT ![p] = r],
         s = "want" \/ r # NoRequest => Asked(r),
         UNCHANGED <<disk, plan>>
  PROVE  HistoryInv'
<1> USE DEF HistoryInv
<1>1. \A q \in Procs : /\ q # p => pc'[q] = pc[q] /\ req'[q] = req[q]
                       /\ q = p => pc'[q] = s /\ req'[q] = r
  BY DEF LedgerInv, TypeOK
<1>2. RequestsOK'
  BY <1>1 DEF RequestsOK, Asked
<1>3. /\ UNCHANGED <<ledger, markers, snapshots, quarantine>>
      /\ UNCHANGED Committed
  BY DEF disk, Committed, CommittedLength
<1>4. GoodHistory(ledger)' /\ Bounded(ledger)' /\ SnapshotsOK'
  BY <1>3 DEF Bounded, SnapshotsOK
<1>5. PendingOK'
  <2> SUFFICES ASSUME NEW q \in Procs PROVE PendingAt(q, pc[q])'
    BY DEF PendingOK
  <2>1. CASE q = p
    BY <1>1, <2>1 DEF PendingAt
  <2>2. CASE q # p
    <3>1. pc'[q] = pc[q] /\ req'[q] = req[q] /\ PendingAt(q, pc[q])
      BY <1>1, <2>2 DEF PendingOK
    <3> QED
      BY <1>3, <3>1 DEF PendingAt, Fresh
  <2> QED
    BY <2>1, <2>2
<1> QED
  BY <1>2, <1>3, <1>4, <1>5

\* The lock holder goes on, or leaves.
LEMMA HolderHistory ==
  ASSUME HistoryInv, LedgerInv', NEW p \in Procs, pc[p] # "idle",
         \A q \in Procs : q # p => pc[q] \in {"idle", "want"},
         NEW s, pc' = [pc EXCEPT ![p] = s], UNCHANGED req,
         GoodHistory(ledger)', Bounded(ledger)', SnapshotsOK',
         PendingAt(p, s)', Committed' # <<>>
  PROVE  HistoryInv'
<1>1. \A q \in Procs : pc'[q] = IF q = p THEN s ELSE pc[q]
  BY DEF HistoryInv, LedgerInv, TypeOK
<1>2. RequestsOK'
  BY <1>1 DEF HistoryInv, RequestsOK, Asked
<1>3. PendingOK'
  <2> SUFFICES ASSUME NEW q \in Procs PROVE PendingAt(q, pc[q])'
    BY DEF PendingOK
  <2>1. CASE q = p
    BY <1>1, <2>1
  <2>2. CASE q # p
    <3>1. pc'[q] \in {"idle", "want"}
      BY <1>1, <2>2
    <3> QED
      BY <3>1 DEF PendingAt
  <2> QED
    BY <2>1, <2>2
<1> QED
  BY <1>2, <1>3 DEF HistoryInv

\* What is committed stays, so it never becomes empty.
LEMMA StaysCommitted ==
  ASSUME HistoryInv, LedgerInv', [Next]_vars
  PROVE  Committed' # <<>>
<1>1. Len(Committed) <= Len(Committed')
  BY GrowthStep DEF HistoryInv
<1>2. CommittedOK
  BY CommittedFacts DEF HistoryInv
<1>3. Len(Committed) \in Nat /\ Len(Committed) # 0
  BY <1>2 DEF CommittedOK, HistoryInv
<1> QED
  BY <1>1, <1>3

-----------------------------------------------------------------------------
(* The callers.                                                            *)

LEMMA AskHistory ==
  ASSUME HistoryInv, LedgerInv', NEW p \in Procs, NEW r, Ask(p, r), Asked(r)
  PROVE  HistoryInv'
BY CallerHistory DEF Ask

LEMMA SubmitHistory ==
  ASSUME HistoryInv, LedgerInv', NEW p \in Procs, Submit(p)
  PROVE  HistoryInv'
<1> USE DEF Asked, Observed
<1>1. \A c \in CommandIds : c > 0
  BY ConstantsAssumption
<1>2. CASE RequestAdvance(p)
  <2>1. PICK c \in CommandIds, k \in AdvanceKinds :
          Ask(p, Observed("advance", c, k[1], k[2], NoAction))
    BY <1>2 DEF RequestAdvance
  <2>2. k[1] \notin RevisionEventTypes \cup RecoveryEventTypes
                     \cup {"ACTION_AUTHORITY_RESERVED"}
    BY KindsAssumption
  <2>3. Asked(Observed("advance", c, k[1], k[2], NoAction))
    BY <1>1, <2>2
  <2> QED
    BY <2>1, <2>3, AskHistory
<1>3. CASE RequestReserve(p)
  <2>1. PICK c \in CommandIds, a \in Actions :
          Ask(p, Observed("reserve", c, "ACTION_AUTHORITY_RESERVED", "ACTION_RESERVED", a))
    BY <1>3 DEF RequestReserve
  <2>2. Asked(Observed("reserve", c, "ACTION_AUTHORITY_RESERVED", "ACTION_RESERVED", a))
    BY <1>1
  <2> QED
    BY <2>1, <2>2, AskHistory
<1>4. CASE RequestRevise(p)
  <2>1. PICK c \in CommandIds :
          /\ ReuseIds \/ Unused(c)
          /\ Ask(p, Observed("revise", c, SourceRevised, "EVIDENCE_BLOCKED", NoAction))
    BY <1>4 DEF RequestRevise, RequestRevision
  <2>2. Asked(Observed("revise", c, SourceRevised, "EVIDENCE_BLOCKED", NoAction))
    BY <1>1, <2>1 DEF Unused
  <2> QED
    BY <2>1, <2>2, AskHistory
<1>5. CASE RequestReopen(p)
  <2>1. PICK c \in CommandIds :
          /\ ReuseIds \/ Unused(c)
          /\ Ask(p, Observed("reopen", c, CaseReopened, "EVIDENCE_BLOCKED", NoAction))
    BY <1>5 DEF RequestReopen, RequestRevision
  <2>2. Asked(Observed("reopen", c, CaseReopened, "EVIDENCE_BLOCKED", NoAction))
    BY <1>1, <2>1 DEF Unused
  <2> QED
    BY <2>1, <2>2, AskHistory
<1>6. CASE RequestRecover(p)
  BY <1>6, AskHistory DEF RequestRecover
<1>7. CASE RequestFreeze(p)
  BY <1>7, AskHistory DEF RequestFreeze
<1>8. CASE Retry(p)
  <2>1. Asked(req[p]) /\ req' = [req EXCEPT ![p] = req[p]]
    BY <1>8 DEF Retry, HistoryInv, RequestsOK, LedgerInv, TypeOK
  <2> QED
    BY <1>8, <2>1, CallerHistory DEF Retry
<1> QED
  BY <1>2, <1>3, <1>4, <1>5, <1>6, <1>7, <1>8 DEF Submit

\* A caller that is told, or gives up.
LEMMA AnsweredHistory ==
  ASSUME HistoryInv, LedgerInv', NEW p \in Procs,
         Repeat(p) \/ Reject(p) \/ LockTimeout(p)
  PROVE  HistoryInv'
<1>1. /\ pc[p] = "want" /\ pc' = [pc EXCEPT ![p] = "idle"]
      /\ req' = [req EXCEPT ![p] = req[p]]
      /\ UNCHANGED <<disk, plan>>
  BY DEF Repeat, Reject, LockTimeout, HistoryInv, LedgerInv, TypeOK
<1>2. req[p] # NoRequest => Asked(req[p])
  BY DEF HistoryInv, RequestsOK
<1> QED
  BY <1>1, <1>2, CallerHistory

-----------------------------------------------------------------------------
(* Taking the lock.                                                        *)

\* The last event of a history that is not empty.
LEMMA LastReads ==
  ASSUME NEW l \in Seq(Event), l # <<>>
  PROVE  /\ Len(l) \in Nat \ {0} /\ l[Len(l)] \in Event
         /\ StateOf(l) = l[Len(l)].to /\ RevOf(l) = l[Len(l)].rev
         /\ StateOf(l) # Start
<1>1. Len(l) \in Nat \ {0} /\ l[Len(l)] \in Event
  OBVIOUS
<1>2. StateOf(l) # Start
  BY <1>1 DEF StateOf, Event, WorkflowState, Start
<1> QED
  BY <1>1, <1>2 DEF StateOf, RevOf

\* A recovery trace repeats the state and the revision before it.
LEMMA TraceRepeats ==
  ASSUME NEW l \in Seq(Event), LegalHistory(l), l # <<>>,
         l[Len(l)].type \in RecoveryEventTypes
  PROVE  /\ Len(l) - 1 \in 1..Len(l)
         /\ l[Len(l) - 1].to = l[Len(l)].to /\ l[Len(l) - 1].rev = l[Len(l)].rev
<1> DEFINE n == Len(l)
           k == SubSeq(l, 1, n - 1)
<1>1. n \in Nat \ {0} /\ n - 1 \in 0..n /\ DOMAIN l = 1..n
  BY LastReads
<1>2. k \in Seq(Event) /\ Len(k) = n - 1 /\ \A i \in 1..n - 1 : k[i] = l[i]
  BY <1>1, PrefixReads
<1>3. Extends(k, l[n])
  BY <1>1 DEF LegalHistory
<1> HIDE DEF n, k
<1>4. /\ l[n].to = StateOf(k) /\ StateOf(k) # Start
      /\ l[n].rev = RevOf(k)
  BY <1>3 DEF Extends, CanApply, NonTransitionEventTypes, RecoveryEventTypes,
              RevisionEventTypes, SourceRevised, CaseReopened, n
<1>5. k # <<>>
  BY <1>4 DEF StateOf
<1>6. n - 1 # 0
  BY <1>2, <1>5
<1>7. l[n - 1].to = l[n].to /\ l[n - 1].rev = l[n].rev
  BY <1>1, <1>2, <1>4, <1>5, <1>6 DEF StateOf, RevOf
<1> QED
  BY <1>1, <1>6, <1>7 DEF n

\* An accepted reservation consumes nothing twice, and its contract binds a
\* head in ACTION_PREPARED.
LEMMA AcceptedReservation ==
  ASSUME HistoryInv, NEW r \in Request, Asked(r), r.op = "reserve", AcceptsReserve(r)
  PROVE  GoodReservation(ledger, EventFor(r))
<1> DEFINE e == EventFor(r)
           n == Len(ledger)
<1>1. /\ ledger \in Seq(Event) /\ ledger # <<>> /\ DOMAIN ledger = 1..n
      /\ LegalHistory(ledger) /\ n \in Nat \ {0}
  BY DiskFacts DEF HistoryInv, GoodHistory
<1>2. /\ StateOf(ledger) = ledger[n].to /\ RevOf(ledger) = ledger[n].rev
      /\ ledger[n].to = "ACTION_PREPARED"
  BY <1>1, LastReads DEF AcceptsReserve
<1>3. e.act = r.act /\ e.at = Len(r.head) /\ e.rev = ledger[n].rev
  BY <1>2 DEF EventFor
<1>4. /\ e.at \in 1..n
      /\ ledger[e.at].to = "ACTION_PREPARED"
      /\ ledger[e.at].rev = e.rev
      /\ \A j \in e.at + 1 .. n : ledger[j].type \in RecoveryEventTypes
  <2>1. CASE r.head = ledger
    BY <1>1, <1>2, <1>3, <2>1
  <2>2. CASE AfterRecovery /\ r.head = SubSeq(ledger, 1, n - 1)
    <3>1. /\ n - 1 \in 1..n /\ ledger[n].type \in RecoveryEventTypes
          /\ ledger[n - 1].to = ledger[n].to /\ ledger[n - 1].rev = ledger[n].rev
      BY <1>1, <2>2, TraceRepeats DEF AfterRecovery
    <3>2. Len(r.head) = n - 1
      BY <1>1, <2>2, PrefixReads
    <3>3. \A m \in Nat : \A j \in m - 1 + 1 .. m : j = m
      OBVIOUS
    <3> QED
      BY <1>2, <1>3, <3>1, <3>2, <3>3
  <2> QED
    BY <2>1, <2>2 DEF AcceptsReserve, BindsHead
<1>5. \A i \in DOMAIN ledger : ReservedAt(ledger, i) =>
        /\ IdempotencyKey[ledger[i].act] # IdempotencyKey[e.act]
        /\ BusinessKey[ledger[i].act] # BusinessKey[e.act]
        /\ Authority[ledger[i].act] # Authority[e.act]
  BY <1>3 DEF AcceptsReserve, Reservations, ReservedAt, Conflicts
<1> QED
  BY <1>4, <1>5 DEF GoodReservation

\* The event of an accepted request is a legal next one, under a command id
\* not in use: a revision is taken only on the very history its caller read.
LEMMA AcceptedExtends ==
  ASSUME HistoryInv, NEW r \in Request, Asked(r), Accepts(r),
         r.op \in {"advance", "reserve", "revise", "reopen"}
  PROVE  /\ Extends(ledger, EventFor(r))
         /\ ReuseIds \/ IdIsNew(ledger, EventFor(r).cmd)
<1> DEFINE e == EventFor(r)
<1>1. e.cmd = r.cmd /\ e.type = r.type /\ e.to = r.to
  BY DEF EventFor
<1>2. CASE r.op = "advance"
  <2>1. AcceptsAdvance(r) /\ r.type \notin RevisionEventTypes
    BY <1>2 DEF Accepts, Asked
  <2>2. e.rev = RevOf(ledger)
    BY <1>2 DEF EventFor
  <2> HIDE DEF e
  <2> QED
    BY <1>1, <2>1, <2>2 DEF e, AcceptsAdvance, Extends, Unused, IdIsNew
<1>3. CASE r.op = "reserve"
  <2>1. AcceptsReserve(r) /\ r.type = "ACTION_AUTHORITY_RESERVED" /\ r.to = "ACTION_RESERVED"
    BY <1>3 DEF Accepts, Asked
  <2>2. e.rev = RevOf(ledger)
    BY <1>3 DEF EventFor
  <2> HIDE DEF e
  <2>3. Extends(ledger, e)
    BY <1>1, <2>1, <2>2
       DEF AcceptsReserve, Extends, CanApply, CanTransition, Legal, RevisionEventTypes,
           NonTransitionEventTypes, RecoveryEventTypes, SourceRevised, CaseReopened
  <2> QED
    BY <1>1, <2>1, <2>3 DEF e, AcceptsReserve, Unused, IdIsNew
<1>4. CASE r.op = "revise"
  <2>1. AcceptsRevise(r) /\ r.type = SourceRevised /\ r.to = "EVIDENCE_BLOCKED"
    BY <1>4 DEF Accepts, Asked
  <2>2. e.rev = RevOf(ledger) + 1
    BY <1>4 DEF EventFor
  <2> HIDE DEF e
  <2>3. Extends(ledger, e)
    BY <1>1, <2>1, <2>2
       DEF AcceptsRevise, Extends, CanApply, RevisionEventTypes,
           NonTransitionEventTypes, RecoveryEventTypes, SourceRevised, CaseReopened
  <2>4. ReuseIds \/ IdIsNew(ledger, r.cmd)
    BY <1>4, <2>1 DEF Asked, AcceptsRevise, Current, IdIsNew
  <2> QED
    BY <1>1, <2>3, <2>4 DEF e
<1>5. CASE r.op = "reopen"
  <2>1. AcceptsReopen(r) /\ r.type = CaseReopened /\ r.to = "EVIDENCE_BLOCKED"
    BY <1>5 DEF Accepts, Asked
  <2>2. e.rev = RevOf(ledger) + 1
    BY <1>5 DEF EventFor
  <2> HIDE DEF e
  <2>3. Extends(ledger, e)
    BY <1>1, <2>1, <2>2
       DEF AcceptsReopen, Extends, CanApply, RevisionEventTypes,
           NonTransitionEventTypes, RecoveryEventTypes, SourceRevised, CaseReopened
  <2>4. ReuseIds \/ IdIsNew(ledger, r.cmd)
    BY <1>5, <2>1 DEF Asked, AcceptsReopen, Current, IdIsNew
  <2> QED
    BY <1>1, <2>3, <2>4 DEF e
<1> QED
  BY <1>2, <1>3, <1>4, <1>5

\* The whole of what the lock holder needs of an accepted request.
LEMMA AcceptedGood ==
  ASSUME HistoryInv, NEW r \in Request, Asked(r), Accepts(r), Room(r),
         r.op \in {"advance", "reserve", "revise", "reopen"}
  PROVE  /\ GoodHistory(Append(ledger, EventFor(r)))
         /\ EventFor(r).cmd >= 0 - Cardinality(quarantine)
         /\ r.op \in DecidedOps => r.head = ledger
         /\ r.op \in {"advance", "reserve"} => EventFor(r).type \notin RevisionEventTypes
<1> DEFINE e == EventFor(r)
<1>1. ledger \in Seq(Event) /\ GoodHistory(ledger)
  BY DiskFacts DEF HistoryInv
<1>2. e \in Event
  BY <1>1, EventForType
<1>3. e.type = r.type /\ e.cmd = r.cmd
  BY DEF EventFor
<1>4. e.type = "ACTION_AUTHORITY_RESERVED" => GoodReservation(ledger, e)
  <2>1. e.type = "ACTION_AUTHORITY_RESERVED" => r.op = "reserve"
    BY <1>3 DEF Asked, SourceRevised, CaseReopened
  <2>2. r.op = "reserve" => AcceptsReserve(r)
    BY DEF Accepts
  <2> QED
    BY <2>1, <2>2, AcceptedReservation
<1>5. Extends(ledger, e) /\ (ReuseIds \/ IdIsNew(ledger, e.cmd))
  BY AcceptedExtends
<1>6. e.cmd >= 0 - Cardinality(quarantine)
  <2>1. Cardinality(quarantine) \in Nat
    BY FS_CardinalityType DEF HistoryInv, LedgerInv, TypeOK, DiskTypeOK
  <2>2. r.cmd > 0 /\ r.cmd \in Int
    BY DEF Asked, Request
  <2> HIDE DEF e
  <2> QED
    BY <1>3, <2>1, <2>2
<1>7. r.op \in DecidedOps => r.head = ledger
  BY DEF DecidedOps, Accepts, AcceptsAdvance, AcceptsRevise, AcceptsReopen, Current
<1>8. r.op \in {"advance", "reserve"} => e.type \notin RevisionEventTypes
  BY <1>3 DEF Asked, RevisionEventTypes, SourceRevised, CaseReopened
<1> HIDE DEF e
<1>9. GoodHistory(Append(ledger, e))
  BY <1>1, <1>2, <1>4, <1>5, GoodAppend
<1> QED
  BY <1>6, <1>7, <1>8, <1>9 DEF e

LEMMA BeginHistory ==
  ASSUME HistoryInv, LedgerInv', NEW p \in Procs, Begin(p), [Next]_vars
  PROVE  HistoryInv'
<1> DEFINE r == req[p]
<1>1. /\ pc[p] = "want" /\ lock = NoProc /\ pc' = [pc EXCEPT ![p] = FirstStep(r.op)]
      /\ plan' = EventFor(r) /\ UNCHANGED <<disk, req>>
      /\ Accepts(r) /\ Room(r)
  BY DEF Begin
<1>2. r \in Request /\ Asked(r)
  BY <1>1 DEF HistoryInv, LedgerInv, LockOK, RequestsOK
<1>3. \A q \in Procs : q # p => pc[q] \in {"idle", "want"}
  BY <1>1, ConstantsAssumption DEF HistoryInv, LedgerInv, LockOK, Writing, TypeOK
<1>4. UNCHANGED <<ledger, snapshots, quarantine>>
  BY <1>1 DEF disk
<1>5. GoodHistory(ledger)' /\ Bounded(ledger)' /\ SnapshotsOK'
  BY <1>4 DEF HistoryInv, Bounded, SnapshotsOK
<1>6. PICK s : s = FirstStep(r.op)
  OBVIOUS
<1>7. PendingAt(p, s)'
  <2>1. CASE r.op \in {"advance", "reserve", "revise", "reopen"}
    <3>1. /\ GoodHistory(Append(ledger, EventFor(r)))
          /\ EventFor(r).cmd >= 0 - Cardinality(quarantine)
          /\ r.op \in DecidedOps => r.head = ledger
          /\ r.op \in {"advance", "reserve"} => EventFor(r).type \notin RevisionEventTypes
      BY <1>1, <1>2, <2>1, AcceptedGood
    <3>2. \/ s = "append" /\ r.op \in {"advance", "reserve"}
          \/ s = "snapshot" /\ r.op \in {"revise", "reopen"}
      BY <1>6, <2>1 DEF FirstStep
    <3>3. r.op \in {"advance", "reserve"}
            => SnapshotsBind(Append(ledger, EventFor(r)), snapshots)
      BY <1>1, <1>2, <3>1, DiskFacts, EventForType, SnapshotsAppend
         DEF HistoryInv, SnapshotsOK
    <3>4. req'[p] = r
      BY <1>1
    <3> HIDE DEF r
    <3>5. GoodHistory(Append(ledger, plan))'
      BY <1>1, <1>4, <3>1
    <3>6. (plan.cmd >= 0 - Cardinality(quarantine))'
      BY <1>1, <1>4, <3>1
    <3>7. s = "append" => SnapshotsBind(Append(ledger, plan), snapshots)'
      BY <1>1, <1>4, <3>2, <3>3
    <3> QED
      BY <1>4, <3>1, <3>2, <3>4, <3>5, <3>6, <3>7 DEF PendingAt
  <2>2. CASE r.op \in {"recover", "freeze"}
    BY <1>1, <1>6, <2>2 DEF FirstStep, PendingAt
  <2> QED
    BY <1>2, <2>1, <2>2 DEF Request
<1>8. Committed' # <<>>
  BY StaysCommitted
<1> QED
  BY <1>1, <1>3, <1>5, <1>6, <1>7, <1>8, HolderHistory

-----------------------------------------------------------------------------
(* The writes of the lock holder.                                          *)

\* The parts of the invariant the writes use.
LEMMA HistoryFacts ==
  ASSUME HistoryInv
  PROVE  /\ LedgerInv /\ ledger \in Seq(Event) /\ DOMAIN ledger = 1..Len(ledger)
         /\ Len(ledger) \in Nat /\ Len(ledger) >= 1
         /\ GoodHistory(ledger) /\ Bounded(ledger) /\ SnapshotsOK
         /\ \A p \in Procs : PendingAt(p, pc[p])
         /\ IsFiniteSet(quarantine) /\ Cardinality(quarantine) \in Nat
         /\ \A i \in 1..Len(ledger) : ledger[i] \in Event /\ ledger[i].cmd \in Int
<1>1. LedgerInv /\ ledger \in Seq(Event) /\ IsFiniteSet(quarantine)
  BY DEF HistoryInv, LedgerInv, TypeOK, DiskTypeOK
<1>2. Cardinality(quarantine) \in Nat
  BY <1>1, FS_CardinalityType
<1>3. \A i \in 1..Len(ledger) : ledger[i] \in Event
  BY <1>1
<1>4. \A i \in 1..Len(ledger) : ledger[i].cmd \in Int
  BY <1>3 DEF Event
<1> QED
  BY <1>1, <1>2, <1>3, <1>4, DiskFacts DEF HistoryInv, PendingOK

\* The quarantine only grows, so the ids of the ledger stay bounded.
LEMMA BoundedGrows ==
  ASSUME HistoryInv, UNCHANGED ledger, quarantine \subseteq quarantine',
         IsFiniteSet(quarantine')
  PROVE  Bounded(ledger)'
<1>1. /\ Cardinality(quarantine) \in Nat /\ Cardinality(quarantine') \in Nat
      /\ Cardinality(quarantine) <= Cardinality(quarantine')
  BY FS_Subset, FS_CardinalityType
<1> QED
  BY <1>1, HistoryFacts DEF Bounded

\* A snapshot is written to a name that no revision of the ledger has.
LEMMA SnapshotKept ==
  ASSUME HistoryInv, plan \in Event, snapshots[plan.rev] = NoFile, NEW x,
         snapshots' = [snapshots EXCEPT ![plan.rev] = x], UNCHANGED ledger
  PROVE  SnapshotsOK' /\ snapshots'[plan.rev] = x
<1>1. /\ ledger \in Seq(Event) /\ SnapshotsOK
      /\ DOMAIN snapshots = 1..MaxRevision /\ plan.rev \in 1..MaxRevision
  BY HistoryFacts DEF HistoryInv, LedgerInv, TypeOK, DiskTypeOK, Event
<1>2. \A r : snapshots[r] \in Seq(Event) => snapshots'[r] = snapshots[r]
  BY <1>1, FilesAssumption
<1>3. <<>> \in Seq(Event)
  OBVIOUS
<1>4. \A i \in DOMAIN ledger : SubSeq(ledger, 1, i - 1) \in Seq(Event)
  <2> SUFFICES ASSUME NEW i \in 1..Len(ledger)
               PROVE  SubSeq(ledger, 1, i - 1) \in Seq(Event)
    BY HistoryFacts
  <2>1. i - 1 \in 0..Len(ledger)
    BY HistoryFacts
  <2> QED
    BY <1>1, <2>1, PrefixReads
<1>5. snapshots'[1] = <<>>
  BY <1>1, <1>2, <1>3 DEF SnapshotsOK
<1>6. SnapshotsBind(ledger, snapshots')
  BY <1>1, <1>2, <1>4 DEF SnapshotsOK, SnapshotsBind
<1> QED
  BY <1>1, <1>5, <1>6 DEF SnapshotsOK

\* The holder leaves with the ledger as it is.
LEMMA LeaveHistory ==
  ASSUME HistoryInv, LedgerInv', NEW p \in Procs, pc[p] \in Writing, Leave(p),
         UNCHANGED <<ledger, req>>, quarantine \subseteq quarantine',
         SnapshotsOK', [Next]_vars
  PROVE  HistoryInv'
<1>1. pc[p] # "idle" /\ \A q \in Procs : q # p => pc[q] \in {"idle", "want"}
  BY HistoryFacts, HolderAlone DEF Writing
<1>2. IsFiniteSet(quarantine')
  BY DEF LedgerInv, TypeOK, DiskTypeOK
<1>3. GoodHistory(ledger)' /\ Bounded(ledger)'
  BY <1>2, HistoryFacts, BoundedGrows
<1>4. PendingAt(p, "idle")'
  BY DEF PendingAt
<1>5. Committed' # <<>>
  BY StaysCommitted
<1> QED
  BY <1>1, <1>3, <1>4, <1>5, HolderHistory DEF Leave

LEMMA LeavingHistory ==
  ASSUME HistoryInv, LedgerInv', NEW p \in Procs, [Next]_vars,
         \/ SnapshotExists(p) \/ WriteCheckpoint(p) \/ ProjectionFails(p)
         \/ QuarantineExists(p) \/ WriteFreeze(p)
  PROVE  HistoryInv'
<1>1. /\ pc[p] \in Writing /\ Leave(p)
      /\ UNCHANGED <<ledger, snapshots, quarantine, req>>
  BY DEF SnapshotExists, WriteCheckpoint, ProjectionFails, QuarantineExists,
         WriteFreeze, disk, Writing, Step
<1>2. SnapshotsOK'
  BY <1>1, HistoryFacts DEF SnapshotsOK
<1> QED
  BY <1>1, <1>2, LeaveHistory

LEMMA CrashHistory ==
  ASSUME HistoryInv, LedgerInv', NEW p \in Procs, [Next]_vars, Fail(p)
  PROVE  HistoryInv'
<1>1. Crash(p) /\ UNCHANGED ledger /\ quarantine \subseteq quarantine'
  BY DEF Fail, CrashBetweenWrites, CrashInAppend, CrashInWriteOnce, disk
<1>2. pc[p] \in Writing /\ plan \in Event /\ Leave(p) /\ UNCHANGED req
  BY <1>1, HistoryFacts, CrashFacts DEF Crash
<1>3. CASE UNCHANGED snapshots
  BY <1>1, <1>2, <1>3, HistoryFacts, LeaveHistory DEF SnapshotsOK
<1>4. CASE snapshots[plan.rev] = NoFile
           /\ snapshots' = [snapshots EXCEPT ![plan.rev] = TornFile]
  BY <1>1, <1>2, <1>4, SnapshotKept, LeaveHistory
<1> QED
  BY <1>3, <1>4 DEF Fail, CrashBetweenWrites, CrashInAppend, CrashInWriteOnce, disk

\* The holder goes on to step s.
LEMMA GoesOnHistory ==
  ASSUME HistoryInv, LedgerInv', NEW p \in Procs, pc[p] \in Writing,
         NEW s, Goto(p, s), UNCHANGED req, GoodHistory(ledger)', Bounded(ledger)',
         SnapshotsOK', PendingAt(p, s)', [Next]_vars
  PROVE  HistoryInv'
<1>1. pc[p] # "idle" /\ \A q \in Procs : q # p => pc[q] \in {"idle", "want"}
  BY HistoryFacts, HolderAlone DEF Writing
<1>2. Committed' # <<>>
  BY StaysCommitted
<1> QED
  BY <1>1, <1>2, HolderHistory DEF Goto

LEMMA WriteSnapshotHistory ==
  ASSUME HistoryInv, LedgerInv', NEW p \in Procs, [Next]_vars, WriteSnapshot(p)
  PROVE  HistoryInv'
<1>1. /\ pc[p] = "snapshot" /\ pc[p] \in Writing /\ snapshots[plan.rev] = NoFile
      /\ snapshots' = [snapshots EXCEPT ![plan.rev] = req[p].head]
      /\ Goto(p, "append") /\ UNCHANGED <<ledger, quarantine, req, plan>>
  BY DEF WriteSnapshot, Writing, Step
<1>2. plan \in Event /\ PendingAt(p, "snapshot")
  BY <1>1, HistoryFacts, HolderAlone
<1>3. /\ GoodHistory(Append(ledger, plan)) /\ req[p].head = ledger
      /\ plan.cmd >= 0 - Cardinality(quarantine)
  BY <1>2 DEF PendingAt, DecidedOps
<1>4. SnapshotsOK' /\ snapshots'[plan.rev] = ledger
  BY <1>1, <1>2, <1>3, SnapshotKept
<1>5. SnapshotsBind(Append(ledger, plan), snapshots')
  BY <1>1, <1>2, <1>4, HistoryFacts, SnapshotsAppend DEF SnapshotsOK
<1>6. PendingAt(p, "append")'
  BY <1>1, <1>3, <1>5 DEF PendingAt
<1>7. GoodHistory(ledger)' /\ Bounded(ledger)'
  BY <1>1, HistoryFacts DEF Bounded
<1> QED
  BY <1>1, <1>4, <1>6, <1>7, GoesOnHistory

LEMMA AppendEventHistory ==
  ASSUME HistoryInv, LedgerInv', NEW p \in Procs, [Next]_vars, AppendEvent(p)
  PROVE  HistoryInv'
<1>1. /\ pc[p] = "append" /\ pc[p] \in Writing
      /\ ledger' = Append(ledger, plan)
      /\ Goto(p, "mark") /\ UNCHANGED <<snapshots, quarantine, req, plan>>
  BY DEF AppendEvent, Writing, Step
<1>2. plan \in Event /\ PendingAt(p, "append")
  BY <1>1, HistoryFacts, HolderAlone
<1>3. /\ GoodHistory(Append(ledger, plan))
      /\ SnapshotsBind(Append(ledger, plan), snapshots)
      /\ plan.cmd >= 0 - Cardinality(quarantine)
      /\ req[p].op \in DecidedOps => req[p].head = ledger
  BY <1>2 DEF PendingAt
<1>4. GoodHistory(ledger)'
  BY <1>1, <1>3
<1>5. SnapshotsOK'
  BY <1>1, <1>3, HistoryFacts DEF SnapshotsOK
<1>6. Bounded(ledger)'
  <2>1. DOMAIN ledger' = 1..Len(ledger) + 1 /\ ledger'[Len(ledger) + 1] = plan
        /\ \A i \in 1..Len(ledger) : ledger'[i] = ledger[i]
    BY <1>1, <1>2, HistoryFacts, AppendReads
  <2> QED
    BY <1>1, <1>3, <2>1, HistoryFacts DEF Bounded
<1>7. PendingAt(p, "mark")'
  BY <1>1, <1>3 DEF PendingAt
<1> QED
  BY <1>1, <1>4, <1>5, <1>6, <1>7, GoesOnHistory

LEMMA WriteMarkerHistory ==
  ASSUME HistoryInv, LedgerInv', NEW p \in Procs, [Next]_vars, WriteMarker(p)
  PROVE  HistoryInv'
<1>1. /\ pc[p] \in Writing /\ Goto(p, "checkpoint")
      /\ UNCHANGED <<ledger, snapshots, quarantine, req>>
  BY DEF WriteMarker, Writing, Step
<1>2. GoodHistory(ledger)' /\ Bounded(ledger)' /\ SnapshotsOK'
  BY <1>1, HistoryFacts DEF Bounded, SnapshotsOK
<1>3. PendingAt(p, "checkpoint")'
  BY DEF PendingAt
<1> QED
  BY <1>1, <1>2, <1>3, GoesOnHistory

\* The quarantine has no file of these bytes yet, so the id of this recovery
\* is below all others.
LEMMA WriteQuarantineHistory ==
  ASSUME HistoryInv, LedgerInv', NEW p \in Procs, [Next]_vars, WriteQuarantine(p)
  PROVE  HistoryInv'
<1>1. /\ pc[p] = "quarantine" /\ pc[p] \in Writing /\ Goto(p, "truncate")
      /\ \A q \in quarantine : q.tail # Unmarked
      /\ quarantine' = quarantine \cup {[tail |-> Unmarked, whole |-> TRUE]}
      /\ UNCHANGED <<ledger, snapshots, req>>
  BY DEF WriteQuarantine, Writing, Step
<1>2. Cardinality(quarantine') = Cardinality(quarantine) + 1
  <2>1. [tail |-> Unmarked, whole |-> TRUE] \notin quarantine
    BY <1>1
  <2> QED
    BY <1>1, <2>1, HistoryFacts, FS_AddElement
<1>3. Bounded(ledger)' /\ Fresh(ledger)'
  <2>1. ASSUME NEW c \in Int, NEW n \in Nat, c >= 0 - n
        PROVE  c >= 0 - (n + 1) /\ c > 0 - (n + 1)
    BY <2>1
  <2>2. \A i \in 1..Len(ledger) :
          /\ ledger[i].cmd >= 0 - (Cardinality(quarantine) + 1)
          /\ ledger[i].cmd > 0 - (Cardinality(quarantine) + 1)
    BY <2>1, HistoryFacts DEF Bounded
  <2> QED
    BY <1>1, <1>2, <2>2, HistoryFacts DEF Bounded, Fresh
<1>4. GoodHistory(ledger)' /\ SnapshotsOK'
  BY <1>1, HistoryFacts DEF SnapshotsOK
<1>5. req[p].op = "recover"
  BY <1>1, HistoryFacts DEF PendingAt
<1>6. PendingAt(p, "truncate")'
  BY <1>1, <1>3, <1>5 DEF PendingAt, DecidedOps
<1> QED
  BY <1>1, <1>3, <1>4, <1>6, GoesOnHistory

\* The ledger is cut back to its marked events, a prefix.
LEMMA TruncatedPrefix ==
  ASSUME HistoryInv, NEW p \in Procs, TruncateTail(p)
  PROVE  \E n \in 1..Len(ledger) : ledger' = SubSeq(ledger, 1, n)
<1>1. FilesAt("truncate")
  BY DiskFacts DEF TruncateTail, HistoryInv
<1>2. CASE tail # NoTail
  <2>1. ledger' = SubSeq(ledger, 1, Len(ledger))
    BY <1>2, HistoryFacts, SubSeqFull DEF TruncateTail
  <2>2. Len(ledger) \in 1..Len(ledger)
    BY HistoryFacts
  <2> QED
    BY <2>1, <2>2
<1>3. CASE tail = NoTail
  <2>1. Len(ledger) >= 2 /\ ledger' = SubSeq(ledger, 1, Len(ledger) - 1)
    BY <1>1, <1>3 DEF TruncateTail, FilesAt
  <2>2. Len(ledger) - 1 \in 1..Len(ledger)
    BY <2>1, HistoryFacts
  <2> QED
    BY <2>1, <2>2
<1> QED
  BY <1>2, <1>3

LEMMA TruncateTailHistory ==
  ASSUME HistoryInv, LedgerInv', NEW p \in Procs, [Next]_vars, TruncateTail(p)
  PROVE  HistoryInv'
<1>1. /\ pc[p] = "truncate" /\ pc[p] \in Writing /\ Goto(p, "append")
      /\ plan' = RecoveryEvent(ledger')
      /\ UNCHANGED <<snapshots, quarantine, req>>
  BY DEF TruncateTail, Writing, Step
<1>2. Fresh(ledger) /\ req[p].op = "recover"
  BY <1>1, HistoryFacts DEF PendingAt
<1>3. PICK n \in 1..Len(ledger) : ledger' = SubSeq(ledger, 1, n)
  BY TruncatedPrefix
<1>4. n \in 0..Len(ledger) /\ n \in Nat \ {0}
  BY HistoryFacts
<1>5. PICK l : l = SubSeq(ledger, 1, n)
  OBVIOUS
<1>6. /\ l \in Seq(Event) /\ DOMAIN l = 1..n /\ l # <<>>
      /\ \A i \in 1..n : l[i] = ledger[i]
  <2>1. Len(l) = n
    BY <1>4, <1>5, HistoryFacts, PrefixReads
  <2> QED
    BY <1>4, <1>5, <2>1, HistoryFacts, PrefixReads
<1>7. GoodHistory(l) /\ SnapshotsBind(l, snapshots)
  BY <1>4, <1>5, HistoryFacts, GoodPrefix, SnapshotsPrefix DEF SnapshotsOK
<1>8. \A i \in DOMAIN l : l[i].cmd > 0 - Cardinality(quarantine)
                          /\ l[i].cmd >= 0 - Cardinality(quarantine)
  <2>1. \A i \in 1..n : i \in DOMAIN ledger
    BY HistoryFacts
  <2> QED
    BY <1>2, <1>6, <2>1, HistoryFacts DEF Fresh, Bounded
<1>9. PICK e : e = RecoveryEvent(l)
  OBVIOUS
<1>10. e \in Event
  BY <1>6, <1>9, HistoryFacts, RecoveryEventType
<1>11. /\ e.cmd = 0 - Cardinality(quarantine)
       /\ e.type \in RecoveryEventTypes
       /\ e.to = StateOf(l) /\ e.rev = RevOf(l)
  BY <1>9 DEF RecoveryEvent, RecoveryEventTypes
<1>12. /\ e.type \in NonTransitionEventTypes
       /\ e.type \notin RevisionEventTypes
       /\ e.type # "ACTION_AUTHORITY_RESERVED"
  BY <1>11 DEF RecoveryEventTypes, NonTransitionEventTypes, RevisionEventTypes,
               SourceRevised, CaseReopened
<1>13. Extends(l, e)
  <2>1. StateOf(l) # Start
    BY <1>6, LastReads
  <2>2. CanApply(StateOf(l), e.to, e.type)
    BY <1>11, <1>12, <2>1 DEF CanApply, RevisionEventTypes
  <2> QED
    BY <1>11, <1>12, <2>2 DEF Extends
<1>14. IdIsNew(l, e.cmd)
  BY <1>6, <1>8, <1>11, HistoryFacts DEF IdIsNew
<1>15. GoodHistory(Append(l, e)) /\ SnapshotsBind(Append(l, e), snapshots)
  BY <1>6, <1>7, <1>10, <1>12, <1>13, <1>14, GoodAppend, SnapshotsAppend
<1>16. ledger' = l /\ plan' = e
  BY <1>1, <1>3, <1>5, <1>9
<1>17. PendingAt(p, "append")'
  <2>1. e.cmd >= 0 - Cardinality(quarantine)
    BY <1>11, HistoryFacts
  <2> QED
    BY <1>1, <1>2, <1>15, <1>16, <2>1 DEF PendingAt, DecidedOps
<1>18. GoodHistory(ledger)' /\ Bounded(ledger)' /\ SnapshotsOK'
  BY <1>1, <1>7, <1>8, <1>16, HistoryFacts DEF Bounded, SnapshotsOK
<1> QED
  BY <1>1, <1>17, <1>18, GoesOnHistory

-----------------------------------------------------------------------------
(* The inductive invariant.                                                *)

LEMMA StutterHistory ==
  ASSUME HistoryInv, LedgerInv', UNCHANGED vars \/ WriteArtifact
  PROVE  HistoryInv'
<1>1. UNCHANGED <<ledger, markers, snapshots, quarantine, pc, req, plan>>
  BY DEF vars, disk, WriteArtifact
<1>2. PendingOK'
  BY <1>1 DEF HistoryInv, PendingOK, PendingAt, Fresh
<1>3. GoodHistory(ledger)' /\ Bounded(ledger)' /\ SnapshotsOK' /\ RequestsOK'
  BY <1>1 DEF HistoryInv, Bounded, SnapshotsOK, RequestsOK, Asked
<1>4. Committed' # <<>>
  BY <1>1 DEF HistoryInv, Committed, CommittedLength
<1> QED
  BY <1>2, <1>3, <1>4 DEF HistoryInv

LEMMA NextHistory == HistoryInv /\ [Next]_vars => HistoryInv'
<1> SUFFICES ASSUME HistoryInv, [Next]_vars PROVE HistoryInv'
  OBVIOUS
<1>1. LedgerInv'
  BY NextInv DEF HistoryInv
<1>2. ASSUME NEW p \in Procs, Write(p) PROVE HistoryInv'
  BY <1>1, <1>2, LeavingHistory, WriteSnapshotHistory, AppendEventHistory,
     WriteMarkerHistory, WriteQuarantineHistory, TruncateTailHistory DEF Write
<1>3. ASSUME NEW p \in Procs, Answer(p) PROVE HistoryInv'
  BY <1>1, <1>3, BeginHistory, AnsweredHistory DEF Answer
<1> QED
  BY <1>1, <1>2, <1>3, SubmitHistory, CrashHistory, StutterHistory DEF Next

\* HistoryInv holds in every reachable state: the history on disk, and that
\* history with the event being written, is legal, consumes no authority
\* twice, binds every reservation to a prepared head and every revision to
\* its snapshot, and was decided on by the caller whose event it is.
THEOREM HistoryInvariant == Spec => []HistoryInv
BY InitHistory, NextHistory, PTL DEF Spec

-----------------------------------------------------------------------------
(* What the committed history promises.                                    *)

\* The committed events are a prefix of the ledger file, and as good.
LEMMA CommittedGood ==
  ASSUME HistoryInv
  PROVE  /\ Committed \in Seq(Event) /\ GoodHistory(Committed)
         /\ SnapshotsBind(Committed, snapshots)
<1>1. CommittedLength \in 0..Len(ledger) /\ Committed \in Seq(Event)
  BY CommittedFacts DEF HistoryInv, CommittedOK
<1> QED
  BY <1>1, HistoryFacts, GoodPrefix, SnapshotsPrefix DEF Committed, SnapshotsOK

\* No two reservations of a run consume the same idempotency key, business
\* key or authority, whatever command ids they come under, and whatever was
\* revised, interrupted or recovered between them.
THEOREM ReservationsConsumeOnce == Spec => []ReservedOnce
<1>1. HistoryInv => ReservedOnce
  BY CommittedGood DEF GoodHistory, ReservedOnce
<1> QED
  BY <1>1, HistoryInvariant, PTL

\* Every committed reservation consumes a contract bound to a prepared head
\* of its own revision, followed by recovery traces only.
THEOREM ReservationsBindEvidence == Spec => []ReservationBindsPreparedHead
<1>1. HistoryInv => ReservationBindsPreparedHead
  BY CommittedGood DEF GoodHistory, ReservationBindsPreparedHead
<1> QED
  BY <1>1, HistoryInvariant, PTL

\* When no revision reuses a command id, one command commits at most once.
THEOREM CommandsCommitOnce ==
  ASSUME ~ReuseIds
  PROVE  Spec => []CommandCommitsOnce
<1>1. HistoryInv => CommandCommitsOnce
  BY CommittedGood DEF GoodHistory, CommandCommitsOnce
<1> QED
  BY <1>1, HistoryInvariant, PTL

\* When no revision reuses a command id, every reader accepts the committed
\* history, also after crashes that tear files and after recoveries.
THEOREM CommittedAlwaysProjects ==
  ASSUME ~ReuseIds
  PROVE  Spec => []CommittedHistoryProjects
<1>1. HistoryInv => CommittedHistoryProjects
  BY CommittedGood
     DEF GoodHistory, CommittedHistoryProjects, Projects, HistoryInv, SnapshotsOK
<1> QED
  BY <1>1, HistoryInvariant, PTL

\* The step that commits, or tears the marker of, an event its caller
\* decided on.
LEMMA DecidedStep ==
  ASSUME HistoryInv, [Next]_vars, NEW p \in Procs, lock = p,
         Len(markers') > Len(markers), req[p].op \in DecidedOps
  PROVE  ledger = Append(req[p].head, plan)
<1>1. Len(markers) \in Nat
  BY DiskFacts DEF HistoryInv
<1>2. ~UNCHANGED markers
  BY <1>1
<1>3. Next
  BY <1>2 DEF vars, disk
<1>4. PICK q \in Procs : Submit(q) \/ Answer(q) \/ Write(q) \/ Fail(q)
  BY <1>2, <1>3 DEF Next, WriteArtifact
<1>5. ~Submit(q) /\ ~Answer(q)
  BY <1>2 DEF Submit, RequestAdvance, RequestReserve, RequestRevise, RequestReopen,
              RequestRevision, RequestRecover, RequestFreeze, Retry, Ask,
              Answer, Begin, Repeat, Reject, LockTimeout, disk
<1>6. pc[q] = "mark"
  BY <1>2, <1>4, <1>5
     DEF Write, WriteSnapshot, SnapshotExists, AppendEvent, WriteMarker, WriteCheckpoint,
         ProjectionFails, WriteQuarantine, QuarantineExists, TruncateTail, WriteFreeze,
         Fail, CrashBetweenWrites, CrashInAppend, CrashInWriteOnce, disk
<1>7. lock = q
  BY <1>6, HolderAlone DEF HistoryInv, Writing, Step
<1>8. PendingAt(p, "mark")
  BY <1>6, <1>7, HistoryFacts
<1> QED
  BY <1>8 DEF PendingAt

\* An event is committed only on the very history its caller had read.
THEOREM NoUpdateIsLost == Spec => DecidedOnThisHistory
<1>1. HistoryInv /\ [Next]_vars
        => [ \A p \in Procs :
               /\ lock = p /\ Len(markers') > Len(markers)
               /\ req[p].op \in {"advance", "revise", "reopen"}
               => ledger = Append(req[p].head, plan) ]_vars
  BY DecidedStep DEF DecidedOps
<1> QED
  BY <1>1, HistoryInvariant, PTL DEF Spec, DecidedOnThisHistory

-----------------------------------------------------------------------------
(* Checkpoints.                                                            *)

\* The prefixes of a log are those of the log it has grown to.
LEMMA GrownPrefix ==
  ASSUME NEW c \in Seq(Event), NEW d \in Seq(Event), Len(c) <= Len(d),
         SubSeq(d, 1, Len(c)) = c, NEW i \in 0..Len(c)
  PROVE  SubSeq(d, 1, i) = SubSeq(c, 1, i)
<1>1. \A j \in 1..Len(c) : c[j] = d[j]
  BY PrefixReads
<1> HIDE DEF Event
<1> QED
  BY <1>1

\* Checkpoint i caches the committed events up to i.
CheckpointAgrees(i) ==
  i <= Len(Committed) /\ checkpoints[i] = SubSeq(Committed, 1, i)

\* It keeps doing so.
LEMMA AgreementKept ==
  ASSUME LedgerInv, LedgerInv', [Next]_vars, NEW i \in 1..MaxEvents,
         checkpoints'[i] = checkpoints[i], CheckpointAgrees(i)
  PROVE  CheckpointAgrees(i)'
<1>1. Len(Committed) <= Len(Committed') /\ SubSeq(Committed', 1, Len(Committed)) = Committed
  BY GrowthStep
<1>2. CommittedOK
  BY CommittedFacts
<1>3. (LedgerInv => CommittedOK)'
  BY CommittedFacts, PTL
<1>4. /\ Committed \in Seq(Event) /\ Committed' \in Seq(Event)
      /\ Len(Committed) \in Nat /\ Len(Committed') \in Nat
  BY <1>2, <1>3 DEF CommittedOK
<1>5. i \in 0..Len(Committed)
  BY <1>4 DEF CheckpointAgrees
<1>6. SubSeq(Committed', 1, i) = SubSeq(Committed, 1, i)
  BY <1>1, <1>4, <1>5, GrownPrefix
<1> QED
  BY <1>1, <1>4, <1>5, <1>6 DEF CheckpointAgrees

\* A step leaves a checkpoint alone, tears it, or writes the one of the
\* ledger it has just committed.
LEMMA CheckpointSteps ==
  ASSUME LedgerInv, LedgerInv', [Next]_vars, NEW i \in 1..MaxEvents
  PROVE  \/ checkpoints'[i] = checkpoints[i]
         \/ TearFiles /\ checkpoints'[i] = TornFile
         \/ CheckpointAgrees(i)'
<1>1. DiskTypeOK
  BY DiskFacts
<1>2. ASSUME NEW p \in Procs, WriteCheckpoint(p), checkpoints'[i] # checkpoints[i]
      PROVE  CheckpointAgrees(i)'
  <2>1. AllMarked /\ ledger \in Seq(Event)
    BY <1>2, DiskFacts DEF WriteCheckpoint, FilesAt
  <2>2. AllMarked' /\ ledger' = ledger
    BY <1>2, <2>1 DEF WriteCheckpoint, AllMarked, Marked
  <2>3. (LedgerInv /\ AllMarked => Committed = ledger)'
    BY WholeIsCommitted, PTL
  <2>4. i = Len(ledger) /\ checkpoints'[i] = ledger
    BY <1>1, <1>2 DEF WriteCheckpoint, DiskTypeOK
  <2>5. Committed' = ledger /\ SubSeq(ledger, 1, Len(ledger)) = ledger
        /\ Len(ledger) \in Nat
    BY <2>1, <2>2, <2>3, SubSeqFull
  <2> QED
    BY <2>4, <2>5 DEF CheckpointAgrees
<1>3. CASE UNCHANGED checkpoints
  BY <1>3
<1>4. ASSUME NEW p \in Procs, CrashInWriteOnce(p), ~UNCHANGED checkpoints
      PROVE  TearFiles /\ (checkpoints'[i] = checkpoints[i] \/ checkpoints'[i] = TornFile)
  <2>1. TearFiles /\ checkpoints' = [checkpoints EXCEPT ![Len(ledger)] = TornFile]
    BY <1>4 DEF CrashInWriteOnce
  <2> QED
    BY <1>1, <2>1 DEF DiskTypeOK
<1>5. ASSUME NEW p \in Procs, Submit(p) \/ Answer(p) PROVE UNCHANGED checkpoints
  BY <1>5 DEF Submit, RequestAdvance, RequestReserve, RequestRevise, RequestReopen,
              RequestRevision, RequestRecover, RequestFreeze, Retry, Ask,
              Answer, Begin, Repeat, Reject, LockTimeout, disk
<1>6. ASSUME NEW p \in Procs, Write(p), ~WriteCheckpoint(p) PROVE UNCHANGED checkpoints
  BY <1>6 DEF Write, WriteSnapshot, SnapshotExists, AppendEvent, WriteMarker,
              ProjectionFails, WriteQuarantine, QuarantineExists, TruncateTail,
              WriteFreeze, disk
<1>7. ASSUME NEW p \in Procs, CrashBetweenWrites(p) \/ CrashInAppend(p)
      PROVE  UNCHANGED checkpoints
  BY <1>7 DEF CrashBetweenWrites, CrashInAppend, disk
<1>8. CASE UNCHANGED vars \/ WriteArtifact
  BY <1>8 DEF vars, disk, WriteArtifact
<1> QED
  BY <1>2, <1>3, <1>4, <1>5, <1>6, <1>7, <1>8 DEF Next, Fail

\* Every whole checkpoint is the projection of the committed events up to
\* its sequence, whatever was torn, quarantined and truncated since.
THEOREM CheckpointsCacheTheLog == Spec => []CheckpointsAgree
<1>1. Init => CheckpointsAgree
  <2> SUFFICES ASSUME Init PROVE CheckpointsAgree
    OBVIOUS
  <2>1. LedgerInv /\ AllMarked
    BY InitInv, DiskFacts DEF Init, AllMarked, Marked
  <2>2. Committed = ledger
    BY <2>1, WholeIsCommitted
  <2> QED
    BY <2>2 DEF Init, CheckpointsAgree
<1>2. LedgerInv /\ LedgerInv' /\ CheckpointsAgree /\ [Next]_vars => CheckpointsAgree'
  <2> SUFFICES ASSUME LedgerInv, LedgerInv', CheckpointsAgree, [Next]_vars,
                      NEW i \in 1..MaxEvents, checkpoints'[i] \notin {NoFile, TornFile}
               PROVE  CheckpointAgrees(i)'
    BY DEF CheckpointsAgree, CheckpointAgrees
  <2>1. CASE checkpoints'[i] = checkpoints[i]
    BY <2>1, AgreementKept DEF CheckpointsAgree, CheckpointAgrees
  <2> QED
    BY <2>1, CheckpointSteps
<1> QED
  BY <1>1, <1>2, LedgerInvariant, PTL DEF Spec

-----------------------------------------------------------------------------
(* Quiet runs verify.                                                      *)

\* A freeze pins what the workspace has written, and was written before the
\* files of others that artifacts counts.
FreezePins ==
  /\ freeze = NoFile => artifacts = 0
  /\ freeze = NoFile \/ freeze = [Inventory EXCEPT !.artifacts = 0]

\* Without torn write-once files the freeze, the checkpoints and the markers
\* are whole.
WholeInv ==
  \/ TearFiles
  \/ /\ FreezePins
     /\ \A i \in 1..MaxEvents : checkpoints[i] = NoFile \/ CheckpointAgrees(i)
     /\ \A i \in 1..Len(markers) : markers[i] # TornFile

LEMMA InitWhole == Init => WholeInv
<1> SUFFICES ASSUME Init PROVE WholeInv
  OBVIOUS
<1>1. LedgerInv /\ AllMarked /\ FreezePins
  BY InitInv, DiskFacts DEF Init, AllMarked, Marked, FreezePins
<1>2. Committed = ledger
  BY <1>1, WholeIsCommitted
<1>3. \A i \in 1..MaxEvents : checkpoints[i] = NoFile \/ CheckpointAgrees(i)
  BY <1>2 DEF Init, CheckpointAgrees
<1>4. \A i \in 1..Len(markers) : markers[i] # TornFile
  BY <1>1, MarkedIsWhole DEF AllMarked
<1> QED
  BY <1>1, <1>3, <1>4 DEF WholeInv

\* A freeze is written once, of the files as they are.
LEMMA FreezeSteps ==
  ASSUME LedgerInv, [Next]_vars, ~TearFiles, FreezePins
  PROVE  FreezePins'
<1>1. CASE UNCHANGED disk
  BY <1>1 DEF disk, Inventory, FreezePins
<1>2. ASSUME NEW p \in Procs, Submit(p) \/ Answer(p) PROVE UNCHANGED disk
  BY <1>2 DEF Submit, RequestAdvance, RequestReserve, RequestRevise, RequestReopen,
              RequestRevision, RequestRecover, RequestFreeze, Retry, Ask,
              Answer, Begin, Repeat, Reject, LockTimeout
<1>3. ASSUME NEW p \in Procs, Write(p) PROVE FreezePins'
  <2>1. freeze = NoFile
    BY <1>3, HolderAlone
       DEF Write, WriteSnapshot, SnapshotExists, AppendEvent, WriteMarker,
           WriteCheckpoint, ProjectionFails, WriteQuarantine, QuarantineExists,
           TruncateTail, WriteFreeze, Writing, Step
  <2>2. artifacts' = artifacts
    BY <1>3 DEF Write, WriteSnapshot, SnapshotExists, AppendEvent, WriteMarker,
           WriteCheckpoint, ProjectionFails, WriteQuarantine, QuarantineExists,
           TruncateTail, WriteFreeze, disk
  <2>3. artifacts = 0
    BY <2>1 DEF FreezePins
  <2>4. CASE WriteFreeze(p)
    BY <2>3, <2>4 DEF WriteFreeze, Inventory, FreezePins
  <2>5. CASE ~WriteFreeze(p)
    <3>1. freeze' = freeze
      BY <1>3, <2>5
         DEF Write, WriteSnapshot, SnapshotExists, AppendEvent, WriteMarker,
             WriteCheckpoint, ProjectionFails, WriteQuarantine, QuarantineExists,
             TruncateTail, disk
    <3> QED
      BY <2>1, <2>2, <2>3, <3>1 DEF FreezePins
  <2> QED
    BY <2>4, <2>5
<1>4. ASSUME NEW p \in Procs, Fail(p) PROVE FreezePins'
  <2>1. Crash(p)
    BY <1>4 DEF Fail, CrashBetweenWrites, CrashInAppend, CrashInWriteOnce
  <2>2. freeze = NoFile
    BY <2>1, CrashFacts, HolderAlone
  <2>3. UNCHANGED <<freeze, artifacts>>
    BY <1>4 DEF Fail, CrashBetweenWrites, CrashInAppend, CrashInWriteOnce, disk
  <2> QED
    BY <2>2, <2>3 DEF FreezePins, Inventory
<1>5. CASE UNCHANGED vars
  BY <1>1, <1>5 DEF vars
<1>6. CASE WriteArtifact
  BY <1>6 DEF WriteArtifact, FreezePins, Inventory
<1> QED
  BY <1>1, <1>2, <1>3, <1>4, <1>5, <1>6 DEF Next

LEMMA MarkerSteps ==
  ASSUME LedgerInv, [Next]_vars, ~TearFiles,
         \A i \in 1..Len(markers) : markers[i] # TornFile
  PROVE  \A i \in 1..Len(markers') : markers'[i] # TornFile
<1>1. CASE UNCHANGED markers
  BY <1>1
<1>2. ASSUME NEW p \in Procs, WriteMarker(p)
      PROVE  \A i \in 1..Len(markers') : markers'[i] # TornFile
  <2>1. plan \in Event /\ markers' = Append(markers, plan) /\ plan # TornFile
    BY <1>2, HolderAlone, FilesAssumption DEF WriteMarker, Writing, Step
  <2>2. markers \in Seq(Event \cup {TornFile})
    BY DiskFacts
  <2>3. /\ Len(markers') = Len(markers) + 1 /\ markers'[Len(markers) + 1] = plan
        /\ \A i \in 1..Len(markers) : markers'[i] = markers[i]
        /\ Len(markers) \in Nat
    BY <2>1, <2>2
  <2> QED
    BY <2>1, <2>3
<1>3. ASSUME NEW p \in Procs, Submit(p) \/ Answer(p) \/ Fail(p) PROVE UNCHANGED markers
  BY <1>3 DEF Submit, RequestAdvance, RequestReserve, RequestRevise, RequestReopen,
              RequestRevision, RequestRecover, RequestFreeze, Retry, Ask,
              Answer, Begin, Repeat, Reject, LockTimeout, disk,
              Fail, CrashBetweenWrites, CrashInAppend, CrashInWriteOnce
<1>4. ASSUME NEW p \in Procs, Write(p), ~WriteMarker(p) PROVE UNCHANGED markers
  BY <1>4 DEF Write, WriteSnapshot, SnapshotExists, AppendEvent, WriteCheckpoint,
              ProjectionFails, WriteQuarantine, QuarantineExists, TruncateTail,
              WriteFreeze, disk
<1>5. CASE UNCHANGED vars \/ WriteArtifact
  BY <1>1, <1>5 DEF vars, disk, WriteArtifact
<1> QED
  BY <1>1, <1>2, <1>3, <1>4, <1>5 DEF Next

LEMMA NextWhole == LedgerInv /\ LedgerInv' /\ WholeInv /\ [Next]_vars => WholeInv'
<1> SUFFICES ASSUME LedgerInv, LedgerInv', WholeInv, [Next]_vars, ~TearFiles
             PROVE  WholeInv'
  BY DEF WholeInv
<1>1. /\ FreezePins
      /\ \A i \in 1..MaxEvents : checkpoints[i] = NoFile \/ CheckpointAgrees(i)
      /\ \A i \in 1..Len(markers) : markers[i] # TornFile
  BY DEF WholeInv
<1>2. FreezePins'
  BY <1>1, FreezeSteps
<1>3. \A i \in 1..Len(markers') : markers'[i] # TornFile
  BY <1>1, MarkerSteps
<1>4. ASSUME NEW i \in 1..MaxEvents
      PROVE  checkpoints'[i] = NoFile \/ CheckpointAgrees(i)'
  <2>1. CASE checkpoints'[i] = checkpoints[i]
    BY <1>1, <2>1, AgreementKept
  <2> QED
    BY <2>1, CheckpointSteps
<1> QED
  BY <1>2, <1>3, <1>4 DEF WholeInv

LEMMA WholeInvariant == Spec => []WholeInv
BY InitWhole, NextWhole, LedgerInvariant, PTL DEF Spec

\* When no revision reuses a command id and no crash tears a write-once
\* file, verify passes on every run that nobody is writing, whose last write
\* was not interrupted and in which nothing was written after the freeze.
THEOREM QuietRunsVerify ==
  ASSUME ~ReuseIds, ~TearFiles
  PROVE  Spec => []QuietRunVerifies
<1>1. HistoryInv /\ WholeInv => QuietRunVerifies
  <2> SUFFICES ASSUME HistoryInv, WholeInv, tail = NoTail,
                      Len(markers) = Len(ledger), ~WrittenAfterFreeze
               PROVE  Verifies
    BY DEF QuietRunVerifies
  <2>1. LedgerInv /\ ledger \in Seq(Event) /\ markers \in Seq(Event \cup {TornFile})
        /\ FilesOK /\ Len(ledger) \in Nat /\ Len(ledger) >= 1
    BY DiskFacts DEF HistoryInv
  <2>2. AllMarked
    BY <2>1 DEF WholeInv, FilesOK, AllMarked
  <2>3. markers = ledger
    BY <2>1, <2>2 DEF AllMarked, Marked
  <2>4. Projects(ledger)
    BY <2>1, HistoryFacts DEF GoodHistory, Projects, SnapshotsOK
  <2>5. Committed = ledger
    BY <2>1, <2>2, WholeIsCommitted
  <2>6. \A i \in 1..MaxEvents : CheckpointValid(i)
    BY <2>5 DEF WholeInv, CheckpointAgrees, CheckpointValid
  <2>7. freeze \in {NoFile, Inventory}
    BY DEF WholeInv, FreezePins, Inventory, WrittenAfterFreeze
  <2> QED
    BY <2>3, <2>4, <2>6, <2>7 DEF Replays, Resumes, Verifies
<1> QED
  BY <1>1, HistoryInvariant, WholeInvariant, PTL

-----------------------------------------------------------------------------
(* The ledger implements the atomic log.                                   *)

LEMMA InitLog == Init => Log!Init
<1> SUFFICES ASSUME Init PROVE Log!Init
  OBVIOUS
<1>1. LedgerInv /\ AllMarked
  BY InitInv, DiskFacts DEF Init, AllMarked, Marked
<1>2. Committed \in Seeds
  BY <1>1, WholeIsCommitted DEF Init
<1>3. (freeze # NoFile) = FALSE
  BY DEF Init
<1>4. acked = {}
  BY DEF Init
<1> QED
  BY <1>2, <1>3, <1>4 DEF Log!Init

\* While the ledger keeps what is committed, and no more is, the log stays.
LEMMA LogStays ==
  ASSUME LedgerInv, LedgerInv', [Next]_vars, CommittedLength' = CommittedLength
  PROVE  Committed' = Committed
<1>1. SubSeq(Committed', 1, Len(Committed)) = Committed
  BY GrowthStep
<1>2. CommittedOK
  BY CommittedFacts
<1>3. (LedgerInv => CommittedOK)'
  BY CommittedFacts, PTL
<1>4. Committed' \in Seq(Event) /\ Len(Committed') = Len(Committed)
  BY <1>2, <1>3 DEF CommittedOK
<1> QED
  BY <1>1, <1>4, SubSeqFull

\* Appending to the file, and cutting off what has no marker, commits
\* nothing, and neither does a torn marker.
LEMMA UncommittedStep ==
  ASSUME LedgerInv, LedgerInv', [Next]_vars, NEW p \in Procs,
         \/ UNCHANGED <<ledger, markers>>
         \/ AppendEvent(p) \/ TruncateTail(p)
         \/ /\ pc[p] = "mark" /\ UNCHANGED ledger
            /\ markers' = Append(markers, TornFile)
  PROVE  Committed' = Committed
<1>1. CASE UNCHANGED markers
  BY <1>1, LogStays DEF CommittedLength
<1>2. CASE /\ pc[p] = "mark" /\ markers' = Append(markers, TornFile)
  <2>1. LastUnmarked /\ markers \in Seq(Event \cup {TornFile}) /\ Len(markers) \in Nat
    BY <1>2, DiskFacts DEF FilesAt
  <2>2. markers # <<>> => markers[Len(markers)] # TornFile
    BY <2>1, MarkedIsWhole DEF LastUnmarked
  <2>3. markers' # <<>> /\ Len(markers') = Len(markers) + 1
        /\ markers'[Len(markers')] = TornFile
    BY <1>2, <2>1
  <2>4. CommittedLength' = Len(markers) /\ CommittedLength = Len(markers)
    BY <2>1, <2>2, <2>3 DEF CommittedLength
  <2> QED
    BY <2>4, LogStays
<1> QED
  BY <1>1, <1>2 DEF AppendEvent, TruncateTail

\* The abstract log has the events of the ledger, and the same legal moves.
LEMMA SameEvents ==
  /\ Log!Event = Event
  /\ \A l \in Seq(Event), e \in Event : Extends(l, e) => Log!Extends(l, e)
<1>1. /\ Log!WorkflowState = WorkflowState /\ Log!EventTypes = EventTypes
      /\ Log!Legal = Legal /\ Log!Start = Start
      /\ Log!RevisionEventTypes = RevisionEventTypes
      /\ Log!NonTransitionEventTypes = NonTransitionEventTypes
      /\ Log!DirectNoActionEvents = DirectNoActionEvents
      /\ Log!RevisionInvalidatableStates = RevisionInvalidatableStates
      /\ Log!SourceRevised = SourceRevised /\ Log!CaseReopened = CaseReopened
  BY DEF Log!WorkflowState, WorkflowState, Log!EventTypes, EventTypes,
         Log!Legal, Legal, Log!Start, Start,
         Log!RevisionEventTypes, RevisionEventTypes,
         Log!NonTransitionEventTypes, NonTransitionEventTypes,
         Log!RecoveryEventTypes, RecoveryEventTypes,
         Log!DirectNoActionEvents, DirectNoActionEvents,
         Log!RevisionInvalidatableStates, RevisionInvalidatableStates,
         Log!SourceRevised, SourceRevised, Log!CaseReopened, CaseReopened
<1>2. Log!Event = Event
  BY <1>1 DEF Log!Event, Event
<1>3. \A f, t, k : Log!CanTransition(f, t, k) <=> CanTransition(f, t, k)
  BY <1>1 DEF Log!CanTransition, CanTransition
<1>4. \A f, t, k : Log!CanApply(f, t, k) <=> CanApply(f, t, k)
  BY <1>1, <1>3 DEF Log!CanApply, CanApply
<1>5. \A l : Log!StateOf(l) = StateOf(l) /\ Log!RevOf(l) = RevOf(l)
  BY <1>1 DEF Log!StateOf, StateOf, Log!RevOf, RevOf
<1>6. \A l, e : Extends(l, e) => Log!Extends(l, e)
  BY <1>1, <1>4, <1>5 DEF Log!Extends, Extends
<1> QED
  BY <1>2, <1>6

\* Writing its marker commits the last event of the ledger file.
LEMMA MarkerCommits ==
  ASSUME HistoryInv, HistoryInv', ~ReuseIds, NEW p \in Procs, WriteMarker(p)
  PROVE  Log!Commit
<1>1. LedgerInv /\ LedgerInv'
  BY DEF HistoryInv
<1>2. pc[p] = "mark" /\ UNCHANGED <<ledger, freeze, acked>> /\ markers' = Append(markers, plan)
  BY DEF WriteMarker
<1>3. plan \in Event /\ freeze = NoFile /\ FilesAt("mark")
  BY <1>1, <1>2, HolderAlone, DiskFacts DEF Writing, Step
<1>4. /\ LastUnmarked /\ ledger[Len(ledger)] = plan
      /\ ledger \in Seq(Event) /\ Len(ledger) \in Nat
      /\ markers \in Seq(Event \cup {TornFile}) /\ Len(markers) \in Nat
  BY <1>1, <1>3, DiskFacts DEF FilesAt
<1> DEFINE n == Len(markers)
<1>5. n + 1 = Len(ledger) /\ n \in 0..Len(ledger) /\ n + 1 \in DOMAIN ledger
  BY <1>4 DEF LastUnmarked
<1>6. Committed = SubSeq(ledger, 1, n)
  <2>1. markers # <<>> => markers[Len(markers)] # TornFile
    BY <1>1, <1>4, MarkedIsWhole DEF LastUnmarked
  <2> QED
    BY <2>1 DEF CommittedLength, Committed
<1>7. Committed' = ledger
  <2>1. /\ Len(markers') = n + 1 /\ markers'[n + 1] = plan
        /\ \A i \in 1..n : markers'[i] = markers[i]
    BY <1>2, <1>3, <1>4
  <2>2. AllMarked'
    BY <1>2, <1>4, <1>5, <2>1 DEF LastUnmarked, AllMarked, Marked
  <2>3. (LedgerInv /\ AllMarked => Committed = ledger)'
    BY WholeIsCommitted, PTL
  <2> QED
    BY <1>1, <1>2, <2>2, <2>3
<1>8. LegalHistory(ledger) /\ UsedOnce(ledger)
  BY HistoryFacts DEF GoodHistory
<1> HIDE DEF n
<1>9. PICK k : k = Committed
  OBVIOUS
<1>10. /\ k \in Seq(Event) /\ Len(k) = n /\ DOMAIN k = 1..n
       /\ \A i \in 1..n : k[i] = ledger[i]
  BY <1>4, <1>5, <1>6, <1>9, PrefixReads
<1>11. ledger = Append(k, plan)
  <2>1. /\ Append(k, plan) \in Seq(Event) /\ Len(Append(k, plan)) = n + 1
        /\ \A i \in 1..n : Append(k, plan)[i] = ledger[i]
        /\ Append(k, plan)[n + 1] = plan
    BY <1>3, <1>10, AppendReads
  <2>2. \A i \in 1..n + 1 : i \in 1..n \/ i = n + 1
    BY <1>4 DEF n
  <2> QED
    BY <1>4, <1>5, <2>1, <2>2, SeqEqual
<1>12. Extends(k, plan)
  BY <1>4, <1>5, <1>6, <1>8, <1>9 DEF LegalHistory
<1>13. \A i \in DOMAIN k : k[i].cmd # plan.cmd
  <2> SUFFICES ASSUME NEW i \in 1..n PROVE ledger[i].cmd # ledger[n + 1].cmd
    BY <1>4, <1>5, <1>10
  <2>1. i # n + 1 /\ i \in DOMAIN ledger
    BY <1>4, <1>5 DEF n
  <2> QED
    BY <1>5, <1>8, <2>1 DEF UsedOnce
<1>14. /\ Committed' = Append(k, plan) /\ Len(Committed') = Len(k) + 1
       /\ Committed'[Len(Committed')] = plan
  BY <1>4, <1>5, <1>7, <1>10, <1>11
<1>15. UNCHANGED <<freeze # NoFile, acked>> /\ ~(freeze # NoFile)
  BY <1>2, <1>3
<1>16. plan \in Log!Event /\ Log!Extends(k, plan)
  BY <1>3, <1>10, <1>12, SameEvents
<1> QED
  BY <1>9, <1>13, <1>14, <1>15, <1>16 DEF Log!Commit

\* An answer names an event of the log.
LEMMA AnswerAcknowledges ==
  ASSUME LedgerInv, LedgerInv', [Next]_vars, NEW p \in Procs,
         Repeat(p) \/ WriteCheckpoint(p)
  PROVE  Log!Acknowledge
<1>1. AllMarked
  <2>1. CASE Repeat(p)
    <3>1. Replays
      BY <2>1 DEF Repeat, Repeats, RepeatsAdvance, RepeatsReserve
    <3> QED
      BY <3>1, ReplaysMarked
  <2>2. CASE WriteCheckpoint(p)
    BY <2>2, DiskFacts DEF WriteCheckpoint, FilesAt
  <2> QED
    BY <2>1, <2>2
<1>2. Committed = ledger /\ Len(ledger) \in Nat /\ Len(ledger) >= 1
      /\ DOMAIN ledger = 1..Len(ledger)
  BY <1>1, WholeIsCommitted, DiskFacts
<1>3. UNCHANGED <<ledger, markers, freeze>>
  BY DEF Repeat, WriteCheckpoint, disk
<1>4. Committed' = Committed
  BY <1>3, UncommittedStep
<1>5. \E i \in DOMAIN ledger : acked' = acked \cup {[cmd |-> ledger[i].cmd, at |-> i]}
  <2>1. CASE Repeat(p)
    BY <2>1 DEF Repeat
  <2>2. CASE WriteCheckpoint(p)
    <3>1. ledger[Len(ledger)] = plan
      BY <2>2, DiskFacts DEF WriteCheckpoint, FilesAt
    <3>2. acked' = acked \cup {[cmd |-> ledger[Len(ledger)].cmd, at |-> Len(ledger)]}
      BY <2>2, <3>1 DEF WriteCheckpoint
    <3>3. Len(ledger) \in DOMAIN ledger
      BY <1>2
    <3> QED
      BY <3>2, <3>3
  <2> QED
    BY <2>1, <2>2
<1> QED
  BY <1>2, <1>3, <1>4, <1>5 DEF Log!Acknowledge

\* The freeze, whole or torn, seals the log.
LEMMA FreezeSeals ==
  ASSUME LedgerInv, LedgerInv', [Next]_vars, NEW p \in Procs, pc[p] = "seal",
         UNCHANGED <<ledger, markers, acked>>
  PROVE  Log!Seal \/ UNCHANGED Log!vars
<1>1. freeze = NoFile
  BY HolderAlone DEF Writing, Step
<1>2. Committed' = Committed
  BY UncommittedStep
<1> QED
  BY <1>1, <1>2 DEF Log!Seal, Log!vars

\* Every other step leaves the log as it is.
LEMMA StepStutters ==
  ASSUME LedgerInv, LedgerInv', [Next]_vars, NEW p \in Procs,
         UNCHANGED <<freeze, acked>>,
         \/ UNCHANGED <<ledger, markers>>
         \/ AppendEvent(p) \/ TruncateTail(p)
         \/ /\ pc[p] = "mark" /\ UNCHANGED ledger
            /\ markers' = Append(markers, TornFile)
  PROVE  UNCHANGED Log!vars
BY UncommittedStep DEF Log!vars

\* A crash commits nothing; at most it leaves a torn freeze.
LEMMA CrashRefines ==
  ASSUME LedgerInv, LedgerInv', [Next]_vars, NEW p \in Procs, Fail(p)
  PROVE  Log!Next \/ UNCHANGED Log!vars
<1>1. UNCHANGED <<ledger, acked>>
  BY DEF Fail, CrashBetweenWrites, CrashInAppend, CrashInWriteOnce, Crash, disk
<1>2. CASE pc[p] = "seal" /\ UNCHANGED markers
  BY <1>1, <1>2, FreezeSeals DEF Log!Next
<1>3. CASE UNCHANGED <<freeze, markers>>
  BY <1>1, <1>3, StepStutters
<1>4. CASE pc[p] = "mark" /\ markers' = Append(markers, TornFile) /\ UNCHANGED freeze
  BY <1>1, <1>4, StepStutters
<1> QED
  BY <1>2, <1>3, <1>4 DEF Fail, CrashBetweenWrites, CrashInAppend,
       CrashInWriteOnce, disk

\* The writes of the lock holder.
LEMMA WriteRefines ==
  ASSUME HistoryInv, HistoryInv', [Next]_vars, ~ReuseIds, NEW p \in Procs, Write(p)
  PROVE  Log!Next \/ UNCHANGED Log!vars
<1>1. LedgerInv /\ LedgerInv'
  BY DEF HistoryInv
<1>2. CASE WriteMarker(p)
  BY <1>2, MarkerCommits DEF Log!Next
<1>3. CASE WriteCheckpoint(p)
  BY <1>1, <1>3, AnswerAcknowledges DEF Log!Next
<1>4. CASE WriteFreeze(p)
  BY <1>1, <1>4, FreezeSeals DEF WriteFreeze, Log!Next
<1>5. CASE AppendEvent(p) \/ TruncateTail(p)
  BY <1>1, <1>5, StepStutters DEF AppendEvent, TruncateTail
<1>6. CASE \/ WriteSnapshot(p) \/ SnapshotExists(p) \/ ProjectionFails(p)
           \/ WriteQuarantine(p) \/ QuarantineExists(p)
  <2>1. UNCHANGED <<ledger, markers, freeze, acked>>
    BY <1>6 DEF WriteSnapshot, SnapshotExists, ProjectionFails, WriteQuarantine,
                QuarantineExists, disk
  <2> QED
    BY <1>1, <2>1, StepStutters
<1> QED
  BY <1>2, <1>3, <1>4, <1>5, <1>6 DEF Write

\* Every step of the ledger is one of the log, or leaves it as it is.
LEMMA StepRefines ==
  ASSUME HistoryInv, HistoryInv', [Next]_vars, ~ReuseIds
  PROVE  Log!Next \/ UNCHANGED Log!vars
<1>1. LedgerInv /\ LedgerInv'
  BY DEF HistoryInv
<1>2. CASE UNCHANGED vars \/ WriteArtifact
  <2>1. UNCHANGED <<ledger, markers, freeze, acked>>
    BY <1>2 DEF vars, disk, WriteArtifact
  <2> QED
    BY <2>1 DEF Log!vars, Committed, CommittedLength
<1>3. CASE Next /\ ~WriteArtifact
  <2>1. PICK p \in Procs : Submit(p) \/ Answer(p) \/ Write(p) \/ Fail(p)
    BY <1>3 DEF Next
  <2>2. CASE Submit(p) \/ Begin(p) \/ Reject(p) \/ LockTimeout(p)
    <3>1. UNCHANGED <<ledger, markers, freeze, acked>>
      BY <2>2 DEF Submit, RequestAdvance, RequestReserve, RequestRevise,
                  RequestReopen, RequestRevision, RequestRecover, RequestFreeze,
                  Ask, Retry, Begin, Reject, LockTimeout, disk
    <3> QED
      BY <1>1, <3>1, StepStutters
  <2>3. CASE Repeat(p)
    BY <1>1, <2>3, AnswerAcknowledges DEF Log!Next
  <2>4. CASE Write(p)
    BY <2>4, WriteRefines
  <2>5. CASE Fail(p)
    BY <1>1, <2>5, CrashRefines
  <2> QED
    BY <2>1, <2>2, <2>3, <2>4, <2>5 DEF Answer
<1> QED
  BY <1>2, <1>3

\* When no revision reuses a command id, the ledger implements the atomic
\* log: for its callers, the files, the lock, the crashes and the recoveries
\* are one log that grows by whole legal events, each under a new command
\* id, and answers that name an event of it.
THEOREM LedgerImplementsLog ==
  ASSUME ~ReuseIds
  PROVE  Spec => ImplementsDurableLog
<1>1. HistoryInv /\ HistoryInv' /\ [Next]_vars => [Log!Next]_(Log!vars)
  BY StepRefines
<1> QED
  BY <1>1, InitLog, HistoryInvariant, PTL DEF Spec, ImplementsDurableLog, Log!Spec
=============================================================================

---------------------------- MODULE RaftLogProofs ----------------------------
(***************************************************************************)
(* The operators of RaftLog, by which the handlers change a replica: they  *)
(* keep its type and its shape, and no commit, snapshot, installation or   *)
(* restart loses a command.                                                *)
(***************************************************************************)
EXTENDS RaftLog, FiniteSetTheorems, SequenceTheorems, TLAPS

-----------------------------------------------------------------------------
\* numbers

\* A set of natural numbers that is not empty has a least one.
LEMMA LeastElement ==
  ASSUME NEW S \in SUBSET Nat, S # {}
  PROVE  \E x \in S : \A y \in S : x <= y
  <1>. DEFINE T == {0 .. x : x \in S}
  <1>1. T \subseteq FiniteSubsetsOf(Nat) /\ T # {}
    <2>1. \A x \in S : 0 .. x \subseteq Nat /\ IsFiniteSet(0 .. x)
      BY FS_Interval
    <2>. QED BY <2>1 DEF FiniteSubsetsOf
  <1>2. IsWellFoundedOn(StrictSubsetOrdering(Nat), FiniteSubsetsOf(Nat))
    BY FS_StrictSubsetOrderingWellFounded
  <1>3. PICK m \in T : \A k \in T : ~(<<k, m>> \in StrictSubsetOrdering(Nat))
    <2>. HIDE DEF T
    <2>. QED BY <1>1, <1>2, WFMin, Zenon
  <1>4. PICK x \in S : m = 0 .. x
    OBVIOUS
  <1>5. ASSUME NEW y \in S PROVE x <= y
    <2>1. SUFFICES ASSUME y < x PROVE FALSE
      OBVIOUS
    <2>2. 0 .. y \in T /\ 0 .. y \subseteq Nat /\ m \subseteq Nat
      BY <1>4
    <2>3. 0 .. y \subseteq m /\ 0 .. y # m
      BY <1>4, <2>1
    <2>4. <<0 .. y, m>> \in StrictSubsetOrdering(Nat)
      BY <2>2, <2>3 DEF StrictSubsetOrdering
    <2>. QED BY <1>3, <2>2, <2>4
  <1>. QED BY <1>5

\* Induction over the natural numbers.
LEMMA Induction ==
  ASSUME NEW S, 0 \in S, \A n \in Nat : n \in S => n + 1 \in S
  PROVE  Nat \subseteq S
  <1>. SUFFICES ASSUME Nat \ S # {} PROVE FALSE
    OBVIOUS
  <1>1. PICK x \in Nat \ S : \A y \in Nat \ S : x <= y
    BY LeastElement
  <1>2. x - 1 \in Nat /\ x = (x - 1) + 1
    BY <1>1
  <1>. QED BY <1>1, <1>2

-----------------------------------------------------------------------------
\* replicas

\* a replica of a running process
Sound(r) == /\ r \in Replica
            /\ WellFormed(r.log, r.snapshot, r.commitIndex)
            /\ Len(r.applied) = r.commitIndex

\* A snapshot record and its absence are told apart by the index.
LEMMA SnapshotParts ==
  ASSUME NEW s \in Snapshot \cup {NoSnapshot}
  PROVE  /\ s.index \in Int /\ s.index >= -1
         /\ s.term \in Nat
         /\ s.sm \in Seq(Cmd)
         /\ s = NoSnapshot <=> s.index = -1
  <1>1. CASE s = NoSnapshot
    BY <1>1 DEF NoSnapshot
  <1>2. CASE s \in Snapshot
    <2>1. s.index \in Nat /\ s.term \in Nat /\ s.sm \in Seq(Cmd)
      BY <1>2 DEF Snapshot
    <2>. QED BY <2>1 DEF NoSnapshot
  <1>. QED BY <1>1, <1>2

LEMMA ReplicaParts ==
  ASSUME NEW r \in Replica
  PROVE  /\ r.log \in Seq(Entry) /\ Len(r.log) \in Nat
         /\ r.snapshot \in Snapshot \cup {NoSnapshot}
         /\ r.commitIndex \in Nat
         /\ r.applied \in Seq(Cmd)
         /\ Base(r) \in Int /\ Base(r) >= -1
         /\ LogLen(r) \in Int
         /\ LastIndex(r) \in Int /\ LastIndex(r) = Len(r.log) + Base(r)
  <1>1. /\ r.log \in Seq(Entry)
        /\ r.snapshot \in Snapshot \cup {NoSnapshot}
        /\ r.commitIndex \in Nat
        /\ r.applied \in Seq(Cmd)
    BY DEF Replica
  <1>2. Len(r.log) \in Nat
    BY <1>1
  <1>3. Base(r) \in Int /\ Base(r) >= -1
    BY <1>1, SnapshotParts DEF Base
  <1>4. LogLen(r) \in Int /\ LastIndex(r) \in Int /\ LastIndex(r) = Len(r.log) + Base(r)
    BY <1>2, <1>3 DEF LogLen, LastIndex
  <1>. QED BY <1>1, <1>2, <1>3, <1>4, Zenon

\* The log of a well-formed replica reaches index 0 at least.
LEMMA LastIndexIsNat ==
  ASSUME NEW r \in Replica, WellFormed(r.log, r.snapshot, r.commitIndex)
  PROVE  LastIndex(r) \in Nat /\ LastIndex(r) >= Base(r)
  <1>1. Len(r.log) + Base(r) >= 0
    BY DEF WellFormed, Base
  <1>. QED BY <1>1, ReplicaParts

\* getLogTermByIndex yields a term wherever it does not panic.
LEMMA TermAtIsNat ==
  ASSUME NEW r \in Replica, NEW i \in Int, Base(r) <= i, i <= LastIndex(r)
  PROVE  TermAt(r, i) \in Nat
  <1>1. CASE i = Base(r)
    BY <1>1, ReplicaParts, SnapshotParts DEF TermAt
  <1>2. CASE i # Base(r)
    <2>1. i - Base(r) \in 1 .. Len(r.log)
      BY <1>2, ReplicaParts
    <2>2. r.log[i - Base(r)] \in Entry
      BY <2>1, ReplicaParts
    <2>. QED BY <1>2, <2>2 DEF TermAt, Entry
  <1>. QED BY <1>1, <1>2

LEMMA SuffixIsLog ==
  ASSUME NEW r \in Replica, NEW i \in Int, Base(r) < i
  PROVE  SuffixFrom(r, i) \in Seq(Entry)
  <1>1. i - Base(r) \in Int /\ i - Base(r) >= 1
    BY ReplicaParts
  <1>. QED BY <1>1, ReplicaParts DEF SuffixFrom

\* The commands of entries i..j, one for each index.
LEMMA CommandsAreCmds ==
  ASSUME NEW r \in Replica, NEW i \in Int, NEW j \in Int,
         Base(r) < i, i <= j + 1, j <= LastIndex(r)
  PROVE  /\ Commands(r, i, j) \in Seq(Cmd)
         /\ Len(Commands(r, i, j)) = j - i + 1
  <1>. DEFINE n == j - i + 1
  <1>1. n \in Nat
    OBVIOUS
  <1>2. \A k \in 1 .. n : r.log[i + k - 1 - Base(r)].cmd \in Cmd
    <2>. SUFFICES ASSUME NEW k \in 1 .. n
                  PROVE  r.log[i + k - 1 - Base(r)].cmd \in Cmd
      OBVIOUS
    <2>1. i + k - 1 - Base(r) \in 1 .. Len(r.log)
      BY ReplicaParts
    <2>2. r.log[i + k - 1 - Base(r)] \in Entry
      BY <2>1, ReplicaParts
    <2>. QED BY <2>2 DEF Entry
  <1>3. Commands(r, i, j) \in [1 .. n -> Cmd]
    BY <1>2 DEF Commands
  <1>. QED BY <1>1, <1>3

-----------------------------------------------------------------------------
\* the operators that change a replica

LEMMA AppendEntrySound ==
  ASSUME NEW r, Sound(r), NEW e \in Entry
  PROVE  Sound(AppendEntry(r, e))
  <1>1. r \in Replica /\ r.log \in Seq(Entry)
    BY ReplicaParts DEF Sound
  <1>2. Append(r.log, e) \in Seq(Entry) /\ Len(Append(r.log, e)) = Len(r.log) + 1
    BY <1>1
  <1>3. AppendEntry(r, e) \in Replica
    BY <1>1, <1>2 DEF AppendEntry, Replica
  <1>4. /\ AppendEntry(r, e).log = Append(r.log, e)
        /\ AppendEntry(r, e).snapshot = r.snapshot
        /\ AppendEntry(r, e).commitIndex = r.commitIndex
        /\ AppendEntry(r, e).applied = r.applied
    BY <1>1 DEF AppendEntry, Replica
  <1>5. WellFormed(r.log, r.snapshot, r.commitIndex)
    BY DEF Sound
  <1>6. r.snapshot.index \in Int /\ Len(r.log) \in Nat
    BY <1>1, ReplicaParts, SnapshotParts
  <1>. QED BY <1>1, <1>2, <1>3, <1>4, <1>5, <1>6 DEF Sound, WellFormed

LEMMA ApplyUpToSound ==
  ASSUME NEW r, Sound(r), NEW new \in Nat, r.commitIndex < new, new <= LastIndex(r)
  PROVE  /\ Sound(ApplyUpTo(r, new))
         /\ ApplyUpTo(r, new).commitIndex = new
         /\ Base(ApplyUpTo(r, new)) = Base(r)
         /\ LastIndex(ApplyUpTo(r, new)) = LastIndex(r)
  <1>1. r \in Replica /\ WellFormed(r.log, r.snapshot, r.commitIndex)
        /\ Len(r.applied) = r.commitIndex
    BY DEF Sound
  <1>2. /\ r.log \in Seq(Entry) /\ Len(r.log) \in Nat
        /\ r.snapshot.index \in Int
        /\ r.commitIndex \in Nat
        /\ r.applied \in Seq(Cmd)
        /\ LastIndex(r) \in Int /\ Base(r) \in Int
    BY <1>1, ReplicaParts, SnapshotParts
  <1>3. Base(r) <= r.commitIndex
    BY <1>1 DEF WellFormed, Base
  <1>. DEFINE new_cmds == Commands(r, r.commitIndex + 1, new)
              applied  == r.applied \o new_cmds
  <1>4. new_cmds \in Seq(Cmd) /\ Len(new_cmds) = new - (r.commitIndex + 1) + 1
    <2>1. /\ r.commitIndex + 1 \in Int /\ new \in Int
          /\ Base(r) < r.commitIndex + 1 /\ r.commitIndex + 1 <= new + 1
      BY <1>2, <1>3
    <2>. QED BY <2>1, <1>1, CommandsAreCmds
  <1>. HIDE DEF new_cmds
  <1>5. applied \in Seq(Cmd) /\ Len(applied) = new
    <2>1. applied \in Seq(Cmd) /\ Len(applied) = Len(r.applied) + Len(new_cmds)
      BY <1>2, <1>4, ConcatProperties
    <2>. QED BY <2>1, <1>1, <1>2, <1>4
  <1>6. ApplyUpTo(r, new) = [log |-> r.log, snapshot |-> r.snapshot,
                             commitIndex |-> new, applied |-> applied]
    BY DEF ApplyUpTo, new_cmds
  <1>. HIDE DEF applied
  <1>7. ApplyUpTo(r, new) \in Replica
    BY <1>1, <1>5, <1>6 DEF Replica
  <1>8. WellFormed(r.log, r.snapshot, new)
    BY <1>1, <1>2 DEF WellFormed
  <1>. QED BY <1>5, <1>6, <1>7, <1>8 DEF Sound, Base, LastIndex, LogLen

LEMMA TakeSnapshotSound ==
  ASSUME NEW r, Sound(r), NEW i \in Nat,
         Base(r) < i, i <= LastIndex(r), i <= r.commitIndex
  PROVE  Sound(TakeSnapshot(r, i))
  <1>1. r \in Replica /\ WellFormed(r.log, r.snapshot, r.commitIndex)
        /\ Len(r.applied) = r.commitIndex
    BY DEF Sound
  <1>2. /\ r.commitIndex \in Nat
        /\ r.applied \in Seq(Cmd)
        /\ Base(r) \in Int
    BY <1>1, ReplicaParts
  <1>3. SubSeq(r.applied, 1, i) \in Seq(Cmd) /\ Len(SubSeq(r.applied, 1, i)) = i
    BY <1>1, <1>2
  <1>4. TermAt(r, i) \in Nat
    BY <1>1, <1>2, TermAtIsNat
  <1>5. SuffixFrom(r, i + 1) \in Seq(Entry) /\ Len(SuffixFrom(r, i + 1)) \in Nat
    BY <1>1, <1>2, SuffixIsLog
  <1>. DEFINE snap == [index |-> i, term |-> TermAt(r, i), sm |-> SubSeq(r.applied, 1, i)]
  <1>6. snap \in Snapshot /\ snap.index = i /\ Len(snap.sm) = i
    BY <1>3, <1>4 DEF Snapshot
  <1>7. TakeSnapshot(r, i) = [log |-> SuffixFrom(r, i + 1), snapshot |-> snap,
                              commitIndex |-> r.commitIndex, applied |-> r.applied]
    BY DEF TakeSnapshot
  <1>. HIDE DEF snap
  <1>8. TakeSnapshot(r, i) \in Replica
    BY <1>1, <1>2, <1>5, <1>6, <1>7 DEF Replica
  <1>9. WellFormed(SuffixFrom(r, i + 1), snap, r.commitIndex)
    BY <1>5, <1>6 DEF WellFormed
  <1>. QED BY <1>1, <1>7, <1>8, <1>9 DEF Sound

\* The index of the last snapshot of a call lies past commitIndex and within
\* the indices the call commits.
LEMMA LastSnapshotInRange ==
  ASSUME NEW r \in Replica, NEW new \in Nat, FirstSnapshot(r) <= new
  PROVE  /\ LastSnapshot(r, new) \in Nat
         /\ r.commitIndex < LastSnapshot(r, new)
         /\ LastSnapshot(r, new) <= new
  <1>. DEFINE first == FirstSnapshot(r)
              T == SnapshotThreshold
              d == new - first
              q == d \div T
  <1>1. first \in Nat /\ r.commitIndex < first /\ r.commitIndex \in Nat
    BY ReplicaParts, ThresholdAssumption DEF FirstSnapshot, Greater
  <1>2. T \in Nat /\ T > 0 /\ d \in Nat
    BY <1>1, ThresholdAssumption
  <1>3. d = T * q + (d % T) /\ d % T \in Nat /\ q \in Nat
    <2>. HIDE DEF T, d
    <2>. QED BY <1>2, Z3
  <1>4. T * q \in Nat
    <2>. HIDE DEF T, q
    <2>. QED BY <1>2, <1>3
  <1>. DEFINE x == T * q
  <1>5. x \in Nat /\ x <= d
    <2>. HIDE DEF d, q, T
    <2>. QED BY <1>2, <1>3, <1>4
  <1>6. LastSnapshot(r, new) = first + x
    BY DEF LastSnapshot
  <1>. HIDE DEF x, T, q, first
  <1>. QED BY <1>1, <1>5, <1>6

LEMMA UpdateCommitIndexSound ==
  ASSUME NEW r, Sound(r), NEW idx \in Nat
  PROVE  Sound(UpdateCommitIndex(r, idx))
  <1>. DEFINE new == Lesser(idx, LastIndex(r))
  <1>1. r \in Replica /\ WellFormed(r.log, r.snapshot, r.commitIndex)
    BY DEF Sound
  <1>2. r.commitIndex \in Nat /\ Base(r) \in Int /\ LastIndex(r) \in Nat
    BY <1>1, ReplicaParts, LastIndexIsNat
  <1>3. Base(r) <= r.commitIndex
    BY <1>1 DEF WellFormed, Base
  <1>4. new \in Nat /\ new <= LastIndex(r)
    BY <1>2 DEF Lesser
  <1>5. CASE new <= r.commitIndex
    BY <1>5 DEF UpdateCommitIndex
  <1>6. CASE r.commitIndex < new /\ new < FirstSnapshot(r)
    <2>1. UpdateCommitIndex(r, idx) = ApplyUpTo(r, new)
      BY <1>6, <1>4, <1>2 DEF UpdateCommitIndex
    <2>. QED BY <2>1, <1>4, <1>6, ApplyUpToSound
  <1>7. CASE r.commitIndex < new /\ ~(new < FirstSnapshot(r))
    <2>1. UpdateCommitIndex(r, idx) = TakeSnapshot(ApplyUpTo(r, new), LastSnapshot(r, new))
      BY <1>7, <1>4, <1>2 DEF UpdateCommitIndex
    <2>. HIDE DEF new
    <2>2. /\ Sound(ApplyUpTo(r, new))
          /\ ApplyUpTo(r, new).commitIndex = new
          /\ Base(ApplyUpTo(r, new)) = Base(r)
          /\ LastIndex(ApplyUpTo(r, new)) = LastIndex(r)
      BY <1>4, <1>7, ApplyUpToSound
    <2>3. FirstSnapshot(r) \in Nat
      BY <1>2, ThresholdAssumption DEF FirstSnapshot, Greater
    <2>4. /\ LastSnapshot(r, new) \in Nat
          /\ r.commitIndex < LastSnapshot(r, new)
          /\ LastSnapshot(r, new) <= new
      BY <1>1, <1>4, <1>7, <2>3, LastSnapshotInRange
    <2>5. /\ Base(r) < LastSnapshot(r, new)
          /\ LastSnapshot(r, new) <= LastIndex(r)
      BY <2>4, <1>2, <1>3, <1>4
    <2>. QED BY <2>1, <2>2, <2>4, <2>5, TakeSnapshotSound
  <1>. QED BY <1>5, <1>6, <1>7, <1>2, <1>4

-----------------------------------------------------------------------------
\* the operators of the receivers

\* The loop of handleAppendEntries stops within the request, and within the log.
LEMMA HeldPrefixBounds ==
  ASSUME NEW r \in Replica, NEW prev \in Nat, NEW entries \in Seq(Entry),
         prev <= LastIndex(r)
  PROVE  /\ HeldPrefix(r, prev, entries) \in 0 .. Len(entries)
         /\ prev + HeldPrefix(r, prev, entries) <= LastIndex(r)
  <1>. DEFINE held  == {n \in 0 .. Len(entries) - 1 :
                          \A m \in 0 .. n : Agrees(r, prev, entries, m)}
              bound(k) == 0 .. k - 1
  <1>1. LastIndex(r) \in Int /\ LogLen(r) = LastIndex(r) + 1 /\ Len(entries) \in Nat
    BY ReplicaParts DEF LastIndex
  <1>2. ASSUME NEW k \in Nat
        PROVE  IsFiniteSet(bound(k)) /\ Cardinality(bound(k)) = k
    BY <1>2, FS_Interval
  <1>3. held \subseteq bound(Len(entries))
    OBVIOUS
  <1>4. held \subseteq bound(LastIndex(r) - prev)
    <2>. SUFFICES ASSUME NEW n \in held
                  PROVE  n \in bound(LastIndex(r) - prev)
      OBVIOUS
    <2>1. n \in Nat /\ Agrees(r, prev, entries, n)
      BY <1>1
    <2>2. prev + n + 1 < LogLen(r)
      BY <2>1 DEF Agrees
    <2>. QED BY <1>1, <2>1, <2>2
  <1>5. LastIndex(r) - prev \in Nat
    BY <1>1
  <1>. HIDE DEF held, bound
  <1>6. Cardinality(held) \in Nat /\ Cardinality(held) <= Len(entries)
    BY <1>1, <1>2, <1>3, FS_Subset, FS_CardinalityType
  <1>7. Cardinality(held) <= LastIndex(r) - prev
    BY <1>2, <1>4, <1>5, FS_Subset
  <1>8. HeldPrefix(r, prev, entries) = Cardinality(held)
    BY DEF HeldPrefix, held
  <1>. QED BY <1>1, <1>6, <1>7, <1>8

LEMMA MergeEntriesSound ==
  ASSUME NEW r, Sound(r), NEW prev \in Nat, NEW entries \in Seq(Entry),
         Base(r) <= prev, prev <= LastIndex(r)
  PROVE  Sound(MergeEntries(r, prev, entries))
  <1>. DEFINE held   == HeldPrefix(r, prev, entries)
              front  == SubSeq(r.log, 1, prev + held - Base(r))
              back   == SubSeq(entries, held + 1, Len(entries))
              merged == front \o back
  <1>1. /\ r \in Replica /\ WellFormed(r.log, r.snapshot, r.commitIndex)
        /\ Len(r.applied) = r.commitIndex
    BY DEF Sound
  <1>2. /\ r.log \in Seq(Entry) /\ Len(r.log) \in Nat
        /\ r.snapshot.index \in Int /\ Base(r) = r.snapshot.index
        /\ LastIndex(r) \in Int /\ LastIndex(r) = Len(r.log) + Base(r)
    BY <1>1, ReplicaParts, SnapshotParts DEF Base
  <1>3. held \in Nat /\ held <= Len(entries) /\ prev + held <= LastIndex(r)
    BY <1>1, HeldPrefixBounds
  <1>. HIDE DEF held
  <1>4. front \in Seq(Entry) /\ Len(front) = prev + held - Base(r)
    <2>1. prev + held - Base(r) \in Nat /\ prev + held - Base(r) <= Len(r.log)
      <3>1. \A a, h, b, l, n \in Int : b <= a /\ 0 <= h /\ a + h <= l /\ l = n + b =>
              a + h - b \in Nat /\ a + h - b <= n
        OBVIOUS
      <3>. QED BY <1>2, <1>3, <3>1
    <2>. QED BY <1>2, <2>1
  <1>5. back \in Seq(Entry) /\ Len(back) \in Nat
    BY <1>3
  <1>. HIDE DEF front, back
  <1>6. merged \in Seq(Entry) /\ Len(merged) = prev + held - Base(r) + Len(back)
    BY <1>4, <1>5, ConcatProperties
  <1>. HIDE DEF merged
  <1>7. CASE entries = <<>>
    BY <1>7 DEF MergeEntries
  <1>8. CASE entries # <<>>
    <2>1. MergeEntries(r, prev, entries) = [r EXCEPT !.log = merged]
      BY <1>8 DEF MergeEntries, merged, front, back, held
    <2>2. MergeEntries(r, prev, entries) \in Replica
      BY <2>1, <1>1, <1>6 DEF Replica
    <2>3. /\ MergeEntries(r, prev, entries).log = merged
          /\ MergeEntries(r, prev, entries).snapshot = r.snapshot
          /\ MergeEntries(r, prev, entries).commitIndex = r.commitIndex
          /\ MergeEntries(r, prev, entries).applied = r.applied
      BY <2>1, <1>1 DEF Replica
    <2>4. Len(merged) + r.snapshot.index >= 0
      <3>1. \A a, h, b, n \in Int : 0 <= a /\ 0 <= h /\ 0 <= n => (a + h - b + n) + b >= 0
        OBVIOUS
      <3>2. /\ prev \in Int /\ 0 <= prev /\ held \in Int /\ 0 <= held /\ Base(r) \in Int
            /\ Len(back) \in Int /\ 0 <= Len(back)
        BY <1>2, <1>3, <1>5
      <3>. QED BY <1>2, <1>6, <3>1, <3>2, Zenon
    <2>5. WellFormed(merged, r.snapshot, r.commitIndex)
      BY <1>1, <2>4 DEF WellFormed
    <2>. QED BY <1>1, <2>2, <2>3, <2>5 DEF Sound
  <1>. QED BY <1>7, <1>8

LEMMA InstallSnapshotSound ==
  ASSUME NEW r, Sound(r), NEW snap \in Snapshot, Len(snap.sm) = snap.index,
         snap.index < LastIndex(r) => Readable(r, snap.index)
  PROVE  Sound(InstallSnapshot(r, snap))
  <1>. DEFINE rest == IF KeepsSuffix(r, snap) THEN SuffixFrom(r, snap.index + 1) ELSE <<>>
  <1>1. r \in Replica
    BY DEF Sound
  <1>2. snap.index \in Nat /\ snap.sm \in Seq(Cmd)
    BY DEF Snapshot
  <1>3. rest \in Seq(Entry) /\ Len(rest) \in Nat
    <2>1. CASE KeepsSuffix(r, snap)
      <3>1. Base(r) \in Int /\ Base(r) < snap.index + 1
        BY <2>1, <1>1, <1>2, ReplicaParts DEF KeepsSuffix, Readable
      <3>2. SuffixFrom(r, snap.index + 1) \in Seq(Entry)
        BY <3>1, <1>1, <1>2, SuffixIsLog
      <3>. QED BY <2>1, <3>2
    <2>2. CASE ~KeepsSuffix(r, snap)
      BY <2>2
    <2>. QED BY <2>1, <2>2
  <1>4. InstallSnapshot(r, snap) = [log |-> rest, snapshot |-> snap,
                                    commitIndex |-> snap.index, applied |-> snap.sm]
    BY DEF InstallSnapshot
  <1>. HIDE DEF rest
  <1>5. InstallSnapshot(r, snap) \in Replica
    BY <1>2, <1>3, <1>4 DEF Replica
  <1>6. WellFormed(rest, snap, snap.index)
    BY <1>2, <1>3 DEF WellFormed
  <1>. QED BY <1>4, <1>5, <1>6 DEF Sound

\* What a load rebuilds from well-formed data is well formed, and its state
\* machine is up to date unless the load panics.
LEMMA ReloadSound ==
  ASSUME NEW log \in Seq(Entry), NEW snapshot \in Snapshot \cup {NoSnapshot},
         NEW commitIndex \in Nat, WellFormed(log, snapshot, commitIndex)
  PROVE  /\ Reload(log, snapshot, commitIndex) \in Replica
         /\ WellFormed(Reload(log, snapshot, commitIndex).log,
                       Reload(log, snapshot, commitIndex).snapshot,
                       Reload(log, snapshot, commitIndex).commitIndex)
         /\ ~LoadPanics(log, snapshot, commitIndex) =>
               Sound(Reload(log, snapshot, commitIndex))
  <1>. DEFINE r    == [log |-> log, snapshot |-> snapshot, commitIndex |-> commitIndex,
                       applied |-> snapshot.sm]
              from == Greater(Base(r) + 1, 1)
              to   == Lesser(commitIndex, LastIndex(r))
              cmds == Commands(r, from, to)
  <1>1. /\ snapshot.index \in Int /\ snapshot.index >= -1 /\ snapshot.sm \in Seq(Cmd)
        /\ snapshot = NoSnapshot <=> snapshot.index = -1
        /\ Len(log) \in Nat
    BY SnapshotParts
  <1>2. r \in Replica
    BY <1>1 DEF Replica
  <1>3. Base(r) = snapshot.index /\ LastIndex(r) = Len(log) + snapshot.index
    BY <1>1 DEF Base, LastIndex, LogLen
  <1>4. Len(snapshot.sm) = from - 1
    <2>1. CASE snapshot = NoSnapshot
      <3>1. Len(snapshot.sm) = 0
        BY <2>1 DEF NoSnapshot
      <3>. QED BY <3>1, <2>1, <1>1, <1>3 DEF Greater
    <2>2. CASE snapshot # NoSnapshot
      BY <2>2, <1>1, <1>3 DEF WellFormed, Greater
    <2>. QED BY <2>1, <2>2
  <1>5. /\ from \in Int /\ to \in Int /\ Base(r) < from
        /\ from <= to + 1 /\ to <= LastIndex(r)
    <2>1. \A b, l, n \in Int : b <= n /\ 0 <= n /\ 0 <= l /\ b <= l =>
            /\ Greater(b + 1, 1) \in Int /\ Lesser(n, l) \in Int /\ b < Greater(b + 1, 1)
            /\ Greater(b + 1, 1) <= Lesser(n, l) + 1 /\ Lesser(n, l) <= l
      BY DEF Greater, Lesser
    <2>2. /\ Base(r) \in Int /\ LastIndex(r) \in Int /\ commitIndex \in Int
          /\ Base(r) <= commitIndex /\ 0 <= commitIndex /\ 0 <= LastIndex(r)
          /\ Base(r) <= LastIndex(r)
      BY <1>1, <1>3 DEF WellFormed
    <2>. QED BY <2>1, <2>2, Zenon
  <1>. HIDE DEF from, to, r
  <1>6. cmds \in Seq(Cmd) /\ Len(cmds) = to - from + 1
    BY <1>2, <1>5, CommandsAreCmds
  <1>. HIDE DEF cmds
  <1>. DEFINE applied == snapshot.sm \o cmds
  <1>7. applied \in Seq(Cmd) /\ Len(applied) = to
    <2>1. applied \in Seq(Cmd) /\ Len(applied) = Len(snapshot.sm) + Len(cmds)
      BY <1>1, <1>6, ConcatProperties
    <2>. QED BY <2>1, <1>4, <1>5, <1>6
  <1>8. Reload(log, snapshot, commitIndex) =
          [log |-> log, snapshot |-> snapshot, commitIndex |-> commitIndex,
           applied |-> applied]
    BY DEF Reload, r, from, to, cmds
  <1>. HIDE DEF applied
  <1>9. Reload(log, snapshot, commitIndex) \in Replica
    BY <1>7, <1>8 DEF Replica
  <1>10. ~LoadPanics(log, snapshot, commitIndex) => to = commitIndex
    BY <1>1, <1>3 DEF LoadPanics, to, Lesser
  <1>. QED BY <1>7, <1>8, <1>9, <1>10 DEF Sound

\* The loop of handleAppendEntries stops at the first entry that is not held.
LEMMA HeldPrefixAgrees ==
  ASSUME NEW r \in Replica, NEW prev \in Nat, NEW entries \in Seq(Entry)
  PROVE  LET h == HeldPrefix(r, prev, entries)
         IN  /\ h \in 0 .. Len(entries)
             /\ \A n \in 0 .. h - 1 : Agrees(r, prev, entries, n)
             /\ h < Len(entries) => ~Agrees(r, prev, entries, h)
  <1>. DEFINE L    == Len(entries)
              held == {n \in 0 .. L - 1 : \A m \in 0 .. n : Agrees(r, prev, entries, m)}
              past == Nat \ held
  <1>1. L \in Nat
    OBVIOUS
  <1>2. L \in past
    BY <1>1
  <1>3. PICK k \in past : \A y \in past : k <= y
    <2>. HIDE DEF past
    <2>. QED BY <1>2, LeastElement DEF past
  <1>4. k \in Nat /\ k <= L
    BY <1>2, <1>3
  <1>5. \A n \in 0 .. k - 1 : n \in held
    BY <1>3, <1>4
  <1>6. \A n \in held : n < k
    <2>. SUFFICES ASSUME NEW n \in held, k <= n PROVE FALSE
      BY <1>1, <1>4
    <2>1. k \in 0 .. L - 1 /\ 0 .. k \subseteq 0 .. n
      BY <1>1, <1>4
    <2>2. k \in held
      BY <2>1
    <2>. QED BY <1>3, <2>2
  <1>7. held = 0 .. k - 1
    <2>1. \A n \in held : n \in 0 .. k - 1
      BY <1>1, <1>4, <1>6
    <2>. HIDE DEF held
    <2>. QED BY <1>5, <2>1
  <1>8. HeldPrefix(r, prev, entries) = k
    <2>1. Cardinality(0 .. k - 1) = k
      BY <1>4, FS_Interval
    <2>. QED BY <1>7, <2>1 DEF HeldPrefix
  <1>9. \A n \in 0 .. k - 1 : Agrees(r, prev, entries, n)
    BY <1>5
  <1>10. k < L => ~Agrees(r, prev, entries, k)
    <2>. SUFFICES ASSUME k < L, Agrees(r, prev, entries, k) PROVE FALSE
      OBVIOUS
    <2>1. \A m \in 0 .. k : m \in 0 .. k - 1 \/ m = k
      BY <1>4
    <2>2. \A m \in 0 .. k : Agrees(r, prev, entries, m)
      BY <1>9, <2>1
    <2>. QED BY <1>1, <1>3, <1>4, <2>2
  <1>. HIDE DEF held, past
  <1>. QED BY <1>1, <1>4, <1>8, <1>9, <1>10

\* s is the first n elements of a, and then those of b past its first h
Stitches(s, a, n, b, h) ==
  /\ Len(s) = n + (Len(b) - h)
  /\ \A j \in 1 .. n : s[j] = a[j]
  /\ \A u \in 1 .. Len(b) - h : s[n + u] = b[h + u]

LEMMA StitchedSequence ==
  ASSUME NEW S, NEW a \in Seq(S), NEW b \in Seq(S), NEW n \in Nat, NEW h \in Nat,
         n <= Len(a), h <= Len(b),
         NEW s, s = SubSeq(a, 1, n) \o SubSeq(b, h + 1, Len(b))
  PROVE  Stitches(s, a, n, b, h)
  <1>. DEFINE front == SubSeq(a, 1, n)
              back  == SubSeq(b, h + 1, Len(b))
              l     == Len(b) - h
  <1>1. /\ front \in Seq(S) /\ Len(front) = n
        /\ \A j \in 1 .. n : front[j] = a[j]
    OBVIOUS
  <1>2. /\ back \in Seq(S) /\ Len(back) = l /\ l \in Nat
        /\ \A u \in 1 .. l : back[u] = b[h + u]
    OBVIOUS
  <1>. HIDE DEF front, back, l
  <1>3. /\ front \o back \in Seq(S)
        /\ Len(front \o back) = Len(front) + Len(back)
        /\ \A j \in 1 .. Len(front) + Len(back) : (front \o back)[j] =
             IF j <= Len(front) THEN front[j] ELSE back[j - Len(front)]
    BY <1>1, <1>2, ConcatProperties, Zenon
  <1>4. \A j \in 1 .. n : (front \o back)[j] = a[j]
    BY <1>1, <1>2, <1>3
  <1>5. ASSUME NEW u \in 1 .. l PROVE (front \o back)[n + u] = b[h + u]
    <2>1. n + u \in 1 .. n + l /\ ~(n + u <= n) /\ (n + u) - n = u
      BY <1>2
    <2>. QED BY <1>1, <1>2, <1>3, <2>1
  <1>6. s = front \o back
    BY DEF front, back
  <1>. QED BY <1>1, <1>2, <1>3, <1>4, <1>5, <1>6 DEF Stitches, l

\* The log a merge leaves: what the receiver had up to the last entry that
\* both agree on, then the rest of the entries it was sent.
LEMMA MergedLog ==
  ASSUME NEW r, Sound(r), NEW prev \in Nat, NEW entries \in Seq(Entry), entries # <<>>,
         Base(r) <= prev, prev <= LastIndex(r)
  PROVE  LET s == MergeEntries(r, prev, entries)
             k == prev + HeldPrefix(r, prev, entries)
         IN  /\ s \in Replica /\ Base(s) = Base(r) /\ s.snapshot = r.snapshot
             /\ s.commitIndex = r.commitIndex /\ s.applied = r.applied
             /\ LastIndex(s) = prev + Len(entries)
             /\ \A i \in Base(r) + 1 .. k : s.log[i - Base(r)] = r.log[i - Base(r)]
             /\ \A i \in k + 1 .. prev + Len(entries) :
                  s.log[i - Base(r)] = entries[i - prev]
  <1>. DEFINE held == HeldPrefix(r, prev, entries)
              s == MergeEntries(r, prev, entries)
              n == prev + held - Base(r)
              stitched == SubSeq(r.log, 1, n) \o SubSeq(entries, held + 1, Len(entries))
  <1>1. r \in Replica
    BY DEF Sound
  <1>2. /\ r.log \in Seq(Entry) /\ Len(r.log) \in Nat /\ Base(r) \in Int /\ Base(r) >= -1
        /\ LastIndex(r) \in Int /\ LastIndex(r) = Len(r.log) + Base(r)
    BY <1>1, ReplicaParts
  <1>3. /\ held \in Nat /\ held <= Len(entries) /\ prev + held <= LastIndex(r)
        /\ Len(entries) \in Nat
    BY <1>1, HeldPrefixBounds
  <1>4. Sound(s)
    BY MergeEntriesSound
  <1>5. s = [r EXCEPT !.log = stitched]
    <2>1. (prev + held) - Base(r) = n
      BY <1>2, <1>3
    <2>. QED BY <2>1 DEF MergeEntries
  <1>. HIDE DEF stitched, s
  <1>6. /\ s \in Replica /\ s.log = stitched /\ s.snapshot = r.snapshot
        /\ s.commitIndex = r.commitIndex /\ s.applied = r.applied
    BY <1>1, <1>4, <1>5 DEF Sound, Replica
  <1>7. Base(s) = Base(r) /\ LastIndex(s) = Len(s.log) + Base(r)
    <2>1. Base(s) = Base(r)
      BY <1>6 DEF Base
    <2>. QED BY <1>6, <2>1, ReplicaParts
  <1>. HIDE DEF held
  <1>8. n \in Nat /\ n <= Len(r.log) /\ n = (prev + held) - Base(r)
    BY <1>2, <1>3
  <1>. HIDE DEF n
  <1>9. /\ Len(s.log) = n + (Len(entries) - held)
        /\ \A j \in 1 .. n : s.log[j] = r.log[j]
        /\ \A u \in 1 .. Len(entries) - held : s.log[n + u] = entries[held + u]
    <2>1. /\ r.log \in Seq(Entry) /\ n \in Nat /\ held \in Nat
          /\ n <= Len(r.log) /\ held <= Len(entries)
      BY <1>2, <1>3, <1>8
    <2>2. Stitches(stitched, r.log, n, entries, held)
      BY <2>1, StitchedSequence, Zenon DEF stitched
    <2>. QED BY <1>6, <2>2 DEF Stitches
  <1>10. LastIndex(s) = prev + Len(entries)
    <2>1. LastIndex(s) = (n + (Len(entries) - held)) + Base(r)
      BY <1>7, <1>9
    <2>. QED BY <1>2, <1>3, <1>8, <2>1
  <1>11. ASSUME NEW i \in Base(r) + 1 .. prev + held
         PROVE  s.log[i - Base(r)] = r.log[i - Base(r)]
    <2>1. i - Base(r) \in 1 .. n
      BY <1>2, <1>3, <1>8
    <2>. QED BY <1>9, <2>1
  <1>12. ASSUME NEW i \in (prev + held) + 1 .. prev + Len(entries)
         PROVE  s.log[i - Base(r)] = entries[i - prev]
    <2>. DEFINE u == i - (prev + held)
    <2>1. u \in 1 .. Len(entries) - held
      BY <1>3
    <2>2. n + u = i - Base(r)
      BY <1>2, <1>3, <1>8
    <2>3. held + u = i - prev
      BY <1>3
    <2>. HIDE DEF u
    <2>. QED BY <1>9, <2>1, <2>2, <2>3
  <1>. QED BY <1>6, <1>7, <1>10, <1>11, <1>12 DEF s, held

-----------------------------------------------------------------------------
\* what the operators make of a replica, place by place

LEMMA SameReplica ==
  ASSUME NEW r \in Replica, NEW s \in Replica, r.log = s.log, r.snapshot = s.snapshot,
         r.commitIndex = s.commitIndex, r.applied = s.applied
  PROVE  r = s
  BY DEF Replica

LEMMA ConcatIs ==
  ASSUME NEW S, NEW s \in Seq(S), NEW t \in Seq(S), NEW u \in Seq(S),
         Len(u) = Len(s) + Len(t),
         \A k \in 1 .. Len(s) : u[k] = s[k],
         \A k \in 1 .. Len(t) : u[Len(s) + k] = t[k]
  PROVE  s \o t = u
  <1>1. /\ s \o t \in Seq(S) /\ Len(s \o t) = Len(s) + Len(t)
        /\ \A k \in 1 .. Len(s) + Len(t) :
             (s \o t)[k] = IF k <= Len(s) THEN s[k] ELSE t[k - Len(s)]
    BY ConcatProperties
  <1>2. ASSUME NEW k \in 1 .. Len(u) PROVE (s \o t)[k] = u[k]
    <2>1. CASE k <= Len(s)
      BY <1>1, <2>1
    <2>2. CASE ~(k <= Len(s))
      <3>1. k - Len(s) \in 1 .. Len(t) /\ Len(s) + (k - Len(s)) = k
        BY <2>2
      <3>. QED BY <1>1, <2>2, <3>1
    <2>. QED BY <2>1, <2>2
  <1>. QED BY <1>1, <1>2, SeqEqual

LEMMA CommandsJoin ==
  ASSUME NEW r \in Replica, NEW i \in Int, NEW a \in Int, NEW b \in Int,
         Base(r) < i, i <= a + 1, a <= b, b <= LastIndex(r)
  PROVE  Commands(r, i, a) \o Commands(r, a + 1, b) = Commands(r, i, b)
  <1>. DEFINE s == Commands(r, i, a)
              t == Commands(r, a + 1, b)
              u == Commands(r, i, b)
  <1>1. Base(r) \in Int /\ LastIndex(r) \in Int /\ a <= LastIndex(r) /\ Base(r) < a + 1
        /\ i <= b + 1
    BY ReplicaParts
  <1>2. s \in Seq(Cmd) /\ Len(s) = a - i + 1
    BY <1>1, CommandsAreCmds
  <1>3. t \in Seq(Cmd) /\ Len(t) = b - (a + 1) + 1
    BY <1>1, CommandsAreCmds
  <1>4. u \in Seq(Cmd) /\ Len(u) = b - i + 1
    BY <1>1, CommandsAreCmds
  <1>5. ASSUME NEW k \in 1 .. Len(s) PROVE u[k] = s[k]
    <2>1. k \in 1 .. a - i + 1 /\ k \in 1 .. b - i + 1
      BY <1>2
    <2>. QED BY <2>1 DEF Commands
  <1>6. ASSUME NEW k \in 1 .. Len(t) PROVE u[Len(s) + k] = t[k]
    <2>1. k \in 1 .. b - (a + 1) + 1 /\ Len(s) + k \in 1 .. b - i + 1
      BY <1>2, <1>3
    <2>2. u[Len(s) + k] = r.log[i + (Len(s) + k) - 1 - Base(r)].cmd
      BY <2>1 DEF Commands
    <2>3. t[k] = r.log[(a + 1) + k - 1 - Base(r)].cmd
      BY <2>1 DEF Commands
    <2>4. i + (Len(s) + k) - 1 - Base(r) = (a + 1) + k - 1 - Base(r)
      BY <1>1, <1>2, <2>1
    <2>. HIDE DEF s, t, u
    <2>. QED BY <2>2, <2>3, <2>4
  <1>. HIDE DEF s, t, u
  <1>7. Len(u) = Len(s) + Len(t)
    BY <1>2, <1>3, <1>4
  <1>8. s \o t = u
    BY <1>2, <1>3, <1>4, <1>5, <1>6, <1>7, ConcatIs, Zenon
  <1>. QED BY <1>8 DEF s, t, u

\* Commands that are fed after s make a sequence that goes on to the last of them.
LEMMA FedIs ==
  ASSUME NEW r \in Replica, NEW s \in Seq(Cmd), NEW i \in Int, NEW j \in Int,
         Base(r) < i, i <= j + 1, j <= LastIndex(r), Len(s) = i - 1
  PROVE  /\ s \o Commands(r, i, j) \in Seq(Cmd) /\ Len(s \o Commands(r, i, j)) = j
         /\ \A k \in 1 .. j : (s \o Commands(r, i, j))[k] = IF k < i THEN s[k] ELSE CmdAt(r, k)
  <1>. DEFINE c == Commands(r, i, j)
  <1>1. c \in Seq(Cmd) /\ Len(c) = j - i + 1
    BY CommandsAreCmds
  <1>2. Base(r) \in Int
    BY ReplicaParts
  <1>3. \A k \in 1 .. j - i + 1 : c[k] = r.log[i + k - 1 - Base(r)].cmd
    BY DEF Commands
  <1>. HIDE DEF c
  <1>4. /\ s \o c \in Seq(Cmd) /\ Len(s \o c) = Len(s) + Len(c)
        /\ \A k \in 1 .. Len(s) + Len(c) :
             (s \o c)[k] = IF k <= Len(s) THEN s[k] ELSE c[k - Len(s)]
    BY <1>1, ConcatProperties
  <1>5. Len(s) + Len(c) = j
    BY <1>1
  <1>6. ASSUME NEW k \in 1 .. j PROVE (s \o c)[k] = IF k < i THEN s[k] ELSE CmdAt(r, k)
    <2>1. CASE k < i
      BY <1>4, <1>5, <2>1
    <2>2. CASE ~(k < i)
      <3>1. k - Len(s) \in 1 .. j - i + 1 /\ i + (k - Len(s)) - 1 - Base(r) = k - Base(r)
        BY <1>2, <2>2
      <3>2. (s \o c)[k] = c[k - Len(s)]
        BY <1>4, <1>5, <2>2
      <3>. QED BY <1>3, <2>2, <3>1, <3>2 DEF CmdAt
    <2>. QED BY <2>1, <2>2
  <1>. QED BY <1>4, <1>5, <1>6 DEF c

LEMMA ApplyUpToIs ==
  ASSUME NEW r, Sound(r), NEW new \in Nat, r.commitIndex <= new, new <= LastIndex(r)
  PROVE  LET t == ApplyUpTo(r, new)
         IN  /\ Sound(t) /\ Base(t) = Base(r) /\ LastIndex(t) = LastIndex(r)
             /\ t.log = r.log /\ t.snapshot = r.snapshot /\ t.commitIndex = new
             /\ \A k \in 1 .. new :
                  t.applied[k] = IF k <= r.commitIndex THEN r.applied[k] ELSE CmdAt(r, k)
  <1>. DEFINE t == ApplyUpTo(r, new)
              a == r.applied \o Commands(r, r.commitIndex + 1, new)
  <1>1. /\ r \in Replica /\ WellFormed(r.log, r.snapshot, r.commitIndex)
        /\ Len(r.applied) = r.commitIndex
        /\ r.log \in Seq(Entry) /\ r.snapshot \in Snapshot \cup {NoSnapshot}
        /\ r.commitIndex \in Nat /\ r.applied \in Seq(Cmd)
        /\ Base(r) \in Int /\ LastIndex(r) \in Int /\ Base(r) <= r.commitIndex
    BY ReplicaParts DEF Sound, WellFormed, Base
  <1>2. /\ a \in Seq(Cmd) /\ Len(a) = new
        /\ \A k \in 1 .. new : a[k] = IF k < r.commitIndex + 1 THEN r.applied[k] ELSE CmdAt(r, k)
    <2>1. /\ r.commitIndex + 1 \in Int /\ new \in Int /\ Base(r) < r.commitIndex + 1
          /\ r.commitIndex + 1 <= new + 1 /\ Len(r.applied) = (r.commitIndex + 1) - 1
      BY <1>1
    <2>. QED BY <1>1, <2>1, FedIs
  <1>3. t = [log |-> r.log, snapshot |-> r.snapshot, commitIndex |-> new, applied |-> a]
    BY DEF ApplyUpTo
  <1>. HIDE DEF a, t
  <1>4. t \in Replica
    BY <1>1, <1>2, <1>3 DEF Replica
  <1>5. WellFormed(r.log, r.snapshot, new)
    <2>1. r.snapshot.index \in Int
      BY <1>1, SnapshotParts
    <2>. QED BY <1>1, <2>1 DEF WellFormed
  <1>6. /\ t.log = r.log /\ t.snapshot = r.snapshot /\ t.commitIndex = new /\ t.applied = a
    BY <1>3
  <1>7. Sound(t) /\ Base(t) = Base(r) /\ LastIndex(t) = LastIndex(r)
    BY <1>2, <1>4, <1>5, <1>6 DEF Sound, Base, LastIndex, LogLen
  <1>8. \A k \in 1 .. new : t.applied[k] = IF k <= r.commitIndex THEN r.applied[k] ELSE CmdAt(r, k)
    BY <1>1, <1>2, <1>6
  <1>. QED BY <1>6, <1>7, <1>8 DEF t

\* The entries after i stay at their indices when a snapshot is taken at i.
LEMMA TakeSnapshotIs ==
  ASSUME NEW r, Sound(r), NEW i \in Nat, Base(r) < i, i <= LastIndex(r), i <= r.commitIndex
  PROVE  LET t == TakeSnapshot(r, i)
         IN  /\ Sound(t) /\ Base(t) = i /\ LastIndex(t) = LastIndex(r)
             /\ t.commitIndex = r.commitIndex /\ t.applied = r.applied
             /\ t.snapshot = [index |-> i, term |-> TermAt(r, i), sm |-> SubSeq(r.applied, 1, i)]
             /\ t.log = SuffixFrom(r, i + 1)
             /\ \A k \in i + 1 .. LastIndex(r) : t.log[k - i] = r.log[k - Base(r)]
             /\ \A k \in 1 .. i : t.snapshot.sm[k] = r.applied[k]
  <1>. DEFINE t == TakeSnapshot(r, i)
  <1>1. /\ r \in Replica /\ r.log \in Seq(Entry) /\ Len(r.log) \in Nat
        /\ r.applied \in Seq(Cmd) /\ Len(r.applied) = r.commitIndex /\ r.commitIndex \in Nat
        /\ Base(r) \in Int /\ LastIndex(r) \in Int /\ LastIndex(r) = Len(r.log) + Base(r)
        /\ Base(r) >= -1
    BY ReplicaParts DEF Sound
  <1>2. Sound(t)
    BY TakeSnapshotSound
  <1>3. /\ t.log = SuffixFrom(r, i + 1) /\ t.commitIndex = r.commitIndex /\ t.applied = r.applied
        /\ t.snapshot = [index |-> i, term |-> TermAt(r, i), sm |-> SubSeq(r.applied, 1, i)]
    BY DEF TakeSnapshot
  <1>. HIDE DEF t
  <1>4. /\ Len(t.log) = LastIndex(r) - i
        /\ \A k \in 1 .. LastIndex(r) - i : t.log[k] = r.log[k + i - Base(r)]
    <2>. DEFINE a == (i + 1) - Base(r)
    <2>1. a \in 1 .. Len(r.log) + 1 /\ a = i + 1 - Base(r)
      BY <1>1
    <2>2. t.log = SubSeq(r.log, a, Len(r.log))
      BY <1>3, <2>1 DEF SuffixFrom
    <2>. HIDE DEF a
    <2>3. /\ Len(t.log) = Len(r.log) - a + 1
          /\ \A k \in 1 .. Len(r.log) - a + 1 : t.log[k] = r.log[a + k - 1]
      BY <1>1, <2>1, <2>2
    <2>4. Len(r.log) - a + 1 = LastIndex(r) - i
      BY <1>1 DEF a
    <2>5. \A k \in 1 .. LastIndex(r) - i : a + k - 1 = k + i - Base(r)
      BY <1>1 DEF a
    <2>. QED BY <2>3, <2>4, <2>5
  <1>5. Base(t) = i /\ LastIndex(t) = LastIndex(r)
    <2>1. Base(t) = i
      BY <1>3 DEF Base
    <2>2. Len(t.log) \in Int
      BY <1>1, <1>4
    <2>. QED BY <1>1, <1>4, <2>1, <2>2 DEF LastIndex, LogLen
  <1>6. ASSUME NEW k \in i + 1 .. LastIndex(r) PROVE t.log[k - i] = r.log[k - Base(r)]
    <2>1. k - i \in 1 .. LastIndex(r) - i /\ (k - i) + i - Base(r) = k - Base(r)
      BY <1>1
    <2>. QED BY <1>4, <2>1
  <1>7. \A k \in 1 .. i : t.snapshot.sm[k] = r.applied[k]
    <2>1. \A k \in 1 .. i : SubSeq(r.applied, 1, i)[k] = r.applied[k]
      BY <1>1
    <2>. QED BY <1>3, <2>1
  <1>. QED BY <1>2, <1>3, <1>5, <1>6, <1>7 DEF t

LEMMA SoundParts ==
  ASSUME NEW r, Sound(r)
  PROVE  /\ r \in Replica /\ r.log \in Seq(Entry) /\ Len(r.log) \in Nat
         /\ r.snapshot \in Snapshot \cup {NoSnapshot} /\ r.snapshot.sm \in Seq(Cmd)
         /\ Len(r.snapshot.sm) = Greater(Base(r), 0)
         /\ r.applied \in Seq(Cmd) /\ Len(r.applied) = r.commitIndex /\ r.commitIndex \in Nat
         /\ Base(r) \in Int /\ Base(r) >= -1 /\ Base(r) <= r.commitIndex
         /\ LastIndex(r) \in Nat /\ Base(r) <= LastIndex(r)
         /\ LastIndex(r) = Len(r.log) + Base(r) /\ LogLen(r) = LastIndex(r) + 1
  <1>1. r \in Replica /\ WellFormed(r.log, r.snapshot, r.commitIndex) /\ Len(r.applied) = r.commitIndex
    BY DEF Sound
  <1>2. /\ r.log \in Seq(Entry) /\ Len(r.log) \in Nat
        /\ r.snapshot \in Snapshot \cup {NoSnapshot}
        /\ r.applied \in Seq(Cmd) /\ r.commitIndex \in Nat
        /\ Base(r) \in Int /\ Base(r) >= -1
        /\ LastIndex(r) \in Int /\ LastIndex(r) = Len(r.log) + Base(r)
    BY <1>1, ReplicaParts
  <1>3. /\ Base(r) <= r.commitIndex /\ LastIndex(r) \in Nat /\ Base(r) <= LastIndex(r)
    BY <1>1, LastIndexIsNat DEF WellFormed, Base
  <1>4. LogLen(r) = LastIndex(r) + 1
    BY <1>2 DEF LogLen, LastIndex
  <1>5. r.snapshot.sm \in Seq(Cmd) /\ Len(r.snapshot.sm) = Greater(Base(r), 0)
    <2>1. CASE r.snapshot = NoSnapshot
      BY <2>1 DEF NoSnapshot, Base, Greater
    <2>2. CASE r.snapshot # NoSnapshot
      <3>1. Len(r.snapshot.sm) = Base(r)
        BY <1>1, <2>2 DEF WellFormed, Base
      <3>2. r.snapshot.sm \in Seq(Cmd)
        BY <1>2, SnapshotParts
      <3>. QED BY <3>1, <3>2, <1>2 DEF Greater
    <2>. QED BY <2>1, <2>2
  <1>. QED BY <1>1, <1>2, <1>3, <1>4, <1>5

\* Feeding the machine in two calls or in one is the same.
LEMMA ApplyTwice ==
  ASSUME NEW r, Sound(r), NEW m \in Nat, NEW new \in Nat,
         r.commitIndex <= m, m <= new, new <= LastIndex(r)
  PROVE  ApplyUpTo(ApplyUpTo(r, m), new) = ApplyUpTo(r, new)
  <1>. DEFINE t == ApplyUpTo(r, m)
              u == ApplyUpTo(t, new)
              v == ApplyUpTo(r, new)
  <1>1. r.commitIndex \in Nat /\ LastIndex(r) \in Nat
    BY SoundParts
  <1>2. /\ Sound(t) /\ Base(t) = Base(r) /\ LastIndex(t) = LastIndex(r)
        /\ t.log = r.log /\ t.snapshot = r.snapshot /\ t.commitIndex = m
        /\ \A k \in 1 .. m : t.applied[k] = IF k <= r.commitIndex THEN r.applied[k] ELSE CmdAt(r, k)
    BY <1>1, ApplyUpToIs
  <1>3. /\ Sound(v) /\ v.log = r.log /\ v.snapshot = r.snapshot /\ v.commitIndex = new
        /\ \A k \in 1 .. new : v.applied[k] = IF k <= r.commitIndex THEN r.applied[k] ELSE CmdAt(r, k)
    BY <1>1, ApplyUpToIs
  <1>. HIDE DEF t, v
  <1>4. /\ Sound(u) /\ u.log = t.log /\ u.snapshot = t.snapshot /\ u.commitIndex = new
        /\ \A k \in 1 .. new : u.applied[k] = IF k <= m THEN t.applied[k] ELSE CmdAt(t, k)
    BY <1>2, ApplyUpToIs
  <1>. HIDE DEF u
  <1>5. ASSUME NEW k \in 1 .. new PROVE u.applied[k] = v.applied[k]
    <2>1. CmdAt(t, k) = CmdAt(r, k)
      BY <1>2 DEF CmdAt
    <2>2. CASE k <= m
      BY <1>2, <1>3, <1>4, <2>2
    <2>3. CASE ~(k <= m)
      BY <1>1, <1>3, <1>4, <2>1, <2>3
    <2>. QED BY <2>2, <2>3
  <1>6. u.applied = v.applied
    <2>1. /\ u.applied \in Seq(Cmd) /\ v.applied \in Seq(Cmd)
          /\ Len(u.applied) = new /\ Len(v.applied) = new
      BY <1>3, <1>4, SoundParts
    <2>. QED BY <1>5, <2>1, SeqEqual
  <1>7. u = v
    BY <1>2, <1>3, <1>4, <1>6, SameReplica DEF Sound
  <1>. QED BY <1>7 DEF t, u, v

\* Entries that are fed after a snapshot could have been fed before it.
LEMMA SnapshotThenApply ==
  ASSUME NEW r, Sound(r), NEW m \in Nat, NEW new \in Nat, NEW l \in Nat,
         r.commitIndex <= m, m <= new, new <= LastIndex(r), Base(r) < l, l <= m
  PROVE  ApplyUpTo(TakeSnapshot(ApplyUpTo(r, m), l), new) = TakeSnapshot(ApplyUpTo(r, new), l)
  <1>. DEFINE t == ApplyUpTo(r, m)
              s == TakeSnapshot(t, l)
              u == ApplyUpTo(s, new)
              w == ApplyUpTo(r, new)
              v == TakeSnapshot(w, l)
  <1>1. r.commitIndex \in Nat /\ LastIndex(r) \in Nat /\ Base(r) \in Int
    BY SoundParts
  <1>2. /\ Sound(t) /\ Base(t) = Base(r) /\ LastIndex(t) = LastIndex(r)
        /\ t.log = r.log /\ t.snapshot = r.snapshot /\ t.commitIndex = m
        /\ \A k \in 1 .. m : t.applied[k] = IF k <= r.commitIndex THEN r.applied[k] ELSE CmdAt(r, k)
    BY <1>1, ApplyUpToIs
  <1>3. /\ Sound(w) /\ w.log = r.log /\ w.snapshot = r.snapshot /\ w.commitIndex = new
        /\ Base(w) = Base(r) /\ LastIndex(w) = LastIndex(r)
        /\ \A k \in 1 .. new : w.applied[k] = IF k <= r.commitIndex THEN r.applied[k] ELSE CmdAt(r, k)
    BY <1>1, ApplyUpToIs
  <1>. HIDE DEF t, w
  <1>4. /\ Sound(s) /\ Base(s) = l /\ LastIndex(s) = LastIndex(t)
        /\ s.commitIndex = m /\ s.applied = t.applied
        /\ s.snapshot = [index |-> l, term |-> TermAt(t, l), sm |-> SubSeq(t.applied, 1, l)]
        /\ s.log = SuffixFrom(t, l + 1)
        /\ \A k \in l + 1 .. LastIndex(r) : s.log[k - l] = t.log[k - Base(t)]
    BY <1>1, <1>2, TakeSnapshotIs
  <1>5. /\ Sound(v) /\ v.commitIndex = new /\ v.applied = w.applied
        /\ v.snapshot = [index |-> l, term |-> TermAt(w, l), sm |-> SubSeq(w.applied, 1, l)]
        /\ v.log = SuffixFrom(w, l + 1)
    BY <1>1, <1>3, TakeSnapshotIs
  <1>. HIDE DEF s, v
  <1>6. /\ Sound(u) /\ u.log = s.log /\ u.snapshot = s.snapshot /\ u.commitIndex = new
        /\ \A k \in 1 .. new : u.applied[k] = IF k <= m THEN s.applied[k] ELSE CmdAt(s, k)
    BY <1>2, <1>4, ApplyUpToIs
  <1>. HIDE DEF u
  <1>7. ASSUME NEW k \in 1 .. new PROVE u.applied[k] = w.applied[k]
    <2>1. CASE k <= m
      BY <1>2, <1>3, <1>4, <1>6, <2>1
    <2>2. CASE ~(k <= m)
      <3>1. k \in l + 1 .. LastIndex(r)
        BY <1>1, <2>2
      <3>2. CmdAt(s, k) = CmdAt(r, k)
        BY <1>2, <1>4, <3>1 DEF CmdAt
      <3>. QED BY <1>1, <1>3, <1>6, <2>2, <3>2
    <2>. QED BY <2>1, <2>2
  <1>8. /\ t.applied \in Seq(Cmd) /\ Len(t.applied) = m
        /\ u.applied \in Seq(Cmd) /\ Len(u.applied) = new
        /\ w.applied \in Seq(Cmd) /\ Len(w.applied) = new
    BY <1>2, <1>3, <1>6, SoundParts
  <1>9. u.applied = w.applied
    BY <1>7, <1>8, SeqEqual
  <1>10. SubSeq(t.applied, 1, l) = SubSeq(w.applied, 1, l)
    <2>1. \A k \in 1 .. m : t.applied[k] = w.applied[k]
      BY <1>2, <1>3
    <2>2. /\ SubSeq(t.applied, 1, l) \in Seq(Cmd) /\ Len(SubSeq(t.applied, 1, l)) = l
          /\ SubSeq(w.applied, 1, l) \in Seq(Cmd) /\ Len(SubSeq(w.applied, 1, l)) = l
          /\ \A k \in 1 .. l : SubSeq(t.applied, 1, l)[k] = t.applied[k]
          /\ \A k \in 1 .. l : SubSeq(w.applied, 1, l)[k] = w.applied[k]
      BY <1>8
    <2>3. \A k \in 1 .. l : SubSeq(t.applied, 1, l)[k] = SubSeq(w.applied, 1, l)[k]
      BY <2>1, <2>2
    <2>. QED BY <2>2, <2>3, SeqEqual
  <1>11. TermAt(t, l) = TermAt(w, l) /\ SuffixFrom(t, l + 1) = SuffixFrom(w, l + 1)
    BY <1>2, <1>3 DEF TermAt, SuffixFrom
  <1>12. u.log = v.log /\ u.snapshot = v.snapshot
    BY <1>4, <1>5, <1>6, <1>10, <1>11, Zenon
  <1>13. u = v
    BY <1>5, <1>6, <1>9, <1>12, SameReplica DEF Sound
  <1>. QED BY <1>13 DEF t, s, u, w, v

\* A snapshot replaces one that was taken before.
LEMMA SnapshotTwice ==
  ASSUME NEW r, Sound(r), NEW l \in Nat, NEW i \in Nat,
         Base(r) < l, l < i, i <= r.commitIndex, i <= LastIndex(r)
  PROVE  TakeSnapshot(TakeSnapshot(r, l), i) = TakeSnapshot(r, i)
  <1>. DEFINE t == TakeSnapshot(r, l)
              u == TakeSnapshot(t, i)
              v == TakeSnapshot(r, i)
  <1>1. /\ r.commitIndex \in Nat /\ LastIndex(r) \in Nat /\ Base(r) \in Int
        /\ l <= LastIndex(r) /\ l <= r.commitIndex /\ Base(r) < i
    BY SoundParts
  <1>2. /\ Sound(t) /\ Base(t) = l /\ LastIndex(t) = LastIndex(r)
        /\ t.commitIndex = r.commitIndex /\ t.applied = r.applied
        /\ \A k \in l + 1 .. LastIndex(r) : t.log[k - l] = r.log[k - Base(r)]
    BY <1>1, TakeSnapshotIs
  <1>3. /\ Sound(v) /\ Base(v) = i /\ LastIndex(v) = LastIndex(r)
        /\ v.commitIndex = r.commitIndex /\ v.applied = r.applied
        /\ v.snapshot = [index |-> i, term |-> TermAt(r, i), sm |-> SubSeq(r.applied, 1, i)]
        /\ \A k \in i + 1 .. LastIndex(r) : v.log[k - i] = r.log[k - Base(r)]
    BY <1>1, TakeSnapshotIs
  <1>. HIDE DEF t, v
  <1>4. /\ Sound(u) /\ Base(u) = i /\ LastIndex(u) = LastIndex(r)
        /\ u.commitIndex = r.commitIndex /\ u.applied = r.applied
        /\ u.snapshot = [index |-> i, term |-> TermAt(t, i), sm |-> SubSeq(t.applied, 1, i)]
        /\ \A k \in i + 1 .. LastIndex(r) : u.log[k - i] = t.log[k - l]
    <2>1. Base(t) < i /\ i <= LastIndex(t) /\ i <= t.commitIndex
      BY <1>1, <1>2
    <2>2. /\ Sound(u) /\ Base(u) = i /\ LastIndex(u) = LastIndex(t)
          /\ u.commitIndex = t.commitIndex /\ u.applied = t.applied
          /\ u.snapshot = [index |-> i, term |-> TermAt(t, i), sm |-> SubSeq(t.applied, 1, i)]
          /\ \A k \in i + 1 .. LastIndex(t) : u.log[k - i] = t.log[k - Base(t)]
      BY <1>2, <2>1, TakeSnapshotIs
    <2>. QED BY <1>2, <2>2
  <1>. HIDE DEF u
  <1>5. TermAt(t, i) = TermAt(r, i)
    <2>1. t.log[i - l] = r.log[i - Base(r)]
      BY <1>1, <1>2
    <2>. QED BY <1>1, <1>2, <2>1 DEF TermAt
  <1>6. u.snapshot = v.snapshot
    BY <1>2, <1>3, <1>4, <1>5, Zenon
  <1>7. u.log = v.log
    <2>1. /\ u.log \in Seq(Entry) /\ v.log \in Seq(Entry)
          /\ Len(u.log) \in Nat /\ Len(v.log) \in Nat
          /\ LastIndex(r) = Len(u.log) + i /\ LastIndex(r) = Len(v.log) + i
      BY <1>3, <1>4, SoundParts
    <2>2. Len(u.log) = Len(v.log)
      BY <2>1
    <2>3. ASSUME NEW n \in 1 .. Len(u.log) PROVE u.log[n] = v.log[n]
      <3>1. n + i \in i + 1 .. LastIndex(r) /\ n + i \in l + 1 .. LastIndex(r) /\ (n + i) - i = n
        BY <2>1
      <3>2. u.log[(n + i) - i] = v.log[(n + i) - i]
        BY <1>2, <1>3, <1>4, <3>1
      <3>. QED BY <3>1, <3>2
    <2>. QED BY <2>1, <2>2, <2>3, SeqEqual
  <1>8. u = v
    BY <1>3, <1>4, <1>6, <1>7, SameReplica DEF Sound
  <1>. QED BY <1>8 DEF t, u, v

-----------------------------------------------------------------------------
\* updateCommitIndex, one entry after another

\* The snapshots of a call are SnapshotThreshold apart: when the call goes one entry further,
\* its last snapshot stays where it is, unless it falls on that entry.
LEMMA LastSnapshotMoves ==
  ASSUME NEW r \in Replica, NEW n \in Nat, FirstSnapshot(r) <= n
  PROVE  /\ LastSnapshot(r, n) \in Nat /\ LastSnapshot(r, n) <= n
         /\ LastSnapshot(r, n + 1) = IF n + 1 - LastSnapshot(r, n) >= SnapshotThreshold
                                       THEN n + 1 ELSE LastSnapshot(r, n)
  <1>. DEFINE first == FirstSnapshot(r)
              T == SnapshotThreshold
              d == n - first
              e == (n + 1) - first
              q == d \div T
              m == d % T
  <1>1. first \in Nat /\ T \in Nat /\ T > 0 /\ d \in Nat /\ e = d + 1
    <2>1. first \in Nat /\ T \in Nat /\ T > 0
      BY ReplicaParts, ThresholdAssumption DEF FirstSnapshot, Greater
    <2>2. first <= n
      OBVIOUS
    <2>. HIDE DEF first, T
    <2>. QED BY <2>1, <2>2
  <1>2. d = T * q + m /\ m \in 0 .. T - 1 /\ q \in Nat
    <2>. HIDE DEF T, d
    <2>. QED BY <1>1, Z3
  <1>3. e \div T = IF m = T - 1 THEN q + 1 ELSE q
    <2>. HIDE DEF q, m, T, d, e
    <2>1. CASE m = T - 1
      <3>1. T * (q + 1) = T * q + T
        BY <1>1, <1>2
      <3>2. e = T * (q + 1) /\ q + 1 \in Nat
        BY <1>1, <1>2, <2>1, <3>1
      <3>3. \A a, b \in Nat : b > 0 => (b * a) \div b = a
        BY Z3
      <3>. QED BY <1>1, <2>1, <3>2, <3>3
    <2>2. CASE m # T - 1
      <3>1. e = T * q + (m + 1) /\ m + 1 \in 0 .. T - 1
        BY <1>1, <1>2, <2>2
      <3>2. \A a, b, c \in Nat : c < b => (b * a + c) \div b = a
        BY Z3
      <3>. QED BY <1>1, <1>2, <2>2, <3>1, <3>2
    <2>. QED BY <2>1, <2>2
  <1>4. /\ LastSnapshot(r, n) = first + T * q
        /\ LastSnapshot(r, n + 1) = first + T * (e \div T)
    BY DEF LastSnapshot
  <1>. HIDE DEF first, T, q, m, d, e
  <1>5. T * q \in Nat /\ T * (q + 1) = T * q + T
    BY <1>1, <1>2
  <1>. DEFINE x == T * q
  <1>6. x \in Nat /\ d = x + m /\ n = first + d
    BY <1>1, <1>2, <1>5 DEF d
  <1>7. CASE m = T - 1
    <2>1. LastSnapshot(r, n + 1) = first + (x + T)
      BY <1>3, <1>4, <1>5, <1>7
    <2>. HIDE DEF x
    <2>. QED BY <1>1, <1>2, <1>4, <1>6, <1>7, <2>1 DEF x, T
  <1>8. CASE m # T - 1
    <2>1. LastSnapshot(r, n + 1) = first + x
      BY <1>3, <1>4, <1>8
    <2>. HIDE DEF x
    <2>. QED BY <1>1, <1>2, <1>4, <1>6, <1>8, <2>1 DEF x, T
  <1>. QED BY <1>7, <1>8

LEMMA UpdateIs ==
  ASSUME NEW r, Sound(r), NEW n \in Nat, r.commitIndex < n, n <= LastIndex(r)
  PROVE  UpdateCommitIndex(r, n) = IF n < FirstSnapshot(r) THEN ApplyUpTo(r, n)
                                   ELSE TakeSnapshot(ApplyUpTo(r, n), LastSnapshot(r, n))
  <1>1. Lesser(n, LastIndex(r)) = n /\ ~(n <= r.commitIndex)
    BY SoundParts DEF Lesser
  <1>. QED BY <1>1 DEF UpdateCommitIndex

\* What a call that commits one entry more does to what a call leaves.
LEMMA UpdateOneMore ==
  ASSUME NEW r, Sound(r), NEW n \in Nat, r.commitIndex <= n, n + 1 <= LastIndex(r)
  PROVE  LET u == UpdateCommitIndex(r, n)
         IN  /\ Sound(u) /\ u.commitIndex = n /\ LastIndex(u) = LastIndex(r)
             /\ UpdateCommitIndex(r, n + 1) =
                  IF n + 1 - Base(u) >= SnapshotThreshold
                    THEN TakeSnapshot(ApplyUpTo(u, n + 1), n + 1)
                    ELSE ApplyUpTo(u, n + 1)
  <1>. DEFINE first == FirstSnapshot(r)
              T == SnapshotThreshold
              u == UpdateCommitIndex(r, n)
              next == ApplyUpTo(r, n + 1)
  <1>1. /\ r \in Replica /\ r.commitIndex \in Nat /\ Base(r) \in Int /\ LastIndex(r) \in Nat
        /\ Base(r) <= r.commitIndex /\ T \in Nat /\ T > 0 /\ n + 1 \in Nat /\ n <= LastIndex(r)
    BY SoundParts, ThresholdAssumption
  <1>2. /\ first \in Nat /\ first >= r.commitIndex + 1 /\ first >= Base(r) + T
        /\ first = r.commitIndex + 1 \/ first = Base(r) + T
    BY <1>1 DEF FirstSnapshot, Greater
  <1>3. UpdateCommitIndex(r, n + 1) = IF n + 1 < first THEN next
                                      ELSE TakeSnapshot(next, LastSnapshot(r, n + 1))
    BY <1>1, UpdateIs
  <1>4. /\ Sound(next) /\ Base(next) = Base(r) /\ LastIndex(next) = LastIndex(r)
        /\ next.commitIndex = n + 1
    BY <1>1, ApplyUpToIs
  <1>. HIDE DEF first, T, next
  <1>5. ASSUME n + 1 = first
        PROVE  UpdateCommitIndex(r, n + 1) = TakeSnapshot(next, n + 1)
    <2>1. LastSnapshot(r, n + 1) = first + T * (((n + 1) - first) \div T)
      BY DEF LastSnapshot, first, T
    <2>2. (n + 1) - first = 0 /\ 0 \div T = 0 /\ T * 0 = 0
      BY <1>1, <1>2, <1>5
    <2>3. LastSnapshot(r, n + 1) = n + 1
      BY <1>2, <1>5, <2>1, <2>2
    <2>4. ~(n + 1 < first)
      BY <1>2, <1>5
    <2>. QED BY <1>3, <2>3, <2>4
  <1>6. CASE n = r.commitIndex
    <2>1. u = r
      BY <1>1, <1>6 DEF UpdateCommitIndex, Lesser
    <2>2. CASE n + 1 < first
      <3>1. ~(n + 1 - Base(r) >= T)
        BY <1>1, <1>2, <1>6, <2>2
      <3>. QED BY <1>3, <1>6, <2>1, <2>2, <3>1 DEF next, T
    <2>3. CASE ~(n + 1 < first)
      <3>1. n + 1 = first \/ first = Base(r) + T
        BY <1>2, <1>6
      <3>2. n + 1 >= first /\ first >= n + 1
        BY <1>1, <1>2, <1>6, <2>3
      <3>3. n + 1 = first /\ n + 1 - Base(r) >= T
        BY <1>1, <1>2, <3>2
      <3>. QED BY <1>5, <1>6, <2>1, <3>3 DEF next, T
    <2>. QED BY <2>2, <2>3
  <1>7. CASE r.commitIndex < n /\ n < first
    <2>1. first = Base(r) + T
      BY <1>1, <1>2, <1>7
    <2>2. u = ApplyUpTo(r, n)
      BY <1>1, <1>7, UpdateIs DEF first
    <2>. HIDE DEF u
    <2>3. Sound(u) /\ Base(u) = Base(r) /\ LastIndex(u) = LastIndex(r) /\ u.commitIndex = n
      BY <1>1, <1>7, <2>2, ApplyUpToIs
    <2>4. ApplyUpTo(u, n + 1) = next
      BY <1>1, <1>7, <2>2, ApplyTwice DEF next
    <2>5. CASE n + 1 < first
      <3>1. ~(n + 1 - Base(u) >= T)
        BY <1>1, <2>1, <2>3, <2>5
      <3>. QED BY <1>3, <2>3, <2>4, <2>5, <3>1 DEF u, T
    <2>6. CASE n + 1 = first
      <3>1. n + 1 - Base(u) >= T
        BY <1>1, <2>1, <2>3, <2>6
      <3>. QED BY <1>5, <2>3, <2>4, <2>6, <3>1 DEF u, T
    <2>. QED BY <1>1, <1>2, <1>7, <2>5, <2>6
  <1>8. CASE r.commitIndex < n /\ ~(n < first)
    <2>. DEFINE l == LastSnapshot(r, n)
    <2>1. first <= n /\ ~(n + 1 < first)
      BY <1>1, <1>2, <1>8
    <2>2. /\ l \in Nat /\ r.commitIndex < l /\ l <= n
          /\ LastSnapshot(r, n + 1) = IF n + 1 - l >= T THEN n + 1 ELSE l
      BY <1>1, <2>1, LastSnapshotInRange, LastSnapshotMoves DEF first, T
    <2>3. u = TakeSnapshot(ApplyUpTo(r, n), l)
      BY <1>1, <1>8, UpdateIs DEF first
    <2>. HIDE DEF u, l
    <2>4. Base(r) < l
      BY <1>1, <2>2
    <2>5. /\ Sound(ApplyUpTo(r, n)) /\ Base(ApplyUpTo(r, n)) = Base(r)
          /\ LastIndex(ApplyUpTo(r, n)) = LastIndex(r) /\ ApplyUpTo(r, n).commitIndex = n
      BY <1>1, <1>8, ApplyUpToIs
    <2>6. /\ Base(ApplyUpTo(r, n)) < l /\ l <= LastIndex(ApplyUpTo(r, n))
          /\ l <= ApplyUpTo(r, n).commitIndex
      BY <1>1, <2>2, <2>4, <2>5
    <2>7. Sound(u) /\ Base(u) = l /\ LastIndex(u) = LastIndex(r) /\ u.commitIndex = n
      BY <2>2, <2>3, <2>5, <2>6, TakeSnapshotIs
    <2>8. ApplyUpTo(u, n + 1) = TakeSnapshot(next, l)
      BY <1>1, <1>8, <2>2, <2>3, <2>4, SnapshotThenApply DEF next
    <2>9. CASE n + 1 - l >= T
      <3>1. UpdateCommitIndex(r, n + 1) = TakeSnapshot(next, n + 1)
        BY <1>3, <2>1, <2>2, <2>9
      <3>2. /\ Base(next) < l /\ l < n + 1 /\ n + 1 <= next.commitIndex
            /\ n + 1 <= LastIndex(next)
        BY <1>1, <1>4, <2>2, <2>4
      <3>3. TakeSnapshot(TakeSnapshot(next, l), n + 1) = TakeSnapshot(next, n + 1)
        BY <1>1, <1>4, <2>2, <3>2, SnapshotTwice
      <3>. QED BY <2>7, <2>8, <2>9, <3>1, <3>3 DEF u, T
    <2>10. CASE ~(n + 1 - l >= T)
      <3>1. UpdateCommitIndex(r, n + 1) = TakeSnapshot(next, l)
        BY <1>3, <2>1, <2>2, <2>10
      <3>. QED BY <2>7, <2>8, <2>10, <3>1 DEF u, T
    <2>. QED BY <2>9, <2>10
  <1>. QED BY <1>1, <1>6, <1>7, <1>8

-----------------------------------------------------------------------------
\* nothing is lost

LEMMA AllCommandsIs ==
  ASSUME NEW r, Sound(r), r.commitIndex <= LastIndex(r)
  PROVE  /\ AllCommands(r) \in Seq(Cmd) /\ Len(AllCommands(r)) = LastIndex(r)
         /\ \A k \in 1 .. LastIndex(r) :
              AllCommands(r)[k] = IF k <= r.commitIndex THEN r.applied[k] ELSE CmdAt(r, k)
  <1>1. /\ r \in Replica /\ r.applied \in Seq(Cmd) /\ Len(r.applied) = r.commitIndex
        /\ r.commitIndex \in Nat /\ Base(r) \in Int /\ Base(r) <= r.commitIndex /\ LastIndex(r) \in Nat
    BY SoundParts
  <1>2. /\ r.commitIndex + 1 \in Int /\ LastIndex(r) \in Int /\ Base(r) < r.commitIndex + 1
        /\ r.commitIndex + 1 <= LastIndex(r) + 1 /\ LastIndex(r) <= LastIndex(r)
        /\ Len(r.applied) = (r.commitIndex + 1) - 1
    BY <1>1
  <1>3. /\ AllCommands(r) \in Seq(Cmd) /\ Len(AllCommands(r)) = LastIndex(r)
        /\ \A k \in 1 .. LastIndex(r) :
             AllCommands(r)[k] = IF k < r.commitIndex + 1 THEN r.applied[k] ELSE CmdAt(r, k)
    BY <1>1, <1>2, FedIs DEF AllCommands
  <1>. QED BY <1>1, <1>3

\* A commit loses no command, and keeps the state machine one that can be rebuilt.
LEMMA ApplyUpToLosesNothing ==
  ASSUME NEW r, Sound(r), NEW n \in Nat, r.commitIndex <= n, n <= LastIndex(r)
  PROVE  /\ AllCommands(ApplyUpTo(r, n)) = AllCommands(r)
         /\ Rebuilt(r) => Rebuilt(ApplyUpTo(r, n))
  <1>. DEFINE t == ApplyUpTo(r, n)
  <1>1. /\ r \in Replica /\ r.commitIndex \in Nat /\ Base(r) \in Int /\ LastIndex(r) \in Nat
        /\ Base(r) <= r.commitIndex /\ r.commitIndex <= LastIndex(r)
    BY SoundParts
  <1>2. /\ Sound(t) /\ Base(t) = Base(r) /\ LastIndex(t) = LastIndex(r)
        /\ t.log = r.log /\ t.snapshot = r.snapshot /\ t.commitIndex = n
        /\ \A k \in 1 .. n : t.applied[k] = IF k <= r.commitIndex THEN r.applied[k] ELSE CmdAt(r, k)
    BY <1>1, ApplyUpToIs
  <1>. HIDE DEF t
  <1>3. \A k : CmdAt(t, k) = CmdAt(r, k)
    BY <1>2 DEF CmdAt
  <1>4. AllCommands(t) = AllCommands(r)
    <2>1. /\ AllCommands(r) \in Seq(Cmd) /\ Len(AllCommands(r)) = LastIndex(r)
          /\ \A k \in 1 .. LastIndex(r) :
               AllCommands(r)[k] = IF k <= r.commitIndex THEN r.applied[k] ELSE CmdAt(r, k)
      BY <1>1, AllCommandsIs
    <2>2. /\ AllCommands(t) \in Seq(Cmd) /\ Len(AllCommands(t)) = LastIndex(r)
          /\ \A k \in 1 .. LastIndex(r) :
               AllCommands(t)[k] = IF k <= n THEN t.applied[k] ELSE CmdAt(t, k)
      BY <1>2, AllCommandsIs
    <2>3. ASSUME NEW k \in 1 .. LastIndex(r) PROVE AllCommands(t)[k] = AllCommands(r)[k]
      BY <1>1, <1>2, <1>3, <2>1, <2>2
    <2>. QED BY <2>1, <2>2, <2>3, SeqEqual
  <1>5. ASSUME Rebuilt(r) PROVE Rebuilt(t)
    <2>1. ASSUME NEW k \in 1 .. n
          PROVE  t.applied[k] = IF k <= Base(t) THEN t.snapshot.sm[k] ELSE CmdAt(t, k)
      <3>1. CASE k <= r.commitIndex
        <4>1. r.applied[k] = IF k <= Base(r) THEN r.snapshot.sm[k] ELSE CmdAt(r, k)
          BY <1>1, <1>5, <3>1 DEF Rebuilt
        <4>. QED BY <1>2, <1>3, <3>1, <4>1
      <3>2. CASE ~(k <= r.commitIndex)
        BY <1>1, <1>2, <1>3, <3>2
      <3>. QED BY <3>1, <3>2
    <2>. QED BY <1>2, <2>1 DEF Rebuilt
  <1>. QED BY <1>4, <1>5 DEF t

\* So does a snapshot, which moves commands out of the log.
LEMMA TakeSnapshotLosesNothing ==
  ASSUME NEW r, Sound(r), NEW i \in Nat, Base(r) < i, i <= r.commitIndex,
         r.commitIndex <= LastIndex(r)
  PROVE  /\ AllCommands(TakeSnapshot(r, i)) = AllCommands(r)
         /\ Rebuilt(r) => Rebuilt(TakeSnapshot(r, i))
  <1>. DEFINE t == TakeSnapshot(r, i)
  <1>1. /\ r \in Replica /\ r.commitIndex \in Nat /\ Base(r) \in Int /\ LastIndex(r) \in Nat
        /\ i <= LastIndex(r)
    BY SoundParts
  <1>2. /\ Sound(t) /\ Base(t) = i /\ LastIndex(t) = LastIndex(r)
        /\ t.commitIndex = r.commitIndex /\ t.applied = r.applied
        /\ \A k \in i + 1 .. LastIndex(r) : t.log[k - i] = r.log[k - Base(r)]
        /\ \A k \in 1 .. i : t.snapshot.sm[k] = r.applied[k]
    BY <1>1, TakeSnapshotIs
  <1>. HIDE DEF t
  <1>3. \A k \in i + 1 .. LastIndex(r) : CmdAt(t, k) = CmdAt(r, k)
    BY <1>2 DEF CmdAt
  <1>4. AllCommands(t) = AllCommands(r)
    <2>1. /\ AllCommands(r) \in Seq(Cmd) /\ Len(AllCommands(r)) = LastIndex(r)
          /\ \A k \in 1 .. LastIndex(r) :
               AllCommands(r)[k] = IF k <= r.commitIndex THEN r.applied[k] ELSE CmdAt(r, k)
      BY <1>1, AllCommandsIs
    <2>2. /\ AllCommands(t) \in Seq(Cmd) /\ Len(AllCommands(t)) = LastIndex(r)
          /\ \A k \in 1 .. LastIndex(r) :
               AllCommands(t)[k] = IF k <= r.commitIndex THEN r.applied[k] ELSE CmdAt(t, k)
      BY <1>2, AllCommandsIs
    <2>3. ASSUME NEW k \in 1 .. LastIndex(r) PROVE AllCommands(t)[k] = AllCommands(r)[k]
      BY <1>1, <1>2, <1>3, <2>1, <2>2
    <2>. QED BY <2>1, <2>2, <2>3, SeqEqual
  <1>5. ASSUME Rebuilt(r) PROVE Rebuilt(t)
    <2>1. ASSUME NEW k \in 1 .. r.commitIndex
          PROVE  r.applied[k] = IF k <= i THEN t.snapshot.sm[k] ELSE CmdAt(t, k)
      <3>1. CASE k <= i
        BY <1>2, <3>1
      <3>2. CASE ~(k <= i)
        <4>1. k \in i + 1 .. LastIndex(r) /\ ~(k <= Base(r))
          BY <1>1, <3>2
        <4>2. r.applied[k] = CmdAt(r, k)
          BY <1>5, <4>1 DEF Rebuilt
        <4>. QED BY <1>3, <3>2, <4>1, <4>2
      <3>. QED BY <3>1, <3>2
    <2>. QED BY <1>2, <2>1 DEF Rebuilt
  <1>. QED BY <1>4, <1>5 DEF t

LEMMA UpdateLosesNothing ==
  ASSUME NEW r, Sound(r), NEW idx \in Nat, r.commitIndex <= LastIndex(r)
  PROVE  LET u == UpdateCommitIndex(r, idx)
         IN  /\ Sound(u) /\ u.commitIndex <= LastIndex(u) /\ r.commitIndex <= u.commitIndex
             /\ LastIndex(u) = LastIndex(r)
             /\ AllCommands(u) = AllCommands(r)
             /\ Rebuilt(r) => Rebuilt(u)
  <1>. DEFINE new == Lesser(idx, LastIndex(r))
              u   == UpdateCommitIndex(r, idx)
              t   == ApplyUpTo(r, new)
              l   == LastSnapshot(r, new)
              Keeps(v) == /\ v.commitIndex <= LastIndex(v) /\ r.commitIndex <= v.commitIndex
                          /\ LastIndex(v) = LastIndex(r)
                          /\ AllCommands(v) = AllCommands(r)
                          /\ Rebuilt(r) => Rebuilt(v)
  <1>1. /\ r \in Replica /\ r.commitIndex \in Nat /\ Base(r) \in Int /\ LastIndex(r) \in Nat
        /\ Base(r) <= r.commitIndex
    BY SoundParts
  <1>2. new \in Nat /\ new <= LastIndex(r)
    BY <1>1 DEF Lesser
  <1>3. u = IF new <= r.commitIndex THEN r ELSE IF new < FirstSnapshot(r) THEN t
            ELSE TakeSnapshot(t, l)
    BY DEF UpdateCommitIndex
  <1>4. Sound(u)
    BY UpdateCommitIndexSound
  <1>. HIDE DEF new, u
  <1>5. ASSUME new <= r.commitIndex PROVE Keeps(u)
    <2>1. Keeps(r)
      BY <1>1
    <2>2. u = r
      BY <1>3, <1>5
    <2>. QED BY <2>1, <2>2
  <1>6. ASSUME ~(new <= r.commitIndex) PROVE Keeps(u)
    <2>1. r.commitIndex < new /\ r.commitIndex <= new
      BY <1>1, <1>2, <1>6
    <2>2. /\ Sound(t) /\ Base(t) = Base(r) /\ LastIndex(t) = LastIndex(r) /\ t.commitIndex = new
          /\ AllCommands(t) = AllCommands(r)
          /\ Rebuilt(r) => Rebuilt(t)
      BY <1>2, <2>1, ApplyUpToIs, ApplyUpToLosesNothing
    <2>. HIDE DEF t
    <2>3. CASE new < FirstSnapshot(r)
      <3>1. Keeps(t)
        BY <1>2, <2>1, <2>2
      <3>2. u = t
        BY <1>3, <1>6, <2>3
      <3>. QED BY <3>1, <3>2
    <2>4. CASE ~(new < FirstSnapshot(r))
      <3>1. FirstSnapshot(r) <= new
        BY <1>1, <1>2, <2>4, ThresholdAssumption DEF FirstSnapshot, Greater
      <3>2. l \in Nat /\ r.commitIndex < l /\ l <= new
        BY <1>1, <1>2, <3>1, LastSnapshotInRange
      <3>. HIDE DEF l
      <3>3. /\ Base(t) < l /\ l <= t.commitIndex /\ t.commitIndex <= LastIndex(t)
            /\ l <= LastIndex(t)
        BY <1>1, <1>2, <2>2, <3>2
      <3>4. /\ LastIndex(TakeSnapshot(t, l)) = LastIndex(t)
            /\ TakeSnapshot(t, l).commitIndex = t.commitIndex
            /\ AllCommands(TakeSnapshot(t, l)) = AllCommands(t)
            /\ Rebuilt(t) => Rebuilt(TakeSnapshot(t, l))
        BY <2>2, <3>2, <3>3, TakeSnapshotIs, TakeSnapshotLosesNothing
      <3>5. u = TakeSnapshot(t, l)
        BY <1>3, <1>6, <2>4
      <3>6. Keeps(TakeSnapshot(t, l))
        BY <1>2, <2>1, <2>2, <3>4
      <3>. QED BY <3>5, <3>6
    <2>. QED BY <2>3, <2>4
  <1>7. Keeps(u)
    BY <1>5, <1>6
  <1>. QED BY <1>4, <1>7 DEF u

LEMMA AppendLosesNothing ==
  ASSUME NEW r, Sound(r), Rebuilt(r), NEW e \in Entry
  PROVE  Rebuilt(AppendEntry(r, e))
  <1>. DEFINE t == AppendEntry(r, e)
  <1>1. /\ r \in Replica /\ r.log \in Seq(Entry) /\ Len(r.log) \in Nat /\ r.commitIndex \in Nat
        /\ Base(r) \in Int /\ LastIndex(r) = Len(r.log) + Base(r) /\ LastIndex(r) \in Nat
        /\ Base(r) <= r.commitIndex
    BY SoundParts
  <1>2. /\ t.log = Append(r.log, e) /\ t.snapshot = r.snapshot
        /\ t.commitIndex = r.commitIndex /\ t.applied = r.applied
    BY <1>1 DEF AppendEntry, Replica
  <1>. HIDE DEF t
  <1>3. Base(t) = Base(r)
    BY <1>2 DEF Base
  <1>4. LastIndex(t) = LastIndex(r) + 1
    <2>1. Len(t.log) = Len(r.log) + 1
      BY <1>1, <1>2
    <2>. QED BY <1>1, <1>3, <2>1 DEF LastIndex, LogLen
  <1>5. ASSUME NEW k \in 1 .. r.commitIndex, ~(k <= Base(r)) PROVE CmdAt(t, k) = CmdAt(r, k)
    <2>1. k - Base(r) \in 1 .. Len(r.log)
      BY <1>1, <1>5 DEF Rebuilt
    <2>2. t.log[k - Base(r)] = r.log[k - Base(r)]
      BY <1>1, <1>2, <2>1
    <2>. QED BY <1>3, <2>2 DEF CmdAt
  <1>. QED BY <1>1, <1>2, <1>3, <1>4, <1>5 DEF Rebuilt, t

\* A merge that cuts off no committed entry keeps the commands of all of them.
LEMMA MergeLosesNothing ==
  ASSUME NEW r, Sound(r), Rebuilt(r), NEW prev \in Nat, NEW entries \in Seq(Entry),
         Base(r) <= prev, prev <= LastIndex(r),
         entries = <<>> \/ r.commitIndex <= prev + HeldPrefix(r, prev, entries)
  PROVE  Rebuilt(MergeEntries(r, prev, entries))
  <1>1. CASE entries = <<>>
    BY <1>1 DEF MergeEntries
  <1>2. CASE entries # <<>>
    <2>. DEFINE s == MergeEntries(r, prev, entries)
                h == HeldPrefix(r, prev, entries)
    <2>1. /\ r.commitIndex \in Nat /\ Base(r) \in Int /\ r \in Replica
          /\ h \in 0 .. Len(entries) /\ Len(entries) \in Nat
      BY SoundParts, HeldPrefixBounds
    <2>2. /\ Base(s) = Base(r) /\ s.snapshot = r.snapshot
          /\ s.commitIndex = r.commitIndex /\ s.applied = r.applied
          /\ LastIndex(s) = prev + Len(entries)
          /\ \A i \in Base(r) + 1 .. prev + h : s.log[i - Base(r)] = r.log[i - Base(r)]
      BY <1>2, MergedLog
    <2>. HIDE DEF s, h
    <2>3. r.commitIndex <= prev + h
      BY <1>2 DEF h
    <2>4. ASSUME NEW k \in 1 .. r.commitIndex, ~(k <= Base(r)) PROVE CmdAt(s, k) = CmdAt(r, k)
      <3>1. k \in Base(r) + 1 .. prev + h
        BY <2>1, <2>3, <2>4
      <3>. QED BY <2>2, <3>1 DEF CmdAt
    <2>5. s.commitIndex <= LastIndex(s)
      BY <2>1, <2>2, <2>3
    <2>. QED BY <2>1, <2>2, <2>4, <2>5 DEF Rebuilt, s
  <1>. QED BY <1>1, <1>2

\* A snapshot that is installed is all that was committed.
LEMMA InstallRebuilds ==
  ASSUME NEW r, Sound(r), NEW snap \in Snapshot, Len(snap.sm) = snap.index,
         snap.index < LastIndex(r) => Readable(r, snap.index)
  PROVE  Rebuilt(InstallSnapshot(r, snap))
  <1>. DEFINE t == InstallSnapshot(r, snap)
  <1>1. Sound(t)
    BY InstallSnapshotSound
  <1>2. t.snapshot = snap /\ t.commitIndex = snap.index /\ t.applied = snap.sm
    BY DEF InstallSnapshot
  <1>. HIDE DEF t
  <1>3. snap.index \in Nat /\ Base(t) = snap.index /\ Base(t) <= LastIndex(t)
    BY <1>1, <1>2, SoundParts DEF Base, Snapshot
  <1>. QED BY <1>2, <1>3 DEF Rebuilt, t

\* A load makes of what was saved the replica it was saved from.
LEMMA ReloadRebuilds ==
  ASSUME NEW r, Sound(r), Rebuilt(r)
  PROVE  Reload(r.log, r.snapshot, r.commitIndex) = r
  <1>. DEFINE l     == [log |-> r.log, snapshot |-> r.snapshot, commitIndex |-> r.commitIndex,
                        applied |-> r.snapshot.sm]
              first == Greater(Base(l) + 1, 1)
              last  == Lesser(r.commitIndex, LastIndex(l))
              a     == r.snapshot.sm \o Commands(l, first, last)
  <1>1. /\ r \in Replica /\ r.applied \in Seq(Cmd) /\ Len(r.applied) = r.commitIndex
        /\ r.snapshot.sm \in Seq(Cmd) /\ Len(r.snapshot.sm) = Greater(Base(r), 0)
        /\ r.commitIndex \in Nat /\ Base(r) \in Int /\ Base(r) >= -1 /\ Base(r) <= r.commitIndex
        /\ LastIndex(r) \in Nat /\ r.commitIndex <= LastIndex(r)
    BY SoundParts DEF Rebuilt
  <1>2. l \in Replica
    BY <1>1 DEF Replica
  <1>3. Base(l) = Base(r) /\ LastIndex(l) = LastIndex(r) /\ l.log = r.log
    BY DEF Base, LastIndex, LogLen
  <1>4. Reload(r.log, r.snapshot, r.commitIndex) =
          [log |-> r.log, snapshot |-> r.snapshot, commitIndex |-> r.commitIndex, applied |-> a]
    BY DEF Reload
  <1>5. r = [log |-> r.log, snapshot |-> r.snapshot, commitIndex |-> r.commitIndex,
             applied |-> r.applied]
    BY <1>1 DEF Replica
  <1>. HIDE DEF l
  <1>6. /\ last = r.commitIndex /\ first \in Int /\ Base(l) < first /\ first <= last + 1
        /\ last <= LastIndex(l) /\ Len(r.snapshot.sm) = first - 1 /\ last \in Int
    BY <1>1, <1>3 DEF Greater, Lesser
  <1>. HIDE DEF first, last
  <1>7. /\ a \in Seq(Cmd) /\ Len(a) = last
        /\ \A k \in 1 .. last : a[k] = IF k < first THEN r.snapshot.sm[k] ELSE CmdAt(l, k)
    BY <1>1, <1>2, <1>6, FedIs
  <1>. HIDE DEF a
  <1>8. ASSUME NEW k \in 1 .. r.commitIndex PROVE a[k] = r.applied[k]
    <2>1. k < first <=> k <= Base(r)
      BY <1>1, <1>3 DEF first, Greater
    <2>2. CmdAt(l, k) = CmdAt(r, k)
      BY <1>3 DEF CmdAt
    <2>3. r.applied[k] = IF k <= Base(r) THEN r.snapshot.sm[k] ELSE CmdAt(r, k)
      BY DEF Rebuilt
    <2>. QED BY <1>6, <1>7, <2>1, <2>2, <2>3
  <1>9. a = r.applied
    BY <1>1, <1>6, <1>7, <1>8, SeqEqual
  <1>. QED BY <1>4, <1>5, <1>9

\* What a load makes of well-formed data is a replica whose state machine was fed what is
\* committed, if the log reaches that far.
Loads(log, snapshot, commitIndex) ==
  LET r == Reload(log, snapshot, commitIndex)
  IN  /\ Rebuilt(r) /\ Len(r.applied) = r.commitIndex
      /\ r.log = log /\ r.snapshot = snapshot /\ r.commitIndex = commitIndex

LEMMA LoadIsRebuilt ==
  ASSUME NEW log \in Seq(Entry), NEW snapshot \in Snapshot \cup {NoSnapshot},
         NEW commitIndex \in Nat, WellFormed(log, snapshot, commitIndex),
         ~LoadPanics(log, snapshot, commitIndex)
  PROVE  Loads(log, snapshot, commitIndex)
  <1>. DEFINE l     == [log |-> log, snapshot |-> snapshot, commitIndex |-> commitIndex,
                        applied |-> snapshot.sm]
              first == Greater(Base(l) + 1, 1)
              last  == Lesser(commitIndex, LastIndex(l))
              a     == snapshot.sm \o Commands(l, first, last)
              r     == Reload(log, snapshot, commitIndex)
  <1>1. Sound(r)
    BY ReloadSound
  <1>2. r = [log |-> log, snapshot |-> snapshot, commitIndex |-> commitIndex, applied |-> a]
    BY DEF Reload
  <1>3. Base(l) = snapshot.index /\ LastIndex(l) = Len(log) + snapshot.index /\ l.log = log
    BY SnapshotParts DEF Base, LastIndex, LogLen
  <1>. HIDE DEF a, l
  <1>4. r.log = log /\ r.snapshot = snapshot /\ r.commitIndex = commitIndex /\ r.applied = a
    BY <1>2
  <1>. HIDE DEF r
  <1>5. /\ snapshot.sm \in Seq(Cmd) /\ Len(snapshot.sm) = Greater(Base(r), 0)
        /\ Base(r) \in Int /\ Base(r) >= -1 /\ Base(r) <= commitIndex /\ LastIndex(r) \in Nat
        /\ Len(r.applied) = commitIndex
    BY <1>1, <1>4, SoundParts
  <1>6. Base(l) = Base(r) /\ LastIndex(l) = LastIndex(r)
    BY <1>3, <1>4, SnapshotParts DEF Base, LastIndex, LogLen
  <1>7. commitIndex <= LastIndex(r)
    BY <1>3, <1>5, <1>6, SnapshotParts DEF LoadPanics
  <1>8. l \in Replica
    BY <1>5 DEF l, Replica
  <1>9. /\ last = commitIndex /\ first \in Int /\ Base(l) < first /\ first <= last + 1
        /\ last <= LastIndex(l) /\ Len(snapshot.sm) = first - 1 /\ last \in Int
    BY <1>5, <1>6, <1>7 DEF Greater, Lesser
  <1>. HIDE DEF first, last
  <1>10. \A k \in 1 .. last : a[k] = IF k < first THEN snapshot.sm[k] ELSE CmdAt(l, k)
    BY <1>5, <1>8, <1>9, FedIs DEF a
  <1>11. ASSUME NEW k \in 1 .. commitIndex
         PROVE  r.applied[k] = IF k <= Base(r) THEN r.snapshot.sm[k] ELSE CmdAt(r, k)
    <2>1. k < first <=> k <= Base(r)
      BY <1>5, <1>6 DEF first, Greater
    <2>2. CmdAt(l, k) = CmdAt(r, k)
      BY <1>3, <1>4, <1>6 DEF CmdAt
    <2>. QED BY <1>4, <1>9, <1>10, <2>1, <2>2
  <1>12. Rebuilt(r)
    BY <1>4, <1>7, <1>11 DEF Rebuilt
  <1>. QED BY <1>4, <1>5, <1>12 DEF Loads, r

=============================================================================

------------------------------ MODULE RaftLog ------------------------------
(***************************************************************************)
(* The part of a peer that one replica keeps about the replicated log, and *)
(* what the methods of src/raft do with it: the log slice, the snapshot    *)
(* that replaced its front, commitIndex, and the state machine.            *)
(*                                                                         *)
(* A replica is a record                                                   *)
(*   log          the entries still held, log[1] being the one that        *)
(*                follows the snapshot (p.log)                             *)
(*   snapshot     the last snapshot, NoSnapshot when p.snapshot is nil     *)
(*   commitIndex  p.commitIndex                                            *)
(*   applied      the commands fed to the state machine, in order; it      *)
(*                stands for the state machine's state.  A nil command is  *)
(*                not applied by the code; it is kept here as NoOp, so     *)
(*                that the position in applied is the index of the entry.  *)
(*                                                                         *)
(* An index is a "true index" of the source: the number of an entry from   *)
(* the beginning, whatever a snapshot has removed.  Index 0 is the         *)
(* sentinel that NewPeer puts in an empty log.                             *)
(***************************************************************************)
EXTENDS Integers, Sequences, FiniteSets

CONSTANTS Command,            \* what clients may ask the state machine to do
          NoOp,               \* the nil command a new leader appends
          SnapshotThreshold   \* p.snapshotThreshold

ASSUME ThresholdAssumption == SnapshotThreshold \in Nat \ {0}
ASSUME NoOpAssumption == NoOp \notin Command

Cmd == Command \cup {NoOp}
Entry == [term : Nat, cmd : Cmd]
Snapshot == [index : Nat, term : Nat, sm : Seq(Cmd)]

\* index -1 makes toLogIndex and logLen read the same with and without snapshot
NoSnapshot == [index |-> -1, term |-> 0, sm |-> <<>>]

Replica == [log : Seq(Entry), snapshot : Snapshot \cup {NoSnapshot},
            commitIndex : Nat, applied : Seq(Cmd)]

InitReplica == [log |-> <<[term |-> 0, cmd |-> NoOp]>>,
                snapshot |-> NoSnapshot, commitIndex |-> 0, applied |-> <<>>]

Greater(a, b) == IF a > b THEN a ELSE b
Lesser(a, b) == IF a < b THEN a ELSE b

-----------------------------------------------------------------------------
\* reading the log

Base(r) == r.snapshot.index
LogLen(r) == Len(r.log) + Base(r) + 1
LastIndex(r) == LogLen(r) - 1

\* the indices getLogTermByIndex answers; any other one is an index panic
Readable(r, i) == i >= 0 /\ i >= Base(r) /\ i < LogLen(r)

TermAt(r, i) == IF i = Base(r) THEN r.snapshot.term ELSE r.log[i - Base(r)].term

\* the entries from index i to the end, for i in Base(r)+1 .. LogLen(r)
SuffixFrom(r, i) == SubSeq(r.log, i - Base(r), Len(r.log))

\* the commands of entries i..j, the sentinel excepted
Commands(r, i, j) == [k \in 1 .. j - i + 1 |-> r.log[i + k - 1 - Base(r)].cmd]

\* logPriorCheck: is r strictly more up to date than a log ending so?
MoreUpToDate(r, lastIndex, lastTerm) ==
  LET myTerm == TermAt(r, LastIndex(r))
  IN \/ myTerm > lastTerm
     \/ myTerm = lastTerm /\ LastIndex(r) > lastIndex

-----------------------------------------------------------------------------
\* changing the log

AppendEntry(r, e) == [r EXCEPT !.log = Append(@, e)]

\* Mutant: the log must exceed the threshold, not reach it.
FirstSnapshot_Exceeds(r) ==
  Greater(r.commitIndex + 1, Base(r) + SnapshotThreshold + 1)

\* the first index past commitIndex at which a snapshot is due
FirstSnapshot(r) == Greater(r.commitIndex + 1, Base(r) + SnapshotThreshold)

\* the last of the snapshots a call takes on its way to new
LastSnapshot(r, new) ==
  FirstSnapshot(r)
    + SnapshotThreshold * ((new - FirstSnapshot(r)) \div SnapshotThreshold)

\* every entry up to new is fed to the state machine
ApplyUpTo(r, new) ==
  [log |-> r.log, snapshot |-> r.snapshot, commitIndex |-> new,
   applied |-> r.applied \o Commands(r, r.commitIndex + 1, new)]

\* Mutant: the snapshot gets the term of the last entry.
TakeSnapshot_LastTerm(r, i) ==
  [log |-> SuffixFrom(r, i + 1),
   snapshot |-> [index |-> i, term |-> TermAt(r, LastIndex(r)), sm |-> SubSeq(r.applied, 1, i)],
   commitIndex |-> r.commitIndex, applied |-> r.applied]

\* saveToSnapshot at index i, when the state machine has been fed that far
TakeSnapshot(r, i) ==
  [log |-> SuffixFrom(r, i + 1),
   snapshot |-> [index |-> i, term |-> TermAt(r, i), sm |-> SubSeq(r.applied, 1, i)],
   commitIndex |-> r.commitIndex, applied |-> r.applied]

(***************************************************************************)
(* The loop of updateCommitIndex in closed form.  Entry i is applied, and  *)
(* a snapshot is taken at i when toLogIndex(i)+1 >= snapshotThreshold,     *)
(* that is when i is at least SnapshotThreshold past the base, which moves *)
(* to i: the snapshots of one call are SnapshotThreshold apart, and the    *)
(* last one is what the call leaves behind.                                *)
(***************************************************************************)
UpdateCommitIndex(r, idx) ==
  LET new == Lesser(idx, LastIndex(r))
  IN IF new <= r.commitIndex THEN r
     ELSE IF new < FirstSnapshot(r) THEN ApplyUpTo(r, new)
     ELSE TakeSnapshot(ApplyUpTo(r, new), LastSnapshot(r, new))

\* does the entry after prev + n, already held, agree with entries[n + 1]?
Agrees(r, prev, entries, n) ==
  /\ prev + n + 1 < LogLen(r)
  /\ TermAt(r, prev + n + 1) = entries[n + 1].term

\* Mutant: entries that agree are counted past the first that does not.
HeldPrefix_AnyAgreeing(r, prev, entries) ==
  Cardinality({n \in 0 .. Len(entries) - 1 : Agrees(r, prev, entries, n)})

\* newLogIndex when the loop of handleAppendEntries ends: how many of the
\* entries the log already holds
HeldPrefix(r, prev, entries) ==
  Cardinality({n \in 0 .. Len(entries) - 1 :
                 \A m \in 0 .. n : Agrees(r, prev, entries, m)})

\* the loop reads one past the end of req.Entries: every entry is held and
\* the log goes on
OverrunsEntries(r, prev, entries) ==
  /\ entries # <<>>
  /\ HeldPrefix(r, prev, entries) = Len(entries)
  /\ LogLen(r) > prev + Len(entries) + 1

\* Mutant: the guard on an empty request is missing, so one truncates the log.
MergeEntries_NoEmptyGuard(r, prev, entries) ==
  LET held == HeldPrefix(r, prev, entries)
  IN [r EXCEPT !.log = SubSeq(@, 1, prev + held - Base(r))
                         \o SubSeq(entries, held + 1, Len(entries))]

\* Mutant: new entries are appended without removing the ones in conflict.
MergeEntries_NoTruncate(r, prev, entries) ==
  [r EXCEPT !.log = @ \o SubSeq(entries, HeldPrefix(r, prev, entries) + 1, Len(entries))]

\* what handleAppendEntries does to the log after the consistency check
MergeEntries(r, prev, entries) ==
  LET held == HeldPrefix(r, prev, entries)
  IN IF entries = <<>>
       THEN r
       ELSE [r EXCEPT !.log = SubSeq(@, 1, prev + held - Base(r))
                                \o SubSeq(entries, held + 1, Len(entries))]

\* retain following logs if mine is longer
KeepsSuffix(r, snap) ==
  snap.index < LastIndex(r) /\ TermAt(r, snap.index) = snap.term

\* Mutant: the state machine is not reset with the snapshot.
InstallSnapshot_KeepsStateMachine(r, snap) ==
  [log |-> IF KeepsSuffix(r, snap) THEN SuffixFrom(r, snap.index + 1) ELSE <<>>,
   snapshot |-> snap, commitIndex |-> snap.index, applied |-> r.applied]

\* Mutant: the entry that the snapshot ends with is retained as well.
InstallSnapshot_KeepsOneMore(r, snap) ==
  [log |-> IF KeepsSuffix(r, snap) THEN SuffixFrom(r, snap.index) ELSE <<>>,
   snapshot |-> snap, commitIndex |-> snap.index, applied |-> snap.sm]

InstallSnapshot(r, snap) ==
  [log |-> IF KeepsSuffix(r, snap) THEN SuffixFrom(r, snap.index + 1) ELSE <<>>,
   snapshot |-> snap, commitIndex |-> snap.index, applied |-> snap.sm]

\* Mutant: the state machine is rebuilt from the log alone.
Reload_ForgetsSnapshot(log, snapshot, commitIndex) ==
  LET r == [log |-> log, snapshot |-> snapshot, commitIndex |-> commitIndex,
            applied |-> <<>>]
  IN [r EXCEPT !.applied = Commands(r, Greater(Base(r) + 1, 1), commitIndex)]

\* loadFromPersistentStorage: the state machine is rebuilt from the snapshot
\* and the committed entries that follow it; a log that ends before
\* commitIndex makes the load panic
LoadPanics(log, snapshot, commitIndex) == commitIndex > Len(log) + snapshot.index

Reload(log, snapshot, commitIndex) ==
  LET r == [log |-> log, snapshot |-> snapshot, commitIndex |-> commitIndex,
            applied |-> snapshot.sm]
      first == Greater(Base(r) + 1, 1)
      last  == Lesser(commitIndex, LastIndex(r))
  IN [log |-> log, snapshot |-> snapshot, commitIndex |-> commitIndex,
      applied |-> snapshot.sm \o Commands(r, first, last)]

-----------------------------------------------------------------------------
(***************************************************************************)
(* The shape of a replica: the base never passes commitIndex, the log is   *)
(* never empty unless a snapshot precedes it, and a snapshot holds the     *)
(* state machine fed up to its index.                                      *)
(***************************************************************************)
WellFormed(log, snapshot, commitIndex) ==
  /\ snapshot.index <= commitIndex
  /\ Len(log) + snapshot.index >= 0
  /\ snapshot # NoSnapshot => Len(snapshot.sm) = snapshot.index

\* the command of entry i
CmdAt(r, i) == r.log[i - Base(r)].cmd

\* The state machine was fed the commands of the snapshot and of the committed entries
\* that follow it, and no entry was committed that the log does not reach.
Rebuilt(r) ==
  /\ r.commitIndex <= LastIndex(r)
  /\ \A k \in 1 .. r.commitIndex :
       r.applied[k] = IF k <= Base(r) THEN r.snapshot.sm[k] ELSE CmdAt(r, k)

\* what the state machine was fed, and what it may yet be fed
AllCommands(r) == r.applied \o Commands(r, r.commitIndex + 1, LastIndex(r))

=============================================================================

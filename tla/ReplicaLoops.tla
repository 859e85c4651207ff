---------------------------- MODULE ReplicaLoops ----------------------------
(***************************************************************************)
(* The closed forms of RaftLog against the loops of the source, over every *)
(* replica a bounded series of appends, merges, commits and snapshots      *)
(* leads to.  The loops are written here the way the source runs them, one *)
(* iteration at a time.                                                    *)
(***************************************************************************)
EXTENDS RaftLog

CONSTANTS MaxTerm, MaxIndex   \* bounds on the entries of an input

ASSUME BoundsAssumption == MaxTerm \in Nat /\ MaxIndex \in Nat

VARIABLE r   \* one replica

\* the batches of entries a leader may send: terms never decrease
Batch == {es \in UNION {[1 .. n -> [term : 1 .. MaxTerm, cmd : Cmd]] : n \in 0 .. 2} :
            \A i, j \in DOMAIN es : i <= j => es[i].term <= es[j].term}

FitsAfter(prev, es) ==
  /\ Readable(r, prev)
  /\ prev + Len(es) <= MaxIndex
  /\ es # <<>> => TermAt(r, prev) <= es[1].term

-----------------------------------------------------------------------------
\* the loops

ToLogIndex(s, i) == i - Base(s) - 1

SaveToSnapshot(s, i) ==
  [s EXCEPT !.snapshot = [index |-> i, term |-> TermAt(s, i), sm |-> s.applied],
            !.log = SuffixFrom(s, i + 1)]

\* one iteration of updateCommitIndex, for entry i
CommitOne(s, i) ==
  LET fed == [s EXCEPT !.applied = Append(@, s.log[ToLogIndex(s, i) + 1].cmd)]
  IN IF ToLogIndex(s, i) + 1 >= SnapshotThreshold THEN SaveToSnapshot(fed, i) ELSE fed

\* after[n] is the replica after n iterations
CommitLoop(s, idx) ==
  LET after[n \in 0 .. idx - s.commitIndex] ==
        IF n = 0 THEN s ELSE CommitOne(after[n - 1], s.commitIndex + n)
  IN after[idx - s.commitIndex]

CommitByLoop(s, idx) ==
  LET upTo == Lesser(idx, LastIndex(s))
  IN IF upTo > s.commitIndex THEN [CommitLoop(s, upTo) EXCEPT !.commitIndex = upTo]
     ELSE s

\* newLogIndex, or -1 when req.Entries is read past its end; from[n] is what the
\* loop of handleAppendEntries ends with when it gets to n
HeldLoop(s, prev, es) ==
  LET from[n \in 0 .. Len(es)] ==
        IF LogLen(s) <= prev + n + 1 THEN n
        ELSE IF n = Len(es) THEN -1
        ELSE IF TermAt(s, prev + n + 1) = es[n + 1].term THEN from[n + 1]
        ELSE n
  IN from[0]

\* one iteration of loadFromPersistentStorage; the sentinel has no command
ReloadOne(s, i) ==
  IF i = 0 THEN s
  ELSE [s EXCEPT !.applied = Append(@, s.log[ToLogIndex(s, i) + 1].cmd)]

\* after[n] is the replica after n iterations
ReloadLoop(s) ==
  LET startIdx == IF s.snapshot = NoSnapshot THEN 0 ELSE Base(s) + 1
      after[n \in 0 .. s.commitIndex - startIdx + 1] ==
        IF n = 0 THEN [s EXCEPT !.applied = s.snapshot.sm]
        ELSE ReloadOne(after[n - 1], startIdx + n - 1)
  IN after[s.commitIndex - startIdx + 1]

-----------------------------------------------------------------------------
Init == r = InitReplica

\* a batch that replaces no committed entry and does not overrun
Merge == \E prev \in 0 .. MaxIndex, es \in Batch :
  /\ FitsAfter(prev, es)
  /\ ~OverrunsEntries(r, prev, es)
  /\ prev + HeldPrefix(r, prev, es) >= r.commitIndex
  /\ r' = MergeEntries(r, prev, es)

Commit == \E idx \in 1 .. MaxIndex : r' = UpdateCommitIndex(r, idx)

\* the snapshot another replica took of the same commands, a little ahead
Install == \E index \in r.commitIndex + 1 .. MaxIndex, term \in 1 .. MaxTerm :
  /\ index > LastIndex(r) => term >= TermAt(r, LastIndex(r))
  /\ index <= LastIndex(r) => term = TermAt(r, index)
  /\ r' = InstallSnapshot(r,
            [index |-> index, term |-> term,
             sm |-> r.applied \o Commands(r, r.commitIndex + 1, Lesser(index, LastIndex(r)))
                    \o [k \in 1 .. index - LastIndex(r) |-> NoOp]])

Next == Merge \/ Commit \/ Install

Spec == Init /\ [][Next]_r

-----------------------------------------------------------------------------
\* The closed form of updateCommitIndex leaves what its loop leaves: the same
\* log, the same last snapshot, the same commands fed in the same order.
CommitMatchesLoop ==
  \A idx \in 0 .. MaxIndex + 1 : UpdateCommitIndex(r, idx) = CommitByLoop(r, idx)

\* The count of entries already held, and the read past the end of the
\* entries, are those of the loop of handleAppendEntries.
MergeMatchesLoop ==
  \A prev \in 0 .. MaxIndex, es \in Batch :
    (es # <<>> /\ FitsAfter(prev, es)) =>
      LET n == HeldLoop(r, prev, es)
      IN IF OverrunsEntries(r, prev, es) THEN n = -1 ELSE n = HeldPrefix(r, prev, es)

\* A merge leaves the log a follower should have: what it held up to prev,
\* then the batch (the terms of it at least), and nothing after.
MergeYieldsLeaderLog ==
  \A prev \in 0 .. MaxIndex, es \in Batch :
    (es # <<>> /\ FitsAfter(prev, es) /\ ~OverrunsEntries(r, prev, es)) =>
      LET s == MergeEntries(r, prev, es)
      IN /\ LastIndex(s) = prev + Len(es)
         /\ \A i \in 1 .. Len(es) : TermAt(s, prev + i) = es[i].term
         /\ \A i \in Greater(Base(r), 0) .. prev : TermAt(s, i) = TermAt(r, i)

\* Snapshots and reloads are invisible: committing moves commands from the
\* log to the state machine and loses none, whatever the threshold cuts, and
\* the loop of loadFromPersistentStorage rebuilds the state machine.
SnapshotsLoseNothing ==
  /\ \A idx \in 0 .. MaxIndex + 1 : AllCommands(UpdateCommitIndex(r, idx)) = AllCommands(r)
  /\ Reload(r.log, r.snapshot, r.commitIndex) = r
  /\ ReloadLoop(r) = r

=============================================================================

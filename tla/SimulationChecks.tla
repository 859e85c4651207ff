-------------------------- MODULE SimulationChecks --------------------------
(***************************************************************************)
(* The agreement checks that src/simulation makes of a cluster at rest,    *)
(* stated of every instant, and the replicated log that they are samples   *)
(* of.                                                                     *)
(***************************************************************************)
EXTENDS RaftProperties

\* raft.SnapshotEqual; no snapshot equals none
SnapshotEqual(s1, s2) ==
  s1.sm = s2.sm /\ s1.index = s2.index /\ s1.term = s2.term

\* the slices of two logs that follow their snapshots, compared place by place:
\* where terms are equal, so are the commands up to there
AgreeOnTwoLogEntries(log1, log2) ==
  \A i \in 1 .. Lesser(Len(log1), Len(log2)) :
    log1[i].term = log2[i].term => \A j \in 1 .. i : log1[j].cmd = log2[j].cmd

\* Peers with equal snapshots have logs that agree after them, at every instant and
\* not only when the cluster is at rest (local.go:399): compaction at different
\* times, snapshots received and suffixes kept never shift a log.
AgreeOnLogEntriesIfSnapshotEqual ==
  \A p, q \in Server :
    SnapshotEqual(rep[p].snapshot, rep[q].snapshot) =>
      AgreeOnTwoLogEntries(rep[p].log, rep[q].log)

\* AgreeOnSnapshot, of peers that have got equally far: whoever took a snapshot,
\* and in however many calls of updateCommitIndex, one index has one term and one
\* state machine, in memory and in every storage.
AgreeOnSnapshot ==
  LET Snapshots == {rep[p].snapshot : p \in Server} \cup {disk[p].snapshot : p \in Server}
  IN \A s1, s2 \in Snapshots : s1.index = s2.index => SnapshotEqual(s1, s2)

-----------------------------------------------------------------------------
\* what some state machine was fed and no other was fed more than
Decided ==
  LET fed == {rep[p].applied : p \in Server}
  IN CHOOSE s \in fed : \A t \in fed : Len(t) <= Len(s)

ReplicatedLogAbs ==
  INSTANCE ReplicatedLog
    WITH Value <- Command \cup {NoOp}, decided <- Decided,
         applied <- [p \in Server |-> rep[p].applied]

\* The peers implement ReplicatedLog: what one state machine was fed is never taken
\* back or changed for another, by a change of leader, a snapshot or a crash, and a
\* peer that catches up is fed the same.
ImplementsReplicatedLog == ReplicatedLogAbs!Spec

=============================================================================

--------------------------- MODULE RaftProperties ---------------------------
(***************************************************************************)
(* What the peers of Raft must keep true.                                  *)
(***************************************************************************)
EXTENDS Raft

\* a snapshot holds the state machine fed up to its index
FullSnapshot == {s \in Snapshot : Len(s.sm) = s.index}

AppendEntriesReq == [type : {"AppendEntries"}, term : Nat, prevLogIndex : Nat,
                     prevLogTerm : Nat, leaderCommit : Nat, entries : Seq(Entry)]
InstallSnapshotReq == [type : {"InstallSnapshot"}, term : Nat, snapshot : FullSnapshot]
ReplicationReq == AppendEntriesReq \cup InstallSnapshotReq
ReplicationRes == [term : Nat, success : BOOLEAN] \cup [term : Nat]
Data == [currentTerm : Nat, votedFor : Server \cup {Nil}, voteCount : Nat,
         commitIndex : Nat, log : Seq(Entry), snapshot : Snapshot \cup {NoSnapshot}]

PeerTypes ==
  /\ up \in [Server -> BOOLEAN]
  /\ state \in [Server -> {Follower, Candidate, Leader}]
  /\ currentTerm \in [Server -> Nat]
  /\ votedFor \in [Server -> Server \cup {Nil}]
  /\ voteCount \in [Server -> Nat]
  /\ heardFromLeader \in [Server -> BOOLEAN]
  /\ leaderID \in [Server -> Server \cup {Nil}]
  /\ pendingNoop \in [Server -> Nat]

LeaderTypes ==
  /\ nextIndex \in [Server -> [Server -> Int]]
  /\ matchIndex \in [Server -> [Server -> Nat]]
  /\ acks \in [Server -> [1 .. MaxIndex -> Nat]]

ElectionTypes ==
  /\ awaiting \subseteq Server \X Nat \X Server
  /\ voteRequests \subseteq [cand : Server, term : Nat, lastLogIndex : Nat, lastLogTerm : Nat]
  /\ voteResponses \subseteq [cand : Server, term : Nat, voter : Server, resTerm : Nat,
                              granted : BOOLEAN]
  /\ ballots \subseteq Server \X Nat \X Server

CallTypes ==
  /\ request \in [Server -> [Server -> ReplicationReq \cup {Nil}]]
  /\ response \in [Server -> [Server -> ReplicationRes \cup {Nil}]]
  /\ lateRequests \subseteq [from : Server, to : Server, req : ReplicationReq]
  /\ restarts \in Nat
  /\ failures \in Nat

ReplicaTypes == rep \in [Server -> Replica]

StorageTypes == memory \in [Server -> Data] /\ disk \in [Server -> Data]

\* The variables of a peer, the messages and the storage keep the types of
\* their declarations.
TypeOK == /\ PeerTypes /\ LeaderTypes /\ ElectionTypes /\ CallTypes
          /\ ReplicaTypes /\ StorageTypes

-----------------------------------------------------------------------------
\* elections

\* At most one leader in a term, however votes are repeated, and whatever
\* part of the votes a crash finds unsaved.
ElectionSafety ==
  \A p, q \in Server :
    /\ state[p] = Leader /\ state[q] = Leader
    /\ currentTerm[p] = currentTerm[q]
    => p = q

\* A server votes for one candidate in a term, over its whole life.
OneVotePerTerm ==
  \A a, b \in ballots : a[1] = b[1] /\ a[2] = b[2] => a[3] = b[3]

\* the votes cast for c in term t
VotersFor(c, t) == {v \in Server : <<v, t, c>> \in ballots}

\* those of the current election of c whose reply is no longer awaited
Counted(c) == {v \in VotersFor(c, currentTerm[c]) : <<c, currentTerm[c], v>> \notin awaiting}

\* a vote is remembered as long as its term is: in memory ...
VotesRemembered ==
  \A b \in ballots : /\ b[2] <= currentTerm[b[1]]
                     /\ b[2] = currentTerm[b[1]] => votedFor[b[1]] = b[3]

\* ... and in what was saved, so that a load does not undo it
VotesSaved ==
  \A b \in ballots : /\ b[2] <= memory[b[1]].currentTerm
                     /\ b[2] = memory[b[1]].currentTerm => memory[b[1]].votedFor = b[3]

\* a reply that grants a vote follows the vote
RepliesFollowVotes ==
  \A m \in voteResponses : m.granted => /\ m.resTerm = m.term
                                        /\ <<m.voter, m.term, m.cand>> \in ballots

\* a candidate has counted no more than the votes it was given
CountsAreHonest ==
  \A c \in Server : state[c] = Candidate => voteCount[c] <= Cardinality(Counted(c))

LeadersAreElected ==
  \A c \in Server : state[c] = Leader => 2 * Cardinality(VotersFor(c, currentTerm[c])) > N

\* What makes ElectionSafety inductive when nothing saved is lost: a
\* candidate has counted no more than the votes it was given, a leader was
\* given those of a majority, and no one votes twice in a term.
ElectionInv ==
  /\ OneVotePerTerm
  /\ VotesRemembered
  /\ VotesSaved
  /\ ~Hybrid => memory = disk
  /\ RepliesFollowVotes
  /\ \A a \in awaiting : a[1] # a[3]
  /\ CountsAreHonest
  /\ LeadersAreElected

-----------------------------------------------------------------------------
\* replication

IsPrefixOf(s, t) == Len(s) <= Len(t) /\ s = SubSeq(t, 1, Len(s))

EntryAt(r, i) == r.log[i - Base(r)]

\* the indices above both bases that both replicas hold
Shared(r, s) == Greater(Base(r), Base(s)) + 1 .. Lesser(LastIndex(r), LastIndex(s))

\* Two logs with an entry of the same index and term agree on every entry up
\* to it; what a snapshot has replaced is
\* compared by ImplementsReplicatedLog.
LogMatching ==
  \A p \in Server : \A q \in Server \ {p} :
    LET both == Shared(rep[p], rep[q])
    IN \A i \in both :
         EntryAt(rep[p], i).term = EntryAt(rep[q], i).term =>
           \A j \in both : j <= i => EntryAt(rep[p], j) = EntryAt(rep[q], j)

\* The leader of the highest term holds every command any server applied.
LeaderCompleteness ==
  \A p \in Server :
    /\ state[p] = Leader
    /\ \A q \in Server : currentTerm[q] <= currentTerm[p]
    => \A q \in Server : IsPrefixOf(rep[q].applied, AllCommands(rep[p]))

ReplicaShape ==
  \A p \in Server :
    /\ WellFormed(rep[p].log, rep[p].snapshot, rep[p].commitIndex)
    /\ up[p] => Len(rep[p].applied) = rep[p].commitIndex

StorageShape ==
  \A p \in Server :
    /\ WellFormed(memory[p].log, memory[p].snapshot, memory[p].commitIndex)
    /\ WellFormed(disk[p].log, disk[p].snapshot, disk[p].commitIndex)

\* What makes TypeOK inductive: every replica, in memory or in the storage, is
\* well formed, and the state machine of a process that has not panicked has
\* been fed up to commitIndex.
ShapeInv == ReplicaShape /\ StorageShape

TypeInv == TypeOK /\ ShapeInv

\* The commit index stays between the snapshot and the end of the log, and
\* the state machine has been fed exactly that far.
CommitWithinLog ==
  \A p \in Server : /\ Base(rep[p]) <= rep[p].commitIndex
                    /\ rep[p].commitIndex <= LastIndex(rep[p])
                    /\ Len(rep[p].applied) = rep[p].commitIndex

\* No call that may yet be handled has its target cut off what it committed: the merge
\* of handleAppendEntries only logs "overriding committed log" (append_entry.go:36) and
\* goes on.
Overrides(q, req) ==
  /\ up[q] /\ req.type = "AppendEntries" /\ Consistent(q, req) /\ ~AppendPanics(q, req)
  /\ req.entries # <<>>
  /\ req.prevLogIndex + HeldPrefix(rep[q], req.prevLogIndex, req.entries) < rep[q].commitIndex

OverridesNothing ==
  /\ \A p, q \in Server : Waiting(p, q) => ~Overrides(q, request[p][q])
  /\ \A m \in lateRequests : ~Overrides(m.to, m.req)

\* An appendEntries call never announces a commit past the entries it brings:
\* updateCommitIndex clips at the receiver's log, not at the last new entry,
\* and so relies on this.
CommitTravelsWithEntries ==
  LET Covered(req) ==
        (req # Nil /\ req.type = "AppendEntries") =>
          req.leaderCommit <= req.prevLogIndex + Len(req.entries)
  IN /\ \A p, q \in Server : Covered(request[p][q])
     /\ \A m \in lateRequests : Covered(m.req)

\* does r hold the entry s has at index i, in its log or under its snapshot?
Holds(r, s, i) ==
  \/ i <= r.commitIndex
  \/ i <= LastIndex(r) /\ TermAt(r, i) = TermAt(s, i)

\* A leader that no one has overtaken counts no more signals for an index
\* than there are servers that hold its entry.
AcksAreHonest ==
  \A p \in Server :
    /\ state[p] = Leader
    /\ \A q \in Server : currentTerm[q] <= currentTerm[p]
    => \A i \in rep[p].commitIndex + 1 .. LastIndex(rep[p]) :
         acks[p][i] > 0 =>
           acks[p][i] <= Cardinality({q \in Server : Holds(rep[q], rep[p], i)})

\* The signals sent on a channel never exceed its capacity, the number of
\* peers: the send under p.mutex cannot block.
SignalsFitChannel == \A p \in Server : \A i \in 1 .. MaxIndex : acks[p][i] <= N

\* the replication goroutine of p for q waits for, or is about to handle, a reply
Outstanding(p, q) == request[p][q] # Nil /\ request[p][q].type = "AppendEntries"

\* the followers whose signal for index i leader p will not count again, and
\* those that a call now outstanding may still signal for
HaveSignalled(p, i) ==
  {q \in Server \ {p} : /\ matchIndex[p][q] >= i
                        /\ Outstanding(p, q) => LastSent(request[p][q]) >= i}
MaySignal(p, i) ==
  {q \in Server \ {p} : /\ matchIndex[p][q] < i
                        /\ Outstanding(p, q) /\ LastSent(request[p][q]) >= i}

SignalsOf(p) ==
  \A i \in 1 .. MaxIndex :
    /\ acks[p][i] <= N
    /\ i > Base(rep[p]) => acks[p][i] + Cardinality(MaySignal(p, i)) <= N
    /\ i > Base(rep[p]) /\ i <= LastIndex(rep[p]) =>
         acks[p][i] <= 1 + Cardinality(HaveSignalled(p, i))

\* What makes SignalsFitChannel inductive.  A channel has counted its leader and
\* some of the followers whose matchIndex reaches it; whoever may still signal for
\* it is not among them.  A channel past the end of the log is left over from a log
\* that an installSnapshot call cut off, which does not end the leadership.  Nobody
\* calls itself.
SignalInv == \A p \in Server : request[p][p] = Nil /\ SignalsOf(p)

\* No handler indexes the log out of range or finds itself overriding a
\* committed entry.
NoPanic == \A p \in Server : up[p]

\* Nothing that was written through is lost: the replica a crash would rebuild
\* is the one in memory, whichever handler ran last.
CrashKeepsReplica ==
  ~Hybrid => \A p \in Server :
    Reload(disk[p].log, disk[p].snapshot, disk[p].commitIndex) = rep[p]

\* What makes CommitWithinLog and CrashKeepsReplica inductive as long as OverridesNothing
\* holds, whatever is compacted: the storage has the log, snapshot and commit index of the
\* replica, from which its state machine can be rebuilt, and no load panics.
SavedInv ==
  /\ \A p \in Server :
       /\ Rebuilt(rep[p]) /\ Len(rep[p].applied) = rep[p].commitIndex
       /\ memory[p].log = rep[p].log /\ memory[p].snapshot = rep[p].snapshot
       /\ memory[p].commitIndex = rep[p].commitIndex
       /\ ~LoadPanics(disk[p].log, disk[p].snapshot, disk[p].commitIndex)
  /\ ~Hybrid => memory = disk

-----------------------------------------------------------------------------
\* steps

\* commitIndex "increases monotonically" (peer.go:56), across restarts too.
CommitMonotone ==
  [][\A p \in Server : rep'[p].commitIndex >= rep[p].commitIndex]_vars

=============================================================================

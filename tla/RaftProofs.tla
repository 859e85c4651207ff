----------------------------- MODULE RaftProofs -----------------------------
(***************************************************************************)
(* Type correctness of the peers, what is saved, and elections.            *)
(*                                                                         *)
(* Every action keeps the types and shapes of replicas, since the          *)
(* operators of RaftLog do (RaftLogProofs).                                *)
(*                                                                         *)
(* What is saved suffices to rebuild a replica: SavedInv is inductive with *)
(* the types as long as no merge cuts off what is committed, which is the  *)
(* one thing it takes from the rest of the system; a snapshot may replace  *)
(* a log, a call may come late and a storage may be behind.                *)
(*                                                                         *)
(* There is at most one leader in a term when nothing saved is lost: each  *)
(* save reaches the file before the handler that saves goes on, as with    *)
(* pstorage.FileBasedPersistentStorage, or processes are only stopped in   *)
(* order, which flushes the buffered storage StartPeerFromFile uses.  With *)
(* that storage and a crash it is false, as the run hybrid_crash shows.    *)
(* ElectionInv is inductive with the types.  A step that casts or counts   *)
(* no vote keeps it by QuietStep; the three that do are taken one by one.  *)
(***************************************************************************)
EXTENDS RaftProperties, RaftLogProofs

-----------------------------------------------------------------------------
\* the peers

\* A process that runs has a sound replica.
LEMMA UpIsSound ==
  ASSUME ReplicaTypes, ReplicaShape, NEW p \in Server, up[p]
  PROVE  Sound(rep[p])
  BY DEF ReplicaTypes, ReplicaShape, Sound

\* A step that gives one process a sound replica keeps the others'.
LEMMA ReplaceReplica ==
  ASSUME ReplicaTypes, ReplicaShape, NEW p \in Server, NEW r, Sound(r),
         rep' = [rep EXCEPT ![p] = r],
         \A q \in Server : q # p => up'[q] = up[q]
  PROVE  ReplicaTypes' /\ ReplicaShape'
  <1>1. ReplicaTypes'
    BY DEF ReplicaTypes, Sound
  <1>2. ReplicaShape'
    <2>. SUFFICES ASSUME NEW q \in Server
                  PROVE  /\ WellFormed(rep'[q].log, rep'[q].snapshot, rep'[q].commitIndex)
                         /\ up'[q] => Len(rep'[q].applied) = rep'[q].commitIndex
      BY DEF ReplicaShape, WellFormed
    <2>1. CASE q = p
      BY <2>1 DEF ReplicaTypes, Sound
    <2>2. CASE q # p
      <3>1. rep'[q] = rep[q] /\ up'[q] = up[q]
        BY <2>2 DEF ReplicaTypes
      <3>. QED BY <3>1 DEF ReplicaShape
    <2>. QED BY <2>1, <2>2
  <1>. QED BY <1>1, <1>2

LEMMA UpdateCell ==
  ASSUME NEW S, NEW f \in [Server -> [Server -> S]],
         NEW p \in Server, NEW q \in Server, NEW x \in S
  PROVE  [f EXCEPT ![p][q] = x] \in [Server -> [Server -> S]]
  OBVIOUS

-----------------------------------------------------------------------------
\* the parts of the handlers

\* Well-formed data may take the place of what is stored.
LEMMA StoreTypes ==
  ASSUME StorageTypes, StorageShape, NEW p \in Server, NEW d \in Data, NEW e \in Data,
         WellFormed(d.log, d.snapshot, d.commitIndex),
         WellFormed(e.log, e.snapshot, e.commitIndex),
         memory' = memory \/ memory' = [memory EXCEPT ![p] = d],
         disk' = disk \/ disk' = [disk EXCEPT ![p] = e]
  PROVE  StorageTypes' /\ StorageShape'
  <1>1. StorageTypes'
    BY DEF StorageTypes
  <1>2. StorageShape'
    <2>. SUFFICES ASSUME NEW q \in Server
                  PROVE  /\ WellFormed(memory[q].log, memory[q].snapshot, memory[q].commitIndex)'
                         /\ WellFormed(disk[q].log, disk[q].snapshot, disk[q].commitIndex)'
      BY DEF StorageShape
    <2>1. /\ memory'[q] \in {memory[q], d}
          /\ disk'[q] \in {disk[q], e}
      BY DEF StorageTypes
    <2>. QED BY <2>1 DEF StorageShape, WellFormed
  <1>. QED BY <1>1, <1>2

LEMMA SaveTypes ==
  ASSUME StorageTypes, StorageShape, NEW p \in Server,
         PeerTypes', ReplicaTypes', ReplicaShape', Save(p)
  PROVE  StorageTypes' /\ StorageShape'
  <1>. DEFINE d == PersistentData(p)'
  <1>1. /\ currentTerm'[p] \in Nat
        /\ votedFor'[p] \in Server \cup {Nil}
        /\ voteCount'[p] \in Nat
    BY DEF PeerTypes
  <1>2. /\ rep'[p].log \in Seq(Entry)
        /\ rep'[p].snapshot \in Snapshot \cup {NoSnapshot}
        /\ rep'[p].commitIndex \in Nat
    BY DEF ReplicaTypes, Replica
  <1>3. d = [currentTerm |-> currentTerm'[p], votedFor |-> votedFor'[p],
             voteCount |-> voteCount'[p], commitIndex |-> rep'[p].commitIndex,
             log |-> rep'[p].log, snapshot |-> rep'[p].snapshot]
    BY DEF PersistentData
  <1>4. WellFormed(rep'[p].log, rep'[p].snapshot, rep'[p].commitIndex)
    BY DEF ReplicaShape, WellFormed
  <1>. HIDE DEF d
  <1>5. d \in Data /\ WellFormed(d.log, d.snapshot, d.commitIndex)
    BY <1>1, <1>2, <1>3, <1>4 DEF Data
  <1>6. /\ memory' = [memory EXCEPT ![p] = d]
        /\ disk' = IF Hybrid THEN disk ELSE [disk EXCEPT ![p] = d]
    BY DEF Save, d
  <1>. QED BY <1>5, <1>6, StoreTypes

LEMMA UpdateTermTypes ==
  ASSUME PeerTypes, NEW p \in Server, NEW term \in Nat, UpdateTerm(p, term)
  PROVE  /\ currentTerm' \in [Server -> Nat]
         /\ votedFor' \in [Server -> Server \cup {Nil}]
  BY DEF PeerTypes, UpdateTerm, Greater

LEMMA DropLeadershipTypes ==
  ASSUME LeaderTypes, NEW p \in Server, DropLeadership(p)
  PROVE  LeaderTypes'
  BY DEF LeaderTypes, DropLeadership, NoIndices, NoSignals

LEMMA BecomeFollowerTypes ==
  ASSUME PeerTypes, LeaderTypes, NEW p \in Server, BecomeFollower(p)
  PROVE  /\ LeaderTypes'
         /\ state' \in [Server -> {Follower, Candidate, Leader}]
         /\ heardFromLeader' \in [Server -> BOOLEAN]
  <1>1. LeaderTypes'
    BY DropLeadershipTypes DEF BecomeFollower
  <1>2. state' \in [Server -> {Follower, Candidate, Leader}]
    BY DEF PeerTypes, BecomeFollower
  <1>3. heardFromLeader' \in [Server -> BOOLEAN]
    BY DEF PeerTypes, BecomeFollower
  <1>. QED BY <1>1, <1>2, <1>3

LEMMA BecomeLeaderTypes ==
  ASSUME PeerTypes, LeaderTypes, ReplicaTypes, NEW p \in Server, BecomeLeader(p)
  PROVE  /\ LeaderTypes'
         /\ state' \in [Server -> {Follower, Candidate, Leader}]
  <1>1. LogLen(rep[p]) \in Int
    BY ReplicaParts DEF ReplicaTypes
  <1>2. LeaderTypes'
    BY <1>1 DEF LeaderTypes, BecomeLeader, NoIndices, NoSignals
  <1>. QED BY <1>2 DEF PeerTypes, BecomeLeader

LEMMA StartElectionTypes ==
  ASSUME TypeOK, ShapeInv, NEW p \in Server, StartElection(p),
         state' \in [Server -> {Follower, Candidate, Leader}],
         heardFromLeader' \in [Server -> BOOLEAN],
         leaderID' \in [Server -> Server \cup {Nil}],
         UNCHANGED <<up, rep, pendingNoop>>
  PROVE  PeerTypes' /\ ElectionTypes' /\ StorageTypes' /\ StorageShape'
  <1>1. PeerTypes'
    <2>1. /\ currentTerm' = [currentTerm EXCEPT ![p] = currentTerm[p] + 1]
          /\ votedFor' = [votedFor EXCEPT ![p] = p]
          /\ voteCount' = [voteCount EXCEPT ![p] = 1]
      BY DEF StartElection
    <2>. QED BY <2>1 DEF TypeOK, PeerTypes
  <1>2. ElectionTypes'
    <2>. DEFINE last == LastIndex(rep[p])
    <2>1. currentTerm[p] + 1 \in Nat
      BY DEF TypeOK, PeerTypes
    <2>2. last \in Nat /\ TermAt(rep[p], last) \in Nat
      <3>1. rep[p] \in Replica /\ WellFormed(rep[p].log, rep[p].snapshot, rep[p].commitIndex)
        BY DEF TypeOK, ReplicaTypes, ShapeInv, ReplicaShape
      <3>2. last \in Nat /\ Base(rep[p]) <= last
        BY <3>1, LastIndexIsNat, ReplicaParts
      <3>. QED BY <3>1, <3>2, TermAtIsNat
    <2>. HIDE DEF last
    <2>3. /\ awaiting' = awaiting \cup {<<p, currentTerm[p] + 1, q>> : q \in Server \ {p}}
          /\ ballots' = ballots \cup {<<p, currentTerm[p] + 1, p>>}
          /\ voteRequests' = voteRequests \cup
               {[cand |-> p, term |-> currentTerm[p] + 1, lastLogIndex |-> last,
                 lastLogTerm |-> TermAt(rep[p], last)]}
          /\ voteResponses' = voteResponses
      BY DEF StartElection, last
    <2>. QED BY <2>1, <2>2, <2>3 DEF TypeOK, ElectionTypes
  <1>3. ReplicaTypes' /\ ReplicaShape'
    BY DEF TypeOK, ReplicaTypes, ShapeInv, ReplicaShape, WellFormed
  <1>. QED BY <1>1, <1>2, <1>3, SaveTypes DEF TypeOK, ShapeInv, StartElection

LEMMA LeaderAppendTypes ==
  ASSUME TypeOK, ShapeInv, NEW p \in Server, up[p], NEW cmd \in Cmd,
         LeaderAppend(p, cmd), PeerTypes', UNCHANGED up
  PROVE  /\ ReplicaTypes' /\ ReplicaShape' /\ StorageTypes' /\ StorageShape'
         /\ acks' \in [Server -> [1 .. MaxIndex -> Nat]]
  <1>. DEFINE e == [term |-> currentTerm[p], cmd |-> cmd]
              new == AppendEntry(rep[p], e)
  <1>1. Sound(rep[p])
    BY UpIsSound DEF TypeOK, ShapeInv
  <1>2. e \in Entry
    BY DEF TypeOK, PeerTypes, Entry
  <1>. HIDE DEF e
  <1>3. Sound(new)
    BY <1>1, <1>2, AppendEntrySound
  <1>4. rep' = [rep EXCEPT ![p] = new] /\ Save(p)
    BY DEF LeaderAppend, e
  <1>. HIDE DEF new
  <1>5. ReplicaTypes' /\ ReplicaShape'
    BY <1>3, <1>4, ReplaceReplica DEF TypeOK, ShapeInv
  <1>6. StorageTypes' /\ StorageShape'
    BY <1>4, <1>5, SaveTypes DEF TypeOK, ShapeInv
  <1>7. acks' \in [Server -> [1 .. MaxIndex -> Nat]]
    BY DEF TypeOK, LeaderTypes, LeaderAppend
  <1>. QED BY <1>5, <1>6, <1>7

LEMMA NewProcessTypes ==
  ASSUME TypeOK, ShapeInv, NEW p \in Server, NEW d \in Data,
         WellFormed(d.log, d.snapshot, d.commitIndex), NewProcess(p, d)
  PROVE  /\ PeerTypes' /\ LeaderTypes' /\ ElectionTypes' /\ CallTypes'
         /\ ReplicaTypes' /\ ReplicaShape'
         /\ memory' = [memory EXCEPT ![p] = d]
  <1>. DEFINE r == Reload(d.log, d.snapshot, d.commitIndex)
  <1>1. /\ d.currentTerm \in Nat /\ d.votedFor \in Server \cup {Nil} /\ d.voteCount \in Nat
        /\ d.log \in Seq(Entry) /\ d.snapshot \in Snapshot \cup {NoSnapshot}
        /\ d.commitIndex \in Nat
    BY DEF Data
  <1>2. PeerTypes'
    <2>1. /\ currentTerm' = [currentTerm EXCEPT ![p] = d.currentTerm]
          /\ votedFor' = [votedFor EXCEPT ![p] = d.votedFor]
          /\ voteCount' = [voteCount EXCEPT ![p] = d.voteCount]
          /\ up' = [up EXCEPT ![p] = ~LoadPanics(d.log, d.snapshot, d.commitIndex)]
          /\ state' = [state EXCEPT ![p] = Follower]
          /\ heardFromLeader' = [heardFromLeader EXCEPT ![p] = FALSE]
          /\ leaderID' = [leaderID EXCEPT ![p] = Nil]
          /\ pendingNoop' = [pendingNoop EXCEPT ![p] = 0]
      BY DEF NewProcess
    <2>2. up' \in [Server -> BOOLEAN]
      BY <2>1 DEF TypeOK, PeerTypes
    <2>. QED BY <1>1, <2>1, <2>2 DEF TypeOK, PeerTypes
  <1>3. LeaderTypes'
    BY DropLeadershipTypes DEF NewProcess, TypeOK
  <1>4. ElectionTypes'
    <2>1. awaiting' \subseteq awaiting /\ voteResponses' \subseteq voteResponses
          /\ voteRequests' = voteRequests /\ ballots' = ballots
      BY DEF NewProcess
    <2>. QED BY <2>1 DEF TypeOK, ElectionTypes
  <1>5. CallTypes'
    <2>1. /\ request' = [request EXCEPT ![p] = NoCalls]
          /\ response' = [response EXCEPT ![p] = NoCalls]
          /\ restarts' = restarts + 1 /\ failures' = failures
      BY DEF NewProcess
    <2>2. /\ request' \in [Server -> [Server -> ReplicationReq \cup {Nil}]]
          /\ response' \in [Server -> [Server -> ReplicationRes \cup {Nil}]]
          /\ restarts' \in Nat /\ failures' \in Nat
      BY <2>1 DEF TypeOK, CallTypes, NoCalls
    <2>3. lateRequests' \subseteq lateRequests \cup
            {[from |-> p, to |-> q, req |-> request[p][q]] :
               q \in {s \in Server : Waiting(p, s)}}
      BY DEF NewProcess
    <2>4. \A q \in Server : Waiting(p, q) => request[p][q] \in ReplicationReq
      BY DEF Waiting, TypeOK, CallTypes
    <2>5. lateRequests' \subseteq [from : Server, to : Server, req : ReplicationReq]
      BY <2>3, <2>4 DEF TypeOK, CallTypes
    <2>. QED BY <2>2, <2>5 DEF CallTypes
  <1>6. /\ r \in Replica /\ WellFormed(r.log, r.snapshot, r.commitIndex)
        /\ ~LoadPanics(d.log, d.snapshot, d.commitIndex) => Sound(r)
    BY <1>1, ReloadSound
  <1>7. rep' = [rep EXCEPT ![p] = r]
    BY DEF NewProcess
  <1>8. up' = [up EXCEPT ![p] = ~LoadPanics(d.log, d.snapshot, d.commitIndex)]
    BY DEF NewProcess
  <1>. HIDE DEF r
  <1>9. ReplicaTypes'
    BY <1>6, <1>7 DEF TypeOK, ReplicaTypes
  <1>10. ReplicaShape'
    <2>. SUFFICES ASSUME NEW q \in Server
                  PROVE  /\ WellFormed(rep'[q].log, rep'[q].snapshot, rep'[q].commitIndex)
                         /\ up'[q] => Len(rep'[q].applied) = rep'[q].commitIndex
      BY DEF ReplicaShape, WellFormed
    <2>1. CASE q = p
      <3>1. rep'[q] = r
        BY <2>1, <1>7 DEF TypeOK, ReplicaTypes
      <3>2. up'[q] => Sound(r)
        BY <2>1, <1>6, <1>8 DEF TypeOK, PeerTypes
      <3>. QED BY <3>1, <3>2, <1>6 DEF Sound
    <2>2. CASE q # p
      <3>1. rep'[q] = rep[q] /\ up'[q] = up[q]
        BY <2>2, <1>7, <1>8 DEF TypeOK, ReplicaTypes, PeerTypes
      <3>. QED BY <3>1 DEF ShapeInv, ReplicaShape
    <2>. QED BY <2>1, <2>2
  <1>11. memory' = [memory EXCEPT ![p] = d]
    BY DEF NewProcess
  <1>. QED BY <1>2, <1>3, <1>4, <1>5, <1>9, <1>10, <1>11

\* What the handlers of the two replication calls change.
HandlerTypes == /\ PeerTypes /\ LeaderTypes /\ ElectionTypes
                /\ ReplicaTypes /\ ReplicaShape /\ StorageTypes /\ StorageShape

LEMMA HandleAppendEntriesTypes ==
  ASSUME TypeOK, ShapeInv, NEW p \in Server, NEW leader \in Server,
         NEW req \in ReplicationReq, HandleAppendEntries(p, leader, req)
  PROVE  HandlerTypes' /\ restarts' = restarts
  <1>. USE DEF TypeOK, ShapeInv
  <1>1. /\ req.type = "AppendEntries"
        /\ req.term \in Nat /\ req.prevLogIndex \in Nat /\ req.leaderCommit \in Nat
        /\ req.entries \in Seq(Entry)
    <2>1. req.type = "AppendEntries"
      BY DEF HandleAppendEntries
    <2>2. req \in AppendEntriesReq
      BY <2>1 DEF ReplicationReq, InstallSnapshotReq
    <2>. QED BY <2>1, <2>2 DEF AppendEntriesReq
  <1>2. /\ up[p]
        /\ UNCHANGED <<pendingNoop, restarts, voteCount, awaiting, voteRequests,
                       voteResponses, ballots>>
    BY DEF HandleAppendEntries, electionVars
  <1>3. ElectionTypes'
    BY <1>2 DEF ElectionTypes
  <1>4. CASE req.term < currentTerm[p]
    <2>1. UNCHANGED <<up, state, currentTerm, votedFor, heardFromLeader, leaderID, rep,
                      nextIndex, matchIndex, acks, memory, disk>>
      BY <1>4 DEF HandleAppendEntries, leaderVars, storageVars
    <2>2. PeerTypes' /\ LeaderTypes'
      BY <1>2, <2>1 DEF PeerTypes, LeaderTypes
    <2>3. ReplicaTypes' /\ ReplicaShape'
      BY <2>1 DEF ReplicaTypes, ReplicaShape, WellFormed
    <2>4. StorageTypes' /\ StorageShape'
      BY <2>1 DEF StorageTypes, StorageShape, WellFormed
    <2>. QED BY <1>2, <1>3, <2>2, <2>3, <2>4 DEF HandlerTypes
  <1>5. CASE ~(req.term < currentTerm[p])
    <2>1. /\ UpdateTerm(p, req.term)
          /\ state' = [state EXCEPT ![p] = Follower]
          /\ heardFromLeader' = [heardFromLeader EXCEPT ![p] = (state[p] = Follower)]
          /\ DropLeadership(p)
          /\ leaderID' = [leaderID EXCEPT ![p] = leader]
          /\ up' = [up EXCEPT ![p] = ~AppendPanics(p, req)]
          /\ Save(p)
      BY <1>5 DEF HandleAppendEntries
    <2>2. PeerTypes'
      <3>1. currentTerm' \in [Server -> Nat] /\ votedFor' \in [Server -> Server \cup {Nil}]
        BY <1>1, <2>1, UpdateTermTypes
      <3>2. heardFromLeader' \in [Server -> BOOLEAN] /\ up' \in [Server -> BOOLEAN]
        BY <2>1 DEF PeerTypes
      <3>. QED BY <3>1, <3>2, <2>1, <1>2 DEF PeerTypes
    <2>3. LeaderTypes'
      BY <2>1, DropLeadershipTypes
    <2>4. ReplicaTypes' /\ ReplicaShape'
      <3>1. Sound(rep[p])
        BY <1>2, UpIsSound
      <3>2. CASE AppendPanics(p, req) \/ ~Consistent(p, req)
        <4>1. rep' = [rep EXCEPT ![p] = rep[p]]
          BY <1>5, <3>2 DEF HandleAppendEntries, ReplicaTypes
        <4>2. \A q \in Server : q # p => up'[q] = up[q]
          BY <2>1 DEF PeerTypes
        <4>. QED BY <3>1, <4>1, <4>2, ReplaceReplica
      <3>3. CASE ~(AppendPanics(p, req) \/ ~Consistent(p, req))
        <4>. DEFINE merged == MergeEntries(rep[p], req.prevLogIndex, req.entries)
                    new    == UpdateCommitIndex(merged, req.leaderCommit)
        <4>1. rep' = [rep EXCEPT ![p] = new]
          BY <1>5, <3>3 DEF HandleAppendEntries
        <4>2. Base(rep[p]) <= req.prevLogIndex /\ req.prevLogIndex <= LastIndex(rep[p])
          <5>1. rep[p] \in Replica /\ Readable(rep[p], req.prevLogIndex)
            BY <3>1, <3>3 DEF Consistent, Sound
          <5>. QED BY <5>1, <1>1, ReplicaParts DEF Readable, LastIndex
        <4>3. Sound(merged)
          BY <1>1, <3>1, <4>2, MergeEntriesSound
        <4>. HIDE DEF merged
        <4>4. Sound(new)
          BY <1>1, <4>3, UpdateCommitIndexSound
        <4>. HIDE DEF new
        <4>5. \A q \in Server : q # p => up'[q] = up[q]
          BY <2>1 DEF PeerTypes
        <4>. QED BY <4>1, <4>4, <4>5, ReplaceReplica
      <3>. QED BY <3>2, <3>3
    <2>5. StorageTypes' /\ StorageShape'
      BY <2>1, <2>2, <2>4, SaveTypes
    <2>. QED BY <1>2, <1>3, <2>2, <2>3, <2>4, <2>5 DEF HandlerTypes
  <1>. QED BY <1>4, <1>5

LEMMA HandleInstallSnapshotTypes ==
  ASSUME TypeOK, ShapeInv, NEW p \in Server, NEW req \in ReplicationReq,
         HandleInstallSnapshot(p, req)
  PROVE  HandlerTypes' /\ restarts' = restarts
  <1>. USE DEF TypeOK, ShapeInv
  <1>1. req.term \in Nat /\ req.snapshot \in Snapshot
        /\ Len(req.snapshot.sm) = req.snapshot.index
    <2>1. req.type = "InstallSnapshot"
      BY DEF HandleInstallSnapshot
    <2>2. req \in InstallSnapshotReq
      BY <2>1 DEF ReplicationReq, AppendEntriesReq
    <2>. QED BY <2>2 DEF InstallSnapshotReq, FullSnapshot
  <1>2. /\ up[p]
        /\ up' = [up EXCEPT ![p] = ~InstallPanics(p, req)]
        /\ UNCHANGED <<state, currentTerm, votedFor, leaderID, pendingNoop, restarts,
                       voteCount, awaiting, voteRequests, voteResponses, ballots,
                       nextIndex, matchIndex, acks>>
    BY DEF HandleInstallSnapshot, electionVars, leaderVars
  <1>3. ElectionTypes' /\ LeaderTypes'
    BY <1>2 DEF ElectionTypes, LeaderTypes
  <1>4. Sound(rep[p])
    BY <1>2, UpIsSound
  <1>5. \A q \in Server : q # p => up'[q] = up[q]
    BY <1>2 DEF PeerTypes
  <1>6. up' \in [Server -> BOOLEAN]
    BY <1>2 DEF PeerTypes
  <1>7. CASE req.term < currentTerm[p] \/ InstallPanics(p, req)
    <2>1. UNCHANGED <<heardFromLeader, rep, memory, disk>>
      BY <1>7 DEF HandleInstallSnapshot, storageVars
    <2>2. PeerTypes'
      BY <1>2, <1>6, <2>1 DEF PeerTypes
    <2>3. rep' = [rep EXCEPT ![p] = rep[p]]
      BY <2>1 DEF ReplicaTypes
    <2>4. ReplicaTypes' /\ ReplicaShape'
      BY <1>4, <1>5, <2>3, ReplaceReplica
    <2>5. StorageTypes' /\ StorageShape'
      BY <2>1 DEF StorageTypes, StorageShape, WellFormed
    <2>. QED BY <1>2, <1>3, <2>2, <2>4, <2>5 DEF HandlerTypes
  <1>8. CASE ~(req.term < currentTerm[p] \/ InstallPanics(p, req))
    <2>. DEFINE new == InstallSnapshot(rep[p], req.snapshot)
    <2>1. /\ rep' = [rep EXCEPT ![p] = new]
          /\ heardFromLeader' = [heardFromLeader EXCEPT ![p] = TRUE]
          /\ Save(p)
      BY <1>8 DEF HandleInstallSnapshot
    <2>2. PeerTypes'
      BY <1>2, <1>6, <2>1 DEF PeerTypes
    <2>3. Sound(new)
      <3>1. req.snapshot.index < LastIndex(rep[p]) => Readable(rep[p], req.snapshot.index)
        BY <1>1, <1>8 DEF InstallPanics, PeerTypes
      <3>. QED BY <3>1, <1>1, <1>4, InstallSnapshotSound
    <2>. HIDE DEF new
    <2>4. ReplicaTypes' /\ ReplicaShape'
      BY <1>5, <2>1, <2>3, ReplaceReplica
    <2>5. StorageTypes' /\ StorageShape'
      BY <2>1, <2>2, <2>4, SaveTypes
    <2>. QED BY <1>2, <1>3, <2>2, <2>4, <2>5 DEF HandlerTypes
  <1>. QED BY <1>7, <1>8

-----------------------------------------------------------------------------
\* the actions

LEMMA TimeoutTypes ==
  ASSUME TypeInv, NEW p \in Server,
         FollowerTimeout(p) \/ FollowerRearm(p) \/ CandidateTimeout(p)
  PROVE  TypeInv'
  <1>. USE DEF TypeInv
  <1>1. CASE FollowerTimeout(p)
    <2>1. /\ StartElection(p)
          /\ state' = [state EXCEPT ![p] = Candidate]
          /\ leaderID' = [leaderID EXCEPT ![p] = Nil]
          /\ UNCHANGED <<up, heardFromLeader, rep, pendingNoop, restarts, nextIndex,
                         matchIndex, acks, request, response, lateRequests, failures>>
      BY <1>1 DEF FollowerTimeout, leaderVars, callVars
    <2>2. /\ state' \in [Server -> {Follower, Candidate, Leader}]
          /\ heardFromLeader' \in [Server -> BOOLEAN]
          /\ leaderID' \in [Server -> Server \cup {Nil}]
      BY <2>1 DEF TypeOK, PeerTypes
    <2>3. PeerTypes' /\ ElectionTypes' /\ StorageTypes' /\ StorageShape'
      BY <2>1, <2>2, StartElectionTypes
    <2>. QED BY <2>1, <2>3 DEF TypeOK, ShapeInv, LeaderTypes, CallTypes, ReplicaTypes,
                               ReplicaShape, WellFormed
  <1>2. CASE FollowerRearm(p)
    <2>1. /\ heardFromLeader' = [heardFromLeader EXCEPT ![p] = FALSE]
          /\ UNCHANGED <<up, state, currentTerm, votedFor, leaderID, rep, pendingNoop,
                         restarts, electionVars, leaderVars, callVars, storageVars>>
      BY <1>2 DEF FollowerRearm
    <2>. QED BY <2>1 DEF TypeOK, ShapeInv, PeerTypes, LeaderTypes, ElectionTypes, CallTypes,
                         ReplicaTypes, StorageTypes, ReplicaShape, StorageShape, WellFormed,
                         electionVars, leaderVars, callVars, storageVars
  <1>3. CASE CandidateTimeout(p)
    <2>1. /\ StartElection(p)
          /\ UNCHANGED <<up, state, heardFromLeader, leaderID, rep, pendingNoop, restarts,
                         nextIndex, matchIndex, acks, request, response, lateRequests,
                         failures>>
      BY <1>3 DEF CandidateTimeout, leaderVars, callVars
    <2>2. /\ state' \in [Server -> {Follower, Candidate, Leader}]
          /\ heardFromLeader' \in [Server -> BOOLEAN]
          /\ leaderID' \in [Server -> Server \cup {Nil}]
      BY <2>1 DEF TypeOK, PeerTypes
    <2>3. PeerTypes' /\ ElectionTypes' /\ StorageTypes' /\ StorageShape'
      BY <2>1, <2>2, StartElectionTypes
    <2>. QED BY <2>1, <2>3 DEF TypeOK, ShapeInv, LeaderTypes, CallTypes, ReplicaTypes,
                               ReplicaShape, WellFormed
  <1>. QED BY <1>1, <1>2, <1>3

LEMMA HandleRequestVoteTypes ==
  ASSUME TypeInv, NEW p \in Server, NEW m \in voteRequests, HandleRequestVote(p, m)
  PROVE  TypeInv'
  <1>. USE DEF TypeInv
  <1>1. m.cand \in Server /\ m.term \in Nat
    BY DEF TypeOK, ElectionTypes
  <1>2. /\ currentTerm' = [currentTerm EXCEPT ![p] = Greater(currentTerm[p], m.term)]
        /\ UNCHANGED <<up, voteCount, leaderID, rep, pendingNoop, awaiting, voteRequests,
                       request, response, lateRequests, failures, restarts>>
    BY DEF HandleRequestVote, callVars
  <1>3. currentTerm' \in [Server -> Nat]
    BY <1>1, <1>2 DEF TypeOK, PeerTypes, Greater
  <1>4. votedFor' \in [Server -> Server \cup {Nil}]
    <2>1. CASE WillGrant(p, m)
      BY <1>1, <2>1 DEF HandleRequestVote, TypeOK, PeerTypes
    <2>2. CASE ~WillGrant(p, m)
      BY <1>1, <2>2 DEF HandleRequestVote, TypeOK, PeerTypes
    <2>. QED BY <2>1, <2>2
  <1>5. /\ LeaderTypes'
        /\ state' \in [Server -> {Follower, Candidate, Leader}]
        /\ heardFromLeader' \in [Server -> BOOLEAN]
    <2>1. CASE m.term > currentTerm[p]
      BY <2>1, BecomeFollowerTypes DEF HandleRequestVote, TypeOK
    <2>2. CASE ~(m.term > currentTerm[p])
      BY <2>2 DEF HandleRequestVote, TypeOK, PeerTypes, LeaderTypes, leaderVars
    <2>. QED BY <2>1, <2>2
  <1>6. PeerTypes'
    BY <1>2, <1>3, <1>4, <1>5 DEF TypeOK, PeerTypes
  <1>7. ElectionTypes'
    <2>1. ballots' \subseteq ballots \cup {<<p, m.term, m.cand>>}
      BY DEF HandleRequestVote
    <2>2. voteResponses' = voteResponses \cup
            {[cand |-> a[1], term |-> a[2], voter |-> p, resTerm |-> currentTerm'[p],
              granted |-> WillGrant(p, m)] : a \in awaiting \cap {<<m.cand, m.term, p>>}}
      BY DEF HandleRequestVote
    <2>3. currentTerm'[p] \in Nat /\ WillGrant(p, m) \in BOOLEAN
      BY <1>3 DEF WillGrant
    <2>4. voteResponses' \subseteq [cand : Server, term : Nat, voter : Server,
                                    resTerm : Nat, granted : BOOLEAN]
      BY <1>1, <2>2, <2>3 DEF TypeOK, ElectionTypes
    <2>. QED BY <1>1, <1>2, <2>1, <2>4 DEF TypeOK, ElectionTypes
  <1>8. ReplicaTypes' /\ ReplicaShape'
    BY <1>2 DEF TypeOK, ReplicaTypes, ShapeInv, ReplicaShape, WellFormed
  <1>9. StorageTypes' /\ StorageShape'
    <2>1. CASE WillGrant(p, m)
      BY <2>1, <1>6, <1>8, SaveTypes DEF HandleRequestVote, TypeOK, ShapeInv
    <2>2. CASE ~WillGrant(p, m)
      BY <2>2 DEF HandleRequestVote, TypeOK, StorageTypes, ShapeInv, StorageShape,
                  WellFormed, storageVars
    <2>. QED BY <2>1, <2>2
  <1>10. CallTypes'
    BY <1>2 DEF TypeOK, CallTypes
  <1>. QED BY <1>5, <1>6, <1>7, <1>8, <1>9, <1>10 DEF TypeOK, ShapeInv

LEMMA HandleRequestVoteRespondTypes ==
  ASSUME TypeInv, NEW m \in voteResponses, HandleRequestVoteRespond(m)
  PROVE  TypeInv'
  <1>. USE DEF TypeInv
  <1>. DEFINE p == m.cand
  <1>1. p \in Server /\ m.term \in Nat /\ m.resTerm \in Nat /\ m.voter \in Server
    BY DEF TypeOK, ElectionTypes
  <1>2. /\ UNCHANGED <<up, leaderID, rep, voteRequests, ballots, request, response,
                       lateRequests, failures, restarts>>
        /\ awaiting' \subseteq awaiting /\ voteResponses' \subseteq voteResponses
    BY DEF HandleRequestVoteRespond, callVars
  <1>3. ElectionTypes' /\ CallTypes'
    BY <1>2 DEF TypeOK, ElectionTypes, CallTypes
  <1>4. ReplicaTypes' /\ ReplicaShape'
    BY <1>2 DEF TypeOK, ReplicaTypes, ShapeInv, ReplicaShape, WellFormed
  <1>5. CASE /\ m.resTerm > currentTerm[p]
             /\ UpdateTerm(p, m.resTerm)
             /\ BecomeFollower(p)
             /\ UNCHANGED <<voteCount, pendingNoop, storageVars>>
    <2>1. LeaderTypes' /\ PeerTypes'
      BY <1>1, <1>2, <1>5, UpdateTermTypes, BecomeFollowerTypes DEF TypeOK, PeerTypes
    <2>2. StorageTypes' /\ StorageShape'
      BY <1>5 DEF TypeOK, StorageTypes, ShapeInv, StorageShape, WellFormed, storageVars
    <2>. QED BY <1>3, <1>4, <2>1, <2>2 DEF TypeOK, ShapeInv
  <1>6. CASE UNCHANGED <<state, currentTerm, votedFor, heardFromLeader, voteCount,
                         pendingNoop, leaderVars, storageVars>>
    <2>1. LeaderTypes' /\ PeerTypes'
      BY <1>2, <1>6 DEF TypeOK, PeerTypes, LeaderTypes, leaderVars
    <2>2. StorageTypes' /\ StorageShape'
      BY <1>6 DEF TypeOK, StorageTypes, ShapeInv, StorageShape, WellFormed, storageVars
    <2>. QED BY <1>3, <1>4, <2>1, <2>2 DEF TypeOK, ShapeInv
  <1>7. CASE /\ voteCount' = [voteCount EXCEPT ![p] = IF m.granted THEN @ + 1 ELSE @]
             /\ IF m.granted /\ voteCount[p] + 1 > N \div 2
                  THEN /\ BecomeLeader(p)
                       /\ pendingNoop' = [pendingNoop EXCEPT ![p] = @ + 1]
                  ELSE UNCHANGED <<state, leaderVars, pendingNoop>>
             /\ UNCHANGED <<currentTerm, votedFor, heardFromLeader>>
             /\ Save(p)
    <2>1. /\ LeaderTypes'
          /\ state' \in [Server -> {Follower, Candidate, Leader}]
          /\ pendingNoop' \in [Server -> Nat]
      <3>1. CASE m.granted /\ voteCount[p] + 1 > N \div 2
        BY <1>1, <1>7, <3>1, BecomeLeaderTypes DEF TypeOK, PeerTypes
      <3>2. CASE ~(m.granted /\ voteCount[p] + 1 > N \div 2)
        BY <1>7, <3>2 DEF TypeOK, PeerTypes, LeaderTypes, leaderVars
      <3>. QED BY <3>1, <3>2
    <2>2. voteCount' \in [Server -> Nat]
      <3>. DEFINE count == IF m.granted THEN voteCount[p] + 1 ELSE voteCount[p]
      <3>1. voteCount' = [voteCount EXCEPT ![p] = count]
        BY <1>7
      <3>2. voteCount \in [Server -> Nat] /\ voteCount[p] \in Nat
        BY <1>1 DEF TypeOK, PeerTypes
      <3>. HIDE DEF p
      <3>3. count \in Nat
        BY <3>2
      <3>. HIDE DEF count
      <3>. QED BY <3>1, <3>2, <3>3
    <2>3. PeerTypes'
      BY <1>2, <1>7, <2>1, <2>2 DEF TypeOK, PeerTypes
    <2>4. StorageTypes' /\ StorageShape'
      BY <1>1, <1>4, <1>7, <2>3, SaveTypes DEF TypeOK, ShapeInv
    <2>. QED BY <1>3, <1>4, <2>1, <2>3, <2>4 DEF TypeOK, ShapeInv
  <1>. QED BY <1>5, <1>6, <1>7 DEF HandleRequestVoteRespond

LEMMA LeaderTypesKept ==
  ASSUME TypeInv, NEW p \in Server,
         \/ \E cmd \in Command : ClientRequest(p, cmd)
         \/ AppendNoop(p)
         \/ \E i \in 1 .. MaxIndex : CommitRequest(p, i)
  PROVE  TypeInv'
  <1>. USE DEF TypeInv
  <1>1. ASSUME NEW cmd \in Command, ClientRequest(p, cmd)
        PROVE  TypeInv'
    <2>1. /\ LeaderAppend(p, cmd) /\ up[p] /\ cmd \in Cmd
          /\ UNCHANGED <<up, state, currentTerm, votedFor, heardFromLeader, leaderID,
                         pendingNoop, nextIndex, matchIndex, restarts, voteCount, awaiting,
                         voteRequests, voteResponses, ballots, request, response,
                         lateRequests, failures>>
      BY <1>1 DEF ClientRequest, electionVars, callVars, Cmd
    <2>2. PeerTypes' /\ ElectionTypes' /\ CallTypes'
      BY <2>1 DEF TypeOK, PeerTypes, ElectionTypes, CallTypes
    <2>3. /\ ReplicaTypes' /\ ReplicaShape' /\ StorageTypes' /\ StorageShape'
          /\ acks' \in [Server -> [1 .. MaxIndex -> Nat]]
      BY <2>1, <2>2, LeaderAppendTypes
    <2>. QED BY <2>1, <2>2, <2>3 DEF TypeOK, ShapeInv, LeaderTypes
  <1>2. CASE AppendNoop(p)
    <2>1. /\ up[p] /\ pendingNoop[p] > 0
          /\ pendingNoop' = [pendingNoop EXCEPT ![p] = pendingNoop[p] - 1]
          /\ UNCHANGED <<up, state, currentTerm, votedFor, heardFromLeader, leaderID,
                         nextIndex, matchIndex, restarts, voteCount, awaiting,
                         voteRequests, voteResponses, ballots, request, response,
                         lateRequests, failures>>
      BY <1>2 DEF AppendNoop, electionVars, callVars
    <2>2. pendingNoop' \in [Server -> Nat]
      BY <2>1 DEF TypeOK, PeerTypes
    <2>3. PeerTypes' /\ ElectionTypes' /\ CallTypes'
      BY <2>1, <2>2 DEF TypeOK, PeerTypes, ElectionTypes, CallTypes
    <2>4. CASE state[p] = Leader
      <3>1. LeaderAppend(p, NoOp) /\ NoOp \in Cmd
        BY <1>2, <2>4 DEF AppendNoop, Cmd
      <3>2. /\ ReplicaTypes' /\ ReplicaShape' /\ StorageTypes' /\ StorageShape'
            /\ acks' \in [Server -> [1 .. MaxIndex -> Nat]]
        BY <2>1, <2>3, <3>1, LeaderAppendTypes
      <3>. QED BY <2>1, <2>3, <3>2 DEF TypeOK, ShapeInv, LeaderTypes
    <2>5. CASE state[p] # Leader
      <3>1. UNCHANGED <<rep, acks, memory, disk>>
        BY <1>2, <2>5 DEF AppendNoop, storageVars
      <3>. QED BY <2>1, <2>3, <3>1 DEF TypeOK, ShapeInv, LeaderTypes, ReplicaTypes,
                      StorageTypes, ReplicaShape, StorageShape, WellFormed
    <2>. QED BY <2>4, <2>5
  <1>3. ASSUME NEW i \in 1 .. MaxIndex, CommitRequest(p, i)
        PROVE  TypeInv'
    <2>. DEFINE new == UpdateCommitIndex(rep[p], i)
    <2>1. /\ up[p] /\ Save(p)
          /\ rep' = [rep EXCEPT ![p] = new]
          /\ acks' = [acks EXCEPT ![p][i] = 0]
          /\ UNCHANGED <<up, state, currentTerm, votedFor, heardFromLeader, leaderID,
                         pendingNoop, nextIndex, matchIndex, restarts, voteCount, awaiting,
                         voteRequests, voteResponses, ballots, request, response,
                         lateRequests, failures>>
      BY <1>3 DEF CommitRequest, electionVars, callVars
    <2>2. PeerTypes' /\ ElectionTypes' /\ CallTypes' /\ LeaderTypes'
      BY <2>1 DEF TypeOK, PeerTypes, ElectionTypes, CallTypes, LeaderTypes
    <2>3. Sound(new)
      BY <2>1, UpIsSound, UpdateCommitIndexSound DEF TypeOK, ShapeInv
    <2>. HIDE DEF new
    <2>4. ReplicaTypes' /\ ReplicaShape'
      BY <2>1, <2>3, ReplaceReplica DEF TypeOK, ShapeInv
    <2>5. StorageTypes' /\ StorageShape'
      BY <2>1, <2>2, <2>4, SaveTypes DEF TypeOK, ShapeInv
    <2>. QED BY <2>2, <2>4, <2>5 DEF TypeOK, ShapeInv
  <1>. QED BY <1>1, <1>2, <1>3

\* Calls go out with entries, a term and a snapshot of the right types.
LEMMA SendTypes ==
  ASSUME TypeInv, NEW p \in Server, NEW q \in Server,
         SendAppendEntries(p, q) \/ SendInstallSnapshot(p, q) \/ CallFails(p, q)
  PROVE  TypeInv'
  <1>. USE DEF TypeInv
  <1>1. /\ UNCHANGED <<state, currentTerm, votedFor, heardFromLeader, leaderID, rep,
                       pendingNoop, restarts, voteCount, awaiting, voteRequests,
                       voteResponses, ballots, nextIndex, matchIndex, acks, memory, disk>>
        /\ \A s \in Server : up'[s] => up[s]
        /\ up' \in [Server -> BOOLEAN]
    BY DEF SendAppendEntries, SendInstallSnapshot, CallFails, electionVars, leaderVars,
           storageVars, TypeOK, PeerTypes
  <1>2. /\ PeerTypes' /\ LeaderTypes' /\ ElectionTypes' /\ ReplicaTypes' /\ StorageTypes'
    BY <1>1 DEF TypeOK, PeerTypes, LeaderTypes, ElectionTypes, ReplicaTypes, StorageTypes
  <1>3. ShapeInv'
    BY <1>1 DEF ShapeInv, ReplicaShape, StorageShape, WellFormed
  <1>4. rep[p] \in Replica /\ currentTerm[p] \in Nat
    BY DEF TypeOK, ReplicaTypes, PeerTypes
  <1>5. CASE SendAppendEntries(p, q)
    <2>. DEFINE prev == nextIndex[p][q] - 1
                req == [type |-> "AppendEntries", term |-> currentTerm[p],
                        prevLogIndex |-> prev, prevLogTerm |-> TermAt(rep[p], prev),
                        leaderCommit |-> rep[p].commitIndex,
                        entries |-> EntriesAfter(rep[p], prev)]
    <2>1. UNCHANGED <<response, lateRequests, failures, restarts>>
      BY <1>5 DEF SendAppendEntries
    <2>2. CASE Readable(rep[p], prev)
      <3>1. prev \in Nat /\ Base(rep[p]) <= prev /\ prev <= LastIndex(rep[p])
            /\ Base(rep[p]) \in Int
        BY <2>2, <1>4, ReplicaParts DEF Readable, LastIndex, TypeOK, LeaderTypes
      <3>. HIDE DEF prev
      <3>2. TermAt(rep[p], prev) \in Nat
        BY <3>1, <1>4, TermAtIsNat
      <3>3. EntriesAfter(rep[p], prev) \in Seq(Entry)
        BY <3>1, <1>4, SuffixIsLog DEF EntriesAfter
      <3>4. rep[p].commitIndex \in Nat
        BY <1>4, ReplicaParts
      <3>5. req \in ReplicationReq
        BY <1>4, <3>1, <3>2, <3>3, <3>4 DEF ReplicationReq, AppendEntriesReq
      <3>6. request' = [request EXCEPT ![p][q] = req]
        BY <1>5, <2>2 DEF SendAppendEntries, prev
      <3>. HIDE DEF req
      <3>. QED BY <1>2, <1>3, <2>1, <3>5, <3>6 DEF TypeOK, CallTypes
    <2>3. CASE ~Readable(rep[p], prev)
      <3>1. request' = request
        BY <1>5, <2>3 DEF SendAppendEntries
      <3>. QED BY <1>2, <1>3, <2>1, <3>1 DEF TypeOK, CallTypes
    <2>. QED BY <2>2, <2>3
  <1>6. CASE SendInstallSnapshot(p, q)
    <2>. DEFINE req == [type |-> "InstallSnapshot", term |-> currentTerm[p],
                        snapshot |-> rep[p].snapshot]
    <2>1. /\ UNCHANGED <<response, lateRequests, failures, restarts>>
          /\ request' = [request EXCEPT ![p][q] = req]
      BY <1>6 DEF SendInstallSnapshot
    <2>2. rep[p].snapshot # NoSnapshot
      BY <1>6 DEF SendInstallSnapshot, SendsSnapshot
    <2>3. rep[p].snapshot \in FullSnapshot
      BY <1>4, <2>2, ReplicaParts DEF ShapeInv, ReplicaShape, WellFormed, FullSnapshot
    <2>4. req \in ReplicationReq
      BY <1>4, <2>3 DEF ReplicationReq, InstallSnapshotReq
    <2>. HIDE DEF req
    <2>. QED BY <1>2, <1>3, <2>1, <2>4 DEF TypeOK, CallTypes
  <1>7. CASE CallFails(p, q)
    <2>1. /\ request[p][q] # Nil
          /\ failures' = failures + 1 /\ restarts' = restarts
          /\ request' = [request EXCEPT ![p][q] = Nil]
          /\ response' = [response EXCEPT ![p][q] = Nil]
          /\ lateRequests' \subseteq
               lateRequests \cup {[from |-> p, to |-> q, req |-> request[p][q]]}
      BY <1>7 DEF CallFails
    <2>2. request[p][q] \in ReplicationReq
      BY <2>1 DEF TypeOK, CallTypes
    <2>. QED BY <1>2, <1>3, <2>1, <2>2 DEF TypeOK, CallTypes
  <1>. QED BY <1>5, <1>6, <1>7

LEMMA HandleResTypes ==
  ASSUME TypeInv, NEW p \in Server, NEW q \in Server,
         HandleAppendEntriesRes(p, q) \/ HandleInstallSnapshotRes(p, q)
  PROVE  TypeInv'
  <1>. USE DEF TypeInv
  <1>. DEFINE res == response[p][q]
              req == request[p][q]
  <1>1. /\ res # Nil
        /\ request' = [request EXCEPT ![p][q] = Nil]
        /\ response' = [response EXCEPT ![p][q] = Nil]
        /\ UNCHANGED <<up, leaderID, pendingNoop, awaiting, voteRequests, voteResponses,
                       ballots, lateRequests, failures, restarts>>
    BY DEF HandleAppendEntriesRes, HandleInstallSnapshotRes, Answered
  <1>2. UNCHANGED rep
    BY DEF HandleAppendEntriesRes, HandleInstallSnapshotRes
  <1>3. res.term \in Nat
    <2>1. res \in ReplicationRes
      BY <1>1 DEF TypeOK, CallTypes
    <2>. QED BY <2>1 DEF ReplicationRes
  <1>4. ElectionTypes' /\ CallTypes'
    BY <1>1 DEF TypeOK, ElectionTypes, CallTypes
  <1>5. ReplicaTypes' /\ ReplicaShape'
    BY <1>1, <1>2 DEF TypeOK, ReplicaTypes, ShapeInv, ReplicaShape, WellFormed
  <1>6. CASE /\ UpdateTerm(p, res.term) /\ BecomeFollower(p)
             /\ UNCHANGED voteCount /\ Save(p)
    <2>1. PeerTypes' /\ LeaderTypes'
      BY <1>1, <1>3, <1>6, UpdateTermTypes, BecomeFollowerTypes DEF TypeOK, PeerTypes
    <2>2. StorageTypes' /\ StorageShape'
      BY <1>5, <1>6, <2>1, SaveTypes DEF TypeOK, ShapeInv
    <2>. QED BY <1>4, <1>5, <2>1, <2>2 DEF TypeOK, ShapeInv
  <1>7. ASSUME LeaderTypes',
               UNCHANGED <<state, currentTerm, votedFor, heardFromLeader, voteCount,
                           storageVars>>
        PROVE  TypeInv'
    <2>1. PeerTypes'
      BY <1>1, <1>7 DEF TypeOK, PeerTypes
    <2>2. StorageTypes' /\ StorageShape'
      BY <1>7 DEF TypeOK, StorageTypes, ShapeInv, StorageShape, WellFormed, storageVars
    <2>. QED BY <1>4, <1>5, <1>7, <2>1, <2>2 DEF TypeOK, ShapeInv
  <1>8. CASE HandleAppendEntriesRes(p, q)
    <2>1. LastSent(req) \in Nat
      <3>1. req.type = "AppendEntries" /\ req # Nil
        BY <1>8 DEF HandleAppendEntriesRes, Answered
      <3>2. req \in AppendEntriesReq
        BY <3>1 DEF TypeOK, CallTypes, ReplicationReq, InstallSnapshotReq
      <3>. QED BY <3>2 DEF AppendEntriesReq, LastSent
    <2>2. CASE /\ nextIndex' = [nextIndex EXCEPT ![p][q] = @ - 1]
               /\ UNCHANGED <<state, currentTerm, votedFor, heardFromLeader, voteCount, rep,
                              matchIndex, acks, storageVars>>
      <3>1. LeaderTypes'
        BY <2>2 DEF TypeOK, LeaderTypes
      <3>. QED BY <2>2, <3>1, <1>7
    <2>3. CASE /\ nextIndex' = [nextIndex EXCEPT ![p][q] = LastSent(req) + 1]
               /\ acks' = [acks EXCEPT ![p] =
                    [i \in 1 .. MaxIndex |->
                       IF i \in FirstToSignal(p, q) .. LastSent(req) /\ @[i] > 0
                         THEN @[i] + 1 ELSE @[i]]]
               /\ matchIndex' = [matchIndex EXCEPT ![p][q] = LastSent(req)]
               /\ UNCHANGED <<state, currentTerm, votedFor, heardFromLeader, voteCount, rep,
                              storageVars>>
      <3>. DEFINE row == [i \in 1 .. MaxIndex |->
                            IF i \in FirstToSignal(p, q) .. LastSent(req) /\ acks[p][i] > 0
                              THEN acks[p][i] + 1 ELSE acks[p][i]]
      <3>1. acks' \in [Server -> [1 .. MaxIndex -> Nat]]
        <4>1. \A i \in 1 .. MaxIndex : acks[p][i] \in Nat
          BY DEF TypeOK, LeaderTypes
        <4>2. row \in [1 .. MaxIndex -> Nat]
          BY <4>1
        <4>3. acks' = [acks EXCEPT ![p] = row]
          BY <2>3
        <4>. HIDE DEF row
        <4>. QED BY <4>2, <4>3 DEF TypeOK, LeaderTypes
      <3>2. LeaderTypes'
        BY <2>1, <2>3, <3>1 DEF TypeOK, LeaderTypes
      <3>. QED BY <2>3, <3>2, <1>7
    <2>4. CASE UNCHANGED <<state, currentTerm, votedFor, heardFromLeader, voteCount, rep,
                           leaderVars, storageVars>>
      <3>1. LeaderTypes'
        BY <2>4 DEF TypeOK, LeaderTypes, leaderVars
      <3>. QED BY <2>4, <3>1, <1>7
    <2>. HIDE DEF TypeInv
    <2>. QED BY <1>6, <1>8, <2>2, <2>3, <2>4 DEF HandleAppendEntriesRes
  <1>9. CASE HandleInstallSnapshotRes(p, q)
    <2>1. CASE /\ nextIndex' = IF state[p] = Leader
                                 THEN [nextIndex EXCEPT ![p][q] = Base(rep[p]) + 1]
                                 ELSE nextIndex
               /\ UNCHANGED <<state, currentTerm, votedFor, heardFromLeader, voteCount, rep,
                              matchIndex, acks, storageVars>>
      <3>1. Base(rep[p]) \in Int
        BY ReplicaParts DEF TypeOK, ReplicaTypes
      <3>2. nextIndex' \in [Server -> [Server -> Int]]
        <4>1. CASE state[p] = Leader
          <5>1. nextIndex' = [nextIndex EXCEPT ![p][q] = Base(rep[p]) + 1]
            BY <2>1, <4>1
          <5>2. Base(rep[p]) + 1 \in Int
            BY <3>1
          <5>. QED BY <5>1, <5>2, UpdateCell DEF TypeOK, LeaderTypes
        <4>2. CASE state[p] # Leader
          BY <2>1, <4>2 DEF TypeOK, LeaderTypes
        <4>. QED BY <4>1, <4>2
      <3>3. LeaderTypes'
        BY <2>1, <3>2 DEF TypeOK, LeaderTypes
      <3>. QED BY <2>1, <3>3, <1>7
    <2>. HIDE DEF TypeInv
    <2>. QED BY <1>6, <1>9, <2>1 DEF HandleInstallSnapshotRes
  <1>. QED BY <1>8, <1>9

LEMMA ReceiveTypes ==
  ASSUME TypeInv, NEW p \in Server, NEW q \in Server,
         ReceiveAppendEntries(p, q) \/ ReceiveInstallSnapshot(p, q)
  PROVE  TypeInv'
  <1>. USE DEF TypeInv
  <1>1. request[p][q] \in ReplicationReq
    BY DEF ReceiveAppendEntries, ReceiveInstallSnapshot, Waiting, TypeOK, CallTypes
  <1>2. ASSUME NEW res \in ReplicationRes, Answer(p, q, res), restarts' = restarts
        PROVE  CallTypes'
    <2>1. /\ \/ request' = request /\ response' = [response EXCEPT ![p][q] = res]
             \/ request' = [request EXCEPT ![p][q] = Nil] /\ response' = response
          /\ lateRequests' = lateRequests /\ failures' = failures
      BY <1>2 DEF Answer
    <2>2. request' \in [Server -> [Server -> ReplicationReq \cup {Nil}]]
      <3>1. CASE request' = [request EXCEPT ![p][q] = Nil]
        BY <3>1, UpdateCell DEF TypeOK, CallTypes
      <3>2. CASE request' = request
        BY <3>2 DEF TypeOK, CallTypes
      <3>. QED BY <2>1, <3>1, <3>2
    <2>3. response' \in [Server -> [Server -> ReplicationRes \cup {Nil}]]
      <3>1. CASE response' = [response EXCEPT ![p][q] = res]
        BY <1>2, <3>1, UpdateCell DEF TypeOK, CallTypes
      <3>2. CASE response' = response
        BY <3>2 DEF TypeOK, CallTypes
      <3>. QED BY <2>1, <3>1, <3>2
    <2>. QED BY <1>2, <2>1, <2>2, <2>3 DEF TypeOK, CallTypes
  <1>3. CASE ReceiveAppendEntries(p, q)
    <2>. DEFINE res == AppendReply(q, request[p][q])
    <2>1. HandleAppendEntries(q, p, request[p][q]) /\ Answer(p, q, res)
      BY <1>3 DEF ReceiveAppendEntries
    <2>2. HandlerTypes' /\ restarts' = restarts
      BY <1>1, <2>1, HandleAppendEntriesTypes
    <2>3. request[p][q].term \in Nat /\ currentTerm[q] \in Nat
      BY <1>1 DEF ReplicationReq, AppendEntriesReq, InstallSnapshotReq, TypeOK, PeerTypes
    <2>4. Consistent(q, request[p][q]) \in BOOLEAN
      BY DEF Consistent
    <2>5. res \in ReplicationRes
      BY <2>3, <2>4 DEF AppendReply, ReplicationRes, Greater
    <2>. HIDE DEF res
    <2>6. CallTypes'
      BY <1>2, <2>1, <2>2, <2>5
    <2>. QED BY <2>2, <2>6 DEF HandlerTypes, TypeOK, ShapeInv
  <1>4. CASE ReceiveInstallSnapshot(p, q)
    <2>. DEFINE res == [term |-> currentTerm[q]]
    <2>1. HandleInstallSnapshot(q, request[p][q]) /\ Answer(p, q, res)
      BY <1>4 DEF ReceiveInstallSnapshot
    <2>2. HandlerTypes' /\ restarts' = restarts
      BY <1>1, <2>1, HandleInstallSnapshotTypes
    <2>3. res \in ReplicationRes
      BY DEF TypeOK, PeerTypes, ReplicationRes
    <2>. HIDE DEF res
    <2>4. CallTypes'
      BY <1>2, <2>1, <2>2, <2>3
    <2>. QED BY <2>2, <2>4 DEF HandlerTypes, TypeOK, ShapeInv
  <1>. QED BY <1>3, <1>4

LEMMA ReceiveLateTypes ==
  ASSUME TypeInv, NEW m \in lateRequests, ReceiveLate(m)
  PROVE  TypeInv'
  <1>. USE DEF TypeInv
  <1>1. m.from \in Server /\ m.to \in Server /\ m.req \in ReplicationReq
    BY DEF TypeOK, CallTypes
  <1>2. /\ HandleAppendEntries(m.to, m.from, m.req) \/ HandleInstallSnapshot(m.to, m.req)
        /\ lateRequests' = lateRequests \ {m}
        /\ UNCHANGED <<request, response, failures>>
    BY DEF ReceiveLate
  <1>3. HandlerTypes' /\ restarts' = restarts
    BY <1>1, <1>2, HandleAppendEntriesTypes, HandleInstallSnapshotTypes
  <1>4. CallTypes'
    BY <1>2, <1>3 DEF TypeOK, CallTypes
  <1>. QED BY <1>3, <1>4 DEF HandlerTypes, TypeOK, ShapeInv

LEMMA ProcessTypes ==
  ASSUME TypeInv, NEW p \in Server, Flush(p) \/ Crash(p) \/ Stop(p)
  PROVE  TypeInv'
  <1>. USE DEF TypeInv
  <1>1. /\ memory[p] \in Data /\ disk[p] \in Data
        /\ WellFormed(memory[p].log, memory[p].snapshot, memory[p].commitIndex)
        /\ WellFormed(disk[p].log, disk[p].snapshot, disk[p].commitIndex)
    BY DEF TypeOK, StorageTypes, ShapeInv, StorageShape
  <1>2. CASE Flush(p)
    <2>1. /\ disk' = [disk EXCEPT ![p] = memory[p]]
          /\ UNCHANGED <<up, state, currentTerm, votedFor, heardFromLeader, leaderID, rep,
                         pendingNoop, restarts, electionVars, leaderVars, callVars, memory>>
      BY <1>2 DEF Flush
    <2>2. StorageTypes' /\ StorageShape'
      BY <1>1, <2>1, StoreTypes DEF TypeOK, ShapeInv
    <2>. QED BY <2>1, <2>2 DEF TypeOK, ShapeInv, PeerTypes, LeaderTypes, ElectionTypes,
                 CallTypes, ReplicaTypes, ReplicaShape, WellFormed, electionVars,
                 leaderVars, callVars
  <1>3. CASE Crash(p)
    <2>1. NewProcess(p, disk[p]) /\ disk' = disk
      BY <1>3 DEF Crash
    <2>2. /\ PeerTypes' /\ LeaderTypes' /\ ElectionTypes' /\ CallTypes'
          /\ ReplicaTypes' /\ ReplicaShape'
          /\ memory' = [memory EXCEPT ![p] = disk[p]]
      BY <1>1, <2>1, NewProcessTypes
    <2>3. StorageTypes' /\ StorageShape'
      BY <1>1, <2>1, <2>2, StoreTypes DEF TypeOK, ShapeInv
    <2>. QED BY <2>2, <2>3 DEF TypeOK, ShapeInv
  <1>4. CASE Stop(p)
    <2>1. NewProcess(p, memory[p]) /\ disk' = [disk EXCEPT ![p] = memory[p]]
      BY <1>4 DEF Stop
    <2>2. /\ PeerTypes' /\ LeaderTypes' /\ ElectionTypes' /\ CallTypes'
          /\ ReplicaTypes' /\ ReplicaShape'
          /\ memory' = [memory EXCEPT ![p] = memory[p]]
      BY <1>1, <2>1, NewProcessTypes
    <2>3. StorageTypes' /\ StorageShape'
      BY <1>1, <2>1, <2>2, StoreTypes DEF TypeOK, ShapeInv
    <2>. QED BY <2>2, <2>3 DEF TypeOK, ShapeInv
  <1>. QED BY <1>2, <1>3, <1>4

-----------------------------------------------------------------------------
LEMMA InitTypes ==
  ASSUME Init
  PROVE  TypeInv
  <1>1. Sound(InitReplica)
    <2>1. InitReplica \in Replica
      BY DEF InitReplica, Replica, Entry, Cmd
    <2>2. WellFormed(InitReplica.log, InitReplica.snapshot, InitReplica.commitIndex)
      BY DEF InitReplica, WellFormed, NoSnapshot
    <2>3. Len(InitReplica.applied) = InitReplica.commitIndex
      BY DEF InitReplica
    <2>. QED BY <2>1, <2>2, <2>3 DEF Sound
  <1>2. PeerTypes
    BY DEF Init, PeerTypes
  <1>3. LeaderTypes
    BY DEF Init, LeaderTypes, NoIndices, NoSignals
  <1>4. ElectionTypes
    BY DEF Init, ElectionTypes
  <1>5. CallTypes
    BY DEF Init, CallTypes, NoCalls
  <1>6. ReplicaTypes /\ ReplicaShape
    <2>1. rep = [p \in Server |-> InitReplica]
      BY DEF Init
    <2>. QED BY <1>1, <2>1 DEF ReplicaTypes, ReplicaShape, Sound
  <1>7. StorageTypes /\ StorageShape
    <2>. DEFINE d == [currentTerm |-> 0, votedFor |-> Nil, voteCount |-> 0,
                      commitIndex |-> InitReplica.commitIndex,
                      log |-> InitReplica.log, snapshot |-> InitReplica.snapshot]
    <2>1. memory = [p \in Server |-> d] /\ disk = memory
      BY DEF Init, PersistentData
    <2>2. d \in Data /\ WellFormed(d.log, d.snapshot, d.commitIndex)
      BY <1>1 DEF Sound, Replica, Data
    <2>. HIDE DEF d
    <2>. QED BY <2>1, <2>2 DEF StorageTypes, StorageShape
  <1>. QED BY <1>2, <1>3, <1>4, <1>5, <1>6, <1>7 DEF TypeInv, TypeOK, ShapeInv

LEMMA NextTypes ==
  ASSUME TypeInv, [Next]_vars
  PROVE  TypeInv'
  <1>1. ASSUME NEW p \in Server,
               FollowerTimeout(p) \/ FollowerRearm(p) \/ CandidateTimeout(p)
        PROVE  TypeInv'
    BY <1>1, TimeoutTypes
  <1>2. ASSUME NEW p \in Server, NEW m \in voteRequests, HandleRequestVote(p, m)
        PROVE  TypeInv'
    BY <1>2, HandleRequestVoteTypes
  <1>3. ASSUME NEW p \in Server,
               \/ \E cmd \in Command : ClientRequest(p, cmd)
               \/ AppendNoop(p)
               \/ \E i \in 1 .. MaxIndex : CommitRequest(p, i)
        PROVE  TypeInv'
    BY <1>3, LeaderTypesKept
  <1>4. ASSUME NEW p \in Server, Flush(p) \/ Crash(p) \/ Stop(p)
        PROVE  TypeInv'
    BY <1>4, ProcessTypes
  <1>5. ASSUME NEW m \in voteResponses, HandleRequestVoteRespond(m)
        PROVE  TypeInv'
    BY <1>5, HandleRequestVoteRespondTypes
  <1>6. ASSUME NEW p \in Server, NEW q \in Server,
               SendAppendEntries(p, q) \/ SendInstallSnapshot(p, q) \/ CallFails(p, q)
        PROVE  TypeInv'
    BY <1>6, SendTypes
  <1>7. ASSUME NEW p \in Server, NEW q \in Server,
               ReceiveAppendEntries(p, q) \/ ReceiveInstallSnapshot(p, q)
        PROVE  TypeInv'
    BY <1>7, ReceiveTypes
  <1>8. ASSUME NEW p \in Server, NEW q \in Server,
               HandleAppendEntriesRes(p, q) \/ HandleInstallSnapshotRes(p, q)
        PROVE  TypeInv'
    BY <1>8, HandleResTypes
  <1>9. ASSUME NEW m \in lateRequests, ReceiveLate(m)
        PROVE  TypeInv'
    BY <1>9, ReceiveLateTypes
  <1>10. CASE UNCHANGED vars
    BY <1>10 DEF TypeInv, TypeOK, ShapeInv, PeerTypes, LeaderTypes, ElectionTypes, CallTypes,
         ReplicaTypes, StorageTypes, ReplicaShape, StorageShape, WellFormed, vars,
         electionVars, leaderVars, callVars, storageVars
  <1>. QED BY <1>1, <1>2, <1>3, <1>4, <1>5, <1>6, <1>7, <1>8, <1>9, <1>10 DEF Next

\* The variables keep their types and the replicas their shape in every
\* behaviour: whatever messages are lost, late or repeated, and whenever
\* processes stop, no handler of src/raft leaves a value behind that the next
\* one, or a load from the storage, cannot use.
THEOREM TypeCorrect == Spec => []TypeInv
  <1>1. Init => TypeInv
    BY InitTypes
  <1>2. TypeInv /\ [Next]_vars => TypeInv'
    BY NextTypes
  <1>. QED BY <1>1, <1>2, PTL DEF Spec

-----------------------------------------------------------------------------
\* what is saved

\* nobody but p, if anyone, has another replica or another data saved
SavedElsewhere(p) ==
  \A q \in Server : q # p => /\ rep'[q] = rep[q]
                             /\ memory'[q] = memory[q] /\ disk'[q] = disk[q]

\* what SavedInv says of p
SavedOf(p) ==
  /\ Rebuilt(rep[p]) /\ Len(rep[p].applied) = rep[p].commitIndex
  /\ memory[p].log = rep[p].log /\ memory[p].snapshot = rep[p].snapshot
  /\ memory[p].commitIndex = rep[p].commitIndex
  /\ ~LoadPanics(disk[p].log, disk[p].snapshot, disk[p].commitIndex)

LEMMA RebuiltLoads ==
  ASSUME NEW r \in Replica, Rebuilt(r)
  PROVE  ~LoadPanics(r.log, r.snapshot, r.commitIndex)
  <1>1. LastIndex(r) = Len(r.log) + Base(r) /\ LastIndex(r) \in Int /\ r.commitIndex \in Nat
    BY ReplicaParts
  <1>. QED BY <1>1 DEF Rebuilt, LoadPanics, Base

LEMMA DataLoads ==
  ASSUME NEW d \in Data, WellFormed(d.log, d.snapshot, d.commitIndex),
         ~LoadPanics(d.log, d.snapshot, d.commitIndex)
  PROVE  Loads(d.log, d.snapshot, d.commitIndex)
  <1>1. /\ d.log \in Seq(Entry) /\ d.snapshot \in Snapshot \cup {NoSnapshot}
        /\ d.commitIndex \in Nat
    BY DEF Data
  <1>. QED BY <1>1, LoadIsRebuilt

\* A step that leaves replicas and storage alone keeps what is saved.
LEMMA SavedRests ==
  ASSUME SavedInv, UNCHANGED <<rep, memory, disk>>
  PROVE  SavedInv'
  BY DEF SavedInv, Rebuilt, LastIndex, LogLen, Base, CmdAt, LoadPanics

LEMMA SavedSuffices ==
  ASSUME TypeInv, SavedInv, NEW p \in Server, SavedElsewhere(p), SavedOf(p)',
         ~Hybrid => memory' = disk'
  PROVE  SavedInv'
  <1>1. ASSUME NEW q \in Server PROVE SavedOf(q)'
    <2>1. CASE q = p
      BY <2>1
    <2>2. CASE q # p
      <3>1. rep'[q] = rep[q] /\ memory'[q] = memory[q] /\ disk'[q] = disk[q]
        BY <2>2 DEF SavedElsewhere
      <3>2. SavedOf(q)
        BY DEF SavedInv, SavedOf
      <3>. QED BY <3>1, <3>2 DEF SavedOf, Rebuilt, LastIndex, LogLen, Base, CmdAt, LoadPanics
    <2>. QED BY <2>1, <2>2
  <1>. QED BY <1>1 DEF SavedInv, SavedOf

\* A handler that saves after it gave p a replica that can be rebuilt keeps what is saved.
LEMMA SaveKeeps ==
  ASSUME TypeInv, TypeInv', SavedInv, NEW p \in Server, Save(p),
         NEW r \in Replica, Rebuilt(r), Len(r.applied) = r.commitIndex,
         rep' = [rep EXCEPT ![p] = r]
  PROVE  SavedInv'
  <1>. DEFINE d == PersistentData(p)'
  <1>1. rep'[p] = r /\ \A q \in Server : q # p => rep'[q] = rep[q]
    BY DEF TypeInv, TypeOK, ReplicaTypes
  <1>2. d.log = r.log /\ d.snapshot = r.snapshot /\ d.commitIndex = r.commitIndex
    BY <1>1 DEF PersistentData
  <1>3. /\ memory' = [memory EXCEPT ![p] = d]
        /\ disk' = IF Hybrid THEN disk ELSE [disk EXCEPT ![p] = d]
    BY DEF Save
  <1>. HIDE DEF d
  <1>4. /\ memory'[p] = d /\ disk'[p] \in {disk[p], d}
        /\ \A q \in Server : q # p => memory'[q] = memory[q] /\ disk'[q] = disk[q]
    BY <1>3 DEF TypeInv, TypeOK, StorageTypes
  <1>5. ~LoadPanics(disk'[p].log, disk'[p].snapshot, disk'[p].commitIndex)
    <2>1. CASE disk'[p] = disk[p]
      BY <2>1 DEF SavedInv
    <2>2. CASE disk'[p] = d
      BY <1>2, <2>2, RebuiltLoads
    <2>. QED BY <1>4, <2>1, <2>2
  <1>6. SavedOf(p)'
    <2>1. Rebuilt(rep'[p]) /\ Len(rep'[p].applied) = rep'[p].commitIndex
      BY <1>1
    <2>2. /\ memory'[p].log = rep'[p].log /\ memory'[p].snapshot = rep'[p].snapshot
          /\ memory'[p].commitIndex = rep'[p].commitIndex
      BY <1>1, <1>2, <1>4
    <2>. QED BY <1>5, <2>1, <2>2 DEF SavedOf, Rebuilt, LastIndex, LogLen, Base, CmdAt, LoadPanics
  <1>7. ~Hybrid => memory' = disk'
    BY <1>3 DEF SavedInv
  <1>. QED BY <1>1, <1>4, <1>6, <1>7, SavedSuffices DEF SavedElsewhere

\* So does one that saves its term or vote only.
LEMMA SaveAloneKeeps ==
  ASSUME TypeInv, TypeInv', SavedInv, NEW p \in Server, Save(p), UNCHANGED rep
  PROVE  SavedInv'
  <1>1. rep[p] \in Replica /\ rep' = [rep EXCEPT ![p] = rep[p]]
    BY DEF TypeInv, TypeOK, ReplicaTypes
  <1>2. Rebuilt(rep[p]) /\ Len(rep[p].applied) = rep[p].commitIndex
    BY DEF SavedInv
  <1>. QED BY <1>1, <1>2, SaveKeeps

\* An election changes no replica, and no more does a reply to a leader's call.
LEMMA ElectionKeepsSaved ==
  ASSUME TypeInv, TypeInv', SavedInv, NEW p \in Server,
         \/ FollowerTimeout(p) \/ FollowerRearm(p) \/ CandidateTimeout(p)
         \/ \E m \in voteRequests : HandleRequestVote(p, m)
         \/ \E m \in voteResponses : p = m.cand /\ HandleRequestVoteRespond(m)
         \/ \E q \in Server : HandleAppendEntriesRes(p, q) \/ HandleInstallSnapshotRes(p, q)
  PROVE  SavedInv'
  <1>1. /\ UNCHANGED rep
        /\ Save(p) \/ UNCHANGED storageVars
    BY DEF FollowerTimeout, FollowerRearm, CandidateTimeout, StartElection, HandleRequestVote,
           HandleRequestVoteRespond, HandleAppendEntriesRes, HandleInstallSnapshotRes
  <1>. QED BY <1>1, SaveAloneKeeps, SavedRests DEF storageVars

LEMMA LeaderKeepsSaved ==
  ASSUME TypeInv, TypeInv', SavedInv, NEW p \in Server,
         \/ \E cmd \in Command : ClientRequest(p, cmd)
         \/ AppendNoop(p)
         \/ \E i \in 1 .. MaxIndex : CommitRequest(p, i)
  PROVE  SavedInv'
  <1>1. /\ up[p] => Sound(rep[p])
        /\ Rebuilt(rep[p]) /\ rep[p].commitIndex <= LastIndex(rep[p])
    BY UpIsSound DEF TypeInv, TypeOK, ShapeInv, SavedInv, Rebuilt
  <1>2. ASSUME up[p], NEW cmd \in Cmd, LeaderAppend(p, cmd) PROVE SavedInv'
    <2>. DEFINE e == [term |-> currentTerm[p], cmd |-> cmd]
                r == AppendEntry(rep[p], e)
    <2>1. e \in Entry
      BY DEF TypeInv, TypeOK, PeerTypes, Entry
    <2>2. rep' = [rep EXCEPT ![p] = r] /\ Save(p)
      BY <1>2 DEF LeaderAppend
    <2>. HIDE DEF e
    <2>3. Sound(r) /\ Rebuilt(r)
      BY <1>1, <1>2, <2>1, AppendEntrySound, AppendLosesNothing
    <2>. HIDE DEF r
    <2>. QED BY <2>2, <2>3, SaveKeeps DEF Sound
  <1>3. ASSUME NEW i \in 1 .. MaxIndex, CommitRequest(p, i) PROVE SavedInv'
    <2>. DEFINE r == UpdateCommitIndex(rep[p], i)
    <2>1. up[p] /\ rep' = [rep EXCEPT ![p] = r] /\ Save(p)
      BY <1>3 DEF CommitRequest
    <2>2. Sound(r) /\ Rebuilt(r)
      BY <1>1, <2>1, UpdateLosesNothing
    <2>. HIDE DEF r
    <2>. QED BY <2>1, <2>2, SaveKeeps DEF Sound
  <1>4. ASSUME AppendNoop(p) PROVE SavedInv'
    <2>1. CASE state[p] = Leader
      BY <1>2, <1>4, <2>1 DEF AppendNoop, Cmd
    <2>2. CASE state[p] # Leader
      BY <1>4, <2>2, SavedRests DEF AppendNoop, storageVars
    <2>. QED BY <2>1, <2>2
  <1>5. ASSUME NEW cmd \in Command, ClientRequest(p, cmd) PROVE SavedInv'
    BY <1>2, <1>5 DEF ClientRequest, Cmd
  <1>. QED BY <1>3, <1>4, <1>5

\* A merge that overrides nothing, and the commit after it.
LEMMA AppendEntriesKeepsSaved ==
  ASSUME TypeInv, TypeInv', SavedInv, NEW p \in Server, NEW leader \in Server,
         NEW req \in ReplicationReq, HandleAppendEntries(p, leader, req), ~Overrides(p, req)
  PROVE  SavedInv'
  <1>1. /\ up[p] /\ req.type = "AppendEntries"
        /\ \/ UNCHANGED <<rep, memory, disk>>
           \/ /\ Save(p)
              /\ rep' = IF AppendPanics(p, req) \/ ~Consistent(p, req)
                          THEN rep
                          ELSE [rep EXCEPT ![p] =
                                 UpdateCommitIndex(
                                   MergeEntries(rep[p], req.prevLogIndex, req.entries),
                                   req.leaderCommit)]
    BY DEF HandleAppendEntries, storageVars
  <1>2. CASE UNCHANGED <<rep, memory, disk>>
    BY <1>2, SavedRests
  <1>3. CASE Save(p) /\ UNCHANGED rep
    BY <1>3, SaveAloneKeeps
  <1>4. ASSUME Save(p), Consistent(p, req), ~AppendPanics(p, req),
               rep' = [rep EXCEPT ![p] =
                         UpdateCommitIndex(MergeEntries(rep[p], req.prevLogIndex, req.entries),
                                           req.leaderCommit)]
        PROVE  SavedInv'
    <2>. DEFINE prev   == req.prevLogIndex
                merged == MergeEntries(rep[p], prev, req.entries)
                r      == UpdateCommitIndex(merged, req.leaderCommit)
    <2>1. prev \in Nat /\ req.leaderCommit \in Nat /\ req.entries \in Seq(Entry)
      BY <1>1 DEF ReplicationReq, AppendEntriesReq, InstallSnapshotReq
    <2>2. Sound(rep[p]) /\ Rebuilt(rep[p])
      BY <1>1, UpIsSound DEF TypeInv, TypeOK, ShapeInv, SavedInv
    <2>3. Base(rep[p]) <= prev /\ prev <= LastIndex(rep[p])
      <3>1. rep[p] \in Replica /\ Readable(rep[p], prev)
        BY <1>4, <2>2 DEF Consistent, Sound
      <3>. QED BY <2>1, <3>1, ReplicaParts DEF Readable, LastIndex
    <2>4. \/ req.entries = <<>>
          \/ rep[p].commitIndex <= prev + HeldPrefix(rep[p], prev, req.entries)
      <3>1. /\ HeldPrefix(rep[p], prev, req.entries) \in Nat
            /\ rep[p].commitIndex \in Nat
        BY <2>1, <2>2, <2>3, HeldPrefixBounds, SoundParts
      <3>2. \/ req.entries = <<>>
            \/ ~(prev + HeldPrefix(rep[p], prev, req.entries) < rep[p].commitIndex)
        BY <1>1, <1>4 DEF Overrides
      <3>. QED BY <2>1, <3>1, <3>2
    <2>5. Sound(merged) /\ Rebuilt(merged)
      BY <2>1, <2>2, <2>3, <2>4, MergeEntriesSound, MergeLosesNothing
    <2>6. rep' = [rep EXCEPT ![p] = r]
      BY <1>4
    <2>. HIDE DEF merged
    <2>7. Sound(r) /\ Rebuilt(r)
      BY <2>1, <2>5, UpdateLosesNothing DEF Rebuilt
    <2>. HIDE DEF r
    <2>. QED BY <1>4, <2>6, <2>7, SaveKeeps DEF Sound
  <1>. QED BY <1>1, <1>2, <1>3, <1>4

LEMMA InstallSnapshotKeepsSaved ==
  ASSUME TypeInv, TypeInv', SavedInv, NEW p \in Server, NEW req \in ReplicationReq,
         HandleInstallSnapshot(p, req)
  PROVE  SavedInv'
  <1>1. /\ up[p]
        /\ \/ UNCHANGED <<rep, memory, disk>>
           \/ /\ ~(req.term < currentTerm[p] \/ InstallPanics(p, req))
              /\ rep' = [rep EXCEPT ![p] = InstallSnapshot(rep[p], req.snapshot)]
              /\ Save(p)
    BY DEF HandleInstallSnapshot, storageVars
  <1>2. CASE UNCHANGED <<rep, memory, disk>>
    BY <1>2, SavedRests
  <1>3. CASE /\ ~(req.term < currentTerm[p] \/ InstallPanics(p, req))
             /\ rep' = [rep EXCEPT ![p] = InstallSnapshot(rep[p], req.snapshot)]
             /\ Save(p)
    <2>. DEFINE r == InstallSnapshot(rep[p], req.snapshot)
    <2>1. /\ req.term \in Nat /\ req.snapshot \in Snapshot
          /\ Len(req.snapshot.sm) = req.snapshot.index
      <3>1. req.type = "InstallSnapshot"
        BY DEF HandleInstallSnapshot
      <3>2. req \in InstallSnapshotReq
        BY <3>1 DEF ReplicationReq, AppendEntriesReq
      <3>. QED BY <3>2 DEF InstallSnapshotReq, FullSnapshot
    <2>2. Sound(rep[p])
      BY <1>1, UpIsSound DEF TypeInv, TypeOK, ShapeInv
    <2>3. req.snapshot.index < LastIndex(rep[p]) => Readable(rep[p], req.snapshot.index)
      <3>1. currentTerm[p] \in Nat
        BY DEF TypeInv, TypeOK, PeerTypes
      <3>2. ~(req.term < currentTerm[p]) /\ ~InstallPanics(p, req)
        BY <1>3
      <3>. QED BY <2>1, <3>1, <3>2 DEF InstallPanics
    <2>4. Sound(r) /\ Rebuilt(r)
      BY <2>1, <2>2, <2>3, InstallSnapshotSound, InstallRebuilds
    <2>. HIDE DEF r
    <2>5. rep' = [rep EXCEPT ![p] = r] /\ Save(p)
      BY <1>3 DEF r
    <2>. QED BY <2>4, <2>5, SaveKeeps DEF Sound
  <1>. QED BY <1>1, <1>2, <1>3

\* A new process has the replica that its data was saved from; what it loads is then
\* what is saved.
LEMMA ProcessKeepsSaved ==
  ASSUME TypeInv, TypeInv', SavedInv, NEW p \in Server, Flush(p) \/ Crash(p) \/ Stop(p)
  PROVE  SavedInv'
  <1>1. \A d \in {memory[p], disk[p]} : d \in Data /\ WellFormed(d.log, d.snapshot, d.commitIndex)
    BY DEF TypeInv, TypeOK, StorageTypes, ShapeInv, StorageShape
  <1>2. /\ ~LoadPanics(memory[p].log, memory[p].snapshot, memory[p].commitIndex)
        /\ ~LoadPanics(disk[p].log, disk[p].snapshot, disk[p].commitIndex)
    <2>1. rep[p] \in Replica /\ Rebuilt(rep[p])
      BY DEF TypeInv, TypeOK, ReplicaTypes, SavedInv
    <2>. QED BY <2>1, RebuiltLoads DEF SavedInv
  <1>3. ASSUME NEW d \in {memory[p], disk[p]}, NewProcess(p, d),
               disk' = disk \/ disk' = [disk EXCEPT ![p] = memory[p]],
               ~Hybrid => memory' = disk'
        PROVE  SavedInv'
    <2>. DEFINE r == Reload(d.log, d.snapshot, d.commitIndex)
    <2>1. rep' = [rep EXCEPT ![p] = r] /\ memory' = [memory EXCEPT ![p] = d]
      BY <1>3 DEF NewProcess
    <2>2. /\ Rebuilt(r) /\ Len(r.applied) = r.commitIndex
          /\ r.log = d.log /\ r.snapshot = d.snapshot /\ r.commitIndex = d.commitIndex
      <3>1. d \in Data /\ WellFormed(d.log, d.snapshot, d.commitIndex)
        BY <1>1
      <3>2. ~LoadPanics(d.log, d.snapshot, d.commitIndex)
        BY <1>2, <1>3
      <3>. QED BY <3>1, <3>2, DataLoads DEF Loads
    <2>. HIDE DEF r
    <2>3. /\ rep'[p] = r /\ memory'[p] = d /\ disk'[p] \in {disk[p], memory[p]}
          /\ SavedElsewhere(p)
      BY <1>3, <2>1 DEF TypeInv, TypeOK, ReplicaTypes, StorageTypes, SavedElsewhere
    <2>4. ~LoadPanics(disk'[p].log, disk'[p].snapshot, disk'[p].commitIndex)
      BY <1>2, <2>3
    <2>5. SavedOf(p)'
      <3>1. Rebuilt(rep'[p]) /\ Len(rep'[p].applied) = rep'[p].commitIndex
        BY <2>2, <2>3
      <3>2. /\ memory'[p].log = rep'[p].log /\ memory'[p].snapshot = rep'[p].snapshot
            /\ memory'[p].commitIndex = rep'[p].commitIndex
        BY <2>2, <2>3
      <3>. QED BY <2>4, <3>1, <3>2 DEF SavedOf, Rebuilt, LastIndex, LogLen, Base, CmdAt, LoadPanics
    <2>. QED BY <1>3, <2>3, <2>5, SavedSuffices
  <1>4. CASE Crash(p)
    <2>1. NewProcess(p, disk[p]) /\ disk' = disk
      BY <1>4 DEF Crash
    <2>2. ~Hybrid => memory' = disk'
      <3>1. memory' = [memory EXCEPT ![p] = disk[p]]
        BY <2>1 DEF NewProcess
      <3>2. ~Hybrid => memory = disk
        BY DEF SavedInv
      <3>. QED BY <2>1, <3>1, <3>2 DEF TypeInv, TypeOK, StorageTypes
    <2>. QED BY <1>3, <2>1, <2>2
  <1>5. CASE Stop(p)
    <2>1. NewProcess(p, memory[p]) /\ disk' = [disk EXCEPT ![p] = memory[p]]
      BY <1>5 DEF Stop
    <2>2. ~Hybrid => memory' = disk'
      <3>1. memory' = [memory EXCEPT ![p] = memory[p]]
        BY <2>1 DEF NewProcess
      <3>2. ~Hybrid => memory = disk
        BY DEF SavedInv
      <3>. QED BY <2>1, <3>1, <3>2 DEF TypeInv, TypeOK, StorageTypes
    <2>. QED BY <1>3, <2>1, <2>2
  <1>6. CASE Flush(p)
    <2>1. Hybrid /\ disk' = [disk EXCEPT ![p] = memory[p]] /\ UNCHANGED <<rep, memory>>
      BY <1>6 DEF Flush
    <2>2. disk'[p] = memory[p] /\ SavedElsewhere(p)
      BY <2>1 DEF TypeInv, TypeOK, StorageTypes, SavedElsewhere
    <2>3. SavedOf(p)
      BY DEF SavedInv, SavedOf
    <2>4. SavedOf(p)'
      BY <1>2, <2>1, <2>2, <2>3 DEF SavedOf, Rebuilt, LastIndex, LogLen, Base, CmdAt, LoadPanics
    <2>. QED BY <2>1, <2>2, <2>4, SavedSuffices
  <1>. QED BY <1>4, <1>5, <1>6

LEMMA NextSaved ==
  ASSUME TypeInv, TypeInv', SavedInv, OverridesNothing, [Next]_vars
  PROVE  SavedInv'
  <1>1. ASSUME NEW p \in Server,
               FollowerTimeout(p) \/ FollowerRearm(p) \/ CandidateTimeout(p)
        PROVE  SavedInv'
    BY <1>1, ElectionKeepsSaved
  <1>2. ASSUME NEW p \in Server, NEW m \in voteRequests, HandleRequestVote(p, m)
        PROVE  SavedInv'
    BY <1>2, ElectionKeepsSaved
  <1>3. ASSUME NEW p \in Server,
               \/ \E cmd \in Command : ClientRequest(p, cmd)
               \/ AppendNoop(p)
               \/ \E i \in 1 .. MaxIndex : CommitRequest(p, i)
        PROVE  SavedInv'
    BY <1>3, LeaderKeepsSaved
  <1>4. ASSUME NEW p \in Server, Flush(p) \/ Crash(p) \/ Stop(p)
        PROVE  SavedInv'
    BY <1>4, ProcessKeepsSaved
  <1>5. ASSUME NEW m \in voteResponses, HandleRequestVoteRespond(m)
        PROVE  SavedInv'
    <2>1. m.cand \in Server
      BY DEF TypeInv, TypeOK, ElectionTypes
    <2>. QED BY <1>5, <2>1, ElectionKeepsSaved
  <1>6. ASSUME NEW p \in Server, NEW q \in Server,
               SendAppendEntries(p, q) \/ SendInstallSnapshot(p, q) \/ CallFails(p, q)
        PROVE  SavedInv'
    <2>1. UNCHANGED <<rep, memory, disk>>
      BY <1>6 DEF SendAppendEntries, SendInstallSnapshot, CallFails, storageVars
    <2>. QED BY <2>1, SavedRests
  <1>7. ASSUME NEW p \in Server, NEW q \in Server,
               ReceiveAppendEntries(p, q) \/ ReceiveInstallSnapshot(p, q)
        PROVE  SavedInv'
    <2>1. Waiting(p, q) /\ request[p][q] \in ReplicationReq
      BY <1>7 DEF ReceiveAppendEntries, ReceiveInstallSnapshot, Waiting, TypeInv, TypeOK,
                  CallTypes
    <2>2. \/ HandleAppendEntries(q, p, request[p][q])
          \/ HandleInstallSnapshot(q, request[p][q])
      BY <1>7 DEF ReceiveAppendEntries, ReceiveInstallSnapshot
    <2>3. ~Overrides(q, request[p][q])
      BY <2>1 DEF OverridesNothing
    <2>. QED BY <2>1, <2>2, <2>3, AppendEntriesKeepsSaved, InstallSnapshotKeepsSaved
  <1>8. ASSUME NEW p \in Server, NEW q \in Server,
               HandleAppendEntriesRes(p, q) \/ HandleInstallSnapshotRes(p, q)
        PROVE  SavedInv'
    BY <1>8, ElectionKeepsSaved
  <1>9. ASSUME NEW m \in lateRequests, ReceiveLate(m)
        PROVE  SavedInv'
    <2>1. m.from \in Server /\ m.to \in Server /\ m.req \in ReplicationReq
      BY DEF TypeInv, TypeOK, CallTypes
    <2>2. HandleAppendEntries(m.to, m.from, m.req) \/ HandleInstallSnapshot(m.to, m.req)
      BY <1>9 DEF ReceiveLate
    <2>3. ~Overrides(m.to, m.req)
      BY DEF OverridesNothing
    <2>. QED BY <2>1, <2>2, <2>3, AppendEntriesKeepsSaved, InstallSnapshotKeepsSaved
  <1>10. CASE UNCHANGED vars
    BY <1>10, SavedRests DEF vars, storageVars
  <1>. QED BY <1>1, <1>2, <1>3, <1>4, <1>5, <1>6, <1>7, <1>8, <1>9, <1>10 DEF Next

LEMMA InitSaved ==
  ASSUME Init
  PROVE  SavedInv
  <1>1. \A p \in Server : /\ rep[p] = InitReplica
                          /\ memory[p].log = InitReplica.log
                          /\ memory[p].snapshot = InitReplica.snapshot
                          /\ memory[p].commitIndex = InitReplica.commitIndex
    BY DEF Init, PersistentData
  <1>2. disk = memory
    BY DEF Init
  <1>3. Rebuilt(InitReplica) /\ Len(InitReplica.applied) = InitReplica.commitIndex
    BY DEF Rebuilt, InitReplica, LastIndex, LogLen, Base, NoSnapshot
  <1>4. ~LoadPanics(InitReplica.log, InitReplica.snapshot, InitReplica.commitIndex)
    BY DEF LoadPanics, InitReplica, NoSnapshot
  <1>. QED BY <1>1, <1>2, <1>3, <1>4 DEF SavedInv

\* What is saved is always enough to rebuild the replica from, if no merge cuts off what
\* is committed: whatever is compacted and whenever a snapshot is installed, with calls
\* that come late, and when a crash loses what a Hybrid storage has not flushed.
THEOREM SavedInvHolds == Spec /\ []OverridesNothing => []SavedInv
  <1>1. Init => SavedInv
    BY InitSaved
  <1>2. TypeInv /\ TypeInv' /\ SavedInv /\ OverridesNothing /\ [Next]_vars => SavedInv'
    BY NextSaved
  <1>. QED BY <1>1, <1>2, TypeCorrect, PTL DEF Spec

\* The state machine has been fed exactly up to the commit index, which the log reaches;
\* with compaction, late calls and crashes, as long as no merge overrides.
THEOREM CommitsFitTheLog == Spec /\ []OverridesNothing => []CommitWithinLog
  <1>1. TypeInv /\ SavedInv => CommitWithinLog
    BY DEF TypeInv, ShapeInv, ReplicaShape, WellFormed, SavedInv, Rebuilt, CommitWithinLog, Base
  <1>. QED BY <1>1, SavedInvHolds, TypeCorrect, PTL

\* A crash gives back the replica that was in memory, snapshot and state machine and all,
\* where saves reach the file at once; again as long as no merge overrides.
THEOREM CrashesLoseNothing == Spec /\ []OverridesNothing => []CrashKeepsReplica
  <1>1. ASSUME TypeInv, SavedInv PROVE CrashKeepsReplica
    <2>. SUFFICES ASSUME ~Hybrid, NEW p \in Server
                  PROVE  Reload(disk[p].log, disk[p].snapshot, disk[p].commitIndex) = rep[p]
      BY DEF CrashKeepsReplica
    <2>1. Sound(rep[p]) /\ Rebuilt(rep[p])
      BY <1>1 DEF TypeInv, TypeOK, ReplicaTypes, ShapeInv, ReplicaShape, SavedInv, Sound
    <2>2. /\ disk[p].log = rep[p].log /\ disk[p].snapshot = rep[p].snapshot
          /\ disk[p].commitIndex = rep[p].commitIndex
      BY <1>1 DEF SavedInv
    <2>. QED BY <2>1, <2>2, ReloadRebuilds
  <1>. QED BY <1>1, SavedInvHolds, TypeCorrect, PTL

-----------------------------------------------------------------------------
\* elections

\* nothing saved is lost
Durable == ~Hybrid \/ MaxCrashes = 0

LEMMA ServersFinite == IsFiniteSet(Server) /\ N \in Nat /\ Nil \notin Server
  BY ServerAssumption, FS_CardinalityType DEF N

\* A set of servers is counted, and no more than a larger one.
LEMMA CountGrows ==
  ASSUME NEW S \in SUBSET Server, NEW T \in SUBSET Server, S \subseteq T
  PROVE  /\ Cardinality(S) \in Nat /\ Cardinality(T) \in Nat
         /\ Cardinality(S) <= Cardinality(T)
  <1>1. IsFiniteSet(T) /\ IsFiniteSet(S)
    BY ServersFinite, FS_Subset
  <1>. QED BY <1>1, FS_Subset, FS_CardinalityType

\* What p saved last holds p's term and vote.
LEMMA SaveWritesVote ==
  ASSUME StorageTypes, ~Hybrid => memory = disk, NEW p \in Server, Save(p)
  PROVE  /\ ~Hybrid => memory' = disk'
         /\ memory'[p].currentTerm = currentTerm'[p]
         /\ memory'[p].votedFor = votedFor'[p]
         /\ \A s \in Server : s # p => memory'[s] = memory[s]
  <1>. DEFINE d == PersistentData(p)'
  <1>1. /\ memory' = [memory EXCEPT ![p] = d]
        /\ ~Hybrid => disk' = [disk EXCEPT ![p] = d]
    BY DEF Save
  <1>2. d.currentTerm = currentTerm'[p] /\ d.votedFor = votedFor'[p]
    BY DEF PersistentData
  <1>. HIDE DEF d
  <1>. QED BY <1>1, <1>2 DEF StorageTypes

-----------------------------------------------------------------------------
\* steps that cast and count no vote

\* server s learns a higher term, keeps its term and vote, or loads them
TermStep(s) ==
  \/ currentTerm'[s] > currentTerm[s]
  \/ currentTerm'[s] = currentTerm[s] /\ votedFor'[s] = votedFor[s]
  \/ currentTerm'[s] = memory[s].currentTerm /\ votedFor'[s] = memory[s].votedFor

\* server s is a follower after the step, or what it was in the same term
StateStep(s) ==
  \/ state'[s] = Follower
  \/ /\ state'[s] = state[s]
     /\ currentTerm'[s] = currentTerm[s]
     /\ voteCount'[s] = voteCount[s]

\* what s saved last keeps its term and vote, or gets those of s
SavedStep(s) ==
  \/ memory'[s].currentTerm = memory[s].currentTerm /\ memory'[s].votedFor = memory[s].votedFor
  \/ memory'[s].currentTerm = currentTerm'[s] /\ memory'[s].votedFor = votedFor'[s]

\* Votes stay remembered when no one votes.
LEMMA VotesKept ==
  ASSUME TypeInv, TypeInv', ElectionInv, ballots' = ballots,
         \A s \in Server : TermStep(s) /\ SavedStep(s)
  PROVE  OneVotePerTerm' /\ VotesRemembered' /\ VotesSaved'
  <1>. USE DEF TypeInv
  <1>1. OneVotePerTerm'
    BY DEF ElectionInv, OneVotePerTerm
  <1>2. VotesRemembered'
    <2>. SUFFICES ASSUME NEW b \in ballots
                  PROVE  /\ b[2] <= currentTerm'[b[1]]
                         /\ b[2] = currentTerm'[b[1]] => votedFor'[b[1]] = b[3]
      BY DEF VotesRemembered
    <2>. DEFINE v == b[1]
    <2>1. v \in Server /\ b[2] \in Nat
      BY DEF TypeOK, ElectionTypes
    <2>2. currentTerm[v] \in Nat /\ currentTerm'[v] \in Nat
      BY <2>1 DEF TypeOK, PeerTypes
    <2>3. /\ b[2] <= currentTerm[v]
          /\ b[2] = currentTerm[v] => votedFor[v] = b[3]
          /\ b[2] <= memory[v].currentTerm
          /\ b[2] = memory[v].currentTerm => memory[v].votedFor = b[3]
      BY DEF ElectionInv, VotesRemembered, VotesSaved
    <2>4. TermStep(v)
      BY <2>1
    <2>. HIDE DEF v
    <2>5. b[2] <= currentTerm'[v] /\ (b[2] = currentTerm'[v] => votedFor'[v] = b[3])
      BY <2>1, <2>2, <2>3, <2>4 DEF TermStep
    <2>. QED BY <2>5 DEF v
  <1>3. VotesSaved'
    <2>. SUFFICES ASSUME NEW b \in ballots
                  PROVE  /\ b[2] <= memory'[b[1]].currentTerm
                         /\ b[2] = memory'[b[1]].currentTerm => memory'[b[1]].votedFor = b[3]
      BY DEF VotesSaved
    <2>1. b \in ballots' /\ b[1] \in Server
      BY DEF TypeOK, ElectionTypes
    <2>2. SavedStep(b[1])
      BY <2>1
    <2>3. CASE /\ memory'[b[1]].currentTerm = memory[b[1]].currentTerm
               /\ memory'[b[1]].votedFor = memory[b[1]].votedFor
      BY <2>3 DEF ElectionInv, VotesSaved
    <2>4. CASE /\ memory'[b[1]].currentTerm = currentTerm'[b[1]]
               /\ memory'[b[1]].votedFor = votedFor'[b[1]]
      BY <2>1, <2>4, <1>2 DEF VotesRemembered
    <2>. QED BY <2>2, <2>3, <2>4 DEF SavedStep
  <1>. QED BY <1>1, <1>2, <1>3

\* What was counted stays backed by votes when none is counted.
LEMMA CountsKept ==
  ASSUME TypeInv, TypeInv', ElectionInv, ballots \subseteq ballots', awaiting' \subseteq awaiting,
         \A s \in Server : StateStep(s)
  PROVE  CountsAreHonest' /\ LeadersAreElected'
  <1>. USE DEF TypeInv
  <1>1. CountsAreHonest'
    <2>. SUFFICES ASSUME NEW c \in Server, state'[c] = Candidate
                  PROVE  voteCount'[c] <= Cardinality(Counted(c)')
      BY DEF CountsAreHonest
    <2>1. state[c] = Candidate /\ currentTerm'[c] = currentTerm[c]
          /\ voteCount'[c] = voteCount[c]
      BY DEF StateStep, Follower, Candidate
    <2>2. voteCount[c] <= Cardinality(Counted(c))
      BY <2>1 DEF ElectionInv, CountsAreHonest
    <2>3. Counted(c) \subseteq Counted(c)'
      BY <2>1 DEF Counted, VotersFor
    <2>4. Counted(c) \in SUBSET Server /\ Counted(c)' \in SUBSET Server
      BY DEF Counted, VotersFor
    <2>5. voteCount[c] \in Nat
      BY DEF TypeOK, PeerTypes
    <2>. QED BY <2>1, <2>2, <2>3, <2>4, <2>5, CountGrows
  <1>2. LeadersAreElected'
    <2>. SUFFICES ASSUME NEW c \in Server, state'[c] = Leader
                  PROVE  2 * Cardinality(VotersFor(c, currentTerm[c])') > N
      BY DEF LeadersAreElected
    <2>1. state[c] = Leader /\ currentTerm'[c] = currentTerm[c]
      BY DEF StateStep, Follower, Leader
    <2>2. VotersFor(c, currentTerm[c]) \subseteq VotersFor(c, currentTerm[c])'
      BY <2>1 DEF VotersFor
    <2>3. /\ VotersFor(c, currentTerm[c]) \in SUBSET Server
          /\ VotersFor(c, currentTerm[c])' \in SUBSET Server
      BY DEF VotersFor
    <2>4. /\ Cardinality(VotersFor(c, currentTerm[c])) \in Nat
          /\ Cardinality(VotersFor(c, currentTerm[c])') \in Nat
          /\ Cardinality(VotersFor(c, currentTerm[c]))
               <= Cardinality(VotersFor(c, currentTerm[c])')
      BY <2>2, <2>3, CountGrows
    <2>5. 2 * Cardinality(VotersFor(c, currentTerm[c])) > N
      BY <2>1 DEF ElectionInv, LeadersAreElected
    <2>. QED BY <2>4, <2>5, ServersFinite
  <1>. QED BY <1>1, <1>2

Quiet == /\ ballots' = ballots
         /\ awaiting' \subseteq awaiting
         /\ voteResponses' \subseteq voteResponses
         /\ (~Hybrid => memory' = disk')
         /\ \A s \in Server : TermStep(s) /\ StateStep(s) /\ SavedStep(s)

LEMMA QuietStep ==
  ASSUME TypeInv, TypeInv', ElectionInv, Quiet
  PROVE  ElectionInv'
  <1>1. OneVotePerTerm' /\ VotesRemembered' /\ VotesSaved'
    BY VotesKept DEF Quiet
  <1>2. CountsAreHonest' /\ LeadersAreElected'
    BY CountsKept DEF Quiet
  <1>3. RepliesFollowVotes'
    BY DEF Quiet, ElectionInv, RepliesFollowVotes
  <1>4. \A a \in awaiting' : a[1] # a[3]
    BY DEF Quiet, ElectionInv
  <1>. QED BY <1>1, <1>2, <1>3, <1>4 DEF Quiet, ElectionInv

\* updateTerm with a higher term, and changeState(Follower)
LEMMA StepDownStep ==
  ASSUME TypeInv, NEW p \in Server, NEW term \in Nat, term > currentTerm[p],
         UpdateTerm(p, term), state' = [state EXCEPT ![p] = Follower], voteCount' = voteCount
  PROVE  \A s \in Server : TermStep(s) /\ StateStep(s)
  <1>. SUFFICES ASSUME NEW s \in Server PROVE TermStep(s) /\ StateStep(s)
    OBVIOUS
  <1>1. currentTerm[p] \in Nat
    BY DEF TypeInv, TypeOK, PeerTypes
  <1>2. CASE s = p
    <2>1. currentTerm'[p] = term /\ state'[p] = Follower
      BY <1>1 DEF UpdateTerm, Greater, TypeInv, TypeOK, PeerTypes
    <2>. QED BY <1>2, <2>1 DEF TermStep, StateStep
  <1>3. CASE s # p
    <2>1. /\ currentTerm'[s] = currentTerm[s] /\ votedFor'[s] = votedFor[s]
          /\ state'[s] = state[s]
      BY <1>3 DEF UpdateTerm, TypeInv, TypeOK, PeerTypes
    <2>. QED BY <2>1 DEF TermStep, StateStep
  <1>. QED BY <1>2, <1>3

-----------------------------------------------------------------------------
\* steps that cast or count a vote

LEMMA StartElectionStep ==
  ASSUME TypeInv, TypeInv', ElectionInv, NEW p \in Server, StartElection(p),
         state' = [state EXCEPT ![p] = Candidate]
  PROVE  ElectionInv'
  <1>. USE DEF TypeInv
  <1>. DEFINE term == currentTerm[p] + 1
  <1>1. /\ currentTerm' = [currentTerm EXCEPT ![p] = term]
        /\ votedFor' = [votedFor EXCEPT ![p] = p]
        /\ voteCount' = [voteCount EXCEPT ![p] = 1]
        /\ ballots' = ballots \cup {<<p, term, p>>}
        /\ awaiting' = awaiting \cup {<<p, term, q>> : q \in Server \ {p}}
        /\ voteResponses' = voteResponses
        /\ Save(p)
    BY DEF StartElection
  <1>2. currentTerm[p] \in Nat /\ term \in Nat /\ term > currentTerm[p]
    BY DEF TypeOK, PeerTypes
  <1>3. /\ currentTerm'[p] = term /\ votedFor'[p] = p /\ voteCount'[p] = 1
        /\ \A s \in Server : s # p => /\ currentTerm'[s] = currentTerm[s]
                                      /\ votedFor'[s] = votedFor[s]
                                      /\ voteCount'[s] = voteCount[s]
                                      /\ state'[s] = state[s]
        /\ state'[p] = Candidate
    BY <1>1 DEF TypeOK, PeerTypes
  <1>. HIDE DEF term
  <1>4. \A b \in ballots : b[1] \in Server /\ b[2] \in Nat
    BY DEF TypeOK, ElectionTypes
  <1>5. \A b \in ballots : b[1] = p => b[2] < term
    BY <1>2, <1>4 DEF ElectionInv, VotesRemembered
  <1>6. OneVotePerTerm'
    <2>. SUFFICES ASSUME NEW a \in ballots', NEW b \in ballots', a[1] = b[1], a[2] = b[2]
                  PROVE  a[3] = b[3]
      BY DEF OneVotePerTerm
    <2>1. CASE a \in ballots /\ b \in ballots
      BY <2>1 DEF ElectionInv, OneVotePerTerm
    <2>2. CASE a = <<p, term, p>> /\ b = <<p, term, p>>
      BY <2>2
    <2>3. CASE a \in ballots /\ b = <<p, term, p>>
      BY <2>3, <1>2, <1>4, <1>5
    <2>4. CASE a = <<p, term, p>> /\ b \in ballots
      BY <2>4, <1>2, <1>4, <1>5
    <2>. QED BY <1>1, <2>1, <2>2, <2>3, <2>4
  <1>7. VotesRemembered'
    <2>. SUFFICES ASSUME NEW b \in ballots'
                  PROVE  /\ b[2] <= currentTerm'[b[1]]
                         /\ b[2] = currentTerm'[b[1]] => votedFor'[b[1]] = b[3]
      BY DEF VotesRemembered
    <2>1. CASE b = <<p, term, p>>
      BY <2>1, <1>2, <1>3
    <2>2. CASE b \in ballots /\ b[1] = p
      BY <2>2, <1>2, <1>3, <1>4, <1>5
    <2>3. CASE b \in ballots /\ b[1] # p
      BY <2>3, <1>3, <1>4 DEF ElectionInv, VotesRemembered
    <2>. QED BY <1>1, <2>1, <2>2, <2>3
  <1>8. /\ ~Hybrid => memory' = disk'
        /\ memory'[p].currentTerm = currentTerm'[p] /\ memory'[p].votedFor = votedFor'[p]
        /\ \A s \in Server : s # p => memory'[s] = memory[s]
    BY <1>1, SaveWritesVote DEF TypeOK, ElectionInv
  <1>9. VotesSaved'
    <2>. SUFFICES ASSUME NEW b \in ballots'
                  PROVE  /\ b[2] <= memory'[b[1]].currentTerm
                         /\ b[2] = memory'[b[1]].currentTerm => memory'[b[1]].votedFor = b[3]
      BY DEF VotesSaved
    <2>1. CASE b[1] = p
      BY <2>1, <1>7, <1>8 DEF VotesRemembered
    <2>2. CASE b[1] # p
      <3>1. b \in ballots
        BY <2>2, <1>1
      <3>. QED BY <2>2, <3>1, <1>4, <1>8 DEF ElectionInv, VotesSaved
    <2>. QED BY <2>1, <2>2
  <1>10. RepliesFollowVotes'
    BY <1>1 DEF ElectionInv, RepliesFollowVotes
  <1>11. \A a \in awaiting' : a[1] # a[3]
    BY <1>1 DEF ElectionInv
  <1>12. CountsAreHonest'
    <2>. SUFFICES ASSUME NEW c \in Server, state'[c] = Candidate
                  PROVE  voteCount'[c] <= Cardinality(Counted(c)')
      BY DEF CountsAreHonest
    <2>1. Counted(c)' \in SUBSET Server
      BY DEF Counted, VotersFor
    <2>2. CASE c = p
      <3>1. <<p, term, p>> \notin awaiting'
        BY <1>11
      <3>2. {p} \subseteq Counted(p)'
        BY <1>1, <1>3, <3>1 DEF Counted, VotersFor
      <3>3. Cardinality({p}) = 1
        BY FS_Singleton
      <3>4. Cardinality({p}) <= Cardinality(Counted(p)')
        BY <2>1, <2>2, <3>2, CountGrows
      <3>. QED BY <2>2, <3>3, <3>4, <1>3
    <2>3. CASE c # p
      <3>1. state[c] = Candidate /\ voteCount[c] \in Nat
        BY <2>3, <1>3 DEF TypeOK, PeerTypes
      <3>2. voteCount[c] <= Cardinality(Counted(c))
        BY <3>1 DEF ElectionInv, CountsAreHonest
      <3>3. Counted(c) \subseteq Counted(c)'
        BY <2>3, <1>1, <1>3 DEF Counted, VotersFor
      <3>4. Counted(c) \in SUBSET Server
        BY DEF Counted, VotersFor
      <3>5. Cardinality(Counted(c)) <= Cardinality(Counted(c)')
            /\ Cardinality(Counted(c)) \in Nat /\ Cardinality(Counted(c)') \in Nat
        BY <2>1, <3>3, <3>4, CountGrows
      <3>. QED BY <2>3, <1>3, <3>1, <3>2, <3>5
    <2>. QED BY <2>2, <2>3
  <1>13. LeadersAreElected'
    <2>. SUFFICES ASSUME NEW c \in Server, state'[c] = Leader
                  PROVE  2 * Cardinality(VotersFor(c, currentTerm[c])') > N
      BY DEF LeadersAreElected
    <2>1. c # p /\ state[c] = Leader /\ currentTerm'[c] = currentTerm[c]
      BY <1>3 DEF Candidate, Leader
    <2>2. VotersFor(c, currentTerm[c])' = VotersFor(c, currentTerm[c])
      BY <2>1, <1>1 DEF VotersFor
    <2>. QED BY <2>1, <2>2 DEF ElectionInv, LeadersAreElected
  <1>. QED BY <1>6, <1>7, <1>8, <1>9, <1>10, <1>11, <1>12, <1>13 DEF ElectionInv

\* A vote refused is a quiet step, but for the reply.
LEMMA HandleRequestVoteStep ==
  ASSUME TypeInv, TypeInv', ElectionInv,
         NEW p \in Server, NEW m \in voteRequests, HandleRequestVote(p, m)
  PROVE  ElectionInv'
  <1>. USE DEF TypeInv
  <1>1. m.cand \in Server /\ m.term \in Nat /\ currentTerm[p] \in Nat
    BY DEF TypeOK, ElectionTypes, PeerTypes
  <1>2. /\ currentTerm' = [currentTerm EXCEPT ![p] = Greater(currentTerm[p], m.term)]
        /\ voteCount' = voteCount /\ awaiting' = awaiting
    BY DEF HandleRequestVote
  <1>3. /\ currentTerm'[p] = Greater(currentTerm[p], m.term)
        /\ \A s \in Server : s # p => currentTerm'[s] = currentTerm[s]
    BY <1>2 DEF TypeOK, PeerTypes
  <1>4. /\ \A s \in Server : s # p => state'[s] = state[s]
        /\ state'[p] = IF m.term > currentTerm[p] THEN Follower ELSE state[p]
    BY DEF HandleRequestVote, BecomeFollower, TypeOK, PeerTypes
  <1>5. \A s \in Server : StateStep(s)
    <2>. SUFFICES ASSUME NEW s \in Server PROVE StateStep(s)
      OBVIOUS
    <2>1. CASE s # p \/ ~(m.term > currentTerm[p])
      BY <2>1, <1>1, <1>2, <1>3, <1>4 DEF StateStep, Greater
    <2>2. CASE s = p /\ m.term > currentTerm[p]
      BY <2>2, <1>4 DEF StateStep
    <2>. QED BY <2>1, <2>2
  <1>6. CASE WillGrant(p, m)
    <2>1. /\ votedFor' = [votedFor EXCEPT ![p] = m.cand]
          /\ ballots' = ballots \cup {<<p, m.term, m.cand>>}
          /\ Save(p)
      BY <1>6 DEF HandleRequestVote
    <2>2. /\ votedFor'[p] = m.cand
          /\ \A s \in Server : s # p => votedFor'[s] = votedFor[s]
      BY <2>1 DEF TypeOK, PeerTypes
    <2>3. /\ m.term >= currentTerm[p] /\ currentTerm'[p] = m.term
          /\ m.term > currentTerm[p] \/ votedFor[p] = Nil
      BY <1>1, <1>3, <1>6 DEF WillGrant, Greater
    <2>4. \A b \in ballots : b[1] \in Server /\ b[2] \in Nat /\ b[3] \in Server
      BY DEF TypeOK, ElectionTypes
    <2>5. \A b \in ballots : b[1] = p => b[2] < m.term
      <3>. SUFFICES ASSUME NEW b \in ballots, b[1] = p
                    PROVE  b[2] < m.term
        OBVIOUS
      <3>1. b[2] <= currentTerm[p] /\ (b[2] = currentTerm[p] => votedFor[p] = b[3])
        BY DEF ElectionInv, VotesRemembered
      <3>2. b[3] # Nil
        BY <2>4, ServersFinite
      <3>. QED BY <1>1, <2>3, <2>4, <3>1, <3>2
    <2>6. OneVotePerTerm'
      <3>. SUFFICES ASSUME NEW a \in ballots', NEW b \in ballots', a[1] = b[1], a[2] = b[2]
                    PROVE  a[3] = b[3]
        BY DEF OneVotePerTerm
      <3>1. CASE a \in ballots /\ b \in ballots
        BY <3>1 DEF ElectionInv, OneVotePerTerm
      <3>2. CASE a = <<p, m.term, m.cand>> /\ b = <<p, m.term, m.cand>>
        BY <3>2
      <3>3. CASE a \in ballots /\ b = <<p, m.term, m.cand>>
        BY <3>3, <1>1, <2>4, <2>5
      <3>4. CASE a = <<p, m.term, m.cand>> /\ b \in ballots
        BY <3>4, <1>1, <2>4, <2>5
      <3>. QED BY <2>1, <3>1, <3>2, <3>3, <3>4
    <2>7. VotesRemembered'
      <3>. SUFFICES ASSUME NEW b \in ballots'
                    PROVE  /\ b[2] <= currentTerm'[b[1]]
                           /\ b[2] = currentTerm'[b[1]] => votedFor'[b[1]] = b[3]
        BY DEF VotesRemembered
      <3>1. CASE b = <<p, m.term, m.cand>>
        BY <3>1, <1>1, <2>2, <2>3
      <3>2. CASE b \in ballots /\ b[1] = p
        BY <3>2, <1>1, <2>3, <2>4, <2>5
      <3>3. CASE b \in ballots /\ b[1] # p
        BY <3>3, <1>3, <2>2, <2>4 DEF ElectionInv, VotesRemembered
      <3>. QED BY <2>1, <3>1, <3>2, <3>3
    <2>8. /\ ~Hybrid => memory' = disk'
          /\ memory'[p].currentTerm = currentTerm'[p] /\ memory'[p].votedFor = votedFor'[p]
          /\ \A s \in Server : s # p => memory'[s] = memory[s]
      BY <2>1, SaveWritesVote DEF TypeOK, ElectionInv
    <2>9. VotesSaved'
      <3>. SUFFICES ASSUME NEW b \in ballots'
                    PROVE  /\ b[2] <= memory'[b[1]].currentTerm
                           /\ b[2] = memory'[b[1]].currentTerm => memory'[b[1]].votedFor = b[3]
        BY DEF VotesSaved
      <3>1. CASE b[1] = p
        BY <3>1, <2>7, <2>8 DEF VotesRemembered
      <3>2. CASE b[1] # p
        <4>1. b \in ballots
          BY <3>2, <2>1
        <4>. QED BY <3>2, <4>1, <2>4, <2>8 DEF ElectionInv, VotesSaved
      <3>. QED BY <3>1, <3>2
    <2>10. RepliesFollowVotes'
      <3>. SUFFICES ASSUME NEW n \in voteResponses', n.granted
                    PROVE  n.resTerm = n.term /\ <<n.voter, n.term, n.cand>> \in ballots'
        BY DEF RepliesFollowVotes
      <3>1. CASE n \in voteResponses
        BY <3>1, <2>1 DEF ElectionInv, RepliesFollowVotes
      <3>2. CASE n \notin voteResponses
        <4>1. n = [cand |-> m.cand, term |-> m.term, voter |-> p,
                   resTerm |-> currentTerm'[p], granted |-> WillGrant(p, m)]
          BY <3>2 DEF HandleRequestVote
        <4>. QED BY <4>1, <2>1, <2>3
      <3>. QED BY <3>1, <3>2
    <2>11. ballots \subseteq ballots' /\ awaiting' \subseteq awaiting
      BY <1>2, <2>1
    <2>12. CountsAreHonest' /\ LeadersAreElected'
      BY <1>5, <2>11, CountsKept
    <2>. QED BY <2>6, <2>7, <2>8, <2>9, <2>10, <2>12, <1>2 DEF ElectionInv
  <1>7. CASE ~WillGrant(p, m)
    <2>1. /\ votedFor' = [votedFor EXCEPT
                            ![p] = IF m.term > currentTerm[p] THEN Nil ELSE votedFor[p]]
          /\ ballots' = ballots /\ memory' = memory /\ disk' = disk
      BY <1>7 DEF HandleRequestVote, storageVars
    <2>2. /\ votedFor'[p] = IF m.term > currentTerm[p] THEN Nil ELSE votedFor[p]
          /\ \A s \in Server : s # p => votedFor'[s] = votedFor[s]
      BY <2>1 DEF TypeOK, PeerTypes
    <2>3. \A s \in Server : TermStep(s) /\ SavedStep(s)
      <3>. SUFFICES ASSUME NEW s \in Server PROVE TermStep(s)
        BY <2>1 DEF SavedStep
      <3>1. CASE s = p /\ m.term > currentTerm[p]
        BY <3>1, <1>1, <1>3 DEF TermStep, Greater
      <3>2. CASE s = p /\ ~(m.term > currentTerm[p])
        BY <3>2, <1>1, <1>3, <2>2 DEF TermStep, Greater
      <3>3. CASE s # p
        BY <3>3, <1>3, <2>2 DEF TermStep
      <3>. QED BY <3>1, <3>2, <3>3
    <2>4. OneVotePerTerm' /\ VotesRemembered' /\ VotesSaved'
      BY <2>1, <2>3, VotesKept
    <2>5. RepliesFollowVotes'
      <3>. SUFFICES ASSUME NEW n \in voteResponses', n.granted
                    PROVE  n.resTerm = n.term /\ <<n.voter, n.term, n.cand>> \in ballots'
        BY DEF RepliesFollowVotes
      <3>1. n \in voteResponses
        <4>1. n \notin voteResponses =>
                n = [cand |-> m.cand, term |-> m.term, voter |-> p,
                     resTerm |-> currentTerm'[p], granted |-> WillGrant(p, m)]
          BY DEF HandleRequestVote
        <4>. QED BY <4>1, <1>7
      <3>. QED BY <3>1, <2>1 DEF ElectionInv, RepliesFollowVotes
    <2>6. CountsAreHonest' /\ LeadersAreElected'
      BY <1>2, <1>5, <2>1, CountsKept
    <2>. QED BY <2>1, <2>4, <2>5, <2>6, <1>2 DEF ElectionInv
  <1>. QED BY <1>6, <1>7

LEMMA HandleRequestVoteRespondStep ==
  ASSUME TypeInv, TypeInv', ElectionInv,
         NEW m \in voteResponses, HandleRequestVoteRespond(m)
  PROVE  ElectionInv'
  <1>. USE DEF TypeInv
  <1>. DEFINE p == m.cand
  <1>1. /\ p \in Server /\ m.term \in Nat /\ m.resTerm \in Nat /\ m.voter \in Server
        /\ currentTerm[p] \in Nat /\ voteCount[p] \in Nat
    BY DEF TypeOK, ElectionTypes, PeerTypes
  <1>2. /\ ballots' = ballots
        /\ <<p, m.term, m.voter>> \in awaiting
        /\ awaiting' = awaiting \ {<<p, m.term, m.voter>>}
        /\ voteResponses' \subseteq voteResponses
    BY DEF HandleRequestVoteRespond
  <1>3. CASE /\ m.resTerm > currentTerm[p]
             /\ UpdateTerm(p, m.resTerm)
             /\ BecomeFollower(p)
             /\ UNCHANGED <<voteCount, pendingNoop, storageVars>>
    <2>1. /\ UNCHANGED <<voteCount, memory, disk>>
          /\ state' = [state EXCEPT ![p] = Follower]
          /\ UpdateTerm(p, m.resTerm) /\ m.resTerm > currentTerm[p]
      BY <1>3 DEF storageVars, BecomeFollower
    <2>. HIDE DEF p
    <2>2. \A s \in Server : TermStep(s) /\ StateStep(s)
      BY <1>1, <2>1, StepDownStep
    <2>. QED BY <1>2, <2>1, <2>2, QuietStep DEF Quiet, SavedStep, ElectionInv
  <1>4. CASE UNCHANGED <<state, currentTerm, votedFor, heardFromLeader, voteCount,
                         pendingNoop, leaderVars, storageVars>>
    <2>1. UNCHANGED <<state, currentTerm, votedFor, voteCount, memory, disk>>
      BY <1>4 DEF storageVars
    <2>. QED BY <1>2, <2>1, QuietStep DEF Quiet, TermStep, StateStep, SavedStep, ElectionInv
  <1>5. CASE /\ m.resTerm = currentTerm[p] /\ state[p] = Candidate
             /\ voteCount' = [voteCount EXCEPT ![p] = IF m.granted THEN @ + 1 ELSE @]
             /\ IF m.granted /\ voteCount[p] + 1 > N \div 2
                  THEN /\ BecomeLeader(p)
                       /\ pendingNoop' = [pendingNoop EXCEPT ![p] = @ + 1]
                  ELSE UNCHANGED <<state, leaderVars, pendingNoop>>
             /\ UNCHANGED <<currentTerm, votedFor, heardFromLeader>>
             /\ Save(p)
    <2>1. /\ currentTerm' = currentTerm /\ votedFor' = votedFor
          /\ ~Hybrid => memory' = disk'
          /\ memory'[p].currentTerm = currentTerm'[p] /\ memory'[p].votedFor = votedFor'[p]
          /\ \A s \in Server : s # p => memory'[s] = memory[s]
      BY <1>1, <1>5, SaveWritesVote DEF TypeOK, ElectionInv
    <2>2. \A s \in Server : TermStep(s) /\ SavedStep(s)
      BY <2>1 DEF TermStep, SavedStep
    <2>3. OneVotePerTerm' /\ VotesRemembered' /\ VotesSaved'
      BY <1>2, <2>2, VotesKept
    <2>4. RepliesFollowVotes' /\ \A a \in awaiting' : a[1] # a[3]
      BY <1>2 DEF ElectionInv, RepliesFollowVotes
    <2>5. /\ voteCount'[p] = IF m.granted THEN voteCount[p] + 1 ELSE voteCount[p]
          /\ \A s \in Server : s # p => voteCount'[s] = voteCount[s] /\ state'[s] = state[s]
          /\ state'[p] = IF m.granted /\ voteCount[p] + 1 > N \div 2 THEN Leader
                                                                     ELSE Candidate
      BY <1>5 DEF BecomeLeader, TypeOK, PeerTypes
    <2>6. \A c \in Server : Counted(c) \in SUBSET Server /\ Counted(c)' \in SUBSET Server
                            /\ Counted(c) \subseteq Counted(c)'
      BY <1>2, <2>1 DEF Counted, VotersFor
    <2>7. state[p] = Candidate /\ voteCount[p] <= Cardinality(Counted(p))
      BY <1>1, <1>5 DEF ElectionInv, CountsAreHonest
    <2>8. m.granted => voteCount[p] + 1 <= Cardinality(Counted(p)')
      <3>. SUFFICES ASSUME m.granted
                    PROVE  voteCount[p] + 1 <= Cardinality(Counted(p)')
        OBVIOUS
      <3>1. m.term = currentTerm[p] /\ <<m.voter, m.term, p>> \in ballots
        BY <1>5 DEF ElectionInv, RepliesFollowVotes
      <3>2. m.voter \notin Counted(p) /\ m.voter \in Counted(p)'
        BY <1>1, <1>2, <2>1, <3>1 DEF Counted, VotersFor
      <3>3. IsFiniteSet(Counted(p)) /\ Cardinality(Counted(p)) \in Nat
        BY <1>1, <2>6, ServersFinite, FS_Subset, FS_CardinalityType
      <3>4. Cardinality(Counted(p) \cup {m.voter}) = Cardinality(Counted(p)) + 1
        BY <3>2, <3>3, FS_AddElement
      <3>5. /\ Cardinality(Counted(p) \cup {m.voter}) <= Cardinality(Counted(p)')
            /\ Cardinality(Counted(p)') \in Nat
        <4>1. /\ Counted(p) \cup {m.voter} \in SUBSET Server
              /\ Counted(p)' \in SUBSET Server
              /\ Counted(p) \cup {m.voter} \subseteq Counted(p)'
          BY <1>1, <2>6, <3>2
        <4>. QED BY <4>1, CountGrows
      <3>. QED BY <1>1, <2>7, <3>3, <3>4, <3>5
    <2>9. CountsAreHonest'
      <3>. SUFFICES ASSUME NEW c \in Server, state'[c] = Candidate
                    PROVE  voteCount'[c] <= Cardinality(Counted(c)')
        BY DEF CountsAreHonest
      <3>1. /\ Cardinality(Counted(c)) \in Nat /\ Cardinality(Counted(c)') \in Nat
            /\ Cardinality(Counted(c)) <= Cardinality(Counted(c)')
        BY <2>6, CountGrows
      <3>2. state[c] = Candidate
        BY <2>5, <2>7
      <3>3. voteCount[c] \in Nat /\ voteCount[c] <= Cardinality(Counted(c))
        BY <3>2 DEF ElectionInv, CountsAreHonest, TypeOK, PeerTypes
      <3>4. CASE c = p /\ m.granted
        BY <2>5, <2>8, <3>4
      <3>5. CASE ~(c = p /\ m.granted)
        <4>1. voteCount'[c] = voteCount[c]
          BY <2>5, <3>5
        <4>. QED BY <3>1, <3>3, <4>1
      <3>. QED BY <3>4, <3>5
    <2>10. LeadersAreElected'
      <3>. SUFFICES ASSUME NEW c \in Server, state'[c] = Leader
                    PROVE  2 * Cardinality(VotersFor(c, currentTerm[c])') > N
        BY DEF LeadersAreElected
      <3>1. VotersFor(c, currentTerm[c])' = VotersFor(c, currentTerm[c])
        BY <1>2, <2>1 DEF VotersFor
      <3>2. CASE c # p
        BY <2>5, <3>1, <3>2 DEF ElectionInv, LeadersAreElected
      <3>3. CASE c = p
        <4>1. m.granted /\ voteCount[p] + 1 > N \div 2
          BY <2>5, <3>3 DEF Candidate, Leader
        <4>2. /\ Counted(p)' \subseteq VotersFor(p, currentTerm[p])'
              /\ VotersFor(p, currentTerm[p])' \in SUBSET Server
          BY DEF Counted, VotersFor
        <4>3. /\ Cardinality(Counted(p)') \in Nat
              /\ Cardinality(VotersFor(p, currentTerm[p])') \in Nat
              /\ Cardinality(Counted(p)') <= Cardinality(VotersFor(p, currentTerm[p])')
          BY <1>1, <2>6, <4>2, CountGrows
        <4>4. voteCount[p] + 1 <= Cardinality(VotersFor(p, currentTerm[p])')
          BY <1>1, <2>8, <4>1, <4>3
        <4>5. 2 * (voteCount[p] + 1) > N
          BY <1>1, <4>1, ServersFinite
        <4>. QED BY <1>1, <3>3, <4>3, <4>4, <4>5, ServersFinite
      <3>. QED BY <3>2, <3>3
    <2>. QED BY <2>1, <2>3, <2>4, <2>9, <2>10 DEF ElectionInv
  <1>. QED BY <1>3, <1>4, <1>5 DEF HandleRequestVoteRespond

-----------------------------------------------------------------------------
\* the other actions are quiet

\* A handler that changes no vote and saves what it leaves behind.
LEMMA SaveIsQuiet ==
  ASSUME TypeInv, ElectionInv, NEW p \in Server, Save(p),
         UNCHANGED <<ballots, awaiting, voteResponses>>,
         \A s \in Server : TermStep(s) /\ StateStep(s)
  PROVE  Quiet
  <1>1. /\ ~Hybrid => memory' = disk'
        /\ memory'[p].currentTerm = currentTerm'[p]
        /\ memory'[p].votedFor = votedFor'[p]
        /\ \A s \in Server : s # p => memory'[s] = memory[s]
    BY SaveWritesVote DEF TypeInv, TypeOK, ElectionInv
  <1>2. \A s \in Server : SavedStep(s)
    BY <1>1 DEF SavedStep
  <1>. QED BY <1>1, <1>2 DEF Quiet

\* A step that leaves alone all that elections read.
LEMMA ElsewhereIsQuiet ==
  ASSUME TypeInv, ElectionInv,
         UNCHANGED <<state, currentTerm, votedFor, voteCount, ballots, awaiting, voteResponses,
                     memory>>,
         ~Hybrid => disk' = disk
  PROVE  Quiet
  BY DEF Quiet, TermStep, StateStep, SavedStep, ElectionInv

LEMMA LeaderIsQuiet ==
  ASSUME TypeInv, ElectionInv, NEW p \in Server,
         \/ \E cmd \in Command : ClientRequest(p, cmd)
         \/ AppendNoop(p)
         \/ \E i \in 1 .. MaxIndex : CommitRequest(p, i)
  PROVE  Quiet
  <1>1. UNCHANGED <<state, currentTerm, votedFor, voteCount, ballots, awaiting, voteResponses>>
    BY DEF ClientRequest, AppendNoop, CommitRequest, electionVars
  <1>2. Save(p) \/ UNCHANGED <<memory, disk>>
    BY DEF ClientRequest, AppendNoop, CommitRequest, LeaderAppend, storageVars
  <1>3. \A s \in Server : TermStep(s) /\ StateStep(s)
    BY <1>1 DEF TermStep, StateStep
  <1>. QED BY <1>1, <1>2, <1>3, SaveIsQuiet, ElsewhereIsQuiet

LEMMA HandleResIsQuiet ==
  ASSUME TypeInv, ElectionInv, NEW p \in Server, NEW q \in Server,
         HandleAppendEntriesRes(p, q) \/ HandleInstallSnapshotRes(p, q)
  PROVE  Quiet
  <1>. DEFINE res == response[p][q]
  <1>1. UNCHANGED <<ballots, awaiting, voteResponses>>
    BY DEF HandleAppendEntriesRes, HandleInstallSnapshotRes
  <1>2. res.term \in Nat
    <2>1. res \in ReplicationRes \cup {Nil} /\ res # Nil
      BY DEF HandleAppendEntriesRes, HandleInstallSnapshotRes, Answered, TypeInv, TypeOK,
             CallTypes
    <2>. QED BY <2>1 DEF ReplicationRes
  <1>3. \/ /\ res.term > currentTerm[p] /\ UpdateTerm(p, res.term)
           /\ state' = [state EXCEPT ![p] = Follower]
           /\ voteCount' = voteCount /\ Save(p)
        \/ UNCHANGED <<state, currentTerm, votedFor, voteCount, memory, disk>>
    BY DEF HandleAppendEntriesRes, HandleInstallSnapshotRes, BecomeFollower, storageVars
  <1>4. CASE /\ res.term > currentTerm[p] /\ UpdateTerm(p, res.term)
             /\ state' = [state EXCEPT ![p] = Follower]
             /\ voteCount' = voteCount /\ Save(p)
    <2>. HIDE DEF res
    <2>1. \A s \in Server : TermStep(s) /\ StateStep(s)
      BY <1>2, <1>4, StepDownStep
    <2>. QED BY <1>1, <1>4, <2>1, SaveIsQuiet
  <1>5. CASE UNCHANGED <<state, currentTerm, votedFor, voteCount, memory, disk>>
    BY <1>1, <1>5, ElsewhereIsQuiet
  <1>. QED BY <1>3, <1>4, <1>5

LEMMA HandleAppendEntriesIsQuiet ==
  ASSUME TypeInv, ElectionInv, NEW p \in Server, NEW leader \in Server,
         NEW req \in ReplicationReq, HandleAppendEntries(p, leader, req)
  PROVE  Quiet
  <1>1. UNCHANGED <<voteCount, ballots, awaiting, voteResponses>>
    BY DEF HandleAppendEntries, electionVars
  <1>2. req.term \in Nat /\ currentTerm[p] \in Nat
    BY DEF ReplicationReq, AppendEntriesReq, InstallSnapshotReq, TypeInv, TypeOK, PeerTypes
  <1>3. CASE req.term < currentTerm[p]
    <2>1. UNCHANGED <<state, currentTerm, votedFor, memory, disk>>
      BY <1>3 DEF HandleAppendEntries, storageVars
    <2>. QED BY <1>1, <2>1, ElsewhereIsQuiet
  <1>4. CASE ~(req.term < currentTerm[p])
    <2>1. /\ UpdateTerm(p, req.term) /\ Save(p)
          /\ state' = [state EXCEPT ![p] = Follower]
      BY <1>4 DEF HandleAppendEntries
    <2>2. CASE req.term > currentTerm[p]
      <3>1. \A s \in Server : TermStep(s) /\ StateStep(s)
        BY <1>1, <1>2, <2>1, <2>2, StepDownStep
      <3>. QED BY <1>1, <2>1, <3>1, SaveIsQuiet
    <2>3. CASE ~(req.term > currentTerm[p])
      <3>1. currentTerm' = currentTerm /\ votedFor' = votedFor
        BY <1>2, <2>1, <2>3 DEF UpdateTerm, Greater, TypeInv, TypeOK, PeerTypes
      <3>2. \A s \in Server : state'[s] \in {state[s], Follower}
        BY <2>1 DEF TypeInv, TypeOK, PeerTypes
      <3>3. \A s \in Server : TermStep(s) /\ StateStep(s)
        BY <1>1, <3>1, <3>2 DEF TermStep, StateStep
      <3>. QED BY <1>1, <2>1, <3>3, SaveIsQuiet
    <2>. QED BY <2>2, <2>3
  <1>. QED BY <1>3, <1>4

LEMMA HandleInstallSnapshotIsQuiet ==
  ASSUME TypeInv, ElectionInv, NEW p \in Server,
         NEW req \in ReplicationReq, HandleInstallSnapshot(p, req)
  PROVE  Quiet
  <1>1. UNCHANGED <<state, currentTerm, votedFor, voteCount, ballots, awaiting, voteResponses>>
    BY DEF HandleInstallSnapshot, electionVars
  <1>2. Save(p) \/ UNCHANGED <<memory, disk>>
    BY DEF HandleInstallSnapshot, storageVars
  <1>3. \A s \in Server : TermStep(s) /\ StateStep(s)
    BY <1>1 DEF TermStep, StateStep
  <1>. QED BY <1>1, <1>2, <1>3, SaveIsQuiet, ElsewhereIsQuiet

LEMMA ReloadIsQuiet ==
  ASSUME TypeInv, NEW p \in Server, NewProcess(p, memory[p]),
         ~Hybrid => memory = disk, ~Hybrid => disk' = disk
  PROVE  Quiet
  <1>1. /\ ballots' = ballots /\ awaiting' \subseteq awaiting
        /\ voteResponses' \subseteq voteResponses
        /\ memory' = [memory EXCEPT ![p] = memory[p]]
        /\ currentTerm' = [currentTerm EXCEPT ![p] = memory[p].currentTerm]
        /\ votedFor' = [votedFor EXCEPT ![p] = memory[p].votedFor]
        /\ voteCount' = [voteCount EXCEPT ![p] = memory[p].voteCount]
        /\ state' = [state EXCEPT ![p] = Follower]
    BY DEF NewProcess
  <1>2. memory' = memory
    BY <1>1 DEF TypeInv, TypeOK, StorageTypes
  <1>3. ASSUME NEW s \in Server
        PROVE  TermStep(s) /\ StateStep(s) /\ SavedStep(s)
    <2>1. CASE s = p
      BY <1>1, <1>2, <2>1 DEF TermStep, StateStep, SavedStep, TypeInv, TypeOK, PeerTypes
    <2>2. CASE s # p
      BY <1>1, <1>2, <2>2 DEF TermStep, StateStep, SavedStep, TypeInv, TypeOK, PeerTypes
    <2>. QED BY <2>1, <2>2
  <1>. QED BY <1>1, <1>2, <1>3 DEF Quiet

\* A process that starts again finds what it saved.
LEMMA RestartIsQuiet ==
  ASSUME TypeInv, ElectionInv, Durable, NEW p \in Server, Crash(p) \/ Stop(p)
  PROVE  Quiet
  <1>1. ~Hybrid => memory = disk
    BY DEF ElectionInv
  <1>2. CASE Crash(p)
    <2>1. ~Hybrid
      BY <1>2 DEF Crash, Durable, TypeInv, TypeOK, CallTypes
    <2>2. NewProcess(p, memory[p]) /\ disk' = disk
      BY <1>1, <1>2, <2>1 DEF Crash
    <2>. QED BY <1>1, <2>1, <2>2, ReloadIsQuiet
  <1>3. CASE Stop(p)
    <2>1. NewProcess(p, memory[p]) /\ disk' = [disk EXCEPT ![p] = memory[p]]
      BY <1>3 DEF Stop
    <2>2. ~Hybrid => disk' = disk
      BY <1>1, <2>1 DEF TypeInv, TypeOK, StorageTypes
    <2>. QED BY <1>1, <2>1, <2>2, ReloadIsQuiet
  <1>. QED BY <1>2, <1>3

-----------------------------------------------------------------------------
\* the theorems

LEMMA InitElection ==
  ASSUME Init
  PROVE  ElectionInv
  <1>1. /\ ballots = {} /\ awaiting = {} /\ voteResponses = {} /\ memory = disk
        /\ state = [s \in Server |-> Follower]
    BY DEF Init
  <1>2. \A s \in Server : state[s] # Candidate /\ state[s] # Leader
    BY <1>1 DEF Follower, Candidate, Leader
  <1>. QED BY <1>1, <1>2 DEF ElectionInv, OneVotePerTerm, VotesRemembered, VotesSaved,
                             RepliesFollowVotes, CountsAreHonest, LeadersAreElected

LEMMA NextElection ==
  ASSUME TypeInv, TypeInv', ElectionInv, Durable, [Next]_vars
  PROVE  ElectionInv'
  <1>1. ASSUME NEW p \in Server, FollowerTimeout(p) \/ CandidateTimeout(p)
        PROVE  ElectionInv'
    <2>1. StartElection(p)
      BY <1>1 DEF FollowerTimeout, CandidateTimeout
    <2>2. state' = [state EXCEPT ![p] = Candidate]
      BY <1>1 DEF FollowerTimeout, CandidateTimeout, TypeInv, TypeOK, PeerTypes
    <2>. QED BY <2>1, <2>2, StartElectionStep
  <1>2. ASSUME NEW p \in Server, FollowerRearm(p)
        PROVE  ElectionInv'
    <2>1. Quiet
      BY <1>2, ElsewhereIsQuiet DEF FollowerRearm, electionVars, storageVars
    <2>. QED BY <2>1, QuietStep
  <1>3. ASSUME NEW p \in Server, NEW m \in voteRequests, HandleRequestVote(p, m)
        PROVE  ElectionInv'
    BY <1>3, HandleRequestVoteStep
  <1>4. ASSUME NEW p \in Server,
               \/ \E cmd \in Command : ClientRequest(p, cmd)
               \/ AppendNoop(p)
               \/ \E i \in 1 .. MaxIndex : CommitRequest(p, i)
        PROVE  ElectionInv'
    BY <1>4, LeaderIsQuiet, QuietStep
  <1>5. ASSUME NEW p \in Server, Flush(p) PROVE ElectionInv'
    <2>1. Quiet
      BY <1>5, ElsewhereIsQuiet DEF Flush, electionVars
    <2>. QED BY <2>1, QuietStep
  <1>6. ASSUME NEW p \in Server, Crash(p) \/ Stop(p) PROVE ElectionInv'
    BY <1>6, RestartIsQuiet, QuietStep
  <1>7. ASSUME NEW m \in voteResponses, HandleRequestVoteRespond(m) PROVE ElectionInv'
    BY <1>7, HandleRequestVoteRespondStep
  <1>8. ASSUME NEW p \in Server, NEW q \in Server,
               SendAppendEntries(p, q) \/ SendInstallSnapshot(p, q) \/ CallFails(p, q)
        PROVE  ElectionInv'
    <2>1. Quiet
      BY <1>8, ElsewhereIsQuiet DEF SendAppendEntries, SendInstallSnapshot, CallFails,
         electionVars, storageVars
    <2>. QED BY <2>1, QuietStep
  <1>9. ASSUME NEW p \in Server, NEW q \in Server,
               HandleAppendEntriesRes(p, q) \/ HandleInstallSnapshotRes(p, q)
        PROVE  ElectionInv'
    BY <1>9, HandleResIsQuiet, QuietStep
  <1>10. ASSUME NEW p \in Server, NEW q \in Server,
                ReceiveAppendEntries(p, q) \/ ReceiveInstallSnapshot(p, q)
         PROVE  ElectionInv'
    <2>1. request[p][q] \in ReplicationReq
      BY <1>10 DEF ReceiveAppendEntries, ReceiveInstallSnapshot, Waiting, TypeInv, TypeOK,
                   CallTypes
    <2>2. HandleAppendEntries(q, p, request[p][q]) \/ HandleInstallSnapshot(q, request[p][q])
      BY <1>10 DEF ReceiveAppendEntries, ReceiveInstallSnapshot
    <2>3. Quiet
      BY <2>1, <2>2, HandleAppendEntriesIsQuiet, HandleInstallSnapshotIsQuiet
    <2>. QED BY <2>3, QuietStep
  <1>11. ASSUME NEW m \in lateRequests, ReceiveLate(m) PROVE ElectionInv'
    <2>1. m.from \in Server /\ m.to \in Server /\ m.req \in ReplicationReq
      BY DEF TypeInv, TypeOK, CallTypes
    <2>2. HandleAppendEntries(m.to, m.from, m.req) \/ HandleInstallSnapshot(m.to, m.req)
      BY <1>11 DEF ReceiveLate
    <2>3. Quiet
      BY <2>1, <2>2, HandleAppendEntriesIsQuiet, HandleInstallSnapshotIsQuiet
    <2>. QED BY <2>3, QuietStep
  <1>12. CASE UNCHANGED vars
    <2>1. Quiet
      BY <1>12, ElsewhereIsQuiet DEF vars, electionVars, storageVars
    <2>. QED BY <2>1, QuietStep
  <1>. QED BY <1>1, <1>2, <1>3, <1>4, <1>5, <1>6, <1>7, <1>8, <1>9, <1>10, <1>11, <1>12
           DEF Next

\* Leaders of one term were elected by majorities, which share a voter.
LEMMA ElectionInvImpliesSafety ==
  ASSUME TypeInv, ElectionInv
  PROVE  ElectionSafety
  <1>. SUFFICES ASSUME NEW p \in Server, NEW q \in Server,
                       state[p] = Leader, state[q] = Leader,
                       currentTerm[p] = currentTerm[q]
                PROVE  p = q
    BY DEF ElectionSafety
  <1>. DEFINE t == currentTerm[p]
              P == VotersFor(p, t)
              Q == VotersFor(q, t)
  <1>1. P \subseteq Server /\ Q \subseteq Server
    BY DEF VotersFor
  <1>2. 2 * Cardinality(P) > N /\ 2 * Cardinality(Q) > N
    BY DEF ElectionInv, LeadersAreElected
  <1>3. Cardinality(P) \in Nat /\ Cardinality(Q) \in Nat
    BY <1>1, CountGrows
  <1>4. Cardinality(P) + Cardinality(Q) > Cardinality(Server)
    BY <1>2, <1>3, ServersFinite DEF N
  <1>5. P \cap Q # {}
    BY <1>1, <1>4, ServersFinite, FS_MajoritiesIntersect
  <1>6. PICK v \in P \cap Q : TRUE
    BY <1>5
  <1>7. <<v, t, p>> \in ballots /\ <<v, t, q>> \in ballots
    BY <1>6 DEF VotersFor
  <1>. QED BY <1>7 DEF ElectionInv, OneVotePerTerm

\* Votes are remembered in memory and in what was saved, a candidate has counted no more
\* than it was given, and a leader was given those of a majority.
THEOREM ElectionInvHolds == Durable /\ Spec => [](TypeInv /\ ElectionInv)
  <1>. SUFFICES ASSUME Durable PROVE Spec => [](TypeInv /\ ElectionInv)
    OBVIOUS
  <1>1. Init => TypeInv /\ ElectionInv
    BY InitTypes, InitElection
  <1>2. (TypeInv /\ ElectionInv) /\ [Next]_vars => (TypeInv /\ ElectionInv)'
    BY NextTypes, NextElection
  <1>. QED BY <1>1, <1>2, PTL DEF Spec

\* When nothing saved is lost, a server votes for at most one candidate
\* in a term over its whole life, crashes included, and so no term has two
\* leaders: whatever requests for votes are lost or repeated.
THEOREM ElectionIsSafe == Durable /\ Spec => []ElectionSafety
  <1>1. TypeInv /\ ElectionInv => ElectionSafety
    BY ElectionInvImpliesSafety
  <1>. QED BY <1>1, ElectionInvHolds, PTL

\* The same of the votes themselves.
THEOREM VotesAreFinal == Durable /\ Spec => []OneVotePerTerm
  <1>1. TypeInv /\ ElectionInv => OneVotePerTerm
    BY DEF ElectionInv
  <1>. QED BY <1>1, ElectionInvHolds, PTL

=============================================================================

-------------------------- MODULE LogMatchingProofs --------------------------
(***************************************************************************)
(* Log matching, when nothing saved is lost and no peer is sent a          *)
(* snapshot.  LogInv is inductive with the types and ElectionInv.          *)
(*                                                                         *)
(* But for a leader that appends an entry, a step makes no entry: what a   *)
(* log or a request holds after it, some log or request held before.       *)
(* InheritStep says that LogInv is kept by every such step; a candidacy,   *)
(* the end of an election and an append are taken one by one.              *)
(*                                                                         *)
(* SignalInv, about what a leader sends on the channels of its log         *)
(* entries, is inductive with the types alone, and is at the end.          *)
(***************************************************************************)
EXTENDS RaftProofs, LogInvariants, SimulationChecks

-----------------------------------------------------------------------------
\* chunks

IsChunk(c) == /\ c.prevLogIndex \in Int /\ c.prevLogIndex >= -1
              /\ c.prevLogTerm \in Nat
              /\ c.entries \in Seq(Entry)

\* the last entries of d are those of c
SuffixOf(c, d) ==
  /\ IsChunk(c)
  /\ LastSent(c) = LastSent(d) /\ d.prevLogIndex <= c.prevLogIndex
  /\ \A i \in Positions(c) : TermIn(c, i) = TermIn(d, i)
  /\ \A i \in Indices(c) : CmdIn(c, i) = CmdIn(d, i)

\* all that c tells is told by one of the chunks D
Covered(c, D) ==
  /\ IsChunk(c)
  /\ \A i \in Positions(c) : \E d \in D : i \in Positions(d) /\ TermIn(d, i) = TermIn(c, i)
  /\ \A i \in Indices(c) : \E d \in D : i \in Indices(d) /\ SameLink(d, c, i)

LEMMA ChunkParts ==
  ASSUME NEW c, IsChunk(c)
  PROVE  /\ Len(c.entries) \in Nat
         /\ LastSent(c) \in Int /\ LastSent(c) = c.prevLogIndex + Len(c.entries)
         /\ \A i \in Positions(c) : TermIn(c, i) \in Nat
         /\ Indices(c) \subseteq Positions(c)
         /\ \A i \in Indices(c) : i - 1 \in Positions(c)
         /\ c.prevLogIndex \in Positions(c) /\ LastSent(c) \in Positions(c)
  <1>1. Len(c.entries) \in Nat /\ c.prevLogIndex \in Int
    BY DEF IsChunk
  <1>2. LastSent(c) \in Int /\ LastSent(c) = c.prevLogIndex + Len(c.entries)
    BY <1>1 DEF LastSent
  <1>3. ASSUME NEW i \in Positions(c) PROVE TermIn(c, i) \in Nat
    <2>1. CASE i = c.prevLogIndex
      BY <2>1 DEF TermIn, IsChunk
    <2>2. CASE i # c.prevLogIndex
      <3>1. i - c.prevLogIndex \in 1 .. Len(c.entries)
        BY <1>1, <1>2, <2>2 DEF Positions
      <3>2. c.entries[i - c.prevLogIndex] \in Entry
        BY <3>1 DEF IsChunk
      <3>. QED BY <2>2, <3>2 DEF TermIn, Entry
    <2>. QED BY <2>1, <2>2
  <1>. QED BY <1>1, <1>2, <1>3 DEF Positions, Indices

LEMMA ChunkOfReplica ==
  ASSUME NEW r \in Replica
  PROVE  /\ IsChunk(Chunk(r))
         /\ Chunk(r).prevLogIndex = Base(r) /\ Chunk(r).entries = r.log
         /\ LastSent(Chunk(r)) = LastIndex(r)
         /\ Positions(Chunk(r)) = Base(r) .. LastIndex(r)
         /\ Indices(Chunk(r)) = Base(r) + 1 .. LastIndex(r)
         /\ \A i : TermIn(Chunk(r), i) = TermAt(r, i)
  <1>1. /\ Base(r) \in Int /\ Base(r) >= -1 /\ r.snapshot.term \in Nat /\ r.log \in Seq(Entry)
        /\ LastIndex(r) = Len(r.log) + Base(r) /\ Len(r.log) \in Nat
    BY ReplicaParts, SnapshotParts
  <1>2. /\ Chunk(r).prevLogIndex = Base(r) /\ Chunk(r).entries = r.log
        /\ Chunk(r).prevLogTerm = r.snapshot.term
    BY DEF Chunk
  <1>3. LastSent(Chunk(r)) = LastIndex(r)
    BY <1>1, <1>2 DEF LastSent
  <1>4. \A i : TermIn(Chunk(r), i) = TermAt(r, i)
    BY <1>2 DEF TermIn, TermAt
  <1>. QED BY <1>1, <1>2, <1>3, <1>4 DEF IsChunk, Positions, Indices

LEMMA SuffixIsCovered ==
  ASSUME NEW c, NEW D, NEW d \in D, IsChunk(d), SuffixOf(c, d)
  PROVE  Covered(c, D)
  <1>. USE DEF SuffixOf
  <1>1. Positions(c) \subseteq Positions(d) /\ Indices(c) \subseteq Indices(d)
    BY DEF Positions, Indices, IsChunk
  <1>2. ASSUME NEW i \in Indices(c) PROVE SameLink(d, c, i)
    <2>1. i \in Positions(c) /\ i - 1 \in Positions(c)
      BY ChunkParts
    <2>. QED BY <2>1 DEF SameLink
  <1>. QED BY <1>1, <1>2 DEF Covered

LEMMA ChunkBounds ==
  ASSUME NEW c, IsChunk(c)
  PROVE  /\ c.prevLogIndex \in Int /\ LastSent(c) \in Int /\ c.prevLogIndex <= LastSent(c)
         /\ Positions(c) = c.prevLogIndex .. LastSent(c)
         /\ Indices(c) = c.prevLogIndex + 1 .. LastSent(c)
  <1>1. c.prevLogIndex \in Int /\ LastSent(c) \in Int /\ LastSent(c) \in Positions(c)
    BY ChunkParts DEF IsChunk
  <1>2. Positions(c) = c.prevLogIndex .. LastSent(c) /\ Indices(c) = c.prevLogIndex + 1 .. LastSent(c)
    BY Zenon DEF Positions, Indices
  <1>. QED BY <1>1, <1>2

LEMMA ChunkIsCovered == ASSUME NEW D, NEW c \in D, IsChunk(c) PROVE Covered(c, D)
  BY DEF Covered, SameLink

LEMMA SuffixOfItself == ASSUME NEW c, IsChunk(c) PROVE SuffixOf(c, c)
  BY DEF SuffixOf, IsChunk

LEMMA CoveredTransitive ==
  ASSUME NEW c, NEW D, NEW E, Covered(c, D), \A d \in D : Covered(d, E)
  PROVE  Covered(c, E)
  BY DEF Covered, SameLink

-----------------------------------------------------------------------------
\* elections

\* A term is won once: majorities share a voter, and nobody asks twice in a term.
LEMMA ElectedOnce ==
  ASSUME TypeInv, ElectionInv, CandidaciesAreSaved,
         NEW m, NEW n, Elected(m), Elected(n), m.term = n.term
  PROVE  m = n
  <1>. DEFINE P == VotersFor(m.cand, m.term)
              Q == VotersFor(n.cand, n.term)
  <1>1. P \subseteq Server /\ Q \subseteq Server
    BY DEF VotersFor
  <1>2. 2 * Cardinality(P) > N /\ 2 * Cardinality(Q) > N
    BY DEF Elected
  <1>3. Cardinality(P) \in Nat /\ Cardinality(Q) \in Nat
    BY <1>1, CountGrows
  <1>4. Cardinality(P) + Cardinality(Q) > Cardinality(Server)
    BY <1>2, <1>3, ServersFinite DEF N
  <1>5. P \cap Q # {}
    BY <1>1, <1>4, ServersFinite, FS_MajoritiesIntersect
  <1>6. PICK v \in P \cap Q : TRUE
    BY <1>5
  <1>7. <<v, m.term, m.cand>> \in ballots /\ <<v, n.term, n.cand>> \in ballots
    BY <1>6 DEF VotersFor
  <1>8. m.cand = n.cand
    BY <1>7 DEF ElectionInv, OneVotePerTerm
  <1>. QED BY <1>8 DEF CandidaciesAreSaved, Elected

\* Votes are only added.
VotesGrow == voteRequests \subseteq voteRequests' /\ ballots \subseteq ballots'

LEMMA ElectedStays ==
  ASSUME VotesGrow, NEW m, Elected(m)
  PROVE  Elected(m)'
  <1>. DEFINE P == VotersFor(m.cand, m.term)
  <1>1. P \subseteq P' /\ P \in SUBSET Server /\ P' \in SUBSET Server
    BY DEF VotesGrow, VotersFor
  <1>2. /\ Cardinality(P) \in Nat /\ Cardinality(P') \in Nat
        /\ Cardinality(P) <= Cardinality(P')
    BY <1>1, CountGrows
  <1>3. 2 * Cardinality(P) > N /\ m \in voteRequests'
    BY DEF Elected, VotesGrow
  <1>4. 2 * Cardinality(P') > N
    <2>. HIDE DEF P
    <2>. QED BY <1>2, <1>3, ServersFinite
  <1>. QED BY <1>3, <1>4 DEF Elected

\* p is a candidate after the step only as it was before, or in a new term
CandidateStep(p) ==
  state'[p] = Candidate => \/ state[p] = Candidate /\ currentTerm'[p] = currentTerm[p]
                           \/ currentTerm'[p] > currentTerm[p]

\* An election that is over stays so.
LEMMA OverStays ==
  ASSUME TypeInv, TypeInv', LogIsSaved, CandidaciesAreSaved,
         \A p \in Server : CandidateStep(p),
         NEW m \in voteRequests, Over(m)
  PROVE  Over(m)'
  <1>. DEFINE p == m.cand
  <1>1. p \in Server /\ m.term \in Nat
    BY DEF TypeInv, TypeOK, ElectionTypes
  <1>2. currentTerm[p] \in Nat /\ currentTerm'[p] \in Nat /\ memory[p].currentTerm \in Nat
    BY <1>1 DEF TypeInv, TypeOK, PeerTypes, StorageTypes, Data
  <1>3. m.term <= memory[p].currentTerm /\ memory[p].currentTerm <= currentTerm[p]
    BY <1>1 DEF LogIsSaved, CandidaciesAreSaved
  <1>4. CandidateStep(p)
    BY <1>1
  <1>5. ASSUME currentTerm'[p] = m.term, state'[p] = Candidate PROVE FALSE
    <2>1. currentTerm[p] = m.term /\ state[p] = Candidate
      <3>. HIDE DEF p
      <3>. QED BY <1>1, <1>2, <1>3, <1>4, <1>5 DEF CandidateStep
    <2>. QED BY <2>1 DEF Over
  <1>. QED BY <1>5 DEF Over

-----------------------------------------------------------------------------
\* steps that make no entry

LEMMA RequestTypes ==
  ASSUME TypeInv, NoSnapshotIsSent, NEW c \in Requests
  PROVE  c \in AppendEntriesReq /\ IsChunk(c)
  <1>1. c \in ReplicationReq
    BY DEF Requests, TypeInv, TypeOK, CallTypes
  <1>2. c.type = "AppendEntries"
    BY DEF NoSnapshotIsSent
  <1>3. c \in AppendEntriesReq
    BY <1>1, <1>2 DEF ReplicationReq, InstallSnapshotReq
  <1>. QED BY <1>3 DEF AppendEntriesReq, IsChunk

LEMMA ChunkTypes ==
  ASSUME TypeInv, NoSnapshotIsSent, NEW c \in Chunks
  PROVE  IsChunk(c)
  <1>1. \A p \in Server : IsChunk(Chunk(rep[p]))
    BY ChunkOfReplica DEF TypeInv, TypeOK, ReplicaTypes
  <1>. QED BY <1>1, RequestTypes DEF Chunks

\* The invariants of the entries, of anything the chunks cover.
LEMMA CoveredLinks ==
  ASSUME LogInv, NEW c, Covered(c, Chunks)
  PROVE  /\ \A d : Covered(d, Chunks) =>
              \A i \in Indices(c) \cap Indices(d) :
                TermIn(c, i) = TermIn(d, i) => SameLink(c, d, i)
         /\ \A i \in Indices(c) :
              /\ TermIn(c, i - 1) <= TermIn(c, i)
              /\ TermIn(c, i - 1) < TermIn(c, i) =>
                   \E m \in voteRequests : /\ Elected(m) /\ m.term = TermIn(c, i)
                                           /\ m.lastLogIndex = i - 1
                                           /\ m.lastLogTerm = TermIn(c, i - 1)
         /\ \A i \in Positions(c) : TermIn(c, i) > 0 =>
              \E m \in voteRequests : /\ Elected(m) /\ m.term = TermIn(c, i)
                                      /\ m.lastLogIndex < i /\ Over(m)
  <1>1. ASSUME NEW d, Covered(d, Chunks), NEW i \in Indices(c) \cap Indices(d),
               TermIn(c, i) = TermIn(d, i)
        PROVE  SameLink(c, d, i)
    <2>1. PICK x \in Chunks : i \in Indices(x) /\ SameLink(x, c, i)
      BY DEF Covered
    <2>2. PICK y \in Chunks : i \in Indices(y) /\ SameLink(y, d, i)
      BY <1>1 DEF Covered
    <2>3. SameLink(x, y, i)
      BY <1>1, <2>1, <2>2 DEF LogInv, LinksAgree, SameLink
    <2>. QED BY <2>1, <2>2, <2>3 DEF SameLink
  <1>2. ASSUME NEW i \in Indices(c)
        PROVE  /\ TermIn(c, i - 1) <= TermIn(c, i)
               /\ TermIn(c, i - 1) < TermIn(c, i) =>
                    \E m \in voteRequests : /\ Elected(m) /\ m.term = TermIn(c, i)
                                            /\ m.lastLogIndex = i - 1
                                            /\ m.lastLogTerm = TermIn(c, i - 1)
    <2>1. PICK x \in Chunks : i \in Indices(x) /\ SameLink(x, c, i)
      BY DEF Covered
    <2>2. TermIn(x, i) = TermIn(c, i) /\ TermIn(x, i - 1) = TermIn(c, i - 1)
      BY <2>1 DEF SameLink
    <2>. QED BY <2>1, <2>2 DEF LogInv, TermsBeginWithLeaders
  <1>3. ASSUME NEW i \in Positions(c), TermIn(c, i) > 0
        PROVE  \E m \in voteRequests : /\ Elected(m) /\ m.term = TermIn(c, i)
                                       /\ m.lastLogIndex < i /\ Over(m)
    <2>1. PICK x \in Chunks : i \in Positions(x) /\ TermIn(x, i) = TermIn(c, i)
      BY DEF Covered
    <2>. QED BY <1>3, <2>1 DEF LogInv, TermsAreWon
  <1>. QED BY <1>1, <1>2, <1>3

LEMMA EntriesInherited ==
  ASSUME TypeInv, TypeInv', LogInv, VotesGrow, \A p \in Server : CandidateStep(p),
         \A c \in Chunks' : Covered(c, Chunks)
  PROVE  LinksAgree' /\ TermsBeginWithLeaders' /\ TermsAreWon'
  <1>. USE DEF VotesGrow
  <1>1. LinksAgree'
    <2>. SUFFICES ASSUME NEW c \in Chunks', NEW d \in Chunks',
                         NEW i \in Indices(c) \cap Indices(d), TermIn(c, i) = TermIn(d, i)
                  PROVE  SameLink(c, d, i)
      BY DEF LinksAgree
    <2>. QED BY CoveredLinks
  <1>2. TermsBeginWithLeaders'
    <2>. SUFFICES ASSUME NEW c \in Chunks', NEW i \in Indices(c)
                  PROVE  /\ TermIn(c, i - 1) <= TermIn(c, i)
                         /\ TermIn(c, i - 1) < TermIn(c, i) =>
                              \E m \in voteRequests' : /\ Elected(m)' /\ m.term = TermIn(c, i)
                                                       /\ m.lastLogIndex = i - 1
                                                       /\ m.lastLogTerm = TermIn(c, i - 1)
      BY DEF TermsBeginWithLeaders
    <2>1. /\ TermIn(c, i - 1) <= TermIn(c, i)
          /\ TermIn(c, i - 1) < TermIn(c, i) =>
               \E m \in voteRequests : /\ Elected(m) /\ m.term = TermIn(c, i)
                                       /\ m.lastLogIndex = i - 1
                                       /\ m.lastLogTerm = TermIn(c, i - 1)
      BY CoveredLinks
    <2>. QED BY <2>1, ElectedStays
  <1>3. TermsAreWon'
    <2>. SUFFICES ASSUME NEW c \in Chunks', NEW i \in Positions(c), TermIn(c, i) > 0
                  PROVE  \E m \in voteRequests' : /\ Elected(m)' /\ m.term = TermIn(c, i)
                                                  /\ m.lastLogIndex < i /\ Over(m)'
      BY DEF TermsAreWon
    <2>1. PICK m \in voteRequests : /\ Elected(m) /\ m.term = TermIn(c, i)
                                    /\ m.lastLogIndex < i /\ Over(m)
      BY CoveredLinks
    <2>2. Elected(m)' /\ Over(m)'
      BY <2>1, ElectedStays, OverStays DEF LogInv
    <2>. QED BY <2>1, <2>2
  <1>. QED BY <1>1, <1>2, <1>3

(***************************************************************************)
(* A step that asks for no votes and makes no entry: what logs and         *)
(* requests hold is inherited, and who is a candidate or a leader was one  *)
(* before, with the same log at least from the end of its snapshot on.     *)
(***************************************************************************)
Inherits ==
  /\ voteRequests' = voteRequests /\ ballots \subseteq ballots'
  /\ \A b \in ballots' : \/ b \in ballots
                         \/ \E m \in voteRequests : m.cand = b[3] /\ m.term = b[2]
  /\ \A p \in Server : memory[p].currentTerm <= memory'[p].currentTerm
  /\ LogIsSaved'
  /\ \A p \in Server : Covered(Chunk(rep'[p]), Chunks)
  /\ \A c \in Requests' : \/ c \in Requests
                          \/ \E p \in Server : /\ state[p] = Leader /\ c.term = currentTerm[p]
                                               /\ SuffixOf(c, Chunk(rep[p]))
  /\ \A p \in Server : state'[p] # Follower =>
       /\ state'[p] = state[p] /\ currentTerm'[p] = currentTerm[p]
       /\ SuffixOf(Chunk(rep'[p]), Chunk(rep[p]))

LEMMA SuffixFromLeader ==
  ASSUME NEW c, NEW d, NEW m, IsChunk(d), SuffixOf(c, d), FromLeader(d, m)
  PROVE  FromLeader(c, m)
  <1>1. Positions(c) \subseteq Positions(d)
    BY DEF SuffixOf, Positions, IsChunk
  <1>. QED BY <1>1 DEF SuffixOf, FromLeader

LEMMA InheritStep ==
  ASSUME TypeInv, TypeInv', NoSnapshotIsSent, LogInv, Inherits
  PROVE  LogInv'
  <1>. USE DEF Inherits
  <1>1. \A p \in Server : IsChunk(Chunk(rep[p])) /\ IsChunk(Chunk(rep'[p]))
    BY ChunkOfReplica DEF TypeInv, TypeOK, ReplicaTypes
  <1>2. ASSUME NEW c \in Chunks' PROVE Covered(c, Chunks)
    <2>1. CASE c \in Requests
      BY <2>1, RequestTypes, ChunkIsCovered DEF Chunks
    <2>2. ASSUME NEW p \in Server, SuffixOf(c, Chunk(rep[p])) PROVE Covered(c, Chunks)
      <3>1. Chunk(rep[p]) \in Chunks
        BY DEF Chunks
      <3>. QED BY <1>1, <2>2, <3>1, SuffixIsCovered
    <2>3. ASSUME NEW p \in Server, c = Chunk(rep'[p]) PROVE Covered(c, Chunks)
      BY <2>3
    <2>. QED BY <2>1, <2>2, <2>3 DEF Chunks
  <1>3. VotesGrow
    BY DEF VotesGrow
  <1>4. \A p \in Server : CandidateStep(p)
    BY DEF CandidateStep, Candidate, Follower
  <1>5. LinksAgree' /\ TermsBeginWithLeaders' /\ TermsAreWon'
    BY <1>2, <1>3, <1>4, EntriesInherited
  <1>6. CandidaciesAreSaved'
    <2>1. \A m \in voteRequests : /\ m.cand \in Server /\ m.term \in Nat
                                  /\ memory[m.cand].currentTerm \in Nat
                                  /\ memory'[m.cand].currentTerm \in Nat
      BY DEF TypeInv, TypeOK, ElectionTypes, StorageTypes, Data
    <2>2. \A m \in voteRequests : m.term <= memory'[m.cand].currentTerm
      BY <2>1 DEF LogInv, CandidaciesAreSaved
    <2>3. \A b \in ballots' : \E m \in voteRequests : m.cand = b[3] /\ m.term = b[2]
      BY DEF LogInv, CandidaciesAreSaved
    <2>. QED BY <2>2, <2>3 DEF LogInv, CandidaciesAreSaved
  <1>7. CandidatesKeepTheirLogs'
    <2>. SUFFICES ASSUME NEW p \in Server, state'[p] = Candidate
                  PROVE  \E m \in voteRequests :
                           /\ m.cand = p /\ m.term = currentTerm'[p]
                           /\ m.lastLogIndex = LastIndex(rep'[p])
                           /\ m.lastLogTerm = TermIn(Chunk(rep'[p]), LastIndex(rep'[p]))
      BY DEF CandidatesKeepTheirLogs
    <2>1. /\ state[p] = Candidate /\ currentTerm'[p] = currentTerm[p]
          /\ SuffixOf(Chunk(rep'[p]), Chunk(rep[p]))
      BY DEF Candidate, Follower
    <2>2. /\ LastSent(Chunk(rep'[p])) = LastIndex(rep'[p])
          /\ LastSent(Chunk(rep[p])) = LastIndex(rep[p])
      BY ChunkOfReplica DEF TypeInv, TypeOK, ReplicaTypes
    <2>3. LastIndex(rep'[p]) \in Positions(Chunk(rep'[p]))
      BY <1>1, <2>2, ChunkParts
    <2>4. /\ LastIndex(rep'[p]) = LastIndex(rep[p])
          /\ TermIn(Chunk(rep'[p]), LastIndex(rep'[p])) = TermIn(Chunk(rep[p]), LastIndex(rep[p]))
      BY <2>1, <2>2, <2>3 DEF SuffixOf
    <2>. QED BY <2>1, <2>4 DEF LogInv, CandidatesKeepTheirLogs
  <1>8. LeadersOnlyAppend'
    <2>. SUFFICES ASSUME NEW p \in Server, state'[p] = Leader
                  PROVE  \E m \in voteRequests :
                           /\ Elected(m)' /\ m.cand = p /\ m.term = currentTerm'[p]
                           /\ FromLeader(Chunk(rep'[p]), m)
      BY DEF LeadersOnlyAppend
    <2>1. /\ state[p] = Leader /\ currentTerm'[p] = currentTerm[p]
          /\ SuffixOf(Chunk(rep'[p]), Chunk(rep[p]))
      BY DEF Leader, Follower
    <2>2. PICK m \in voteRequests : /\ Elected(m) /\ m.cand = p /\ m.term = currentTerm[p]
                                    /\ FromLeader(Chunk(rep[p]), m)
      BY <2>1 DEF LogInv, LeadersOnlyAppend
    <2>3. Elected(m)' /\ FromLeader(Chunk(rep'[p]), m)
      BY <1>1, <1>3, <2>1, <2>2, ElectedStays, SuffixFromLeader
    <2>. QED BY <2>1, <2>2, <2>3
  <1>9. RequestsAreLeaders'
    <2>. SUFFICES ASSUME NEW c \in Requests'
                  PROVE  \E m \in voteRequests : /\ Elected(m)' /\ m.term = c.term
                                                 /\ FromLeader(c, m)
      BY DEF RequestsAreLeaders
    <2>1. CASE c \in Requests
      <3>1. PICK m \in voteRequests : Elected(m) /\ m.term = c.term /\ FromLeader(c, m)
        BY <2>1 DEF LogInv, RequestsAreLeaders
      <3>. QED BY <1>3, <3>1, ElectedStays
    <2>2. ASSUME NEW p \in Server, state[p] = Leader, c.term = currentTerm[p],
                 SuffixOf(c, Chunk(rep[p]))
          PROVE  \E m \in voteRequests : /\ Elected(m)' /\ m.term = c.term
                                         /\ FromLeader(c, m)
      <3>1. PICK m \in voteRequests : /\ Elected(m) /\ m.term = currentTerm[p]
                                      /\ FromLeader(Chunk(rep[p]), m)
        BY <2>2 DEF LogInv, LeadersOnlyAppend
      <3>2. Elected(m)' /\ FromLeader(c, m)
        BY <1>1, <1>3, <2>2, <3>1, ElectedStays, SuffixFromLeader
      <3>. QED BY <2>2, <3>1, <3>2
    <2>. QED BY <2>1, <2>2
  <1>10. LeadersKeepTheirTerm'
    <2>. SUFFICES ASSUME NEW p \in Server, state'[p] = Leader,
                         NEW c \in Chunks', NEW i \in Indices(c),
                         TermIn(c, i) = currentTerm'[p]
                  PROVE  i <= LastIndex(rep'[p])
      BY DEF LeadersKeepTheirTerm
    <2>1. /\ state[p] = Leader /\ currentTerm'[p] = currentTerm[p]
          /\ SuffixOf(Chunk(rep'[p]), Chunk(rep[p]))
      BY DEF Leader, Follower
    <2>2. PICK d \in Chunks : i \in Indices(d) /\ SameLink(d, c, i)
      BY <1>2 DEF Covered
    <2>3. i <= LastIndex(rep[p])
      BY <2>1, <2>2 DEF SameLink, LogInv, LeadersKeepTheirTerm
    <2>4. /\ LastSent(Chunk(rep'[p])) = LastIndex(rep'[p])
          /\ LastSent(Chunk(rep[p])) = LastIndex(rep[p])
      BY ChunkOfReplica DEF TypeInv, TypeOK, ReplicaTypes
    <2>. QED BY <2>1, <2>3, <2>4 DEF SuffixOf
  <1>. QED BY <1>5, <1>6, <1>7, <1>8, <1>9, <1>10 DEF LogInv

-----------------------------------------------------------------------------
\* candidacies, the end of an election, and appends

\* What p saved last holds the log of p.
LEMMA SaveWritesLog ==
  ASSUME TypeInv, TypeInv', NEW p \in Server, Save(p)
  PROVE  /\ memory'[p].log = rep'[p].log /\ memory'[p].snapshot = rep'[p].snapshot
         /\ memory'[p].commitIndex = rep'[p].commitIndex
         /\ memory'[p].currentTerm = currentTerm'[p]
         /\ \A s \in Server : s # p => memory'[s] = memory[s]
  <1>. DEFINE d == PersistentData(p)'
  <1>1. memory' = [memory EXCEPT ![p] = d]
    BY DEF Save
  <1>2. /\ d.log = rep'[p].log /\ d.snapshot = rep'[p].snapshot
        /\ d.commitIndex = rep'[p].commitIndex /\ d.currentTerm = currentTerm'[p]
    BY DEF PersistentData
  <1>. HIDE DEF d
  <1>. QED BY <1>1, <1>2 DEF TypeInv, TypeOK, StorageTypes

\* A save keeps LogIsSaved when the log of p has no term past that of p.
LEMMA SaveKeepsLog ==
  ASSUME TypeInv, TypeInv', LogInv, NEW p \in Server, Save(p),
         currentTerm'[p] >= currentTerm[p],
         \A i \in Positions(Chunk(rep'[p])) : TermIn(Chunk(rep'[p]), i) <= currentTerm'[p],
         \A s \in Server : s # p => rep'[s] = rep[s] /\ currentTerm'[s] = currentTerm[s]
  PROVE  /\ LogIsSaved'
         /\ \A s \in Server : memory[s].currentTerm <= memory'[s].currentTerm
  <1>1. /\ memory'[p].log = rep'[p].log /\ memory'[p].snapshot = rep'[p].snapshot
        /\ memory'[p].currentTerm = currentTerm'[p]
        /\ \A s \in Server : s # p => memory'[s] = memory[s]
    BY SaveWritesLog
  <1>2. \A s \in Server : /\ currentTerm[s] \in Nat /\ currentTerm'[s] \in Nat
                          /\ memory[s].currentTerm \in Nat /\ memory'[s].currentTerm \in Nat
    BY DEF TypeInv, TypeOK, PeerTypes, StorageTypes, Data
  <1>3. \A s \in Server : memory[s].currentTerm <= memory'[s].currentTerm
    BY <1>1, <1>2 DEF LogInv, LogIsSaved
  <1>4. ASSUME NEW s \in Server
        PROVE  /\ memory'[s].log = rep'[s].log
               /\ memory'[s].snapshot = rep'[s].snapshot
               /\ memory'[s].currentTerm <= currentTerm'[s]
               /\ \A i \in Positions(Chunk(rep'[s])) :
                    TermIn(Chunk(rep'[s]), i) <= memory'[s].currentTerm
    <2>1. CASE s = p
      BY <1>1, <1>2, <2>1
    <2>2. CASE s # p
      <3>1. memory'[s] = memory[s] /\ rep'[s] = rep[s] /\ currentTerm'[s] = currentTerm[s]
        BY <1>1, <2>2
      <3>. QED BY <3>1 DEF LogInv, LogIsSaved
    <2>. QED BY <2>1, <2>2
  <1>. QED BY <1>3, <1>4 DEF LogIsSaved

LEMMA LogTerms ==
  ASSUME TypeInv, LogInv, NEW p \in Server
  PROVE  /\ currentTerm[p] \in Nat /\ memory[p].currentTerm \in Nat
         /\ memory[p].currentTerm <= currentTerm[p]
         /\ \A i \in Positions(Chunk(rep[p])) : /\ TermIn(Chunk(rep[p]), i) \in Nat
                                               /\ TermIn(Chunk(rep[p]), i) <= currentTerm[p]
  <1>1. currentTerm[p] \in Nat /\ memory[p].currentTerm \in Nat
    BY DEF TypeInv, TypeOK, PeerTypes, StorageTypes, Data
  <1>2. IsChunk(Chunk(rep[p]))
    BY ChunkOfReplica DEF TypeInv, TypeOK, ReplicaTypes
  <1>3. \A i \in Positions(Chunk(rep[p])) : TermIn(Chunk(rep[p]), i) \in Nat
    BY <1>2, ChunkParts
  <1>4. /\ memory[p].currentTerm <= currentTerm[p]
        /\ \A i \in Positions(Chunk(rep[p])) :
             TermIn(Chunk(rep[p]), i) <= memory[p].currentTerm
    BY DEF LogInv, LogIsSaved
  <1>. QED BY <1>1, <1>3, <1>4

LEMMA CandidacyStep ==
  ASSUME TypeInv, TypeInv', NoSnapshotIsSent, LogInv, NEW p \in Server, StartElection(p),
         state' = [state EXCEPT ![p] = Candidate],
         UNCHANGED <<rep, request, lateRequests>>
  PROVE  LogInv'
  <1>. DEFINE term == currentTerm[p] + 1
              last == LastIndex(rep[p])
              m0   == [cand |-> p, term |-> term, lastLogIndex |-> last,
                       lastLogTerm |-> TermAt(rep[p], last)]
  <1>1. /\ currentTerm' = [currentTerm EXCEPT ![p] = term]
        /\ ballots' = ballots \cup {<<p, term, p>>}
        /\ voteRequests' = voteRequests \cup {m0}
        /\ Save(p)
    BY DEF StartElection
  <1>2. rep[p] \in Replica /\ IsChunk(Chunk(rep[p])) /\ last = LastSent(Chunk(rep[p]))
        /\ last \in Positions(Chunk(rep[p])) /\ TermAt(rep[p], last) = TermIn(Chunk(rep[p]), last)
    BY ChunkOfReplica, ChunkParts DEF TypeInv, TypeOK, ReplicaTypes
  <1>3. /\ m0.cand = p /\ m0.term = term /\ m0.lastLogIndex = last
        /\ m0.lastLogTerm = TermIn(Chunk(rep[p]), last)
    BY <1>2
  <1>4. /\ currentTerm[p] \in Nat /\ memory[p].currentTerm \in Nat
        /\ memory[p].currentTerm <= currentTerm[p]
        /\ \A i \in Positions(Chunk(rep[p])) : /\ TermIn(Chunk(rep[p]), i) \in Nat
                                              /\ TermIn(Chunk(rep[p]), i) <= currentTerm[p]
    BY LogTerms
  <1>5. /\ currentTerm'[p] = term /\ state'[p] = Candidate
        /\ \A s \in Server : s # p => currentTerm'[s] = currentTerm[s] /\ state'[s] = state[s]
    BY <1>1 DEF TypeInv, TypeOK, PeerTypes
  <1>. HIDE DEF m0, last
  <1>6. term \in Nat /\ term > currentTerm[p]
    BY <1>4
  <1>. HIDE DEF term
  <1>7. LogIsSaved' /\ \A s \in Server : memory[s].currentTerm <= memory'[s].currentTerm
    <2>1. \A i \in Positions(Chunk(rep'[p])) : TermIn(Chunk(rep'[p]), i) <= currentTerm'[p]
      BY <1>4, <1>5, <1>6
    <2>. QED BY <1>1, <1>4, <1>5, <1>6, <2>1, SaveKeepsLog
  <1>8. memory'[p].currentTerm = term
    BY <1>1, <1>5, SaveWritesLog
  <1>9. VotesGrow
    BY <1>1 DEF VotesGrow
  <1>10. \A m \in voteRequests : /\ m.cand \in Server /\ m.term \in Nat
                                 /\ memory[m.cand].currentTerm \in Nat
                                 /\ memory'[m.cand].currentTerm \in Nat
                                 /\ m.term <= memory[m.cand].currentTerm
    BY DEF TypeInv, TypeOK, ElectionTypes, StorageTypes, Data, LogInv, CandidaciesAreSaved
  <1>11. CandidaciesAreSaved'
    <2>1. ASSUME NEW m \in voteRequests, m.cand = p PROVE m.term < term
      BY <1>4, <1>6, <1>10, <2>1
    <2>2. \A m, n \in voteRequests' : m.cand = n.cand /\ m.term = n.term => m = n
      <3>. SUFFICES ASSUME NEW m \in voteRequests', NEW n \in voteRequests',
                           m.cand = n.cand, m.term = n.term
                    PROVE  m = n
        OBVIOUS
      <3>1. CASE m \in voteRequests /\ n \in voteRequests
        BY <3>1 DEF LogInv, CandidaciesAreSaved
      <3>2. CASE m = m0 /\ n \in voteRequests
        BY <3>2, <1>3, <1>6, <1>10, <2>1
      <3>3. CASE n = m0 /\ m \in voteRequests
        BY <3>3, <1>3, <1>6, <1>10, <2>1
      <3>. QED BY <1>1, <3>1, <3>2, <3>3
    <2>3. ASSUME NEW m \in voteRequests'
          PROVE  m.lastLogTerm < m.term /\ m.term <= memory'[m.cand].currentTerm
      <3>1. CASE m = m0
        BY <3>1, <1>2, <1>3, <1>4, <1>6, <1>8
      <3>2. CASE m \in voteRequests
        BY <3>2, <1>7, <1>10 DEF LogInv, CandidaciesAreSaved
      <3>. QED BY <1>1, <3>1, <3>2
    <2>4. \A b \in ballots' : \E m \in voteRequests' : m.cand = b[3] /\ m.term = b[2]
      BY <1>1, <1>3 DEF LogInv, CandidaciesAreSaved
    <2>. QED BY <2>2, <2>3, <2>4 DEF CandidaciesAreSaved
  <1>12. CandidatesKeepTheirLogs'
    <2>. SUFFICES ASSUME NEW s \in Server, state'[s] = Candidate
                  PROVE  \E m \in voteRequests' :
                           /\ m.cand = s /\ m.term = currentTerm'[s]
                           /\ m.lastLogIndex = LastIndex(rep[s])
                           /\ m.lastLogTerm = TermIn(Chunk(rep[s]), LastIndex(rep[s]))
      BY DEF CandidatesKeepTheirLogs
    <2>1. CASE s = p
      BY <2>1, <1>1, <1>3, <1>5 DEF last
    <2>2. CASE s # p
      <3>1. state[s] = Candidate /\ currentTerm'[s] = currentTerm[s]
        BY <2>2, <1>5
      <3>. QED BY <1>1, <3>1 DEF LogInv, CandidatesKeepTheirLogs
    <2>. QED BY <2>1, <2>2
  <1>13. LeadersOnlyAppend'
    <2>. SUFFICES ASSUME NEW s \in Server, state'[s] = Leader
                  PROVE  \E m \in voteRequests' :
                           /\ Elected(m)' /\ m.cand = s /\ m.term = currentTerm'[s]
                           /\ FromLeader(Chunk(rep[s]), m)
      BY DEF LeadersOnlyAppend
    <2>1. state[s] = Leader /\ currentTerm'[s] = currentTerm[s]
      BY <1>5 DEF Leader, Candidate
    <2>2. PICK m \in voteRequests : /\ Elected(m) /\ m.cand = s /\ m.term = currentTerm[s]
                                    /\ FromLeader(Chunk(rep[s]), m)
      BY <2>1 DEF LogInv, LeadersOnlyAppend
    <2>. QED BY <1>1, <1>9, <2>1, <2>2, ElectedStays
  <1>14. Requests' = Requests /\ Chunks' = Chunks
    BY DEF Requests, Chunks
  <1>15. RequestsAreLeaders'
    <2>. SUFFICES ASSUME NEW c \in Requests
                  PROVE  \E m \in voteRequests' : /\ Elected(m)' /\ m.term = c.term
                                                  /\ FromLeader(c, m)
      BY <1>14 DEF RequestsAreLeaders
    <2>1. PICK m \in voteRequests : Elected(m) /\ m.term = c.term /\ FromLeader(c, m)
      BY DEF LogInv, RequestsAreLeaders
    <2>. QED BY <1>1, <1>9, <2>1, ElectedStays
  <1>16. LinksAgree' /\ TermsBeginWithLeaders' /\ TermsAreWon'
    <2>1. \A s \in Server : CandidateStep(s)
      BY <1>5, <1>6 DEF CandidateStep
    <2>2. \A c \in Chunks' : Covered(c, Chunks)
      BY <1>14, ChunkTypes, ChunkIsCovered
    <2>. QED BY <1>9, <2>1, <2>2, EntriesInherited
  <1>17. LeadersKeepTheirTerm'
    <2>1. \A s \in Server : state'[s] = Leader => state[s] = Leader /\ currentTerm'[s] = currentTerm[s]
      BY <1>5 DEF Leader, Candidate
    <2>. QED BY <1>14, <2>1 DEF LogInv, LeadersKeepTheirTerm
  <1>. QED BY <1>7, <1>11, <1>12, <1>13, <1>15, <1>16, <1>17 DEF LogInv

\* A candidate that becomes the leader of its term finds no entry of that term.
LEMMA WinStep ==
  ASSUME TypeInv, TypeInv', NoSnapshotIsSent, ElectionInv, ElectionInv', LogInv,
         NEW p \in Server, state[p] = Candidate,
         state' = [state EXCEPT ![p] = Leader], Save(p),
         UNCHANGED <<rep, currentTerm, voteRequests, ballots, request, lateRequests>>
  PROVE  LogInv'
  <1>1. state'[p] = Leader /\ \A s \in Server : s # p => state'[s] = state[s]
    BY DEF TypeInv, TypeOK, PeerTypes
  <1>2. PICK m \in voteRequests : /\ m.cand = p /\ m.term = currentTerm[p]
                                  /\ m.lastLogIndex = LastIndex(rep[p])
                                  /\ m.lastLogTerm = TermIn(Chunk(rep[p]), LastIndex(rep[p]))
    BY DEF LogInv, CandidatesKeepTheirLogs
  <1>3. Elected(m) /\ Elected(m)'
    <2>1. 2 * Cardinality(VotersFor(p, currentTerm[p])') > N
      BY <1>1 DEF ElectionInv, LeadersAreElected
    <2>2. VotersFor(p, currentTerm[p])' = VotersFor(p, currentTerm[p])
      BY DEF VotersFor
    <2>. QED BY <1>2, <2>1, <2>2 DEF Elected
  <1>4. VotesGrow /\ \A s \in Server : CandidateStep(s)
    BY <1>1 DEF VotesGrow, CandidateStep, Leader, Candidate
  <1>5. Requests' = Requests /\ Chunks' = Chunks
    BY DEF Requests, Chunks
  <1>6. LinksAgree' /\ TermsBeginWithLeaders' /\ TermsAreWon'
    <2>1. \A c \in Chunks' : Covered(c, Chunks)
      BY <1>5, ChunkTypes, ChunkIsCovered
    <2>. QED BY <1>4, <2>1, EntriesInherited
  <1>7. LogIsSaved' /\ \A s \in Server : memory[s].currentTerm <= memory'[s].currentTerm
    <2>1. \A i \in Positions(Chunk(rep'[p])) : TermIn(Chunk(rep'[p]), i) <= currentTerm'[p]
      BY LogTerms
    <2>2. currentTerm'[p] >= currentTerm[p]
      BY LogTerms
    <2>. QED BY <2>1, <2>2, SaveKeepsLog
  <1>8. CandidaciesAreSaved'
    <2>1. \A n \in voteRequests : /\ n.cand \in Server /\ n.term \in Nat
                                  /\ memory[n.cand].currentTerm \in Nat
                                  /\ memory'[n.cand].currentTerm \in Nat
      BY DEF TypeInv, TypeOK, ElectionTypes, StorageTypes, Data
    <2>2. \A n \in voteRequests : n.term <= memory'[n.cand].currentTerm
      BY <1>7, <2>1 DEF LogInv, CandidaciesAreSaved
    <2>. QED BY <2>2 DEF LogInv, CandidaciesAreSaved
  <1>9. CandidatesKeepTheirLogs'
    <2>1. \A s \in Server : state'[s] = Candidate => state[s] = Candidate
      BY <1>1 DEF Leader, Candidate
    <2>. QED BY <2>1 DEF LogInv, CandidatesKeepTheirLogs
  <1>10. LeadersOnlyAppend'
    <2>. SUFFICES ASSUME NEW s \in Server, state'[s] = Leader
                  PROVE  \E n \in voteRequests :
                           /\ Elected(n)' /\ n.cand = s /\ n.term = currentTerm[s]
                           /\ FromLeader(Chunk(rep[s]), n)
      BY DEF LeadersOnlyAppend
    <2>1. CASE s = p
      <3>1. LastIndex(rep[p]) = LastSent(Chunk(rep[p])) /\ LastIndex(rep[p]) \in Int
            /\ \A i \in Positions(Chunk(rep[p])) : i \in Int /\ i <= LastIndex(rep[p])
        BY ChunkOfReplica, ReplicaParts DEF TypeInv, TypeOK, ReplicaTypes
      <3>2. FromLeader(Chunk(rep[p]), m)
        BY <1>2, <3>1 DEF FromLeader
      <3>. QED BY <1>2, <1>3, <2>1, <3>2
    <2>2. CASE s # p
      <3>1. PICK n \in voteRequests : /\ Elected(n) /\ n.cand = s /\ n.term = currentTerm[s]
                                      /\ FromLeader(Chunk(rep[s]), n)
        BY <1>1, <2>2 DEF LogInv, LeadersOnlyAppend
      <3>. QED BY <1>4, <3>1, ElectedStays
    <2>. QED BY <2>1, <2>2
  <1>11. RequestsAreLeaders'
    <2>1. \A n : Elected(n) => Elected(n)'
      BY <1>4, ElectedStays
    <2>. QED BY <1>5, <2>1 DEF LogInv, RequestsAreLeaders
  <1>12. LeadersKeepTheirTerm'
    <2>. SUFFICES ASSUME NEW s \in Server, state'[s] = Leader, NEW c \in Chunks,
                         NEW i \in Indices(c), TermIn(c, i) = currentTerm[s]
                  PROVE  i <= LastIndex(rep[s])
      BY <1>5 DEF LeadersKeepTheirTerm
    <2>1. CASE s = p
      <3>1. TermIn(c, i) > 0
        BY <1>2, <2>1 DEF TypeInv, TypeOK, ElectionTypes, LogInv, CandidaciesAreSaved
      <3>2. i \in Positions(c)
        BY ChunkTypes, ChunkParts
      <3>3. PICK n \in voteRequests : Elected(n) /\ n.term = TermIn(c, i) /\ Over(n)
        BY <3>1, <3>2 DEF LogInv, TermsAreWon
      <3>4. n = m
        BY <1>2, <1>3, <2>1, <3>3, ElectedOnce DEF LogInv
      <3>. QED BY <1>2, <2>1, <3>3, <3>4 DEF Over
    <2>2. CASE s # p
      BY <1>1, <2>2 DEF LogInv, LeadersKeepTheirTerm
    <2>. QED BY <2>1, <2>2
  <1>. QED BY <1>6, <1>7, <1>8, <1>9, <1>10, <1>11, <1>12 DEF LogInv

\* A log with an entry appended holds what it held, and that entry.
LEMMA AppendedChunk ==
  ASSUME NEW r \in Replica, NEW e \in Entry
  PROVE  LET c == Chunk(r)
             x == Chunk(AppendEntry(r, e))
             n == LastIndex(r) + 1
         IN  /\ n \in Int /\ n - 1 \in Positions(c)
             /\ IsChunk(x) /\ x.prevLogIndex = c.prevLogIndex
             /\ LastSent(x) = n /\ LastIndex(AppendEntry(r, e)) = n /\ LastSent(c) = n - 1
             /\ Positions(x) = Positions(c) \cup {n} /\ Indices(x) = Indices(c) \cup {n}
             /\ n \notin Positions(c)
             /\ \A i \in Positions(c) : TermIn(x, i) = TermIn(c, i)
             /\ \A i \in Indices(c) : CmdIn(x, i) = CmdIn(c, i)
             /\ TermIn(x, n) = e.term
  <1>. DEFINE c == Chunk(r)
              s == AppendEntry(r, e)
              x == Chunk(s)
              n == LastIndex(r) + 1
  <1>1. /\ r.log \in Seq(Entry) /\ Len(r.log) \in Nat /\ Base(r) \in Int /\ Base(r) >= -1
        /\ LastIndex(r) = Len(r.log) + Base(r)
    BY ReplicaParts
  <1>2. /\ s.log = Append(r.log, e) /\ s.snapshot = r.snapshot
        /\ s \in Replica
    <2>1. Append(r.log, e) \in Seq(Entry)
      BY <1>1
    <2>. QED BY <2>1 DEF AppendEntry, Replica
  <1>3. /\ s.log \in Seq(Entry) /\ Len(s.log) = Len(r.log) + 1
        /\ \A i \in 1 .. Len(r.log) : s.log[i] = r.log[i]
        /\ s.log[Len(r.log) + 1] = e
    BY <1>1, <1>2
  <1>4. Base(s) = Base(r) /\ LastIndex(s) = n
    <2>1. Base(s) = Base(r)
      BY <1>2 DEF Base
    <2>2. LastIndex(s) = Len(s.log) + Base(s)
      BY <1>2, ReplicaParts
    <2>. HIDE DEF s
    <2>. QED BY <1>1, <1>3, <2>1, <2>2
  <1>5. /\ IsChunk(x) /\ x.prevLogIndex = Base(r) /\ x.entries = s.log
        /\ LastSent(x) = n /\ Positions(x) = Base(r) .. n /\ Indices(x) = Base(r) + 1 .. n
        /\ \A i : TermIn(x, i) = TermAt(s, i)
    BY <1>2, <1>4, ChunkOfReplica
  <1>6. /\ IsChunk(c) /\ c.prevLogIndex = Base(r) /\ c.entries = r.log
        /\ LastSent(c) = LastIndex(r) /\ Positions(c) = Base(r) .. LastIndex(r)
        /\ Indices(c) = Base(r) + 1 .. LastIndex(r)
        /\ \A i : TermIn(c, i) = TermAt(r, i)
    BY ChunkOfReplica
  <1>. HIDE DEF c, x, s
  <1>7. \A i \in Base(r) + 1 .. LastIndex(r) : s.log[i - Base(r)] = r.log[i - Base(r)]
    <2>1. \A i \in Base(r) + 1 .. LastIndex(r) : i - Base(r) \in 1 .. Len(r.log)
      BY <1>1
    <2>. QED BY <2>1, <1>3
  <1>8. \A i \in Positions(c) : TermIn(x, i) = TermIn(c, i)
    <2>. SUFFICES ASSUME NEW i \in Positions(c) PROVE TermAt(s, i) = TermAt(r, i)
      BY <1>5, <1>6
    <2>1. CASE i = Base(r)
      BY <1>2, <1>4, <2>1 DEF TermAt
    <2>2. CASE i # Base(r)
      <3>1. i \in Base(r) + 1 .. LastIndex(r)
        BY <1>1, <1>6, <2>2
      <3>. QED BY <1>4, <1>7, <2>2, <3>1 DEF TermAt
    <2>. QED BY <2>1, <2>2
  <1>9. \A i \in Indices(c) : CmdIn(x, i) = CmdIn(c, i)
    BY <1>5, <1>6, <1>7 DEF CmdIn
  <1>10. TermIn(x, n) = e.term
    <2>1. n - Base(r) = Len(r.log) + 1 /\ n # Base(s)
      BY <1>1, <1>4
    <2>. QED BY <2>1, <1>3, <1>4, <1>5 DEF TermAt
  <1>11. /\ n \in Int /\ n - 1 \in Positions(c) /\ n \notin Positions(c)
         /\ Positions(x) = Positions(c) \cup {n} /\ Indices(x) = Indices(c) \cup {n}
         /\ LastSent(c) = n - 1
    <2>1. \A b, l \in Int : b <= l + 1 => /\ b .. l + 1 = (b .. l) \cup {l + 1}
                                         /\ l + 1 \notin b .. l
                                         /\ l = (l + 1) - 1
      OBVIOUS
    <2>2. /\ Base(r) <= LastIndex(r) /\ Base(r) + 1 <= LastIndex(r) + 1
          /\ Base(r) <= LastIndex(r) + 1 /\ n \in Int /\ LastIndex(r) \in Int
          /\ Base(r) \in Int /\ Base(r) + 1 \in Int
      BY <1>1
    <2>3. /\ Base(r) .. n = (Base(r) .. LastIndex(r)) \cup {n}
          /\ n \notin Base(r) .. LastIndex(r) /\ LastIndex(r) = n - 1
          /\ Base(r) + 1 .. n = (Base(r) + 1 .. LastIndex(r)) \cup {n}
      BY <2>1, <2>2, Zenon
    <2>4. LastIndex(r) \in Base(r) .. LastIndex(r)
      BY <2>2
    <2>. QED BY <1>5, <1>6, <2>2, <2>3, <2>4, Zenon
  <1>. QED BY <1>4, <1>5, <1>6, <1>8, <1>9, <1>10, <1>11 DEF c, x, s

LEMMA AppendStep ==
  ASSUME TypeInv, TypeInv', NoSnapshotIsSent, ElectionInv, LogInv,
         NEW p \in Server, NEW cmd \in Cmd, state[p] = Leader, LeaderAppend(p, cmd),
         UNCHANGED <<state, currentTerm, voteRequests, ballots, request, lateRequests>>
  PROVE  LogInv'
  <1>. DEFINE T == currentTerm[p]
              e == [term |-> T, cmd |-> cmd]
              c == Chunk(rep[p])
              x == Chunk(AppendEntry(rep[p], e))
              n == LastIndex(rep[p]) + 1
  <1>1. T \in Nat /\ e \in Entry /\ e.term = T /\ rep[p] \in Replica
    BY DEF TypeInv, TypeOK, PeerTypes, ReplicaTypes, Entry
  <1>2. /\ n \in Int /\ n - 1 \in Positions(c)
        /\ IsChunk(x) /\ x.prevLogIndex = c.prevLogIndex
        /\ LastSent(x) = n /\ LastIndex(AppendEntry(rep[p], e)) = n /\ LastSent(c) = n - 1
        /\ Positions(x) = Positions(c) \cup {n} /\ Indices(x) = Indices(c) \cup {n}
        /\ n \notin Positions(c)
        /\ \A i \in Positions(c) : TermIn(x, i) = TermIn(c, i)
        /\ \A i \in Indices(c) : CmdIn(x, i) = CmdIn(c, i)
        /\ TermIn(x, n) = T
    BY <1>1, AppendedChunk
  <1>3. /\ rep'[p] = AppendEntry(rep[p], e)
        /\ \A s \in Server : s # p => rep'[s] = rep[s]
        /\ Save(p)
    BY DEF LeaderAppend, TypeInv, TypeOK, ReplicaTypes
  <1>4. Chunk(rep'[p]) = x /\ LastIndex(rep'[p]) = n /\ n - 1 = LastIndex(rep[p])
    <2>1. LastIndex(rep[p]) \in Int
      BY <1>1, ReplicaParts
    <2>. QED BY <1>2, <1>3, <2>1
  <1>5. c \in Chunks /\ IsChunk(c)
    BY ChunkTypes DEF Chunks
  <1>6. \A d \in Chunks' : d \in Chunks \/ d = x
    BY <1>3 DEF Chunks, Requests
  <1>7. /\ memory[p].currentTerm <= T
        /\ \A i \in Positions(c) : TermIn(c, i) \in Nat /\ TermIn(c, i) <= T
    BY LogTerms
  <1>8. \A i \in Indices(c) : SameLink(c, x, i)
    BY <1>2, <1>5, ChunkParts DEF SameLink
  <1>9. PICK m \in voteRequests : /\ Elected(m) /\ m.cand = p /\ m.term = T
                                  /\ FromLeader(c, m)
    BY DEF LogInv, LeadersOnlyAppend
  <1>10. \A d \in Chunks : \A i \in Indices(d) : TermIn(d, i) = T => i <= n - 1
    BY <1>4 DEF LogInv, LeadersKeepTheirTerm
  <1>11. /\ m.lastLogIndex \in Nat /\ m.lastLogTerm \in Nat /\ m.lastLogTerm < m.term
         /\ m.term > 0
    BY DEF TypeInv, TypeOK, ElectionTypes, LogInv, CandidaciesAreSaved
  <1>. HIDE DEF c, x, n, e
  <1>12. \A r : Elected(r) => Elected(r)'
    BY DEF Elected, VotersFor
  <1>13. \A r : Over(r) => Over(r)'
    BY DEF Over
  <1>14. LogIsSaved' /\ \A s \in Server : memory[s].currentTerm <= memory'[s].currentTerm
    <2>1. \A i \in Positions(x) : TermIn(x, i) <= currentTerm'[p]
      BY <1>1, <1>2, <1>7
    <2>. QED BY <1>1, <1>3, <1>4, <2>1, SaveKeepsLog
  <1>15. CandidaciesAreSaved'
    <2>1. \A r \in voteRequests : /\ r.cand \in Server /\ r.term \in Nat
                                  /\ memory[r.cand].currentTerm \in Nat
                                  /\ memory'[r.cand].currentTerm \in Nat
      BY DEF TypeInv, TypeOK, ElectionTypes, StorageTypes, Data
    <2>2. \A r \in voteRequests : r.term <= memory'[r.cand].currentTerm
      BY <1>14, <2>1 DEF LogInv, CandidaciesAreSaved
    <2>. QED BY <2>2 DEF LogInv, CandidaciesAreSaved
  <1>16. CandidatesKeepTheirLogs'
    <2>1. \A s \in Server : state[s] = Candidate => rep'[s] = rep[s]
      BY <1>3 DEF Leader, Candidate
    <2>. QED BY <2>1 DEF LogInv, CandidatesKeepTheirLogs
  <1>17. LeadersOnlyAppend'
    <2>. SUFFICES ASSUME NEW s \in Server, state[s] = Leader
                  PROVE  \E r \in voteRequests :
                           /\ Elected(r)' /\ r.cand = s /\ r.term = currentTerm[s]
                           /\ FromLeader(Chunk(rep'[s]), r)
      BY DEF LeadersOnlyAppend
    <2>1. CASE s = p
      <3>1. FromLeader(x, m)
        BY <1>2, <1>9, <1>11 DEF FromLeader
      <3>. QED BY <1>4, <1>9, <1>12, <2>1, <3>1
    <2>2. CASE s # p
      BY <1>3, <1>12, <2>2 DEF LogInv, LeadersOnlyAppend
    <2>. QED BY <2>1, <2>2
  <1>18. RequestsAreLeaders'
    BY <1>12 DEF LogInv, RequestsAreLeaders, Requests
  <1>19. LinksAgree'
    <2>. SUFFICES ASSUME NEW a \in Chunks', NEW b \in Chunks',
                         NEW i \in Indices(a) \cap Indices(b), TermIn(a, i) = TermIn(b, i)
                  PROVE  SameLink(a, b, i)
      BY DEF LinksAgree
    <2>1. CASE a \in Chunks /\ b \in Chunks
      BY <2>1 DEF LogInv, LinksAgree
    <2>2. ASSUME NEW d \in Chunks, i \in Indices(x) \cap Indices(d), TermIn(x, i) = TermIn(d, i)
          PROVE  SameLink(x, d, i)
      <3>1. CASE i \in Indices(c)
        <4>1. SameLink(c, d, i)
          BY <1>5, <1>8, <2>2, <3>1 DEF LogInv, LinksAgree, SameLink
        <4>. QED BY <1>8, <3>1, <4>1 DEF SameLink
      <3>2. CASE i = n
        BY <1>2, <1>10, <2>2, <3>2
      <3>. QED BY <1>2, <2>2, <3>1, <3>2
    <2>3. CASE a = x /\ b = x
      BY <2>3 DEF SameLink
    <2>4. CASE a = x /\ b \in Chunks
      BY <2>2, <2>4
    <2>5. CASE a \in Chunks /\ b = x
      <3>1. SameLink(b, a, i)
        BY <2>2, <2>5
      <3>. QED BY <3>1 DEF SameLink
    <2>. QED BY <1>6, <2>1, <2>3, <2>4, <2>5
  <1>20. TermsBeginWithLeaders'
    <2>. SUFFICES ASSUME NEW d \in Chunks', NEW i \in Indices(d)
                  PROVE  /\ TermIn(d, i - 1) <= TermIn(d, i)
                         /\ TermIn(d, i - 1) < TermIn(d, i) =>
                              \E r \in voteRequests : /\ Elected(r)' /\ r.term = TermIn(d, i)
                                                      /\ r.lastLogIndex = i - 1
                                                      /\ r.lastLogTerm = TermIn(d, i - 1)
      BY DEF TermsBeginWithLeaders
    <2>1. CASE d \in Chunks
      BY <1>12, <2>1 DEF LogInv, TermsBeginWithLeaders
    <2>2. CASE d = x /\ i \in Indices(c)
      <3>1. TermIn(d, i) = TermIn(c, i) /\ TermIn(d, i - 1) = TermIn(c, i - 1)
        BY <1>8, <2>2 DEF SameLink
      <3>. QED BY <1>5, <1>12, <2>2, <3>1 DEF LogInv, TermsBeginWithLeaders
    <2>3. CASE d = x /\ i = n
      <3>1. TermIn(d, i - 1) = TermIn(c, n - 1) /\ TermIn(d, i) = T
        BY <1>2, <2>3
      <3>2. TermIn(c, n - 1) \in Nat /\ TermIn(c, n - 1) <= T
        BY <1>2, <1>7
      <3>3. TermIn(c, n - 1) < T => n - 1 = m.lastLogIndex /\ TermIn(c, n - 1) = m.lastLogTerm
        BY <1>1, <1>2, <1>9, <1>11, <3>2 DEF FromLeader
      <3>. QED BY <1>9, <1>12, <2>3, <3>1, <3>2, <3>3
    <2>. QED BY <1>2, <1>6, <2>1, <2>2, <2>3
  <1>21. TermsAreWon'
    <2>. SUFFICES ASSUME NEW d \in Chunks', NEW i \in Positions(d), TermIn(d, i) > 0
                  PROVE  \E r \in voteRequests : /\ Elected(r)' /\ r.term = TermIn(d, i)
                                                 /\ r.lastLogIndex < i /\ Over(r)'
      BY DEF TermsAreWon
    <2>1. CASE d \in Chunks
      BY <1>12, <1>13, <2>1 DEF LogInv, TermsAreWon
    <2>2. CASE d = x /\ i \in Positions(c)
      <3>1. TermIn(d, i) = TermIn(c, i)
        BY <1>2, <2>2
      <3>. QED BY <1>5, <1>12, <1>13, <2>2, <3>1 DEF LogInv, TermsAreWon
    <2>3. CASE d = x /\ i = n
      <3>1. m.lastLogIndex < n
        BY <1>2, <1>9, <1>11 DEF FromLeader
      <3>2. Over(m)
        BY <1>9 DEF Over, Leader, Candidate
      <3>. QED BY <1>2, <1>9, <1>12, <1>13, <2>3, <3>1, <3>2
    <2>. QED BY <1>2, <1>6, <2>1, <2>2, <2>3
  <1>22. LeadersKeepTheirTerm'
    <2>. SUFFICES ASSUME NEW s \in Server, state[s] = Leader, NEW d \in Chunks',
                         NEW i \in Indices(d), TermIn(d, i) = currentTerm[s]
                  PROVE  i <= LastIndex(rep'[s])
      BY DEF LeadersKeepTheirTerm
    <2>1. LastIndex(rep[s]) \in Int /\ LastIndex(rep[s]) <= LastIndex(rep'[s])
          /\ LastIndex(rep'[s]) \in Int
      <3>1. LastIndex(rep[s]) \in Int /\ LastIndex(rep'[s]) \in Int
        BY ReplicaParts DEF TypeInv, TypeOK, ReplicaTypes
      <3>. QED BY <1>2, <1>3, <1>4, <3>1
    <2>2. ASSUME NEW y \in Chunks, i \in Indices(y), TermIn(y, i) = currentTerm[s]
          PROVE  i <= LastIndex(rep'[s])
      <3>1. i <= LastIndex(rep[s])
        BY <2>2 DEF LogInv, LeadersKeepTheirTerm
      <3>2. i \in Int
        BY <2>2, ChunkTypes DEF Indices, IsChunk
      <3>. QED BY <2>1, <3>1, <3>2
    <2>3. CASE d = x /\ i \in Indices(c)
      <3>1. TermIn(c, i) = currentTerm[s]
        BY <1>8, <2>3 DEF SameLink
      <3>. QED BY <1>5, <2>2, <2>3, <3>1
    <2>4. CASE d = x /\ i = n
      <3>1. ElectionSafety
        BY ElectionInvImpliesSafety
      <3>2. s = p
        BY <1>2, <2>4, <3>1 DEF ElectionSafety
      <3>. QED BY <1>2, <1>4, <2>4, <3>2
    <2>. QED BY <1>2, <1>6, <2>2, <2>3, <2>4
  <1>. QED BY <1>14, <1>15, <1>16, <1>17, <1>18, <1>19, <1>20, <1>21, <1>22 DEF LogInv

-----------------------------------------------------------------------------
\* what the handlers do to a chunk

LEMMA StretchOfSequence ==
  ASSUME NEW S, NEW s \in Seq(S), NEW k \in Int, NEW n \in Int,
         1 <= k, k <= n + 1, n <= Len(s)
  PROVE  /\ SubSeq(s, k, n) \in Seq(S)
         /\ Len(SubSeq(s, k, n)) = n - k + 1
         /\ \A j \in 1 .. n - k + 1 : SubSeq(s, k, n)[j] = s[(k + j) - 1]
  OBVIOUS

\* The entries of a replica from prev + 1 on.
LEMMA SuffixChunk ==
  ASSUME NEW r \in Replica, NEW prev \in Int, Base(r) <= prev, prev <= LastIndex(r),
         NEW c, c.prevLogIndex = prev, c.prevLogTerm = TermAt(r, prev),
         c.entries = SuffixFrom(r, prev + 1)
  PROVE  SuffixOf(c, Chunk(r)) /\ LastSent(c) = LastIndex(r)
  <1>. DEFINE d == Chunk(r)
              k == prev + 1 - Base(r)
  <1>1. /\ r.log \in Seq(Entry) /\ Len(r.log) \in Nat /\ Base(r) \in Int /\ Base(r) >= -1
        /\ LastIndex(r) = Len(r.log) + Base(r)
    BY ReplicaParts
  <1>2. k \in 1 .. Len(r.log) + 1 /\ k = prev + 1 - Base(r)
    BY <1>1
  <1>3. c.entries = SubSeq(r.log, k, Len(r.log))
    <2>1. (prev + 1) - Base(r) = k
      BY <1>1
    <2>. QED BY <2>1 DEF SuffixFrom
  <1>4. /\ c.entries \in Seq(Entry) /\ Len(c.entries) = Len(r.log) - k + 1
        /\ \A j \in 1 .. Len(c.entries) : c.entries[j] = r.log[(k + j) - 1]
    <2>. DEFINE L == Len(r.log)
    <2>1. k \in Int /\ L \in Int /\ 1 <= k /\ k <= L + 1 /\ L <= Len(r.log)
      BY <1>1, <1>2
    <2>. HIDE DEF k, L
    <2>2. /\ SubSeq(r.log, k, L) \in Seq(Entry) /\ Len(SubSeq(r.log, k, L)) = L - k + 1
          /\ \A j \in 1 .. L - k + 1 : SubSeq(r.log, k, L)[j] = r.log[(k + j) - 1]
      BY <1>1, <2>1
    <2>3. c.entries = SubSeq(r.log, k, L)
      BY <1>3 DEF L
    <2>. QED BY <2>2, <2>3 DEF L
  <1>5. TermAt(r, prev) \in Nat
    BY TermAtIsNat
  <1>6. IsChunk(c)
    BY <1>1, <1>4, <1>5 DEF IsChunk
  <1>7. LastSent(c) = LastIndex(r)
    <2>1. LastSent(c) = prev + (Len(r.log) - k + 1)
      BY <1>4 DEF LastSent
    <2>. QED BY <1>1, <1>2, <2>1
  <1>8. /\ d.prevLogIndex = Base(r) /\ d.entries = r.log /\ LastSent(d) = LastIndex(r)
        /\ \A i : TermIn(d, i) = TermAt(r, i)
    BY ChunkOfReplica
  <1>9. ASSUME NEW i \in Indices(c)
        PROVE  /\ i # Base(r) /\ i # prev
               /\ c.entries[i - prev] = r.log[i - Base(r)]
    <2>1. i - prev \in 1 .. Len(c.entries) /\ i > prev /\ i \in Int
      BY <1>1, <1>4, <1>7 DEF Indices
    <2>2. c.entries[i - prev] = r.log[(k + (i - prev)) - 1]
      BY <1>4, <2>1
    <2>3. (k + (i - prev)) - 1 = i - Base(r)
      <3>1. \A b, pr, n \in Int : ((pr + 1 - b) + (n - pr)) - 1 = n - b
        OBVIOUS
      <3>. QED BY <1>1, <2>1, <3>1
    <2>. QED BY <2>1, <2>2, <2>3
  <1>10. ASSUME NEW i \in Positions(c) PROVE TermIn(c, i) = TermIn(d, i)
    <2>1. CASE i = prev
      BY <1>8, <2>1 DEF TermIn
    <2>2. CASE i # prev
      <3>1. i \in Indices(c)
        BY <1>6, <1>7, <2>2, <1>1 DEF Positions, Indices
      <3>2. TermIn(c, i) = c.entries[i - prev].term
        BY <2>2 DEF TermIn
      <3>. QED BY <1>8, <1>9, <3>1, <3>2 DEF TermAt
    <2>. QED BY <2>1, <2>2
  <1>11. \A i \in Indices(c) : CmdIn(c, i) = CmdIn(d, i)
    BY <1>8, <1>9 DEF CmdIn
  <1>. HIDE DEF d
  <1>12. SuffixOf(c, d)
    BY <1>6, <1>7, <1>8, <1>10, <1>11 DEF SuffixOf
  <1>. QED BY <1>7, <1>12 DEF d

\* Applying entries leaves the log alone, but for the front a snapshot takes.
LEMMA CommitSuffix ==
  ASSUME NEW r, Sound(r), NEW idx \in Nat
  PROVE  SuffixOf(Chunk(UpdateCommitIndex(r, idx)), Chunk(r))
  <1>. DEFINE new == Lesser(idx, LastIndex(r))
              a   == ApplyUpTo(r, new)
              i   == LastSnapshot(r, new)
              t   == TakeSnapshot(a, i)
  <1>1. r \in Replica /\ WellFormed(r.log, r.snapshot, r.commitIndex)
    BY DEF Sound
  <1>2. /\ r.commitIndex \in Nat /\ Base(r) \in Int /\ LastIndex(r) \in Nat
        /\ Base(r) <= r.commitIndex
    BY <1>1, ReplicaParts, LastIndexIsNat DEF WellFormed, Base
  <1>3. new \in Nat /\ new <= LastIndex(r)
    BY <1>2 DEF Lesser
  <1>4. SuffixOf(Chunk(r), Chunk(r))
    BY <1>1, ChunkOfReplica, SuffixOfItself
  <1>5. Chunk(a) = Chunk(r) /\ Base(a) = Base(r) /\ a.log = r.log /\ a.snapshot = r.snapshot
    BY DEF Chunk, ApplyUpTo, Base
  <1>6. CASE new <= r.commitIndex \/ new < FirstSnapshot(r)
    BY <1>4, <1>5, <1>6 DEF UpdateCommitIndex
  <1>7. CASE ~(new <= r.commitIndex \/ new < FirstSnapshot(r))
    <2>1. UpdateCommitIndex(r, idx) = t
      BY <1>7 DEF UpdateCommitIndex
    <2>2. FirstSnapshot(r) \in Nat
      BY <1>2, ThresholdAssumption DEF FirstSnapshot, Greater
    <2>. HIDE DEF new
    <2>3. i \in Nat /\ r.commitIndex < i /\ i <= new
      BY <1>1, <1>2, <1>3, <1>7, <2>2, LastSnapshotInRange
    <2>4. /\ t.log = SuffixFrom(a, i + 1) /\ t.snapshot.index = i
          /\ t.snapshot.term = TermAt(a, i)
      BY DEF TakeSnapshot
    <2>5. SuffixFrom(a, i + 1) = SuffixFrom(r, i + 1) /\ TermAt(a, i) = TermAt(r, i)
      BY <1>5 DEF SuffixFrom, TermAt
    <2>. HIDE DEF t, i, a
    <2>6. /\ Chunk(t).prevLogIndex = i /\ Chunk(t).prevLogTerm = TermAt(r, i)
          /\ Chunk(t).entries = SuffixFrom(r, i + 1)
      BY <2>4, <2>5 DEF Chunk, Base
    <2>. QED BY <1>1, <1>2, <1>3, <2>1, <2>3, <2>6, SuffixChunk
  <1>. QED BY <1>6, <1>7

(***************************************************************************)
(* What the chunk x of a receiver tells after it merged the request f into *)
(* its chunk c: its own entries up to k, where the two part, and then      *)
(* those of the request.                                                   *)
(***************************************************************************)
Merges(x, c, f, k) ==
  /\ IsChunk(x) /\ x.prevLogIndex = c.prevLogIndex
  /\ k \in Positions(c) /\ k \in Positions(f) /\ k \in Positions(x)
  /\ \A i \in Positions(f) : i <= k => TermIn(c, i) = TermIn(f, i)
  /\ k < LastSent(f) /\ k < LastSent(c) => TermIn(c, k + 1) # TermIn(f, k + 1)
  /\ f.entries = <<>> => x = c
  /\ f.entries # <<>> => LastSent(x) = LastSent(f)
  /\ \A i \in Positions(c) : i <= k => TermIn(x, i) = TermIn(c, i)
  /\ \A i \in Indices(c) : i <= k => CmdIn(x, i) = CmdIn(c, i)
  /\ f.entries # <<>> => \A i \in Indices(f) : k < i => /\ TermIn(x, i) = TermIn(f, i)
                                                        /\ CmdIn(x, i) = CmdIn(f, i)

LEMMA MergedChunk ==
  ASSUME NEW r, Sound(r), NEW f, IsChunk(f), f.prevLogIndex \in Nat,
         Readable(r, f.prevLogIndex), TermAt(r, f.prevLogIndex) = f.prevLogTerm
  PROVE  /\ MergeEntries(r, f.prevLogIndex, f.entries) \in Replica
         /\ Merges(Chunk(MergeEntries(r, f.prevLogIndex, f.entries)), Chunk(r), f,
                   f.prevLogIndex + HeldPrefix(r, f.prevLogIndex, f.entries))
  <1>. DEFINE prev == f.prevLogIndex
              held == HeldPrefix(r, prev, f.entries)
              k == prev + held
              c == Chunk(r)
              s == MergeEntries(r, prev, f.entries)
              x == Chunk(s)
  <1>1. r \in Replica
    BY DEF Sound
  <1>2. /\ r.log \in Seq(Entry) /\ Len(r.log) \in Nat /\ Base(r) \in Int /\ Base(r) >= -1
        /\ LastIndex(r) \in Int /\ LastIndex(r) = Len(r.log) + Base(r)
    BY <1>1, ReplicaParts
  <1>3. /\ f.entries \in Seq(Entry) /\ Len(f.entries) \in Nat
        /\ LastSent(f) = prev + Len(f.entries)
        /\ Positions(f) = prev .. prev + Len(f.entries)
        /\ Indices(f) = prev + 1 .. prev + Len(f.entries)
    BY DEF IsChunk, LastSent, Positions, Indices
  <1>4. Base(r) <= prev /\ prev <= LastIndex(r)
    BY <1>2 DEF Readable, LogLen, LastIndex
  <1>5. /\ held \in 0 .. Len(f.entries) /\ prev + held <= LastIndex(r)
        /\ \A n \in 0 .. held - 1 : Agrees(r, prev, f.entries, n)
        /\ held < Len(f.entries) => ~Agrees(r, prev, f.entries, held)
    BY <1>1, <1>3, <1>4, HeldPrefixBounds, HeldPrefixAgrees
  <1>6. /\ IsChunk(c) /\ c.prevLogIndex = Base(r) /\ c.entries = r.log
        /\ LastSent(c) = LastIndex(r) /\ Positions(c) = Base(r) .. LastIndex(r)
        /\ Indices(c) = Base(r) + 1 .. LastIndex(r)
        /\ \A i : TermIn(c, i) = TermAt(r, i)
    BY <1>1, ChunkOfReplica
  <1>. HIDE DEF c, held
  <1>7. /\ k \in Int /\ prev <= k /\ k <= LastSent(f) /\ k <= LastIndex(r)
        /\ k \in Positions(c) /\ k \in Positions(f)
    BY <1>2, <1>3, <1>4, <1>5, <1>6
  <1>8. \A i \in Positions(f) : i <= k => TermIn(c, i) = TermIn(f, i)
    <2>. SUFFICES ASSUME NEW i \in Positions(f), i <= k PROVE TermAt(r, i) = TermIn(f, i)
      BY <1>6
    <2>1. CASE i = prev
      BY <2>1 DEF TermIn
    <2>2. CASE i # prev
      <3>1. i - prev - 1 \in 0 .. held - 1 /\ prev + (i - prev - 1) + 1 = i
            /\ (i - prev - 1) + 1 = i - prev
        BY <1>3, <1>5, <2>2
      <3>2. Agrees(r, prev, f.entries, i - prev - 1)
        BY <1>5, <3>1
      <3>. QED BY <2>2, <3>1, <3>2 DEF Agrees, TermIn
    <2>. QED BY <2>1, <2>2
  <1>9. ASSUME k < LastSent(f), k < LastSent(c) PROVE TermIn(c, k + 1) # TermIn(f, k + 1)
    <2>1. held < Len(f.entries)
      BY <1>3, <1>5, <1>9
    <2>2. prev + held + 1 < LogLen(r)
      BY <1>2, <1>5, <1>6, <1>9 DEF LogLen
    <2>3. TermAt(r, k + 1) # f.entries[held + 1].term
      BY <1>5, <2>1, <2>2 DEF Agrees
    <2>4. TermIn(f, k + 1) = f.entries[held + 1].term
      BY <1>5 DEF TermIn
    <2>. QED BY <1>6, <2>3, <2>4
  <1>10. CASE f.entries = <<>>
    <2>1. s = r /\ x = c
      BY <1>10 DEF MergeEntries, c
    <2>2. Indices(f) = {}
      BY <1>3, <1>10
    <2>. HIDE DEF s, x, k
    <2>3. Merges(x, c, f, k)
      BY <1>6, <1>7, <1>8, <1>9, <1>10, <2>1 DEF Merges
    <2>. QED BY <1>1, <2>1, <2>3 DEF s, x, c, k, held
  <1>11. CASE f.entries # <<>>
    <2>1. /\ s \in Replica /\ Base(s) = Base(r) /\ s.snapshot = r.snapshot
          /\ LastIndex(s) = prev + Len(f.entries)
          /\ \A i \in Base(r) + 1 .. k : s.log[i - Base(r)] = r.log[i - Base(r)]
          /\ \A i \in k + 1 .. prev + Len(f.entries) :
               s.log[i - Base(r)] = f.entries[i - prev]
      BY <1>3, <1>4, <1>11, MergedLog DEF held
    <2>. HIDE DEF s, k
    <2>2. /\ IsChunk(x) /\ x.prevLogIndex = Base(r) /\ x.entries = s.log
          /\ LastSent(x) = LastSent(f) /\ Positions(x) = Base(r) .. LastSent(f)
          /\ \A i : TermIn(x, i) = TermAt(s, i)
      BY <1>3, <2>1, ChunkOfReplica
    <2>. HIDE DEF x
    <2>3. k \in Positions(x)
      BY <1>2, <1>3, <1>4, <1>7, <2>2
    <2>4. ASSUME NEW i \in Indices(c), i <= k
          PROVE  s.log[i - Base(r)] = r.log[i - Base(r)]
      BY <1>2, <1>6, <1>7, <2>1, <2>4
    <2>5. ASSUME NEW i \in Positions(c), i <= k PROVE TermIn(x, i) = TermIn(c, i)
      <3>1. CASE i = Base(r)
        BY <1>6, <2>1, <2>2, <3>1 DEF TermAt
      <3>2. CASE i # Base(r)
        <4>1. i \in Indices(c)
          BY <1>2, <1>6, <3>2
        <4>. QED BY <1>6, <2>1, <2>2, <2>4, <2>5, <3>2, <4>1 DEF TermAt
      <3>. QED BY <3>1, <3>2
    <2>6. \A i \in Indices(c) : i <= k => CmdIn(x, i) = CmdIn(c, i)
      BY <1>6, <2>2, <2>4 DEF CmdIn
    <2>7. ASSUME NEW i \in Indices(f), k < i
          PROVE  TermIn(x, i) = TermIn(f, i) /\ CmdIn(x, i) = CmdIn(f, i)
      <3>1. i \in k + 1 .. prev + Len(f.entries) /\ i # prev /\ i # Base(r)
        BY <1>2, <1>3, <1>4, <1>7, <2>7
      <3>2. s.log[i - Base(r)] = f.entries[i - prev]
        BY <2>1, <3>1
      <3>. QED BY <2>1, <2>2, <3>1, <3>2 DEF TermIn, CmdIn
    <2>8. Merges(x, c, f, k)
      BY <1>6, <1>7, <1>8, <1>9, <1>11, <2>2, <2>3, <2>5, <2>6, <2>7 DEF Merges
    <2>. QED BY <2>1, <2>8 DEF x, c, s, k, held
  <1>. QED BY <1>10, <1>11

\* What a merge leaves was in the log or in the request.
LEMMA MergeIsCovered ==
  ASSUME NEW x, NEW c, NEW f, NEW k, Merges(x, c, f, k), IsChunk(c), IsChunk(f)
  PROVE  Covered(x, {c, f})
  <1>. USE DEF Merges
  <1>1. CASE f.entries = <<>>
    <2>1. Covered(c, {c, f})
      BY ChunkIsCovered
    <2>. QED BY <1>1, <2>1
  <1>2. CASE f.entries # <<>>
    <2>1. /\ x.prevLogIndex = c.prevLogIndex /\ c.prevLogIndex \in Int
          /\ k \in Int /\ k <= LastSent(c) /\ c.prevLogIndex <= k
          /\ f.prevLogIndex <= k /\ f.prevLogIndex \in Int
          /\ LastSent(x) = LastSent(f) /\ LastSent(x) \in Int /\ LastSent(c) \in Int
      <3>1. /\ x.prevLogIndex = c.prevLogIndex /\ LastSent(x) = LastSent(f)
            /\ k \in Positions(c) /\ k \in Positions(f)
        BY <1>2, Zenon
      <3>2. /\ c.prevLogIndex \in Int /\ LastSent(c) \in Int
            /\ f.prevLogIndex \in Int /\ LastSent(f) \in Int
            /\ Positions(c) = c.prevLogIndex .. LastSent(c)
            /\ Positions(f) = f.prevLogIndex .. LastSent(f)
        BY ChunkBounds, Zenon
      <3>3. \A a, l, n \in Int : n \in a .. l => a <= n /\ n <= l
        OBVIOUS
      <3>4. k \in Int
        BY <3>1, <3>2
      <3>. QED BY <3>1, <3>2, <3>3, <3>4, Zenon
    <2>2. \A i \in Positions(x) : i <= k => i \in Positions(c)
      BY <2>1 DEF Positions
    <2>3. \A i \in Positions(x) : ~(i <= k) => k < i /\ i \in Indices(f) /\ i \in Positions(f)
      BY <2>1 DEF Positions, Indices
    <2>4. \A i \in Positions(x) : \E d \in {c, f} : i \in Positions(d) /\ TermIn(d, i) = TermIn(x, i)
      BY <1>2, <2>2, <2>3
    <2>5. ASSUME NEW i \in Indices(x), i <= k PROVE i \in Indices(c) /\ SameLink(c, x, i)
      <3>1. i \in Indices(c) /\ i \in Int
        BY <2>1, <2>5 DEF Indices
      <3>2. i - 1 \in Positions(c) /\ i \in Positions(c)
        BY <3>1, ChunkParts, Zenon
      <3>3. i - 1 <= k
        <4>1. \A n, m \in Int : n <= m => n - 1 <= m
          OBVIOUS
        <4>. QED BY <2>1, <2>5, <3>1, <4>1, Zenon
      <3>. QED BY <2>5, <3>1, <3>2, <3>3 DEF SameLink
    <2>6. ASSUME NEW i \in Indices(x), ~(i <= k) PROVE i \in Indices(f) /\ SameLink(f, x, i)
      <3>1. i \in Positions(x) /\ k < i /\ i \in Indices(f)
        BY <2>1, <2>3, <2>6 DEF Positions, Indices
      <3>2. TermIn(f, i) = TermIn(x, i) /\ CmdIn(f, i) = CmdIn(x, i)
        BY <1>2, <3>1
      <3>3. CASE i - 1 = k
        <4>1. TermIn(x, k) = TermIn(c, k) /\ TermIn(c, k) = TermIn(f, k)
          BY <2>1
        <4>. QED BY <3>1, <3>2, <3>3, <4>1 DEF SameLink
      <3>4. CASE i - 1 # k
        <4>1. k < i - 1 /\ i - 1 \in Indices(f)
          BY <2>1, <3>1, <3>4 DEF Indices
        <4>2. TermIn(f, i - 1) = TermIn(x, i - 1)
          BY <1>2, <4>1
        <4>. QED BY <3>1, <3>2, <4>2 DEF SameLink
      <3>. QED BY <3>3, <3>4
    <2>7. \A i \in Indices(x) : \E d \in {c, f} : i \in Indices(d) /\ SameLink(d, x, i)
      BY <2>5, <2>6
    <2>. QED BY <2>4, <2>7 DEF Covered
  <1>. QED BY <1>1, <1>2

-----------------------------------------------------------------------------
\* steps that leave the logs alone

\* what s saved last is what it was, or holds its log
MemoryStep(s) ==
  \/ memory'[s] = memory[s] /\ memory[s].currentTerm <= currentTerm'[s]
  \/ /\ memory'[s].log = rep'[s].log /\ memory'[s].snapshot = rep'[s].snapshot
     /\ memory'[s].currentTerm = currentTerm'[s]
     /\ currentTerm[s] <= currentTerm'[s]

QuietLog ==
  /\ voteRequests' = voteRequests /\ ballots \subseteq ballots'
  /\ \A b \in ballots' : \/ b \in ballots
                         \/ \E m \in voteRequests : m.cand = b[3] /\ m.term = b[2]
  /\ \A s \in Server : /\ rep'[s].log = rep[s].log /\ rep'[s].snapshot = rep[s].snapshot
                       /\ MemoryStep(s)
                       /\ state'[s] # Follower => /\ state'[s] = state[s]
                                                  /\ currentTerm'[s] = currentTerm[s]
  /\ Requests' \subseteq Requests

LEMMA QuietLogInherits ==
  ASSUME TypeInv, TypeInv', NoSnapshotIsSent, LogInv, QuietLog
  PROVE  Inherits
  <1>. USE DEF QuietLog
  <1>1. \A s \in Server : /\ currentTerm[s] \in Nat /\ currentTerm'[s] \in Nat
                          /\ memory[s].currentTerm \in Nat /\ memory'[s].currentTerm \in Nat
    BY DEF TypeInv, TypeOK, PeerTypes, StorageTypes, Data
  <1>2. ASSUME NEW s \in Server PROVE Chunk(rep'[s]) = Chunk(rep[s])
    BY DEF Chunk, Base
  <1>3. \A s \in Server : IsChunk(Chunk(rep[s])) /\ Chunk(rep[s]) \in Chunks
    BY ChunkTypes DEF Chunks
  <1>4. ASSUME NEW s \in Server
        PROVE  /\ memory[s].currentTerm <= memory'[s].currentTerm
               /\ memory'[s].log = rep'[s].log
               /\ memory'[s].snapshot = rep'[s].snapshot
               /\ memory'[s].currentTerm <= currentTerm'[s]
               /\ \A i \in Positions(Chunk(rep'[s])) :
                    TermIn(Chunk(rep'[s]), i) <= memory'[s].currentTerm
    <2>1. /\ memory[s].log = rep[s].log /\ memory[s].snapshot = rep[s].snapshot
          /\ memory[s].currentTerm <= currentTerm[s]
          /\ \A i \in Positions(Chunk(rep[s])) : /\ TermIn(Chunk(rep[s]), i) \in Nat
                                                /\ TermIn(Chunk(rep[s]), i) <= memory[s].currentTerm
      BY LogTerms DEF LogInv, LogIsSaved
    <2>2. MemoryStep(s)
      OBVIOUS
    <2>3. CASE memory'[s] = memory[s] /\ memory[s].currentTerm <= currentTerm'[s]
      BY <1>1, <1>2, <2>1, <2>3
    <2>4. CASE ~(memory'[s] = memory[s] /\ memory[s].currentTerm <= currentTerm'[s])
      BY <1>1, <1>2, <2>1, <2>2, <2>4 DEF MemoryStep
    <2>. QED BY <2>3, <2>4
  <1>5. LogIsSaved'
    BY <1>4 DEF LogIsSaved
  <1>6. \A s \in Server : Covered(Chunk(rep'[s]), Chunks)
    BY <1>2, <1>3, ChunkIsCovered
  <1>7. \A s \in Server : SuffixOf(Chunk(rep'[s]), Chunk(rep[s]))
    BY <1>2, <1>3, SuffixOfItself
  <1>. QED BY <1>4, <1>5, <1>6, <1>7 DEF Inherits

\* A save of p, or none, is a step of the memory of everyone.
LEMMA SaveIsMemoryStep ==
  ASSUME TypeInv, TypeInv', LogInv, NEW p \in Server, Save(p),
         \A s \in Server : currentTerm[s] <= currentTerm'[s]
  PROVE  \A s \in Server : MemoryStep(s)
  <1>1. \A s \in Server : s # p => memory'[s] = memory[s] /\ memory[s].currentTerm <= currentTerm'[s]
    BY SaveWritesLog, LogTerms DEF TypeInv, TypeOK, PeerTypes
  <1>2. MemoryStep(p)
    BY SaveWritesLog DEF MemoryStep
  <1>. QED BY <1>1, <1>2 DEF MemoryStep

LEMMA NoSaveIsMemoryStep ==
  ASSUME TypeInv, TypeInv', LogInv, memory' = memory,
         \A s \in Server : currentTerm[s] <= currentTerm'[s]
  PROVE  \A s \in Server : MemoryStep(s)
  BY LogTerms DEF MemoryStep, TypeInv, TypeOK, PeerTypes

LEMMA RequestsUnfold ==
  /\ \A x : x \in Requests <=> \/ \E p, q \in Server : x = request[p][q] /\ x # Nil
                               \/ \E m \in lateRequests : x = m.req
  /\ \A x : x \in Requests' <=> \/ \E p, q \in Server : x = request'[p][q] /\ x # Nil
                                \/ \E m \in lateRequests' : x = m.req
  <1>. DEFINE Cells(S) == {S[c[1]][c[2]] : c \in Server \X Server}
  <1>1. ASSUME NEW S, NEW x PROVE x \in Cells(S) <=> \E p, q \in Server : x = S[p][q]
    <2>1. ASSUME NEW p \in Server, NEW q \in Server, x = S[p][q] PROVE x \in Cells(S)
      <3>1. <<p, q>> \in Server \X Server /\ <<p, q>>[1] = p /\ <<p, q>>[2] = q
        OBVIOUS
      <3>. QED BY <2>1, <3>1
    <2>. QED BY <2>1
  <1>2. /\ \A x : x \in Cells(request) <=> \E p, q \in Server : x = request[p][q]
        /\ \A x : x \in Cells(request') <=> \E p, q \in Server : x = request'[p][q]
    <2>. HIDE DEF Cells
    <2>. QED BY <1>1
  <1>3. /\ Requests = (Cells(request) \ {Nil}) \cup {m.req : m \in lateRequests}
        /\ Requests' = (Cells(request') \ {Nil}) \cup {m.req : m \in lateRequests'}
    BY DEF Requests
  <1>. HIDE DEF Cells
  <1>. QED BY <1>2, <1>3

\* A call that ends leaves no request that was not there.
LEMMA CallEnds ==
  ASSUME TypeInv, TypeInv', NEW p \in Server, NEW q \in Server, request[p][q] # Nil,
         request' = [request EXCEPT ![p][q] = Nil],
         \/ lateRequests' = lateRequests
         \/ lateRequests' = lateRequests \cup {[from |-> p, to |-> q, req |-> request[p][q]]}
  PROVE  Requests' \subseteq Requests
  <1>1. \A s, u \in Server : request'[s][u] = Nil \/ request'[s][u] = request[s][u]
    BY DEF TypeInv, TypeOK, CallTypes
  <1>2. \A m \in lateRequests' : m \in lateRequests \/ m.req = request[p][q]
    OBVIOUS
  <1>. QED BY <1>1, <1>2, RequestsUnfold

LEMMA HandleRequestVoteLog ==
  ASSUME TypeInv, TypeInv', NoSnapshotIsSent, LogInv,
         NEW p \in Server, NEW m \in voteRequests, HandleRequestVote(p, m)
  PROVE  LogInv'
  <1>1. /\ currentTerm' = [currentTerm EXCEPT ![p] = Greater(@, m.term)]
        /\ UNCHANGED <<rep, voteRequests, request, lateRequests>>
        /\ ballots' = ballots \/ ballots' = ballots \cup {<<p, m.term, m.cand>>}
        /\ Save(p) \/ memory' = memory
        /\ \/ state' = [state EXCEPT ![p] = Follower]
           \/ state' = state /\ ~(m.term > currentTerm[p])
    BY DEF HandleRequestVote, BecomeFollower, callVars, storageVars
  <1>2. \A s \in Server : /\ currentTerm[s] \in Nat /\ currentTerm[s] <= currentTerm'[s]
                          /\ s # p => currentTerm'[s] = currentTerm[s]
    BY <1>1 DEF TypeInv, TypeOK, PeerTypes, ElectionTypes, Greater
  <1>3. \A s \in Server : MemoryStep(s)
    BY <1>1, <1>2, SaveIsMemoryStep, NoSaveIsMemoryStep
  <1>4. \A s \in Server : state'[s] # Follower =>
          state'[s] = state[s] /\ currentTerm'[s] = currentTerm[s]
    <2>1. ~(m.term > currentTerm[p]) => \A s \in Server : currentTerm'[s] = currentTerm[s]
      BY <1>1 DEF TypeInv, TypeOK, PeerTypes, ElectionTypes, Greater
    <2>. QED BY <1>1, <1>2, <2>1 DEF TypeInv, TypeOK, PeerTypes
  <1>5. Requests' = Requests
    BY <1>1 DEF Requests
  <1>6. \A b \in ballots' : b \in ballots \/ \E n \in voteRequests : n.cand = b[3] /\ n.term = b[2]
    BY <1>1
  <1>7. QuietLog
    BY <1>1, <1>3, <1>4, <1>5, <1>6 DEF QuietLog
  <1>. QED BY <1>7, QuietLogInherits, InheritStep

LEMMA HandleRequestVoteRespondLog ==
  ASSUME TypeInv, TypeInv', NoSnapshotIsSent, ElectionInv, ElectionInv', LogInv,
         NEW m \in voteResponses, HandleRequestVoteRespond(m)
  PROVE  LogInv'
  <1>. DEFINE p == m.cand
  <1>1. p \in Server /\ m.resTerm \in Nat
    BY DEF TypeInv, TypeOK, ElectionTypes
  <1>2. UNCHANGED <<rep, voteRequests, ballots, request, lateRequests>>
    BY DEF HandleRequestVoteRespond, callVars
  <1>3. CASE state' = [state EXCEPT ![p] = Leader] /\ state[p] = Candidate /\ Save(p)
             /\ currentTerm' = currentTerm
    BY <1>1, <1>2, <1>3, WinStep
  <1>4. CASE ~(state' = [state EXCEPT ![p] = Leader] /\ state[p] = Candidate /\ Save(p)
               /\ currentTerm' = currentTerm)
    <2>1. /\ Save(p) \/ memory' = memory
          /\ \/ /\ currentTerm' = [currentTerm EXCEPT ![p] = Greater(@, m.resTerm)]
                /\ state' = [state EXCEPT ![p] = Follower]
             \/ state' = state /\ currentTerm' = currentTerm
      BY <1>4 DEF HandleRequestVoteRespond, UpdateTerm, BecomeFollower, BecomeLeader, storageVars
    <2>. HIDE DEF p
    <2>2. \A s \in Server : /\ currentTerm[s] <= currentTerm'[s]
                            /\ s # p => currentTerm'[s] = currentTerm[s]
      BY <1>1, <2>1 DEF TypeInv, TypeOK, PeerTypes, Greater
    <2>3. \A s \in Server : MemoryStep(s)
      BY <1>1, <2>1, <2>2, SaveIsMemoryStep, NoSaveIsMemoryStep
    <2>4. \A s \in Server : state'[s] # Follower =>
            state'[s] = state[s] /\ currentTerm'[s] = currentTerm[s]
      BY <1>1, <2>1, <2>2 DEF TypeInv, TypeOK, PeerTypes
    <2>5. Requests' = Requests
      BY <1>2 DEF Requests
    <2>6. QuietLog
      BY <1>2, <2>3, <2>4, <2>5 DEF QuietLog
    <2>. QED BY <2>6, QuietLogInherits, InheritStep
  <1>. QED BY <1>3, <1>4

LEMMA ElsewhereLog ==
  ASSUME TypeInv, TypeInv', NoSnapshotIsSent, LogInv,
         UNCHANGED <<state, currentTerm, rep, memory, voteRequests, ballots>>,
         Requests' \subseteq Requests
  PROVE  LogInv'
  <1>1. \A s \in Server : MemoryStep(s)
    BY NoSaveIsMemoryStep DEF TypeInv, TypeOK, PeerTypes
  <1>2. QuietLog
    BY <1>1 DEF QuietLog
  <1>. QED BY <1>2, QuietLogInherits, InheritStep

LEMMA HandleResLog ==
  ASSUME TypeInv, TypeInv', NoSnapshotIsSent, LogInv, NEW p \in Server, NEW q \in Server,
         HandleAppendEntriesRes(p, q) \/ HandleInstallSnapshotRes(p, q)
  PROVE  LogInv'
  <1>1. /\ UNCHANGED <<voteRequests, ballots, lateRequests>>
        /\ request' = [request EXCEPT ![p][q] = Nil] /\ request[p][q] # Nil
        /\ \/ UNCHANGED <<state, currentTerm, memory, rep>>
           \/ /\ Save(p) /\ rep' = rep
              /\ state' = [state EXCEPT ![p] = Follower]
              /\ \E t : t > currentTerm[p] /\ currentTerm' = [currentTerm EXCEPT ![p] = Greater(@, t)]
    BY DEF HandleAppendEntriesRes, HandleInstallSnapshotRes, Answered, UpdateTerm, BecomeFollower,
           storageVars
  <1>2. Requests' \subseteq Requests
    BY <1>1, CallEnds
  <1>3. CASE UNCHANGED <<state, currentTerm, memory, rep>>
    BY <1>1, <1>2, <1>3, ElsewhereLog
  <1>4. CASE ~UNCHANGED <<state, currentTerm, memory, rep>>
    <2>1. /\ Save(p) /\ rep' = rep /\ state' = [state EXCEPT ![p] = Follower]
          /\ \E t : t > currentTerm[p] /\ currentTerm' = [currentTerm EXCEPT ![p] = Greater(@, t)]
      BY <1>1, <1>4
    <2>2. \A s \in Server : /\ currentTerm[s] <= currentTerm'[s]
                            /\ s # p => currentTerm'[s] = currentTerm[s]
      BY <2>1 DEF TypeInv, TypeOK, PeerTypes, Greater
    <2>3. \A s \in Server : MemoryStep(s)
      BY <2>1, <2>2, SaveIsMemoryStep
    <2>4. \A s \in Server : state'[s] # Follower =>
            state'[s] = state[s] /\ currentTerm'[s] = currentTerm[s]
      BY <2>1, <2>2 DEF TypeInv, TypeOK, PeerTypes
    <2>5. QuietLog
      BY <1>1, <1>2, <2>1, <2>3, <2>4 DEF QuietLog
    <2>. QED BY <2>5, QuietLogInherits, InheritStep
  <1>. QED BY <1>3, <1>4

-----------------------------------------------------------------------------
\* steps that change a log

LEMMA TermsAscend ==
  ASSUME NEW c, IsChunk(c), \A i \in Indices(c) : TermIn(c, i - 1) <= TermIn(c, i),
         NEW i \in Positions(c), NEW j \in Positions(c), i <= j
  PROVE  TermIn(c, i) <= TermIn(c, j)
  <1>. DEFINE S == {d \in Nat : i + d \in Positions(c) /\ TermIn(c, i + d) < TermIn(c, i)}
  <1>1. /\ c.prevLogIndex \in Int /\ LastSent(c) \in Int /\ i \in Int /\ j \in Int
        /\ Positions(c) = c.prevLogIndex .. LastSent(c)
        /\ Indices(c) = c.prevLogIndex + 1 .. LastSent(c)
        /\ \A n \in Positions(c) : TermIn(c, n) \in Nat
    BY ChunkParts DEF IsChunk, Positions, Indices
  <1>2. SUFFICES ASSUME TermIn(c, j) < TermIn(c, i) PROVE FALSE
    BY <1>1
  <1>3. j - i \in S
    BY <1>1, <1>2
  <1>4. PICK d \in S : \A e \in S : d <= e
    <2>1. S \in SUBSET Nat /\ S # {}
      BY <1>3
    <2>. HIDE DEF S
    <2>. QED BY <2>1, LeastElement
  <1>5. d \in Nat /\ i + d \in Positions(c) /\ TermIn(c, i + d) < TermIn(c, i)
    BY <1>4
  <1>6. d # 0
    BY <1>1, <1>5
  <1>7. d - 1 \in Nat /\ i + d \in Indices(c) /\ i + (d - 1) \in Positions(c)
        /\ (i + d) - 1 = i + (d - 1)
    BY <1>1, <1>5, <1>6
  <1>8. TermIn(c, i + (d - 1)) <= TermIn(c, i + d)
    BY <1>7
  <1>9. TermIn(c, i + (d - 1)) < TermIn(c, i)
    BY <1>1, <1>5, <1>7, <1>8
  <1>10. d - 1 \in S
    BY <1>7, <1>9
  <1>. QED BY <1>4, <1>5, <1>10

\* A call brings no term past that of its leader.
LEMMA RequestTerms ==
  ASSUME TypeInv, NoSnapshotIsSent, LogInv, NEW f \in Requests, NEW i \in Positions(f)
  PROVE  TermIn(f, i) \in Nat /\ TermIn(f, i) <= f.term
  <1>1. IsChunk(f) /\ f \in Chunks /\ f.term \in Nat
    BY RequestTypes DEF Chunks, AppendEntriesReq
  <1>2. PICK m \in voteRequests : Elected(m) /\ m.term = f.term /\ FromLeader(f, m)
    BY DEF LogInv, RequestsAreLeaders
  <1>3. m.lastLogTerm \in Nat /\ m.term \in Nat /\ m.lastLogTerm < m.term /\ m.lastLogIndex \in Nat
    BY DEF TypeInv, TypeOK, ElectionTypes, LogInv, CandidaciesAreSaved
  <1>4. /\ TermIn(f, i) \in Nat /\ i \in Int /\ i <= LastSent(f) /\ LastSent(f) \in Int
        /\ f.prevLogIndex \in Int /\ f.prevLogIndex <= i
    BY <1>1, ChunkParts DEF Positions, IsChunk
  <1>5. CASE i > m.lastLogIndex
    BY <1>2, <1>4, <1>5 DEF FromLeader
  <1>6. CASE ~(i > m.lastLogIndex)
    <2>1. m.lastLogIndex \in Positions(f) /\ i <= m.lastLogIndex
      BY <1>2, <1>3, <1>4, <1>6 DEF FromLeader, Positions
    <2>2. TermIn(f, m.lastLogIndex) = m.lastLogTerm
      BY <1>2, <2>1 DEF FromLeader
    <2>3. \A n \in Indices(f) : TermIn(f, n - 1) <= TermIn(f, n)
      BY <1>1 DEF LogInv, TermsBeginWithLeaders
    <2>4. TermIn(f, i) <= TermIn(f, m.lastLogIndex)
      BY <1>1, <2>1, <2>3, TermsAscend
    <2>. QED BY <1>2, <1>3, <1>4, <2>2, <2>4
  <1>. QED BY <1>5, <1>6

\* p replaces its log by one that chunks cover, and saves it.
LEMMA ReplaceLogInherits ==
  ASSUME TypeInv, TypeInv', NoSnapshotIsSent, LogInv, NEW p \in Server, NEW r,
         rep' = [rep EXCEPT ![p] = r], Covered(Chunk(r), Chunks), Save(p),
         currentTerm'[p] >= currentTerm[p],
         \A i \in Positions(Chunk(r)) : TermIn(Chunk(r), i) <= currentTerm'[p],
         \A s \in Server : s # p => currentTerm'[s] = currentTerm[s] /\ state'[s] = state[s],
         \/ state'[p] = Follower
         \/ /\ state'[p] = state[p] /\ currentTerm'[p] = currentTerm[p]
            /\ SuffixOf(Chunk(r), Chunk(rep[p])),
         UNCHANGED <<voteRequests, ballots>>, Requests' \subseteq Requests
  PROVE  Inherits
  <1>1. rep'[p] = r /\ \A s \in Server : s # p => rep'[s] = rep[s]
    BY DEF TypeInv, TypeOK, ReplicaTypes
  <1>2. LogIsSaved' /\ \A s \in Server : memory[s].currentTerm <= memory'[s].currentTerm
    BY <1>1, SaveKeepsLog
  <1>3. \A s \in Server : IsChunk(Chunk(rep[s])) /\ Chunk(rep[s]) \in Chunks
    BY ChunkTypes DEF Chunks
  <1>4. \A s \in Server : Covered(Chunk(rep'[s]), Chunks)
    BY <1>1, <1>3, ChunkIsCovered
  <1>5. \A s \in Server : state'[s] # Follower =>
          /\ state'[s] = state[s] /\ currentTerm'[s] = currentTerm[s]
          /\ SuffixOf(Chunk(rep'[s]), Chunk(rep[s]))
    BY <1>1, <1>3, SuffixOfItself
  <1>. QED BY <1>2, <1>4, <1>5 DEF Inherits

LEMMA CommitRequestLog ==
  ASSUME TypeInv, TypeInv', NoSnapshotIsSent, LogInv,
         NEW p \in Server, NEW i \in 1 .. MaxIndex, CommitRequest(p, i)
  PROVE  LogInv'
  <1>. DEFINE r == UpdateCommitIndex(rep[p], i)
  <1>1. /\ up[p] /\ rep' = [rep EXCEPT ![p] = r] /\ Save(p)
        /\ UNCHANGED <<state, currentTerm, voteRequests, ballots, request, lateRequests>>
    BY DEF CommitRequest, electionVars, callVars
  <1>2. Sound(rep[p]) /\ i \in Nat
    BY <1>1, UpIsSound, BoundAssumption DEF TypeInv, TypeOK, ShapeInv
  <1>3. SuffixOf(Chunk(r), Chunk(rep[p]))
    BY <1>2, CommitSuffix
  <1>. HIDE DEF r
  <1>4. Covered(Chunk(r), Chunks)
    <2>1. Chunk(rep[p]) \in Chunks /\ IsChunk(Chunk(rep[p]))
      BY ChunkTypes DEF Chunks
    <2>. QED BY <1>3, <2>1, SuffixIsCovered
  <1>5. \A n \in Positions(Chunk(r)) : TermIn(Chunk(r), n) <= currentTerm[p]
    <2>1. Positions(Chunk(r)) \subseteq Positions(Chunk(rep[p]))
      <3>1. IsChunk(Chunk(rep[p]))
        BY ChunkTypes DEF Chunks
      <3>. QED BY <1>3, <3>1 DEF SuffixOf, Positions, IsChunk
    <2>. QED BY <1>3, <2>1, LogTerms DEF SuffixOf
  <1>6. currentTerm'[p] >= currentTerm[p]
    BY <1>1, LogTerms
  <1>7. Requests' = Requests
    BY <1>1 DEF Requests
  <1>8. Inherits
    BY <1>1, <1>3, <1>4, <1>5, <1>6, <1>7, ReplaceLogInherits
  <1>. QED BY <1>8, InheritStep

\* The handler of appendEntries, whatever becomes of its reply.
LEMMA HandleAppendEntriesLog ==
  ASSUME TypeInv, TypeInv', NoSnapshotIsSent, LogInv,
         NEW p \in Server, NEW leader \in Server, NEW f \in Requests,
         HandleAppendEntries(p, leader, f), Requests' \subseteq Requests
  PROVE  LogInv'
  <1>1. f \in AppendEntriesReq /\ IsChunk(f) /\ f \in Chunks /\ f.term \in Nat
    BY RequestTypes DEF Chunks, AppendEntriesReq
  <1>2. UNCHANGED <<voteRequests, ballots>> /\ up[p]
    BY DEF HandleAppendEntries, electionVars
  <1>3. CASE f.term < currentTerm[p]
    <2>1. UNCHANGED <<state, currentTerm, rep, memory>>
      BY <1>3 DEF HandleAppendEntries, storageVars
    <2>. QED BY <1>2, <2>1, ElsewhereLog
  <1>4. CASE ~(f.term < currentTerm[p])
    <2>1. /\ currentTerm' = [currentTerm EXCEPT ![p] = Greater(@, f.term)]
          /\ state' = [state EXCEPT ![p] = Follower]
          /\ rep' = IF AppendPanics(p, f) \/ ~Consistent(p, f)
                      THEN rep
                      ELSE [rep EXCEPT ![p] =
                             UpdateCommitIndex(MergeEntries(@, f.prevLogIndex, f.entries),
                                               f.leaderCommit)]
          /\ Save(p)
      BY <1>4 DEF HandleAppendEntries, UpdateTerm
    <2>2. /\ currentTerm'[p] \in Nat /\ currentTerm[p] <= currentTerm'[p]
          /\ f.term <= currentTerm'[p] /\ state'[p] = Follower
          /\ \A s \in Server : s # p => currentTerm'[s] = currentTerm[s] /\ state'[s] = state[s]
      BY <1>1, <1>4, <2>1 DEF TypeInv, TypeOK, PeerTypes, Greater
    <2>3. Sound(rep[p]) /\ f.leaderCommit \in Nat /\ f.prevLogIndex \in Nat
      BY <1>1, <1>2, UpIsSound DEF TypeInv, TypeOK, ShapeInv, AppendEntriesReq
    <2>4. Chunk(rep[p]) \in Chunks /\ IsChunk(Chunk(rep[p]))
      BY ChunkTypes DEF Chunks
    <2>5. ASSUME NEW r, rep' = [rep EXCEPT ![p] = r],
                 Covered(Chunk(r), {Chunk(rep[p]), f})
          PROVE  LogInv'
      <3>1. Covered(Chunk(r), Chunks)
        <4>1. \A d \in {Chunk(rep[p]), f} : Covered(d, Chunks)
          BY <1>1, <2>4, ChunkIsCovered
        <4>. QED BY <2>5, <4>1, CoveredTransitive
      <3>2. \A n \in Positions(Chunk(r)) : TermIn(Chunk(r), n) <= currentTerm'[p]
        <4>. SUFFICES ASSUME NEW n \in Positions(Chunk(r))
                      PROVE  TermIn(Chunk(r), n) <= currentTerm'[p]
          OBVIOUS
        <4>1. PICK d \in {Chunk(rep[p]), f} : n \in Positions(d) /\ TermIn(d, n) = TermIn(Chunk(r), n)
          BY <2>5 DEF Covered
        <4>2. CASE d = f
          BY <1>1, <2>2, <4>1, <4>2, RequestTerms
        <4>3. CASE d = Chunk(rep[p])
          BY <2>2, <4>1, <4>3, LogTerms
        <4>. QED BY <4>1, <4>2, <4>3
      <3>3. Inherits
        BY <1>2, <2>1, <2>2, <2>5, <3>1, <3>2, ReplaceLogInherits
      <3>. QED BY <3>3, InheritStep
    <2>6. CASE AppendPanics(p, f) \/ ~Consistent(p, f)
      <3>1. rep' = [rep EXCEPT ![p] = rep[p]]
        BY <2>1, <2>6 DEF TypeInv, TypeOK, ReplicaTypes
      <3>2. Covered(Chunk(rep[p]), {Chunk(rep[p]), f})
        BY <2>4, ChunkIsCovered
      <3>. QED BY <2>5, <3>1, <3>2
    <2>7. CASE ~(AppendPanics(p, f) \/ ~Consistent(p, f))
      <3>. DEFINE s == MergeEntries(rep[p], f.prevLogIndex, f.entries)
                  r == UpdateCommitIndex(s, f.leaderCommit)
      <3>1. rep' = [rep EXCEPT ![p] = r]
        BY <2>1, <2>7
      <3>2. /\ Readable(rep[p], f.prevLogIndex)
            /\ TermAt(rep[p], f.prevLogIndex) = f.prevLogTerm
        BY <2>7 DEF Consistent
      <3>3. Merges(Chunk(s), Chunk(rep[p]), f,
                   f.prevLogIndex + HeldPrefix(rep[p], f.prevLogIndex, f.entries))
        BY <1>1, <2>3, <3>2, MergedChunk
      <3>4. Covered(Chunk(s), {Chunk(rep[p]), f})
        BY <1>1, <2>4, <3>3, MergeIsCovered
      <3>5. Sound(s)
        <4>1. /\ rep[p] \in Replica /\ f.entries \in Seq(Entry)
              /\ LogLen(rep[p]) \in Int /\ LastIndex(rep[p]) \in Int
          BY <1>1, <2>3, ReplicaParts DEF Sound, IsChunk
        <4>2. Base(rep[p]) <= f.prevLogIndex /\ f.prevLogIndex <= LastIndex(rep[p])
          BY <2>3, <3>2, <4>1 DEF Readable, LastIndex
        <4>. QED BY <2>3, <4>1, <4>2, MergeEntriesSound
      <3>6. SuffixOf(Chunk(r), Chunk(s))
        BY <2>3, <3>5, CommitSuffix
      <3>7. s \in Replica /\ IsChunk(Chunk(s))
        BY <3>5, ChunkOfReplica DEF Sound
      <3>. HIDE DEF s, r
      <3>8. Covered(Chunk(r), {Chunk(s)})
        BY <3>6, <3>7, SuffixIsCovered
      <3>9. Covered(Chunk(r), {Chunk(rep[p]), f})
        BY <3>4, <3>8, CoveredTransitive
      <3>. QED BY <2>5, <3>1, <3>9
    <2>. QED BY <2>6, <2>7
  <1>. QED BY <1>3, <1>4

\* a call of p that carries the entries of its log from some index on
CallOf(p, q, f) ==
  /\ f.type = "AppendEntries" /\ f.term = currentTerm[p]
  /\ f.prevLogIndex = nextIndex[p][q] - 1
  /\ f.leaderCommit = rep[p].commitIndex
  /\ SuffixOf(f, Chunk(rep[p]))
  /\ LastSent(f) = LastIndex(rep[p])

LEMMA SentCall ==
  ASSUME TypeInv, NEW p \in Server, NEW q \in Server, SendAppendEntries(p, q)
  PROVE  \/ request' = request
         \/ \E f : /\ CallOf(p, q, f) /\ request' = [request EXCEPT ![p][q] = f]
                  /\ \A c \in Requests' : c \in Requests \/ c = f
  <1>. DEFINE prev == nextIndex[p][q] - 1
              f == [type |-> "AppendEntries", term |-> currentTerm[p],
                    prevLogIndex |-> prev, prevLogTerm |-> TermAt(rep[p], prev),
                    leaderCommit |-> rep[p].commitIndex,
                    entries |-> EntriesAfter(rep[p], prev)]
  <1>1. /\ lateRequests' = lateRequests
        /\ \/ request' = request
           \/ request' = [request EXCEPT ![p][q] = f] /\ Readable(rep[p], prev)
    BY DEF SendAppendEntries
  <1>. SUFFICES ASSUME Readable(rep[p], prev), request' = [request EXCEPT ![p][q] = f]
                PROVE  /\ CallOf(p, q, f)
                       /\ \A c \in Requests' : c \in Requests \/ c = f
    BY <1>1
  <1>2. rep[p] \in Replica /\ nextIndex[p][q] \in Int
    BY DEF TypeInv, TypeOK, ReplicaTypes, LeaderTypes
  <1>3. prev \in Int /\ Base(rep[p]) <= prev /\ prev <= LastIndex(rep[p])
    <2>1. LogLen(rep[p]) \in Int /\ Base(rep[p]) \in Int
      BY <1>2, ReplicaParts
    <2>. QED BY <1>2, <2>1 DEF Readable, LastIndex
  <1>4. /\ f.type = "AppendEntries" /\ f.prevLogIndex = prev /\ f.term = currentTerm[p]
        /\ f.prevLogTerm = TermAt(rep[p], prev) /\ f.entries = SuffixFrom(rep[p], prev + 1)
        /\ f.leaderCommit = rep[p].commitIndex
    BY DEF EntriesAfter
  <1>5. prev = nextIndex[p][q] - 1
    OBVIOUS
  <1>. HIDE DEF f, prev
  <1>6. SuffixOf(f, Chunk(rep[p])) /\ LastSent(f) = LastIndex(rep[p])
    BY <1>2, <1>3, <1>4, SuffixChunk
  <1>7. \A s, u \in Server : request'[s][u] = f \/ request'[s][u] = request[s][u]
    BY DEF TypeInv, TypeOK, CallTypes
  <1>8. \A c \in Requests' : c \in Requests \/ c = f
    BY <1>1, <1>7, RequestsUnfold
  <1>. QED BY <1>4, <1>5, <1>6, <1>8 DEF CallOf

\* A call carries the entries of its leader from the one before nextIndex on.
LEMMA SendAppendEntriesLog ==
  ASSUME TypeInv, TypeInv', NoSnapshotIsSent, LogInv,
         NEW p \in Server, NEW q \in Server, SendAppendEntries(p, q)
  PROVE  LogInv'
  <1>1. /\ state[p] = Leader
        /\ UNCHANGED <<state, currentTerm, rep, memory, voteRequests, ballots, lateRequests>>
    BY DEF SendAppendEntries, electionVars, storageVars
  <1>2. CASE request' = request
    <2>1. Requests' = Requests
      BY <1>1, <1>2 DEF Requests
    <2>. QED BY <1>1, <2>1, ElsewhereLog
  <1>3. ASSUME NEW f, CallOf(p, q, f), \A c \in Requests' : c \in Requests \/ c = f
        PROVE  LogInv'
    <2>1. \A c \in Requests' : \/ c \in Requests
                               \/ \E s \in Server : /\ state[s] = Leader /\ c.term = currentTerm[s]
                                                    /\ SuffixOf(c, Chunk(rep[s]))
      BY <1>1, <1>3 DEF CallOf
    <2>2. \A s \in Server : /\ memory[s].currentTerm <= memory[s].currentTerm
                            /\ IsChunk(Chunk(rep[s])) /\ Chunk(rep[s]) \in Chunks
      BY ChunkTypes, LogTerms DEF Chunks
    <2>3. LogIsSaved'
      BY <1>1 DEF LogInv, LogIsSaved
    <2>4. Inherits
      BY <1>1, <2>1, <2>2, <2>3, ChunkIsCovered, SuffixOfItself DEF Inherits
    <2>. QED BY <2>4, InheritStep
  <1>. QED BY <1>2, <1>3, SentCall

\* The calls of a process that is gone may still be handled.
LEMMA RestartRequests ==
  ASSUME TypeInv, NEW p \in Server, request' = [request EXCEPT ![p] = NoCalls],
         \/ lateRequests' = lateRequests
         \/ lateRequests' = lateRequests \cup
                              {[from |-> p, to |-> q, req |-> request[p][q]] :
                                 q \in {s \in Server : Waiting(p, s)}}
  PROVE  Requests' \subseteq Requests
  <1>1. \A s, u \in Server : request'[s][u] = Nil \/ request'[s][u] = request[s][u]
    BY DEF TypeInv, TypeOK, CallTypes, NoCalls
  <1>2. \A m \in lateRequests' : \/ m \in lateRequests
                                 \/ \E q \in Server : m.req = request[p][q] /\ request[p][q] # Nil
    BY DEF Waiting
  <1>. QED BY <1>1, <1>2, RequestsUnfold

\* A process that starts again has the log it had.
LEMMA RestartLog ==
  ASSUME TypeInv, TypeInv', NoSnapshotIsSent, ElectionInv, LogInv, Durable,
         NEW p \in Server, Crash(p) \/ Stop(p)
  PROVE  LogInv'
  <1>1. NewProcess(p, memory[p])
    <2>1. CASE Stop(p)
      BY <2>1 DEF Stop
    <2>2. CASE Crash(p)
      <3>1. ~Hybrid
        <4>1. restarts \in Nat /\ restarts < MaxCrashes
          BY <2>2 DEF Crash, TypeInv, TypeOK, CallTypes
        <4>. QED BY <4>1 DEF Durable
      <3>2. memory = disk
        BY <3>1 DEF ElectionInv
      <3>. QED BY <2>2, <3>2 DEF Crash
    <2>. QED BY <2>1, <2>2
  <1>. DEFINE d == memory[p]
  <1>2. /\ currentTerm' = [currentTerm EXCEPT ![p] = d.currentTerm]
        /\ rep' = [rep EXCEPT ![p] = Reload(d.log, d.snapshot, d.commitIndex)]
        /\ memory' = [memory EXCEPT ![p] = d]
        /\ state' = [state EXCEPT ![p] = Follower]
        /\ request' = [request EXCEPT ![p] = NoCalls]
        /\ \/ lateRequests' = lateRequests
           \/ lateRequests' = lateRequests \cup
                                {[from |-> p, to |-> q, req |-> request[p][q]] :
                                   q \in {s \in Server : Waiting(p, s)}}
        /\ UNCHANGED <<voteRequests, ballots>>
    BY <1>1 DEF NewProcess
  <1>3. /\ d.log = rep[p].log /\ d.snapshot = rep[p].snapshot
    BY DEF LogInv, LogIsSaved
  <1>4. memory' = memory
    BY <1>2 DEF TypeInv, TypeOK, StorageTypes
  <1>. HIDE DEF d
  <1>5. /\ \A s \in Server : rep'[s].log = rep[s].log /\ rep'[s].snapshot = rep[s].snapshot
    BY <1>2, <1>3 DEF TypeInv, TypeOK, ReplicaTypes, Reload
  <1>6. \A s \in Server : s # p => currentTerm'[s] = currentTerm[s] /\ state'[s] = state[s]
    BY <1>2 DEF TypeInv, TypeOK, PeerTypes
  <1>7. currentTerm'[p] = memory[p].currentTerm /\ state'[p] = Follower
    BY <1>2 DEF TypeInv, TypeOK, PeerTypes, d
  <1>8. \A s \in Server : MemoryStep(s)
    BY <1>4, <1>6, <1>7, LogTerms DEF MemoryStep
  <1>9. Requests' \subseteq Requests
    BY <1>2, RestartRequests
  <1>10. QuietLog
    BY <1>2, <1>5, <1>6, <1>7, <1>8, <1>9 DEF QuietLog
  <1>. QED BY <1>10, QuietLogInherits, InheritStep

-----------------------------------------------------------------------------
\* the invariant, and what it says of two logs

LEMMA InitLog ==
  ASSUME Init
  PROVE  LogInv
  <1>. DEFINE c == Chunk(InitReplica)
  <1>1. /\ \A p \in Server : /\ rep[p] = InitReplica /\ state[p] = Follower /\ currentTerm[p] = 0
                             /\ memory[p].log = InitReplica.log
                             /\ memory[p].snapshot = InitReplica.snapshot
                             /\ memory[p].currentTerm = 0
        /\ voteRequests = {} /\ ballots = {}
    BY DEF Init, PersistentData
  <1>2. Requests = {}
    <2>1. \A p, q \in Server : request[p][q] = Nil
      BY DEF Init, NoCalls
    <2>2. lateRequests = {}
      BY DEF Init
    <2>. QED BY <2>1, <2>2, RequestsUnfold
  <1>3. \A d \in Chunks : d = c
    BY <1>1, <1>2 DEF Chunks
  <1>4. /\ c.prevLogIndex = -1 /\ c.prevLogTerm = 0 /\ Len(c.entries) = 1
        /\ c.entries[1].term = 0
    BY DEF Chunk, InitReplica, Base, NoSnapshot
  <1>. HIDE DEF c
  <1>5. Positions(c) = {-1, 0} /\ Indices(c) = {0} /\ LastSent(c) = 0
    BY <1>4 DEF Positions, Indices, LastSent
  <1>6. TermIn(c, -1) = 0 /\ TermIn(c, 0) = 0
    BY <1>4 DEF TermIn
  <1>7. LogIsSaved
    BY <1>1, <1>5, <1>6 DEF LogIsSaved, c
  <1>8. CandidaciesAreSaved /\ CandidatesKeepTheirLogs /\ LeadersOnlyAppend
        /\ RequestsAreLeaders /\ LeadersKeepTheirTerm
    BY <1>1, <1>2 DEF CandidaciesAreSaved, CandidatesKeepTheirLogs, LeadersOnlyAppend,
                      RequestsAreLeaders, LeadersKeepTheirTerm, Follower, Candidate, Leader
  <1>9. LinksAgree
    BY <1>3 DEF LinksAgree, SameLink
  <1>10. TermsBeginWithLeaders /\ TermsAreWon
    BY <1>3, <1>5, <1>6 DEF TermsBeginWithLeaders, TermsAreWon
  <1>. QED BY <1>7, <1>8, <1>9, <1>10 DEF LogInv

LEMMA NextLog ==
  ASSUME TypeInv, TypeInv', NoSnapshotIsSent, NoSnapshotIsSent', ElectionInv, ElectionInv', LogInv,
         Durable, [Next]_vars
  PROVE  LogInv'
  <1>1. CASE UNCHANGED vars
    <2>1. Requests' = Requests
      BY <1>1 DEF vars, callVars, Requests
    <2>. QED BY <1>1, <2>1, ElsewhereLog DEF vars, electionVars, storageVars
  <1>2. ASSUME NEW p \in Server, FollowerTimeout(p) \/ CandidateTimeout(p)
        PROVE  LogInv'
    <2>1. /\ StartElection(p) /\ state' = [state EXCEPT ![p] = Candidate]
          /\ UNCHANGED <<rep, request, lateRequests>>
      BY <1>2 DEF FollowerTimeout, CandidateTimeout, callVars, TypeInv, TypeOK, PeerTypes
    <2>. QED BY <2>1, CandidacyStep
  <1>3. ASSUME NEW p \in Server, FollowerRearm(p) \/ Flush(p)
        PROVE  LogInv'
    <2>1. UNCHANGED <<state, currentTerm, rep, memory, voteRequests, ballots, request, lateRequests>>
      BY <1>3 DEF FollowerRearm, Flush, electionVars, callVars, storageVars
    <2>2. Requests' = Requests
      BY <2>1 DEF Requests
    <2>. QED BY <2>1, <2>2, ElsewhereLog
  <1>4. ASSUME NEW p \in Server, NEW cmd \in Command, ClientRequest(p, cmd)
        PROVE  LogInv'
    <2>1. /\ state[p] = Leader /\ LeaderAppend(p, cmd) /\ cmd \in Cmd
          /\ UNCHANGED <<state, currentTerm, voteRequests, ballots, request, lateRequests>>
      BY <1>4 DEF ClientRequest, electionVars, callVars, Cmd
    <2>. QED BY <2>1, AppendStep
  <1>5. ASSUME NEW p \in Server, AppendNoop(p)
        PROVE  LogInv'
    <2>1. UNCHANGED <<state, currentTerm, voteRequests, ballots, request, lateRequests>>
      BY <1>5 DEF AppendNoop, electionVars, callVars
    <2>2. CASE state[p] = Leader
      <3>1. LeaderAppend(p, NoOp) /\ NoOp \in Cmd
        BY <1>5, <2>2 DEF AppendNoop, Cmd
      <3>. QED BY <2>1, <2>2, <3>1, AppendStep
    <2>3. CASE state[p] # Leader
      <3>1. UNCHANGED <<rep, memory>> /\ Requests' = Requests
        BY <1>5, <2>1, <2>3 DEF AppendNoop, storageVars, Requests
      <3>. QED BY <2>1, <3>1, ElsewhereLog
    <2>. QED BY <2>2, <2>3
  <1>6. ASSUME NEW p \in Server, NEW q \in Server, SendInstallSnapshot(p, q)
        PROVE  LogInv'
    <2>. DEFINE c == [type |-> "InstallSnapshot", term |-> currentTerm[p],
                      snapshot |-> rep[p].snapshot]
    <2>1. /\ request' = [request EXCEPT ![p][q] = c] /\ request[p][q] = Nil
          /\ UNCHANGED <<state, currentTerm, rep, memory, voteRequests, ballots, lateRequests>>
      BY <1>6 DEF SendInstallSnapshot, MayCall, electionVars, storageVars
    <2>2. c.type = "InstallSnapshot"
      OBVIOUS
    <2>. HIDE DEF c
    <2>3. CASE c = Nil
      <3>1. request' = request
        BY <2>1, <2>3 DEF TypeInv, TypeOK, CallTypes
      <3>2. Requests' = Requests
        BY <2>1, <3>1 DEF Requests
      <3>. QED BY <2>1, <3>2, ElsewhereLog
    <2>4. CASE c # Nil
      <3>1. request'[p][q] = c
        BY <2>1 DEF TypeInv, TypeOK, CallTypes
      <3>2. c \in Requests'
        BY <2>4, <3>1, RequestsUnfold
      <3>. QED BY <2>2, <3>2 DEF NoSnapshotIsSent
    <2>. QED BY <2>3, <2>4
  <1>7. ASSUME NEW p \in Server, NEW q \in Server, CallFails(p, q)
        PROVE  LogInv'
    <2>1. /\ UNCHANGED <<state, currentTerm, rep, memory, voteRequests, ballots>>
          /\ request[p][q] # Nil /\ request' = [request EXCEPT ![p][q] = Nil]
          /\ \/ lateRequests' = lateRequests
             \/ lateRequests' = lateRequests \cup {[from |-> p, to |-> q, req |-> request[p][q]]}
      BY <1>7 DEF CallFails, electionVars, storageVars
    <2>2. Requests' \subseteq Requests
      BY <2>1, CallEnds
    <2>. QED BY <2>1, <2>2, ElsewhereLog
  <1>8. ASSUME NEW p \in Server, NEW q \in Server, ReceiveAppendEntries(p, q)
        PROVE  LogInv'
    <2>1. /\ request[p][q] # Nil /\ HandleAppendEntries(q, p, request[p][q])
          /\ lateRequests' = lateRequests
          /\ request' = request \/ request' = [request EXCEPT ![p][q] = Nil]
      BY <1>8 DEF ReceiveAppendEntries, Answer, Waiting
    <2>2. request[p][q] \in Requests
      BY <2>1, RequestsUnfold
    <2>3. Requests' \subseteq Requests
      <3>1. CASE request' = request
        BY <2>1, <3>1 DEF Requests
      <3>2. CASE request' = [request EXCEPT ![p][q] = Nil]
        BY <2>1, <3>2, CallEnds
      <3>. QED BY <2>1, <3>1, <3>2
    <2>. QED BY <2>1, <2>2, <2>3, HandleAppendEntriesLog
  <1>9. ASSUME NEW p \in Server, NEW q \in Server, ReceiveInstallSnapshot(p, q)
        PROVE  LogInv'
    <2>1. /\ request[p][q] # Nil /\ request[p][q].type = "InstallSnapshot"
      BY <1>9 DEF ReceiveInstallSnapshot, Waiting, HandleInstallSnapshot
    <2>2. request[p][q] \in Requests
      BY <2>1, RequestsUnfold
    <2>. QED BY <2>1, <2>2 DEF NoSnapshotIsSent
  <1>10. ASSUME NEW m \in lateRequests, ReceiveLate(m)
         PROVE  LogInv'
    <2>1. m.req \in Requests /\ m.to \in Server /\ m.from \in Server
      BY RequestsUnfold DEF TypeInv, TypeOK, CallTypes
    <2>2. HandleAppendEntries(m.to, m.from, m.req)
      <3>1. ~HandleInstallSnapshot(m.to, m.req)
        BY <2>1 DEF HandleInstallSnapshot, NoSnapshotIsSent
      <3>. QED BY <1>10, <3>1 DEF ReceiveLate
    <2>3. Requests' \subseteq Requests
      <3>1. request' = request /\ lateRequests' \subseteq lateRequests
        BY <1>10 DEF ReceiveLate
      <3>. QED BY <3>1, RequestsUnfold
    <2>. QED BY <2>1, <2>2, <2>3, HandleAppendEntriesLog
  <1>11. CASE Next
    BY <1>2, <1>3, <1>4, <1>5, <1>6, <1>7, <1>8, <1>9, <1>10, <1>11, HandleRequestVoteLog,
       HandleRequestVoteRespondLog, CommitRequestLog, SendAppendEntriesLog, HandleResLog,
       RestartLog DEF Next
  <1>. QED BY <1>1, <1>11

\* Two stretches of logs that tell the same term at an index tell the same up to it.
LEMMA LinksMatch ==
  ASSUME TypeInv, LogInv, NEW c, NEW d, Covered(c, Chunks), Covered(d, Chunks),
         NEW i \in Positions(c) \cap Positions(d), TermIn(c, i) = TermIn(d, i),
         NEW j \in Positions(c) \cap Positions(d), j <= i
  PROVE  /\ TermIn(c, j) = TermIn(d, j)
         /\ j \in Indices(c) \cap Indices(d) => CmdIn(c, j) = CmdIn(d, j)
  <1>. DEFINE S == {e \in Nat : /\ i - e \in Positions(c) \cap Positions(d)
                               /\ TermIn(c, i - e) # TermIn(d, i - e)}
  <1>1. /\ IsChunk(c) /\ IsChunk(d)
        /\ c.prevLogIndex \in Int /\ LastSent(c) \in Int
        /\ d.prevLogIndex \in Int /\ LastSent(d) \in Int
        /\ i \in Int /\ j \in Int
        /\ Positions(c) = c.prevLogIndex .. LastSent(c)
        /\ Indices(c) = c.prevLogIndex + 1 .. LastSent(c)
        /\ Positions(d) = d.prevLogIndex .. LastSent(d)
        /\ Indices(d) = d.prevLogIndex + 1 .. LastSent(d)
    <2>1. IsChunk(c) /\ IsChunk(d)
      BY DEF Covered
    <2>2. /\ c.prevLogIndex \in Int /\ LastSent(c) \in Int
          /\ Positions(c) = c.prevLogIndex .. LastSent(c)
          /\ Indices(c) = c.prevLogIndex + 1 .. LastSent(c)
      BY <2>1, ChunkBounds, Zenon
    <2>3. /\ d.prevLogIndex \in Int /\ LastSent(d) \in Int
          /\ Positions(d) = d.prevLogIndex .. LastSent(d)
          /\ Indices(d) = d.prevLogIndex + 1 .. LastSent(d)
      BY <2>1, ChunkBounds, Zenon
    <2>. QED BY <2>1, <2>2, <2>3
  <1>2. \A n \in Indices(c) \cap Indices(d) : TermIn(c, n) = TermIn(d, n) => SameLink(c, d, n)
    BY CoveredLinks
  <1>3. TermIn(c, j) = TermIn(d, j)
    <2>1. SUFFICES ASSUME TermIn(c, j) # TermIn(d, j) PROVE FALSE
      OBVIOUS
    <2>2. i - j \in S
      <3>1. i - j \in Nat /\ i - (i - j) = j
        BY <1>1
      <3>. QED BY <2>1, <3>1
    <2>3. PICK e \in S : \A n \in S : e <= n
      <3>1. S \in SUBSET Nat /\ S # {}
        BY <2>2
      <3>. HIDE DEF S
      <3>. QED BY <3>1, LeastElement
    <2>4. /\ e \in Nat /\ i - e \in Positions(c) \cap Positions(d)
          /\ TermIn(c, i - e) # TermIn(d, i - e)
      BY <2>3
    <2>5. e # 0
      BY <1>1, <2>4
    <2>. DEFINE n == i - (e - 1)
    <2>6. e - 1 \in Nat /\ n \in Indices(c) \cap Indices(d) /\ n - 1 = i - e
          /\ n \in Positions(c) \cap Positions(d)
      BY <1>1, <2>4, <2>5
    <2>7. TermIn(c, n) = TermIn(d, n)
      <3>1. e - 1 \notin S
        <4>. HIDE DEF S
        <4>. QED BY <2>3, <2>4, <2>6
      <3>. QED BY <2>6, <3>1
    <2>8. SameLink(c, d, n)
      BY <1>2, <2>6, <2>7
    <2>. QED BY <2>4, <2>6, <2>8 DEF SameLink
  <1>4. j \in Indices(c) \cap Indices(d) => CmdIn(c, j) = CmdIn(d, j)
    BY <1>2, <1>3 DEF SameLink
  <1>. QED BY <1>3, <1>4

LEMMA LogInvImpliesMatching ==
  ASSUME TypeInv, NoSnapshotIsSent, LogInv
  PROVE  LogMatching
  <1>. SUFFICES ASSUME NEW p \in Server, NEW q \in Server \ {p},
                       NEW i \in Shared(rep[p], rep[q]),
                       EntryAt(rep[p], i).term = EntryAt(rep[q], i).term,
                       NEW j \in Shared(rep[p], rep[q]), j <= i
                PROVE  EntryAt(rep[p], j) = EntryAt(rep[q], j)
    BY DEF LogMatching
  <1>. DEFINE c == Chunk(rep[p])
              d == Chunk(rep[q])
  <1>1. rep[p] \in Replica /\ rep[q] \in Replica
    BY DEF TypeInv, TypeOK, ReplicaTypes
  <1>2. /\ Base(rep[p]) \in Int /\ LastIndex(rep[p]) \in Int /\ rep[p].log \in Seq(Entry)
        /\ LastIndex(rep[p]) = Len(rep[p].log) + Base(rep[p]) /\ Len(rep[p].log) \in Nat
        /\ Base(rep[q]) \in Int /\ LastIndex(rep[q]) \in Int /\ rep[q].log \in Seq(Entry)
        /\ LastIndex(rep[q]) = Len(rep[q].log) + Base(rep[q]) /\ Len(rep[q].log) \in Nat
    BY <1>1, ReplicaParts
  <1>3. Covered(c, Chunks) /\ Covered(d, Chunks)
    <2>1. c \in Chunks /\ d \in Chunks
      BY DEF Chunks
    <2>. QED BY <2>1, ChunkTypes, ChunkIsCovered
  <1>4. /\ c.prevLogIndex = Base(rep[p]) /\ c.entries = rep[p].log
        /\ Positions(c) = Base(rep[p]) .. LastIndex(rep[p])
        /\ Indices(c) = Base(rep[p]) + 1 .. LastIndex(rep[p])
        /\ d.prevLogIndex = Base(rep[q]) /\ d.entries = rep[q].log
        /\ Positions(d) = Base(rep[q]) .. LastIndex(rep[q])
        /\ Indices(d) = Base(rep[q]) + 1 .. LastIndex(rep[q])
    BY <1>1, ChunkOfReplica
  <1>. HIDE DEF c, d
  <1>5. /\ i \in Positions(c) \cap Positions(d) /\ i \in Indices(c) \cap Indices(d)
        /\ j \in Positions(c) \cap Positions(d) /\ j \in Indices(c) \cap Indices(d)
    BY <1>2, <1>4 DEF Shared, Greater, Lesser
  <1>6. \A n \in Indices(c) \cap Indices(d) :
          /\ TermIn(c, n) = EntryAt(rep[p], n).term /\ CmdIn(c, n) = EntryAt(rep[p], n).cmd
          /\ TermIn(d, n) = EntryAt(rep[q], n).term /\ CmdIn(d, n) = EntryAt(rep[q], n).cmd
          /\ EntryAt(rep[p], n) \in Entry /\ EntryAt(rep[q], n) \in Entry
    <2>. SUFFICES ASSUME NEW n \in Indices(c) \cap Indices(d)
                  PROVE  /\ TermIn(c, n) = EntryAt(rep[p], n).term
                         /\ CmdIn(c, n) = EntryAt(rep[p], n).cmd
                         /\ TermIn(d, n) = EntryAt(rep[q], n).term
                         /\ CmdIn(d, n) = EntryAt(rep[q], n).cmd
                         /\ EntryAt(rep[p], n) \in Entry /\ EntryAt(rep[q], n) \in Entry
      BY Zenon
    <2>1. \A b, l \in Int : n \in b + 1 .. l + b => n # b /\ n - b \in 1 .. l
      OBVIOUS
    <2>2. /\ n # Base(rep[p]) /\ n - Base(rep[p]) \in 1 .. Len(rep[p].log)
          /\ n # Base(rep[q]) /\ n - Base(rep[q]) \in 1 .. Len(rep[q].log)
      <3>1. /\ LastIndex(rep[p]) = Len(rep[p].log) + Base(rep[p])
            /\ LastIndex(rep[q]) = Len(rep[q].log) + Base(rep[q])
            /\ Base(rep[p]) \in Int /\ Base(rep[q]) \in Int
            /\ Len(rep[p].log) \in Int /\ Len(rep[q].log) \in Int
        BY <1>2
      <3>2. n \in Indices(c) /\ n \in Indices(d)
        OBVIOUS
      <3>. QED BY <1>4, <2>1, <3>1, <3>2, Zenon
    <2>3. TermIn(c, n) = EntryAt(rep[p], n).term /\ TermIn(d, n) = EntryAt(rep[q], n).term
      BY <1>4, <2>2, Zenon DEF TermIn, EntryAt
    <2>4. CmdIn(c, n) = EntryAt(rep[p], n).cmd /\ CmdIn(d, n) = EntryAt(rep[q], n).cmd
      BY <1>4, Zenon DEF CmdIn, EntryAt
    <2>5. EntryAt(rep[p], n) \in Entry /\ EntryAt(rep[q], n) \in Entry
      <3>1. \A s \in Seq(Entry) : \A k \in 1 .. Len(s) : s[k] \in Entry
        OBVIOUS
      <3>. QED BY <1>2, <2>2, <3>1, Zenon DEF EntryAt
    <2>. QED BY <2>3, <2>4, <2>5
  <1>7. TermIn(c, j) = TermIn(d, j) /\ CmdIn(c, j) = CmdIn(d, j)
    BY <1>3, <1>5, <1>6, LinksMatch
  <1>8. \A e, g \in Entry : e.term = g.term /\ e.cmd = g.cmd => e = g
    BY DEF Entry
  <1>. QED BY <1>5, <1>6, <1>7, <1>8

\* The inductive invariant of logs: an entry's index and term identify it and what
\* is before it, in every log, every stored copy and every call.
THEOREM LogInvHolds ==
  Durable /\ Spec /\ []NoSnapshotIsSent => [](TypeInv /\ ElectionInv /\ LogInv)
  <1>. SUFFICES ASSUME Durable
                PROVE  Spec /\ []NoSnapshotIsSent => [](TypeInv /\ ElectionInv /\ LogInv)
    OBVIOUS
  <1>1. Init => LogInv
    BY InitLog
  <1>2. TypeInv /\ TypeInv' /\ ElectionInv /\ ElectionInv' /\ NoSnapshotIsSent
          /\ NoSnapshotIsSent' /\ LogInv /\ [Next]_vars => LogInv'
    BY NextLog
  <1>3. Spec => [](TypeInv /\ ElectionInv)
    BY ElectionInvHolds
  <1>. QED BY <1>1, <1>2, <1>3, PTL DEF Spec

\* Two logs with an entry of the same index and term agree on every entry up to it,
\* whatever calls are lost, late, or made of the leaders of earlier terms, and
\* whatever part of the logs their replicas have compacted, as long as no peer has
\* to be sent a snapshot.
THEOREM LogsMatch == Durable /\ Spec /\ []NoSnapshotIsSent => []LogMatching
  <1>1. TypeInv /\ NoSnapshotIsSent /\ LogInv => LogMatching
    BY LogInvImpliesMatching
  <1>. QED BY <1>1, LogInvHolds, PTL

\* Peers with equal snapshots have logs that agree after them, at every instant: what
\* the simulation compares (local.go:397) when its cluster is at rest.
THEOREM LogsAgreeAfterSnapshots ==
  Durable /\ Spec /\ []NoSnapshotIsSent => []AgreeOnLogEntriesIfSnapshotEqual
  <1>1. ASSUME TypeInv, LogMatching PROVE AgreeOnLogEntriesIfSnapshotEqual
    <2>. SUFFICES ASSUME NEW p \in Server, NEW q \in Server,
                         Base(rep[p]) = Base(rep[q]),
                         NEW i \in 1 .. Lesser(Len(rep[p].log), Len(rep[q].log)),
                         rep[p].log[i].term = rep[q].log[i].term,
                         NEW j \in 1 .. i
                  PROVE  rep[p].log[j].cmd = rep[q].log[j].cmd
      BY DEF AgreeOnLogEntriesIfSnapshotEqual, SnapshotEqual, AgreeOnTwoLogEntries, Base
    <2>. DEFINE b == Base(rep[p])
    <2>1. rep[p] \in Replica /\ rep[q] \in Replica
      BY <1>1 DEF TypeInv, TypeOK, ReplicaTypes
    <2>2. /\ b = Base(rep[p]) /\ b = Base(rep[q])
          /\ b \in Int /\ Len(rep[p].log) \in Nat /\ Len(rep[q].log) \in Nat
          /\ LastIndex(rep[p]) = Len(rep[p].log) + b
          /\ LastIndex(rep[q]) = Len(rep[q].log) + b
      BY <2>1, ReplicaParts
    <2>. HIDE DEF b
    <2>3. /\ i \in Int /\ 1 <= i /\ i <= Len(rep[p].log) /\ i <= Len(rep[q].log)
          /\ j \in Int /\ 1 <= j /\ j <= i
      BY <2>2 DEF Lesser
    <2>4. \A k \in Int : 1 <= k /\ k <= i => (b + k) - b = k /\ b + k \in Shared(rep[p], rep[q])
      <3>1. \A n, m, k \in Int : 1 <= k /\ k <= n /\ k <= m =>
              (b + k) - b = k /\ b + k \in Greater(b, b) + 1 .. Lesser(n + b, m + b)
        BY <2>2 DEF Greater, Lesser
      <3>2. \A k \in Int : 1 <= k /\ k <= i => k <= Len(rep[p].log) /\ k <= Len(rep[q].log)
        BY <2>2, <2>3
      <3>3. Shared(rep[p], rep[q]) =
              Greater(b, b) + 1 .. Lesser(Len(rep[p].log) + b, Len(rep[q].log) + b)
        BY <2>2, Zenon DEF Shared
      <3>4. Len(rep[p].log) \in Int /\ Len(rep[q].log) \in Int
        BY <2>2
      <3>. QED BY <3>1, <3>2, <3>3, <3>4
    <2>5. /\ EntryAt(rep[p], b + i) = rep[p].log[i] /\ EntryAt(rep[q], b + i) = rep[q].log[i]
          /\ EntryAt(rep[p], b + j) = rep[p].log[j] /\ EntryAt(rep[q], b + j) = rep[q].log[j]
      <3>1. (b + i) - b = i /\ (b + j) - b = j
        <4>1. i <= i
          BY <2>3
        <4>. QED BY <2>3, <2>4, <4>1, Zenon
      <3>2. Base(rep[p]) = b /\ Base(rep[q]) = b
        BY <2>2
      <3>. QED BY <3>1, <3>2, Zenon DEF EntryAt
    <2>6. /\ b + i \in Shared(rep[p], rep[q]) /\ b + j \in Shared(rep[p], rep[q])
          /\ b + j <= b + i
      <3>1. i <= i /\ 1 <= i
        BY <2>3
      <3>2. b + i \in Shared(rep[p], rep[q]) /\ b + j \in Shared(rep[p], rep[q])
        BY <2>3, <2>4, <3>1, Zenon
      <3>. QED BY <2>2, <2>3, <3>2
    <2>7. CASE p = q
      BY <2>7, Zenon
    <2>8. CASE p # q
      <3>1. EntryAt(rep[p], b + j) = EntryAt(rep[q], b + j)
        BY <1>1, <2>5, <2>6, <2>8 DEF LogMatching
      <3>. QED BY <2>5, <3>1
    <2>. QED BY <2>7, <2>8
  <1>. QED BY <1>1, LogsMatch, LogInvHolds, PTL

-----------------------------------------------------------------------------
\* logs too short to be compacted

\* the storage of s holds what it held, or what s has in memory
StoredStep(s) ==
  \A d \in {memory'[s], disk'[s]} :
    \/ d \in {memory[s], disk[s]}
    \/ d.log = rep'[s].log /\ d.snapshot = rep'[s].snapshot

LEMMA SaveIsStoredStep ==
  ASSUME TypeInv, NEW p \in Server, Save(p)
  PROVE  \A s \in Server : StoredStep(s)
  <1>1. /\ memory' = [memory EXCEPT ![p] = PersistentData(p)']
        /\ disk' = disk \/ disk' = [disk EXCEPT ![p] = PersistentData(p)']
    BY DEF Save
  <1>2. PersistentData(p)'.log = rep'[p].log /\ PersistentData(p)'.snapshot = rep'[p].snapshot
    BY DEF PersistentData
  <1>3. memory \in [Server -> Data] /\ disk \in [Server -> Data]
    BY DEF TypeInv, TypeOK, StorageTypes
  <1>. QED BY <1>1, <1>2, <1>3 DEF StoredStep

\* a replica whose log no snapshot has replaced, and that is within the bound
Short(r) == r.snapshot = NoSnapshot /\ LastIndex(r) <= MaxIndex

LEMMA UncompactedStep ==
  ASSUME TypeInv, TypeInv', Uncompacted,
         \A s \in Server : Short(rep'[s]) /\ StoredStep(s),
         \A c \in Requests' : \/ c \in Requests
                              \/ /\ c.type = "AppendEntries"
                                 /\ LastSent(c) <= MaxIndex
  PROVE  Uncompacted'
  <1>1. \A s \in Server : rep'[s].snapshot = NoSnapshot /\ LastIndex(rep'[s]) <= MaxIndex
    BY DEF Short
  <1>2. \A s \in Server : Len(rep'[s].log) <= MaxIndex + 1
    <2>. SUFFICES ASSUME NEW s \in Server PROVE Len(rep'[s].log) <= MaxIndex + 1
      OBVIOUS
    <2>1. rep'[s] \in Replica
      BY DEF TypeInv, TypeOK, ReplicaTypes
    <2>2. LastIndex(rep'[s]) = Len(rep'[s].log) + Base(rep'[s]) /\ Len(rep'[s].log) \in Nat
      BY <2>1, ReplicaParts
    <2>3. Base(rep'[s]) = -1
      BY <1>1 DEF Base, NoSnapshot
    <2>. QED BY <1>1, <2>2, <2>3, BoundAssumption
  <1>3. \A s \in Server : \A d \in {memory'[s], disk'[s]} :
          d.snapshot = NoSnapshot /\ Len(d.log) <= MaxIndex + 1
    BY <1>1, <1>2 DEF StoredStep, Uncompacted
  <1>4. \A c \in Requests' : c.type = "AppendEntries" /\ LastSent(c) <= MaxIndex
    BY DEF Uncompacted
  <1>. QED BY <1>1, <1>3, <1>4 DEF Uncompacted

\* A commit within a short log takes no snapshot.
LEMMA ShortCommit ==
  ASSUME SnapshotThreshold > MaxIndex + 1, NEW r, Sound(r), Short(r), NEW idx \in Nat
  PROVE  Short(UpdateCommitIndex(r, idx))
  <1>. DEFINE new == Lesser(idx, LastIndex(r))
  <1>1. /\ r \in Replica /\ Base(r) = -1 /\ LastIndex(r) \in Nat /\ LastIndex(r) <= MaxIndex
        /\ r.commitIndex \in Nat /\ MaxIndex \in Nat /\ SnapshotThreshold \in Nat
    BY LastIndexIsNat, ReplicaParts, BoundAssumption, ThresholdAssumption
       DEF Sound, Short, Base, NoSnapshot
  <1>2. new <= LastIndex(r) /\ new \in Nat
    BY <1>1 DEF Lesser
  <1>3. new < FirstSnapshot(r)
    BY <1>1, <1>2 DEF FirstSnapshot, Greater
  <1>4. \/ UpdateCommitIndex(r, idx) = r
        \/ UpdateCommitIndex(r, idx) = ApplyUpTo(r, new)
    BY <1>3 DEF UpdateCommitIndex
  <1>5. Short(ApplyUpTo(r, new))
    BY DEF Short, ApplyUpTo, LastIndex, LogLen, Base
  <1>. QED BY <1>4, <1>5

LEMMA ShortMerge ==
  ASSUME NEW r, Sound(r), Short(r), NEW f, IsChunk(f), f.prevLogIndex \in Nat,
         Readable(r, f.prevLogIndex), LastSent(f) <= MaxIndex
  PROVE  /\ Sound(MergeEntries(r, f.prevLogIndex, f.entries))
         /\ Short(MergeEntries(r, f.prevLogIndex, f.entries))
  <1>1. /\ r \in Replica /\ f.entries \in Seq(Entry) /\ LogLen(r) \in Int /\ LastIndex(r) \in Int
    BY ReplicaParts DEF Sound, IsChunk
  <1>2. Base(r) <= f.prevLogIndex /\ f.prevLogIndex <= LastIndex(r)
    BY <1>1 DEF Readable, LastIndex
  <1>3. Sound(MergeEntries(r, f.prevLogIndex, f.entries))
    BY <1>1, <1>2, MergeEntriesSound
  <1>4. CASE f.entries = <<>>
    BY <1>3, <1>4 DEF MergeEntries
  <1>5. CASE f.entries # <<>>
    BY <1>1, <1>2, <1>3, <1>5, MergedLog DEF Short, LastSent
  <1>. QED BY <1>3, <1>4, <1>5

LEMMA UncompactedReceive ==
  ASSUME SnapshotThreshold > MaxIndex + 1, TypeInv, TypeInv', Uncompacted,
         NEW p \in Server, NEW leader \in Server, NEW f \in Requests,
         HandleAppendEntries(p, leader, f), Requests' \subseteq Requests
  PROVE  Uncompacted'
  <1>1. NoSnapshotIsSent /\ \A s \in Server : Short(rep[s])
    BY DEF Uncompacted, NoSnapshotIsSent, Short
  <1>2. /\ f \in AppendEntriesReq /\ IsChunk(f) /\ LastSent(f) <= MaxIndex
        /\ f.prevLogIndex \in Nat /\ f.leaderCommit \in Nat
    BY <1>1, RequestTypes DEF Uncompacted, AppendEntriesReq
  <1>3. Sound(rep[p])
    BY UpIsSound DEF HandleAppendEntries, TypeInv, TypeOK, ShapeInv
  <1>4. \/ rep' = rep
        \/ /\ Consistent(p, f)
           /\ rep' = [rep EXCEPT ![p] =
                 UpdateCommitIndex(MergeEntries(rep[p], f.prevLogIndex, f.entries),
                                   f.leaderCommit)]
    BY DEF HandleAppendEntries
  <1>5. ASSUME Consistent(p, f)
        PROVE  Short(UpdateCommitIndex(MergeEntries(rep[p], f.prevLogIndex, f.entries),
                                       f.leaderCommit))
    <2>1. Readable(rep[p], f.prevLogIndex)
      BY <1>5 DEF Consistent
    <2>2. /\ Sound(MergeEntries(rep[p], f.prevLogIndex, f.entries))
          /\ Short(MergeEntries(rep[p], f.prevLogIndex, f.entries))
      BY <1>1, <1>2, <1>3, <2>1, ShortMerge
    <2>. QED BY <1>2, <2>2, ShortCommit
  <1>6. \A s \in Server : Short(rep'[s])
    BY <1>1, <1>4, <1>5 DEF TypeInv, TypeOK, ReplicaTypes
  <1>7. Save(p) \/ UNCHANGED <<memory, disk>>
    BY DEF HandleAppendEntries, storageVars
  <1>8. \A s \in Server : StoredStep(s)
    BY <1>7, SaveIsStoredStep DEF StoredStep
  <1>. QED BY <1>6, <1>8, UncompactedStep

LEMMA UncompactedSend ==
  ASSUME TypeInv, TypeInv', Uncompacted, NEW p \in Server, NEW q \in Server,
         SendAppendEntries(p, q)
  PROVE  Uncompacted'
  <1>1. UNCHANGED <<rep, memory, disk, lateRequests>>
    BY DEF SendAppendEntries, storageVars
  <1>2. \A s \in Server : Short(rep'[s]) /\ StoredStep(s)
    BY <1>1 DEF Uncompacted, Short, StoredStep
  <1>3. CASE request' = request
    BY <1>1, <1>2, <1>3, RequestsUnfold, UncompactedStep
  <1>4. ASSUME NEW f, CallOf(p, q, f), \A c \in Requests' : c \in Requests \/ c = f
        PROVE  Uncompacted'
    <2>1. f.type = "AppendEntries" /\ LastSent(f) <= MaxIndex
      BY <1>4 DEF CallOf, Uncompacted
    <2>. QED BY <1>2, <1>4, <2>1, UncompactedStep
  <1>. QED BY <1>3, <1>4, SentCall

LEMMA UncompactedRestart ==
  ASSUME TypeInv, TypeInv', Uncompacted, NEW p \in Server, Crash(p) \/ Stop(p)
  PROVE  Uncompacted'
  <1>1. PICK d \in {memory[p], disk[p]} :
          /\ NewProcess(p, d)
          /\ disk' = disk \/ disk' = [disk EXCEPT ![p] = memory[p]]
    BY DEF Crash, Stop
  <1>2. /\ memory' = [memory EXCEPT ![p] = d]
        /\ rep' = [rep EXCEPT ![p] = Reload(d.log, d.snapshot, d.commitIndex)]
    BY <1>1 DEF NewProcess
  <1>3. \A s \in Server : StoredStep(s)
    BY <1>1, <1>2 DEF StoredStep, TypeInv, TypeOK, StorageTypes
  <1>4. Short(Reload(d.log, d.snapshot, d.commitIndex))
    <2>1. d.snapshot = NoSnapshot /\ Len(d.log) <= MaxIndex + 1 /\ Len(d.log) \in Nat
      <3>1. d \in Data
        BY DEF TypeInv, TypeOK, StorageTypes
      <3>2. d.log \in Seq(Entry)
        BY <3>1 DEF Data
      <3>. QED BY <3>2 DEF Uncompacted
    <2>. QED BY <2>1, BoundAssumption DEF Reload, Short, LastIndex, LogLen, Base, NoSnapshot
  <1>5. \A s \in Server : Short(rep'[s])
    BY <1>2, <1>4 DEF Uncompacted, Short, TypeInv, TypeOK, ReplicaTypes
  <1>6. Requests' \subseteq Requests
    <2>1. /\ request' = [request EXCEPT ![p] = NoCalls]
          /\ \/ lateRequests' = lateRequests
             \/ lateRequests' = lateRequests \cup
                                  {[from |-> p, to |-> q, req |-> request[p][q]] :
                                     q \in {s \in Server : Waiting(p, s)}}
      BY <1>1 DEF NewProcess
    <2>. QED BY <2>1, RestartRequests
  <1>. QED BY <1>3, <1>5, <1>6, UncompactedStep

LEMMA UncompactedElsewhere ==
  ASSUME TypeInv, TypeInv', Uncompacted, rep' = rep, \A s \in Server : StoredStep(s),
         Requests' \subseteq Requests
  PROVE  Uncompacted'
  <1>1. \A s \in Server : Short(rep'[s])
    BY DEF Uncompacted, Short
  <1>. QED BY <1>1, UncompactedStep

LEMMA UncompactedNext ==
  ASSUME SnapshotThreshold > MaxIndex + 1, TypeInv, TypeInv', Uncompacted, [Next]_vars
  PROVE  Uncompacted'
  <1>1. \A s \in Server : /\ Short(rep[s]) /\ (up[s] => Sound(rep[s]))
                          /\ rep[s] \in Replica /\ currentTerm[s] \in Nat
    BY UpIsSound DEF Uncompacted, Short, TypeInv, TypeOK, ShapeInv, ReplicaTypes, PeerTypes
  <1>2. ASSUME UNCHANGED <<request, lateRequests>> PROVE Requests' \subseteq Requests
    BY <1>2 DEF Requests
  <1>3. ASSUME UNCHANGED <<memory, disk>> PROVE \A s \in Server : StoredStep(s)
    BY <1>3 DEF StoredStep
  <1>4. CASE UNCHANGED vars
    BY <1>2, <1>3, <1>4, UncompactedElsewhere DEF vars, callVars, storageVars
  <1>5. ASSUME NEW p \in Server, NEW r, Short(r), Save(p), rep' = [rep EXCEPT ![p] = r],
               UNCHANGED <<request, lateRequests>>
        PROVE  Uncompacted'
    <2>1. \A s \in Server : Short(rep'[s])
      BY <1>1, <1>5 DEF TypeInv, TypeOK, ReplicaTypes
    <2>. QED BY <1>2, <1>5, <2>1, SaveIsStoredStep, UncompactedStep
  <1>6. ASSUME NEW p \in Server, NEW cmd \in Cmd, LeaderAppend(p, cmd),
               UNCHANGED <<request, lateRequests>>
        PROVE  Uncompacted'
    <2>. DEFINE e == [term |-> currentTerm[p], cmd |-> cmd]
    <2>1. LogLen(rep[p]) <= MaxIndex /\ Save(p) /\ rep' = [rep EXCEPT ![p] = AppendEntry(rep[p], e)]
      BY <1>6 DEF LeaderAppend
    <2>2. e \in Entry
      BY <1>1 DEF Entry
    <2>3. Short(AppendEntry(rep[p], e))
      <3>1. AppendEntry(rep[p], e).snapshot = rep[p].snapshot
        BY <1>1 DEF AppendEntry, Replica
      <3>2. LastIndex(AppendEntry(rep[p], e)) = LastIndex(rep[p]) + 1
        BY <1>1, <2>2, AppendedChunk
      <3>3. LastIndex(rep[p]) + 1 <= MaxIndex
        BY <1>1, <2>1, ReplicaParts DEF LastIndex
      <3>. QED BY <1>1, <3>1, <3>2, <3>3 DEF Short
    <2>. QED BY <1>5, <1>6, <2>1, <2>3
  <1>7. ASSUME NEW p \in Server, FollowerTimeout(p) \/ CandidateTimeout(p)
        PROVE  Uncompacted'
    <2>1. Save(p) /\ UNCHANGED <<rep, request, lateRequests>>
      BY <1>7 DEF FollowerTimeout, CandidateTimeout, StartElection, callVars
    <2>. QED BY <1>2, <2>1, SaveIsStoredStep, UncompactedElsewhere
  <1>8. ASSUME NEW p \in Server, FollowerRearm(p) \/ Flush(p)
        PROVE  Uncompacted'
    <2>1. /\ UNCHANGED <<rep, request, lateRequests, memory>>
          /\ disk' = disk \/ disk' = [disk EXCEPT ![p] = memory[p]]
      BY <1>8 DEF FollowerRearm, Flush, callVars, storageVars
    <2>2. \A s \in Server : StoredStep(s)
      BY <2>1 DEF StoredStep, TypeInv, TypeOK, StorageTypes
    <2>. QED BY <1>2, <2>1, <2>2, UncompactedElsewhere
  <1>9. ASSUME NEW p \in Server, NEW m \in voteRequests, HandleRequestVote(p, m)
        PROVE  Uncompacted'
    <2>1. UNCHANGED <<rep, request, lateRequests>> /\ (Save(p) \/ UNCHANGED <<memory, disk>>)
      BY <1>9 DEF HandleRequestVote, callVars, storageVars
    <2>. QED BY <1>2, <1>3, <2>1, SaveIsStoredStep, UncompactedElsewhere
  <1>10. ASSUME NEW m \in voteResponses, HandleRequestVoteRespond(m)
         PROVE  Uncompacted'
    <2>1. /\ UNCHANGED <<rep, request, lateRequests>>
          /\ Save(m.cand) \/ UNCHANGED <<memory, disk>>
      BY <1>10 DEF HandleRequestVoteRespond, callVars, storageVars
    <2>2. m.cand \in Server
      BY DEF TypeInv, TypeOK, ElectionTypes
    <2>. QED BY <1>2, <1>3, <2>1, <2>2, SaveIsStoredStep, UncompactedElsewhere
  <1>11. ASSUME NEW p \in Server,
                \/ \E cmd \in Command : ClientRequest(p, cmd)
                \/ AppendNoop(p)
         PROVE  Uncompacted'
    <2>1. UNCHANGED <<request, lateRequests>>
      BY <1>11 DEF ClientRequest, AppendNoop, callVars
    <2>2. \/ \E cmd \in Cmd : LeaderAppend(p, cmd)
          \/ UNCHANGED <<rep, memory, disk>>
      BY <1>11 DEF ClientRequest, AppendNoop, storageVars, Cmd
    <2>. QED BY <1>2, <1>3, <1>6, <2>1, <2>2, UncompactedElsewhere
  <1>12. ASSUME NEW p \in Server, NEW i \in 1 .. MaxIndex, CommitRequest(p, i)
         PROVE  Uncompacted'
    <2>1. /\ Save(p) /\ up[p] /\ UNCHANGED <<request, lateRequests>>
          /\ rep' = [rep EXCEPT ![p] = UpdateCommitIndex(rep[p], i)]
      BY <1>12 DEF CommitRequest, callVars
    <2>2. Short(UpdateCommitIndex(rep[p], i))
      BY <1>1, <2>1, ShortCommit, BoundAssumption
    <2>. QED BY <1>5, <2>1, <2>2
  <1>13. ASSUME NEW p \in Server, NEW q \in Server, CallFails(p, q)
         PROVE  Uncompacted'
    <2>1. /\ request[p][q] # Nil /\ request' = [request EXCEPT ![p][q] = Nil]
          /\ \/ lateRequests' = lateRequests
             \/ lateRequests' = lateRequests \cup {[from |-> p, to |-> q, req |-> request[p][q]]}
          /\ UNCHANGED <<rep, memory, disk>>
      BY <1>13 DEF CallFails, storageVars
    <2>. QED BY <1>3, <2>1, CallEnds, UncompactedElsewhere
  <1>14. ASSUME NEW p \in Server, NEW q \in Server,
                HandleAppendEntriesRes(p, q) \/ HandleInstallSnapshotRes(p, q)
         PROVE  Uncompacted'
    <2>1. /\ request[p][q] # Nil /\ request' = [request EXCEPT ![p][q] = Nil]
          /\ lateRequests' = lateRequests /\ rep' = rep
          /\ Save(p) \/ UNCHANGED <<memory, disk>>
      BY <1>14 DEF HandleAppendEntriesRes, HandleInstallSnapshotRes, Answered, storageVars
    <2>. QED BY <1>3, <2>1, CallEnds, SaveIsStoredStep, UncompactedElsewhere
  <1>15. ASSUME NEW p \in Server, NEW q \in Server,
                ReceiveAppendEntries(p, q) \/ ReceiveInstallSnapshot(p, q)
         PROVE  Uncompacted'
    <2>1. /\ request[p][q] # Nil /\ lateRequests' = lateRequests
          /\ request' = request \/ request' = [request EXCEPT ![p][q] = Nil]
      BY <1>15 DEF ReceiveAppendEntries, ReceiveInstallSnapshot, Answer, Waiting
    <2>2. Requests' \subseteq Requests
      BY <1>2, <2>1, CallEnds
    <2>3. request[p][q] \in Requests
      BY <2>1, RequestsUnfold
    <2>4. HandleAppendEntries(q, p, request[p][q])
      BY <1>15, <2>3 DEF ReceiveAppendEntries, ReceiveInstallSnapshot, HandleInstallSnapshot,
                         Uncompacted
    <2>. QED BY <2>2, <2>3, <2>4, UncompactedReceive
  <1>16. ASSUME NEW m \in lateRequests, ReceiveLate(m)
         PROVE  Uncompacted'
    <2>1. m.req \in Requests /\ Requests' \subseteq Requests /\ m.to \in Server /\ m.from \in Server
      <3>1. request' = request /\ lateRequests' \subseteq lateRequests
        BY <1>16 DEF ReceiveLate
      <3>. QED BY <3>1, RequestsUnfold DEF TypeInv, TypeOK, CallTypes
    <2>2. HandleAppendEntries(m.to, m.from, m.req)
      BY <1>16, <2>1 DEF ReceiveLate, HandleInstallSnapshot, Uncompacted
    <2>. QED BY <2>1, <2>2, UncompactedReceive
  <1>17. ASSUME NEW p \in Server, NEW q \in Server, SendInstallSnapshot(p, q)
         PROVE  FALSE
    BY <1>17 DEF SendInstallSnapshot, SendsSnapshot, Uncompacted
  <1>18. CASE Next
    BY <1>7, <1>8, <1>9, <1>10, <1>11, <1>12, <1>13, <1>14, <1>15, <1>16, <1>17, <1>18,
       UncompactedSend, UncompactedRestart DEF Next
  <1>. QED BY <1>4, <1>18

LEMMA UncompactedHolds ==
  SnapshotThreshold > MaxIndex + 1 /\ Spec => [](TypeInv /\ Uncompacted)
  <1>. SUFFICES ASSUME SnapshotThreshold > MaxIndex + 1
                PROVE  Spec => [](TypeInv /\ Uncompacted)
    OBVIOUS
  <1>1. Init => TypeInv /\ Uncompacted
    <2>1. ASSUME Init PROVE Uncompacted
      <3>1. \A p \in Server : /\ rep[p] = InitReplica
                              /\ memory[p].log = InitReplica.log
                              /\ memory[p].snapshot = InitReplica.snapshot
                              /\ disk[p] = memory[p]
        BY <2>1 DEF Init, PersistentData
      <3>2. Requests = {}
        <4>1. \A p, q \in Server : request[p][q] = Nil
          BY <2>1 DEF Init, NoCalls
        <4>2. lateRequests = {}
          BY <2>1 DEF Init
        <4>. QED BY <4>1, <4>2, RequestsUnfold
      <3>3. /\ InitReplica.snapshot = NoSnapshot /\ Len(InitReplica.log) = 1
            /\ LastIndex(InitReplica) = 0 /\ MaxIndex \in Nat
        BY BoundAssumption DEF InitReplica, LastIndex, LogLen, Base, NoSnapshot
      <3>4. \A p \in Server : /\ rep[p].snapshot = NoSnapshot /\ LastIndex(rep[p]) = 0
                              /\ memory[p].snapshot = NoSnapshot /\ disk[p].snapshot = NoSnapshot
                              /\ Len(memory[p].log) = 1 /\ Len(disk[p].log) = 1
        BY <3>1, <3>3
      <3>5. 0 <= MaxIndex /\ 1 <= MaxIndex + 1
        BY <3>3
      <3>. QED BY <3>2, <3>4, <3>5 DEF Uncompacted
    <2>. QED BY <2>1, InitTypes
  <1>2. (TypeInv /\ Uncompacted) /\ [Next]_vars => (TypeInv /\ Uncompacted)'
    BY NextTypes, UncompactedNext
  <1>. QED BY <1>1, <1>2, PTL DEF Spec

\* The same without a hypothesis on behaviours: while no log can reach the length at
\* which it is compacted, no snapshot is sent, and the logs of any number of peers
\* match.
THEOREM ShortLogsMatch ==
  Durable /\ SnapshotThreshold > MaxIndex + 1 /\ Spec => []LogMatching
  <1>. SUFFICES ASSUME SnapshotThreshold > MaxIndex + 1
                PROVE  Durable /\ Spec => []LogMatching
    OBVIOUS
  <1>1. Uncompacted => NoSnapshotIsSent
    BY DEF Uncompacted, NoSnapshotIsSent
  <1>. QED BY <1>1, UncompactedHolds, LogsMatch, PTL

-----------------------------------------------------------------------------
\* signals

\* Two sets of followers with no one in common are fewer than the servers.
LEMMA FollowerCounts ==
  ASSUME NEW p \in Server, NEW A \in SUBSET (Server \ {p}), NEW B \in SUBSET (Server \ {p}),
         A \cap B = {}
  PROVE  /\ N \in Nat /\ IsFiniteSet(A) /\ IsFiniteSet(B)
         /\ Cardinality(A) \in Nat /\ Cardinality(B) \in Nat
         /\ Cardinality(A) + Cardinality(B) <= N - 1
  <1>. DEFINE F == Server \ {p}
  <1>1. IsFiniteSet(F) /\ Cardinality(F) = N - 1 /\ N \in Nat
    BY ServersFinite, FS_RemoveElement DEF N
  <1>. HIDE DEF F
  <1>2. A \subseteq F /\ B \subseteq F
    BY DEF F
  <1>3. IsFiniteSet(A) /\ IsFiniteSet(B)
    BY <1>1, <1>2, FS_Subset
  <1>4. /\ Cardinality(A) \in Nat /\ Cardinality(B) \in Nat /\ Cardinality(F) \in Nat
        /\ Cardinality(A \cap B) = 0
    BY <1>1, <1>3, FS_CardinalityType, FS_EmptySet
  <1>5. Cardinality(A \cup B) = Cardinality(A) + Cardinality(B)
    <2>1. Cardinality(A \cup B) = Cardinality(A) + Cardinality(B) - Cardinality(A \cap B)
      BY <1>3, FS_Union, Zenon
    <2>. QED BY <1>4, <2>1
  <1>6. Cardinality(A \cup B) <= Cardinality(F)
    BY <1>1, <1>2, FS_Subset
  <1>. QED BY <1>1, <1>3, <1>4, <1>5, <1>6

LEMMA SignalCounts ==
  ASSUME TypeInv, TypeInv', NEW p \in Server, NEW i \in 1 .. MaxIndex
  PROVE  /\ i \in Int /\ acks[p][i] \in Nat /\ acks'[p][i] \in Nat /\ N \in Nat
         /\ IsFiniteSet(MaySignal(p, i)) /\ IsFiniteSet(HaveSignalled(p, i))
         /\ Cardinality(MaySignal(p, i)) \in Nat /\ Cardinality(HaveSignalled(p, i)) \in Nat
         /\ Cardinality(MaySignal(p, i)) + Cardinality(HaveSignalled(p, i)) <= N - 1
         /\ IsFiniteSet(MaySignal(p, i)') /\ IsFiniteSet(HaveSignalled(p, i)')
         /\ Cardinality(MaySignal(p, i)') \in Nat /\ Cardinality(HaveSignalled(p, i)') \in Nat
         /\ Cardinality(MaySignal(p, i)') + Cardinality(HaveSignalled(p, i)') <= N - 1
  <1>1. i \in Int /\ acks[p][i] \in Nat /\ acks'[p][i] \in Nat
    BY BoundAssumption DEF TypeInv, TypeOK, LeaderTypes
  <1>2. \A q \in Server : matchIndex[p][q] \in Nat /\ matchIndex'[p][q] \in Nat
    BY DEF TypeInv, TypeOK, LeaderTypes
  <1>3. /\ MaySignal(p, i) \subseteq Server \ {p} /\ HaveSignalled(p, i) \subseteq Server \ {p}
        /\ MaySignal(p, i) \cap HaveSignalled(p, i) = {}
    BY <1>1, <1>2 DEF MaySignal, HaveSignalled
  <1>4. /\ MaySignal(p, i)' \subseteq Server \ {p} /\ HaveSignalled(p, i)' \subseteq Server \ {p}
        /\ MaySignal(p, i)' \cap HaveSignalled(p, i)' = {}
    BY <1>1, <1>2 DEF MaySignal, HaveSignalled
  <1>. QED BY <1>1, <1>3, <1>4, FollowerCounts

\* no channel of s gets a signal, and no call of s begins
SignalStep(s) ==
  \/ acks'[s] = NoSignals
  \/ /\ matchIndex'[s] = matchIndex[s]
     /\ \A i \in 1 .. MaxIndex : acks'[s][i] <= acks[s][i]
     /\ Base(rep[s]) <= Base(rep'[s])
     /\ LastIndex(rep'[s]) <= Greater(Base(rep'[s]), LastIndex(rep[s]))
     /\ \A q \in Server : request'[s][q] \in {request[s][q], Nil}

LEMMA SignalsKept ==
  ASSUME TypeInv, TypeInv', NEW s \in Server, SignalsOf(s), SignalStep(s)
  PROVE  SignalsOf(s)'
  <1>. SUFFICES ASSUME NEW i \in 1 .. MaxIndex
                PROVE  /\ acks'[s][i] <= N
                       /\ i > Base(rep'[s]) => acks'[s][i] + Cardinality(MaySignal(s, i)') <= N
                       /\ i > Base(rep'[s]) /\ i <= LastIndex(rep'[s]) =>
                            acks'[s][i] <= 1 + Cardinality(HaveSignalled(s, i)')
    BY DEF SignalsOf
  <1>1. acks[s][i] \in Nat /\ acks'[s][i] \in Nat /\ i \in Int
    BY SignalCounts
  <1>2. CASE acks'[s] = NoSignals
    <2>1. acks'[s][i] = 0
      BY <1>2 DEF NoSignals
    <2>. QED BY <2>1, SignalCounts
  <1>3. CASE acks'[s] # NoSignals
    <2>1. /\ matchIndex'[s] = matchIndex[s] /\ acks'[s][i] <= acks[s][i]
          /\ Base(rep[s]) <= Base(rep'[s])
          /\ LastIndex(rep'[s]) <= Greater(Base(rep'[s]), LastIndex(rep[s]))
          /\ \A q \in Server : request'[s][q] \in {request[s][q], Nil}
      BY <1>3 DEF SignalStep
    <2>2. MaySignal(s, i)' \subseteq MaySignal(s, i)
      BY <2>1 DEF MaySignal, Outstanding
    <2>3. HaveSignalled(s, i) \subseteq HaveSignalled(s, i)'
      BY <2>1 DEF HaveSignalled, Outstanding
    <2>4. /\ MaySignal(s, i) \subseteq Server /\ HaveSignalled(s, i)' \subseteq Server
          /\ MaySignal(s, i)' \subseteq Server /\ HaveSignalled(s, i) \subseteq Server
      BY DEF MaySignal, HaveSignalled
    <2>5. /\ Cardinality(MaySignal(s, i)') <= Cardinality(MaySignal(s, i))
          /\ Cardinality(HaveSignalled(s, i)) <= Cardinality(HaveSignalled(s, i)')
      BY <2>2, <2>3, <2>4, CountGrows
    <2>6. /\ Base(rep[s]) \in Int /\ Base(rep'[s]) \in Int
          /\ LastIndex(rep[s]) \in Int /\ LastIndex(rep'[s]) \in Int
      BY ReplicaParts DEF TypeInv, TypeOK, ReplicaTypes
    <2>7. /\ i > Base(rep'[s]) => i > Base(rep[s])
          /\ i > Base(rep'[s]) /\ i <= LastIndex(rep'[s]) => i <= LastIndex(rep[s])
      BY <1>1, <2>1, <2>6 DEF Greater
    <2>8. /\ Cardinality(MaySignal(s, i)') \in Nat /\ Cardinality(MaySignal(s, i)) \in Nat
          /\ Cardinality(HaveSignalled(s, i)') \in Nat /\ Cardinality(HaveSignalled(s, i)) \in Nat
          /\ N \in Nat
      BY SignalCounts
    <2>9. /\ acks[s][i] <= N
          /\ i > Base(rep[s]) => acks[s][i] + Cardinality(MaySignal(s, i)) <= N
          /\ i > Base(rep[s]) /\ i <= LastIndex(rep[s]) =>
               acks[s][i] <= 1 + Cardinality(HaveSignalled(s, i))
      BY DEF SignalsOf
    <2>. QED BY <1>1, <2>1, <2>5, <2>7, <2>8, <2>9
  <1>. QED BY <1>2, <1>3

\* A channel made for the entry just appended holds the signal of the leader alone.
LEMMA SignalAppended ==
  ASSUME TypeInv, TypeInv', NEW p \in Server, SignalsOf(p), NEW cmd \in Cmd,
         LeaderAppend(p, cmd), UNCHANGED <<matchIndex, request>>
  PROVE  SignalsOf(p)'
  <1>. DEFINE n == LogLen(rep[p])
              e == [term |-> currentTerm[p], cmd |-> cmd]
  <1>1. /\ acks' = [acks EXCEPT ![p][n] = 1]
        /\ rep' = [rep EXCEPT ![p] = AppendEntry(rep[p], e)]
    BY DEF LeaderAppend
  <1>2. rep[p] \in Replica /\ e \in Entry /\ acks[p] \in [1 .. MaxIndex -> Nat]
    BY DEF TypeInv, TypeOK, ReplicaTypes, LeaderTypes, PeerTypes, Entry
  <1>3. /\ rep'[p] = AppendEntry(rep[p], e)
        /\ \A i \in 1 .. MaxIndex : acks'[p][i] = IF i = n THEN 1 ELSE acks[p][i]
    <2>1. rep'[p] = AppendEntry(rep[p], e)
      BY <1>1 DEF TypeInv, TypeOK, ReplicaTypes
    <2>2. acks'[p] = [acks[p] EXCEPT ![n] = 1]
      BY <1>1 DEF TypeInv, TypeOK, LeaderTypes
    <2>. QED BY <1>2, <2>1, <2>2
  <1>4. Base(rep'[p]) = Base(rep[p]) /\ LastIndex(rep'[p]) = n /\ LastIndex(rep[p]) = n - 1
        /\ n \in Int /\ Base(rep[p]) \in Int
    <2>1. Base(AppendEntry(rep[p], e)) = Base(rep[p])
      BY <1>2 DEF AppendEntry, Base, Replica
    <2>2. LastIndex(AppendEntry(rep[p], e)) = LastIndex(rep[p]) + 1
      BY <1>2, AppendedChunk
    <2>3. LastIndex(rep[p]) = n - 1 /\ n \in Int /\ Base(rep[p]) \in Int
      BY <1>2, ReplicaParts DEF LastIndex
    <2>. HIDE DEF n, e
    <2>. QED BY <1>3, <2>1, <2>2, <2>3
  <1>. HIDE DEF n, e
  <1>. SUFFICES ASSUME NEW i \in 1 .. MaxIndex
                PROVE  /\ acks'[p][i] <= N
                       /\ i > Base(rep'[p]) => acks'[p][i] + Cardinality(MaySignal(p, i)') <= N
                       /\ i > Base(rep'[p]) /\ i <= LastIndex(rep'[p]) =>
                            acks'[p][i] <= 1 + Cardinality(HaveSignalled(p, i)')
    BY DEF SignalsOf
  <1>5. MaySignal(p, i)' = MaySignal(p, i) /\ HaveSignalled(p, i)' = HaveSignalled(p, i)
    BY DEF MaySignal, HaveSignalled, Outstanding
  <1>6. /\ i \in Int /\ acks[p][i] \in Nat /\ N \in Nat
        /\ Cardinality(MaySignal(p, i)) \in Nat /\ Cardinality(HaveSignalled(p, i)) \in Nat
        /\ Cardinality(MaySignal(p, i)) + Cardinality(HaveSignalled(p, i)) <= N - 1
    BY SignalCounts
  <1>7. /\ acks[p][i] <= N
        /\ i > Base(rep[p]) => acks[p][i] + Cardinality(MaySignal(p, i)) <= N
        /\ i > Base(rep[p]) /\ i <= LastIndex(rep[p]) =>
             acks[p][i] <= 1 + Cardinality(HaveSignalled(p, i))
    BY DEF SignalsOf
  <1>8. CASE i = n
    BY <1>3, <1>5, <1>6, <1>8
  <1>9. CASE i # n
    BY <1>3, <1>4, <1>5, <1>6, <1>7, <1>9
  <1>. QED BY <1>8, <1>9

\* A call that begins carries the log to its end: whoever did not signal for an index
\* of the log may do so now.
LEMMA SignalSent ==
  ASSUME TypeInv, TypeInv', NEW p \in Server, NEW q \in Server, SignalsOf(p),
         request[p][q] = Nil, NEW f, CallOf(p, q, f), request' = [request EXCEPT ![p][q] = f],
         UNCHANGED <<matchIndex, acks, rep>>
  PROVE  SignalsOf(p)'
  <1>. SUFFICES ASSUME NEW i \in 1 .. MaxIndex
                PROVE  /\ acks[p][i] <= N
                       /\ i > Base(rep[p]) => acks[p][i] + Cardinality(MaySignal(p, i)') <= N
                       /\ i > Base(rep[p]) /\ i <= LastIndex(rep[p]) =>
                            acks[p][i] <= 1 + Cardinality(HaveSignalled(p, i)')
    BY DEF SignalsOf
  <1>1. /\ acks[p][i] <= N
        /\ i > Base(rep[p]) => acks[p][i] + Cardinality(MaySignal(p, i)) <= N
        /\ i > Base(rep[p]) /\ i <= LastIndex(rep[p]) =>
             acks[p][i] <= 1 + Cardinality(HaveSignalled(p, i))
    BY DEF SignalsOf
  <1>2. /\ i \in Int /\ acks[p][i] \in Nat /\ N \in Nat
        /\ Cardinality(MaySignal(p, i)) \in Nat /\ Cardinality(HaveSignalled(p, i)) \in Nat
        /\ Cardinality(MaySignal(p, i)') \in Nat /\ Cardinality(HaveSignalled(p, i)') \in Nat
        /\ Cardinality(MaySignal(p, i)') + Cardinality(HaveSignalled(p, i)') <= N - 1
    BY SignalCounts
  <1>3. /\ \A s \in Server : s # q => request'[p][s] = request[p][s]
        /\ request'[p][q] = f /\ LastSent(f) = LastIndex(rep[p]) /\ LastIndex(rep[p]) \in Int
    BY ReplicaParts DEF CallOf, TypeInv, TypeOK, CallTypes, ReplicaTypes
  <1>4. /\ MaySignal(p, i) \subseteq Server /\ HaveSignalled(p, i)' \subseteq Server
        /\ MaySignal(p, i)' \subseteq Server /\ HaveSignalled(p, i) \subseteq Server
    BY DEF MaySignal, HaveSignalled
  <1>5. CASE i <= LastIndex(rep[p])
    <2>1. HaveSignalled(p, i) \subseteq HaveSignalled(p, i)'
      <3>. SUFFICES ASSUME NEW s \in HaveSignalled(p, i) PROVE s \in HaveSignalled(p, i)'
        OBVIOUS
      <3>1. s \in Server \ {p} /\ matchIndex[p][s] >= i
            /\ (Outstanding(p, s) => LastSent(request[p][s]) >= i)
        BY DEF HaveSignalled
      <3>2. CASE s # q
        BY <1>3, <3>1, <3>2 DEF HaveSignalled, Outstanding
      <3>3. CASE s = q
        <4>1. LastSent(request'[p][s]) >= i
          BY <1>2, <1>3, <1>5, <3>3
        <4>. QED BY <3>1, <4>1 DEF HaveSignalled
      <3>. QED BY <3>2, <3>3
    <2>2. Cardinality(HaveSignalled(p, i)) <= Cardinality(HaveSignalled(p, i)')
      BY <1>4, <2>1, CountGrows
    <2>. QED BY <1>1, <1>2, <1>5, <2>2
  <1>6. CASE ~(i <= LastIndex(rep[p]))
    <2>1. MaySignal(p, i)' \subseteq MaySignal(p, i)
      <3>. SUFFICES ASSUME NEW s \in MaySignal(p, i)' PROVE s \in MaySignal(p, i)
        OBVIOUS
      <3>1. s \in Server \ {p} /\ matchIndex[p][s] < i
            /\ Outstanding(p, s)' /\ LastSent(request'[p][s]) >= i
        BY DEF MaySignal
      <3>2. s # q
        BY <1>2, <1>3, <1>6, <3>1
      <3>. QED BY <1>3, <3>1, <3>2 DEF MaySignal, Outstanding
    <2>2. Cardinality(MaySignal(p, i)') <= Cardinality(MaySignal(p, i))
      BY <1>4, <2>1, CountGrows
    <2>. QED BY <1>1, <1>2, <1>6, <2>2
  <1>. QED BY <1>5, <1>6

\* A success counts a follower that had not signalled, and could.
LEMMA SignalCounted ==
  ASSUME TypeInv, TypeInv', NEW p \in Server, NEW q \in Server \ {p}, SignalsOf(p),
         Outstanding(p, q), request' = [request EXCEPT ![p][q] = Nil], rep' = rep,
         acks' = [acks EXCEPT ![p] =
                   [i \in 1 .. MaxIndex |->
                      IF i \in FirstToSignal(p, q) .. LastSent(request[p][q]) /\ @[i] > 0
                        THEN @[i] + 1 ELSE @[i]]],
         matchIndex' = [matchIndex EXCEPT ![p][q] = LastSent(request[p][q])]
  PROVE  SignalsOf(p)'
  <1>. DEFINE last == LastSent(request[p][q])
  <1>. SUFFICES ASSUME NEW i \in 1 .. MaxIndex
                PROVE  /\ acks'[p][i] <= N
                       /\ i > Base(rep[p]) => acks'[p][i] + Cardinality(MaySignal(p, i)') <= N
                       /\ i > Base(rep[p]) /\ i <= LastIndex(rep[p]) =>
                            acks'[p][i] <= 1 + Cardinality(HaveSignalled(p, i)')
    BY DEF SignalsOf
  <1>1. /\ acks[p][i] <= N
        /\ i > Base(rep[p]) => acks[p][i] + Cardinality(MaySignal(p, i)) <= N
        /\ i > Base(rep[p]) /\ i <= LastIndex(rep[p]) =>
             acks[p][i] <= 1 + Cardinality(HaveSignalled(p, i))
    BY DEF SignalsOf
  <1>2. /\ i \in Int /\ acks[p][i] \in Nat /\ N \in Nat
        /\ IsFiniteSet(MaySignal(p, i)) /\ IsFiniteSet(HaveSignalled(p, i))
        /\ IsFiniteSet(HaveSignalled(p, i)')
        /\ Cardinality(MaySignal(p, i)) \in Nat /\ Cardinality(HaveSignalled(p, i)) \in Nat
        /\ Cardinality(MaySignal(p, i)') \in Nat /\ Cardinality(HaveSignalled(p, i)') \in Nat
    BY SignalCounts
  <1>3. /\ acks'[p][i] = IF i \in FirstToSignal(p, q) .. last /\ acks[p][i] > 0
                           THEN acks[p][i] + 1 ELSE acks[p][i]
        /\ matchIndex'[p] = [matchIndex[p] EXCEPT ![q] = last]
        /\ request'[p] = [request[p] EXCEPT ![q] = Nil]
        /\ matchIndex[p] \in [Server -> Nat] /\ DOMAIN request[p] = Server
    BY DEF TypeInv, TypeOK, CallTypes, LeaderTypes
  <1>4. last \in Nat
    BY DEF TypeInv, TypeOK, LeaderTypes
  <1>. HIDE DEF last
  <1>5. /\ matchIndex'[p][q] = last /\ request'[p][q] = Nil
        /\ \A s \in Server : s # q => /\ matchIndex'[p][s] = matchIndex[p][s]
                                      /\ request'[p][s] = request[p][s]
    BY <1>3
  <1>6. MaySignal(p, i)' = MaySignal(p, i) \ {q}
    BY <1>5 DEF MaySignal, Outstanding
  <1>7. /\ MaySignal(p, i) \subseteq Server /\ HaveSignalled(p, i)' \subseteq Server
        /\ MaySignal(p, i)' \subseteq Server /\ HaveSignalled(p, i) \subseteq Server
    BY DEF MaySignal, HaveSignalled
  <1>8. HaveSignalled(p, i) \subseteq HaveSignalled(p, i)'
    <2>. SUFFICES ASSUME NEW s \in HaveSignalled(p, i) PROVE s \in HaveSignalled(p, i)'
      OBVIOUS
    <2>1. s \in Server \ {p} /\ matchIndex[p][s] >= i
          /\ (Outstanding(p, s) => LastSent(request[p][s]) >= i)
      BY DEF HaveSignalled
    <2>2. CASE s # q
      BY <1>5, <2>1, <2>2 DEF HaveSignalled, Outstanding
    <2>3. CASE s = q
      BY <1>5, <2>1, <2>3 DEF HaveSignalled, Outstanding, last
    <2>. QED BY <2>2, <2>3
  <1>9. CASE i \in FirstToSignal(p, q) .. last /\ acks[p][i] > 0
    <2>1. /\ rep[p].commitIndex \in Nat /\ Base(rep[p]) \in Int
          /\ Base(rep[p]) <= rep[p].commitIndex
          /\ matchIndex[p][q] \in Nat
      BY ReplicaParts DEF TypeInv, TypeOK, ReplicaTypes, ShapeInv, ReplicaShape, WellFormed,
                          Base, LeaderTypes
    <2>2. i > Base(rep[p]) /\ i > matchIndex[p][q] /\ i <= last
      <3>1. FirstToSignal(p, q) = Greater(rep[p].commitIndex, matchIndex[p][q]) + 1
        BY Zenon DEF FirstToSignal
      <3>2. \A b, m, k, l, n \in Int :
              b <= k /\ n \in Greater(k, m) + 1 .. l => n > b /\ n > m /\ n <= l
        BY DEF Greater
      <3>3. /\ last \in Int /\ matchIndex[p][q] \in Int /\ rep[p].commitIndex \in Int
            /\ i \in Int
        BY <1>2, <1>4, <2>1
      <3>. QED BY <1>9, <2>1, <3>1, <3>2, <3>3, Zenon
    <2>3. /\ q \in MaySignal(p, i) /\ q \notin HaveSignalled(p, i)
          /\ q \in HaveSignalled(p, i)'
      <3>1. q \in MaySignal(p, i)
        BY <2>2 DEF MaySignal, last
      <3>2. q \notin HaveSignalled(p, i)
        BY <1>2, <2>1, <2>2 DEF HaveSignalled
      <3>3. q \in HaveSignalled(p, i)'
        BY <1>2, <1>4, <1>5, <2>2 DEF HaveSignalled, Outstanding
      <3>. QED BY <3>1, <3>2, <3>3
    <2>4. Cardinality(MaySignal(p, i)') = Cardinality(MaySignal(p, i)) - 1
      BY <1>2, <1>6, <2>3, FS_RemoveElement
    <2>5. Cardinality(HaveSignalled(p, i)) + 1 <= Cardinality(HaveSignalled(p, i)')
      <3>1. Cardinality(HaveSignalled(p, i) \cup {q}) = Cardinality(HaveSignalled(p, i)) + 1
        BY <1>2, <2>3, FS_AddElement
      <3>2. HaveSignalled(p, i) \cup {q} \subseteq HaveSignalled(p, i)'
        BY <1>8, <2>3
      <3>3. Cardinality(HaveSignalled(p, i) \cup {q}) <= Cardinality(HaveSignalled(p, i)')
        BY <1>2, <3>2, FS_Subset, Zenon
      <3>. QED BY <3>1, <3>3, Zenon
    <2>6. acks'[p][i] = acks[p][i] + 1
      BY <1>3, <1>9
    <2>. DEFINE m == Cardinality(MaySignal(p, i))      h == Cardinality(HaveSignalled(p, i))
                mx == Cardinality(MaySignal(p, i)')   hx == Cardinality(HaveSignalled(p, i)')
    <2>7. m \in Nat /\ h \in Nat /\ mx \in Nat /\ hx \in Nat /\ mx = m - 1 /\ h + 1 <= hx
      BY <1>2, <2>4, <2>5
    <2>. HIDE DEF m, h, mx, hx
    <2>. QED BY <1>1, <1>2, <2>2, <2>6, <2>7 DEF m, h, mx, hx
  <1>10. CASE ~(i \in FirstToSignal(p, q) .. last /\ acks[p][i] > 0)
    <2>1. acks'[p][i] = acks[p][i]
      BY <1>3, <1>10
    <2>2. /\ Cardinality(MaySignal(p, i)') <= Cardinality(MaySignal(p, i))
          /\ Cardinality(HaveSignalled(p, i)) <= Cardinality(HaveSignalled(p, i)')
      BY <1>6, <1>7, <1>8, CountGrows
    <2>. QED BY <1>1, <1>2, <2>1, <2>2
  <1>. QED BY <1>9, <1>10

\* A peer gets a reply only from another one.
LEMMA SignalReply ==
  ASSUME TypeInv, TypeInv', NEW p \in Server, NEW q \in Server, p # q, \A s \in Server : SignalsOf(s),
         HandleAppendEntriesRes(p, q) \/ HandleInstallSnapshotRes(p, q)
  PROVE  \A s \in Server : SignalsOf(s)'
  <1>1. /\ request' = [request EXCEPT ![p][q] = Nil] /\ rep' = rep
    BY DEF HandleAppendEntriesRes, HandleInstallSnapshotRes
  <1>2. \A s, u \in Server : request'[s][u] \in {request[s][u], Nil}
    BY <1>1 DEF TypeInv, TypeOK, CallTypes
  <1>3. \A s \in Server : /\ Base(rep[s]) \in Int /\ LastIndex(rep[s]) \in Int
                          /\ \A i \in 1 .. MaxIndex : acks[s][i] \in Nat
    BY ReplicaParts DEF TypeInv, TypeOK, ReplicaTypes, LeaderTypes
  <1>4. \A s \in Server : acks'[s] = acks[s] /\ matchIndex'[s] = matchIndex[s] => SignalStep(s)
    BY <1>1, <1>2, <1>3 DEF SignalStep, Greater
  <1>5. CASE /\ \/ state[p] = Leader /\ ~response[p][q].success
                \/ state[p] # Leader
                \/ HandleInstallSnapshotRes(p, q)
    <2>1. \/ UNCHANGED <<acks, matchIndex>>
          \/ BecomeFollower(p)
      BY <1>5 DEF HandleAppendEntriesRes, HandleInstallSnapshotRes, leaderVars
    <2>2. \A s \in Server : \/ acks'[s] = NoSignals
                            \/ acks'[s] = acks[s] /\ matchIndex'[s] = matchIndex[s]
      BY <2>1 DEF BecomeFollower, DropLeadership, TypeInv, TypeOK, LeaderTypes
    <2>3. \A s \in Server : SignalStep(s)
      BY <1>4, <2>2 DEF SignalStep
    <2>. QED BY <2>3, SignalsKept
  <1>6. CASE ~(/\ \/ state[p] = Leader /\ ~response[p][q].success
                  \/ state[p] # Leader
                  \/ HandleInstallSnapshotRes(p, q))
    <2>1. /\ Outstanding(p, q)
          /\ acks' = [acks EXCEPT ![p] =
                [i \in 1 .. MaxIndex |->
                   IF i \in FirstToSignal(p, q) .. LastSent(request[p][q]) /\ @[i] > 0
                     THEN @[i] + 1 ELSE @[i]]]
          /\ matchIndex' = [matchIndex EXCEPT ![p][q] = LastSent(request[p][q])]
      BY <1>6 DEF HandleAppendEntriesRes, Outstanding, Answered
    <2>2. SignalsOf(p)'
      BY <1>1, <2>1, SignalCounted
    <2>3. \A s \in Server : s # p => acks'[s] = acks[s] /\ matchIndex'[s] = matchIndex[s]
      BY <2>1 DEF TypeInv, TypeOK, LeaderTypes
    <2>4. \A s \in Server : s # p => SignalsOf(s)'
      BY <1>4, <2>3, SignalsKept
    <2>. QED BY <2>2, <2>4
  <1>. QED BY <1>5, <1>6

LEMMA CommitBounds ==
  ASSUME NEW r, Sound(r), NEW idx \in Nat
  PROVE  LET s == UpdateCommitIndex(r, idx)
         IN  /\ Base(r) <= Base(s) /\ LastIndex(s) = LastIndex(r)
             /\ Base(r) \in Int /\ Base(s) \in Int /\ LastIndex(r) \in Int
  <1>. DEFINE s == UpdateCommitIndex(r, idx)
  <1>1. r \in Replica /\ s \in Replica
    BY UpdateCommitIndexSound DEF Sound
  <1>2. SuffixOf(Chunk(s), Chunk(r))
    BY CommitSuffix
  <1>. HIDE DEF s
  <1>3. /\ Chunk(r).prevLogIndex = Base(r) /\ LastSent(Chunk(r)) = LastIndex(r)
        /\ Chunk(s).prevLogIndex = Base(s) /\ LastSent(Chunk(s)) = LastIndex(s)
    BY <1>1, ChunkOfReplica
  <1>. QED BY <1>1, <1>2, <1>3, ReplicaParts DEF SuffixOf, s

\* A snapshot that is installed is not behind the one it replaces, and ends the log
\* or leaves its end where it was.
LEMMA InstallBounds ==
  ASSUME NEW r, Sound(r), NEW snap \in FullSnapshot,
         snap.index < LastIndex(r) => Readable(r, snap.index)
  PROVE  LET s == InstallSnapshot(r, snap)
         IN  /\ Base(r) <= Base(s) /\ LastIndex(s) <= Greater(Base(s), LastIndex(r))
             /\ Base(r) \in Int /\ Base(s) \in Int /\ LastIndex(r) \in Int
  <1>. DEFINE s == InstallSnapshot(r, snap)
              n == snap.index
  <1>1. /\ r \in Replica /\ WellFormed(r.log, r.snapshot, r.commitIndex)
        /\ snap \in Snapshot /\ n \in Nat /\ Len(snap.sm) = n
    BY DEF Sound, FullSnapshot, Snapshot
  <1>2. s \in Replica
    BY <1>1, InstallSnapshotSound DEF Sound
  <1>3. /\ r.log \in Seq(Entry) /\ Len(r.log) \in Nat /\ Base(r) \in Int
        /\ LastIndex(r) \in Int /\ LastIndex(r) = Len(r.log) + Base(r) /\ Base(r) <= LastIndex(r)
    BY <1>1, ReplicaParts, LastIndexIsNat
  <1>4. /\ s.snapshot = snap /\ Base(s) = n
        /\ s.log = IF KeepsSuffix(r, snap) THEN SuffixFrom(r, n + 1) ELSE <<>>
    BY DEF InstallSnapshot, Base
  <1>. HIDE DEF s, n
  <1>5. Base(r) <= n
    <2>1. n < LastIndex(r) => Readable(r, n)
      BY DEF n
    <2>. QED BY <1>1, <1>3, <2>1 DEF Readable
  <1>6. LastIndex(s) = Len(s.log) + n
    BY <1>2, <1>4, ReplicaParts
  <1>7. CASE KeepsSuffix(r, snap)
    <2>1. n < LastIndex(r)
      BY <1>7 DEF KeepsSuffix, n
    <2>2. s.log = SubSeq(r.log, (n + 1) - Base(r), Len(r.log))
      BY <1>4, <1>7 DEF SuffixFrom
    <2>3. (n + 1) - Base(r) \in Int /\ 1 <= (n + 1) - Base(r)
          /\ (n + 1) - Base(r) <= Len(r.log) + 1
      BY <1>1, <1>3, <1>5, <2>1
    <2>4. Len(s.log) = Len(r.log) - ((n + 1) - Base(r)) + 1
      BY <1>3, <2>2, <2>3, StretchOfSequence
    <2>5. LastIndex(s) = LastIndex(r)
      BY <1>1, <1>3, <1>6, <2>4
    <2>. QED BY <1>1, <1>3, <1>4, <1>5, <2>5 DEF Greater, s
  <1>8. CASE ~KeepsSuffix(r, snap)
    <2>1. LastIndex(s) = n
      BY <1>1, <1>4, <1>6, <1>8
    <2>. QED BY <1>1, <1>3, <1>4, <1>5, <2>1 DEF Greater, s
  <1>. QED BY <1>7, <1>8

\* The channels of s and what they depend on stay, or are dropped.
SignalQuiet(s) ==
  \/ acks'[s] = NoSignals
  \/ acks'[s] = acks[s] /\ matchIndex'[s] = matchIndex[s] /\ rep'[s] = rep[s]

LEMMA QuietKeepsSignals ==
  ASSUME TypeInv, TypeInv', NEW s \in Server, SignalsOf(s), SignalQuiet(s),
         \A u \in Server : request'[s][u] \in {request[s][u], Nil}
  PROVE  SignalsOf(s)'
  <1>1. /\ Base(rep[s]) \in Int /\ LastIndex(rep[s]) \in Int
        /\ \A i \in 1 .. MaxIndex : acks[s][i] \in Nat
    BY ReplicaParts DEF TypeInv, TypeOK, ReplicaTypes, LeaderTypes
  <1>2. SignalStep(s)
    BY <1>1 DEF SignalStep, SignalQuiet, Greater
  <1>. QED BY <1>2, SignalsKept

LEMMA QuietSignals ==
  ASSUME TypeInv, TypeInv', SignalInv, \A s \in Server : SignalQuiet(s),
         \A s, u \in Server : request'[s][u] \in {request[s][u], Nil}
  PROVE  SignalInv'
  BY QuietKeepsSignals DEF SignalInv

LEMMA SignalHandler ==
  ASSUME TypeInv, TypeInv', SignalInv, NEW p \in Server, NEW leader \in Server,
         NEW f \in ReplicationReq,
         HandleAppendEntries(p, leader, f) \/ HandleInstallSnapshot(p, f),
         \A s, u \in Server : request'[s][u] \in {request[s][u], Nil}
  PROVE  SignalInv'
  <1>1. CASE HandleAppendEntries(p, leader, f)
    <2>1. \/ UNCHANGED <<acks, matchIndex, rep>>
          \/ /\ acks' = [acks EXCEPT ![p] = NoSignals]
             /\ matchIndex' = [matchIndex EXCEPT ![p] = NoIndices]
             /\ \E r : rep' = [rep EXCEPT ![p] = r]
      <3>1. rep = [rep EXCEPT ![p] = rep[p]]
        BY DEF TypeInv, TypeOK, ReplicaTypes
      <3>. QED BY <1>1, <3>1 DEF HandleAppendEntries, DropLeadership, leaderVars
    <2>2. \A s \in Server : SignalQuiet(s)
      BY <2>1 DEF SignalQuiet, TypeInv, TypeOK, LeaderTypes, ReplicaTypes
    <2>. QED BY <2>2, QuietSignals
  <1>2. CASE HandleInstallSnapshot(p, f)
    <2>1. /\ UNCHANGED <<acks, matchIndex>> /\ up[p]
          /\ \/ rep' = rep
             \/ /\ rep' = [rep EXCEPT ![p] = InstallSnapshot(rep[p], f.snapshot)]
                /\ ~InstallPanics(p, f) /\ f.term >= currentTerm[p]
      <3>1. \/ f.term < currentTerm[p] \/ InstallPanics(p, f)
            \/ ~(f.term < currentTerm[p]) /\ ~InstallPanics(p, f)
        OBVIOUS
      <3>2. f.term \in Nat /\ currentTerm[p] \in Nat
        BY DEF ReplicationReq, AppendEntriesReq, InstallSnapshotReq, TypeInv, TypeOK, PeerTypes
      <3>. QED BY <1>2, <3>1, <3>2 DEF HandleInstallSnapshot, leaderVars
    <2>2. CASE rep' = rep
      BY <2>1, <2>2, QuietSignals DEF SignalQuiet
    <2>3. CASE /\ rep' = [rep EXCEPT ![p] = InstallSnapshot(rep[p], f.snapshot)]
               /\ ~InstallPanics(p, f) /\ f.term >= currentTerm[p]
      <3>1. Sound(rep[p])
        BY <2>1, UpIsSound DEF TypeInv, TypeOK, ShapeInv
      <3>2. f.snapshot \in FullSnapshot
        BY <1>2 DEF HandleInstallSnapshot, ReplicationReq, AppendEntriesReq, InstallSnapshotReq
      <3>3. f.snapshot.index < LastIndex(rep[p]) => Readable(rep[p], f.snapshot.index)
        BY <2>3 DEF InstallPanics
      <3>4. /\ rep'[p] = InstallSnapshot(rep[p], f.snapshot)
            /\ \A s \in Server : s # p => rep'[s] = rep[s]
        BY <2>3 DEF TypeInv, TypeOK, ReplicaTypes
      <3>5. /\ Base(rep[p]) <= Base(rep'[p])
            /\ LastIndex(rep'[p]) <= Greater(Base(rep'[p]), LastIndex(rep[p]))
        BY <3>1, <3>2, <3>3, <3>4, InstallBounds
      <3>6. \A s \in Server : /\ Base(rep[s]) \in Int /\ LastIndex(rep[s]) \in Int
                              /\ \A i \in 1 .. MaxIndex : acks[s][i] \in Nat
        BY ReplicaParts DEF TypeInv, TypeOK, ReplicaTypes, LeaderTypes
      <3>7. \A s \in Server : SignalStep(s)
        BY <2>1, <3>4, <3>5, <3>6 DEF SignalStep, Greater
      <3>. QED BY <3>7, SignalsKept DEF SignalInv
    <2>. QED BY <2>1, <2>2, <2>3
  <1>. QED BY <1>1, <1>2

LEMMA NextSignals ==
  ASSUME TypeInv, TypeInv', SignalInv, [Next]_vars
  PROVE  SignalInv'
  <1>1. /\ \A s \in Server : rep[s] \in Replica /\ request[s][s] = Nil
        /\ request \in [Server -> [Server -> ReplicationReq \cup {Nil}]]
        /\ acks \in [Server -> [1 .. MaxIndex -> Nat]]
        /\ matchIndex \in [Server -> [Server -> Nat]]
        /\ rep \in [Server -> Replica]
    BY DEF SignalInv, TypeInv, TypeOK, ReplicaTypes, CallTypes, LeaderTypes
  <1>2. ASSUME UNCHANGED <<rep, request>>,
               \/ UNCHANGED leaderVars
               \/ \E p \in Server : DropLeadership(p)
               \/ \E p \in Server : BecomeLeader(p)
        PROVE  SignalInv'
    <2>1. \A s \in Server : SignalQuiet(s)
      BY <1>1, <1>2 DEF SignalQuiet, DropLeadership, BecomeLeader, leaderVars
    <2>. QED BY <1>2, <2>1, QuietSignals
  <1>3. ASSUME UNCHANGED vars PROVE SignalInv'
    BY <1>2, <1>3 DEF vars, leaderVars, callVars
  <1>4. ASSUME NEW p \in Server,
               \/ FollowerTimeout(p) \/ CandidateTimeout(p) \/ FollowerRearm(p) \/ Flush(p)
        PROVE  SignalInv'
    BY <1>2, <1>4 DEF FollowerTimeout, CandidateTimeout, FollowerRearm, Flush, callVars
  <1>5. ASSUME NEW p \in Server, NEW m \in voteRequests, HandleRequestVote(p, m)
        PROVE  SignalInv'
    BY <1>2, <1>5 DEF HandleRequestVote, BecomeFollower, callVars
  <1>6. ASSUME NEW m \in voteResponses, HandleRequestVoteRespond(m)
        PROVE  SignalInv'
    <2>1. m.cand \in Server
      BY DEF TypeInv, TypeOK, ElectionTypes
    <2>2. /\ UNCHANGED <<rep, request>>
          /\ \/ UNCHANGED leaderVars
             \/ DropLeadership(m.cand)
             \/ BecomeLeader(m.cand)
      BY <1>6 DEF HandleRequestVoteRespond, BecomeFollower, callVars
    <2>. QED BY <1>2, <2>1, <2>2
  <1>7. ASSUME NEW p \in Server, NEW cmd \in Cmd, LeaderAppend(p, cmd),
               UNCHANGED <<matchIndex, request>>
        PROVE  SignalInv'
    <2>1. SignalsOf(p)'
      BY <1>7, SignalAppended DEF SignalInv
    <2>2. \A s \in Server : s # p => acks'[s] = acks[s] /\ rep'[s] = rep[s]
      BY <1>1, <1>7 DEF LeaderAppend
    <2>3. \A s \in Server : s # p => SignalsOf(s)'
      BY <1>7, <2>2, QuietKeepsSignals DEF SignalInv, SignalQuiet
    <2>. QED BY <1>1, <1>7, <2>1, <2>3 DEF SignalInv
  <1>8. ASSUME NEW p \in Server,
               \/ \E cmd \in Command : ClientRequest(p, cmd)
               \/ AppendNoop(p)
        PROVE  SignalInv'
    <2>1. /\ UNCHANGED <<matchIndex, request>>
          /\ \/ \E cmd \in Cmd : LeaderAppend(p, cmd)
             \/ UNCHANGED <<rep, acks, matchIndex>>
      BY <1>8 DEF ClientRequest, AppendNoop, callVars, Cmd
    <2>2. CASE UNCHANGED <<rep, acks, matchIndex>>
      BY <2>1, <2>2, QuietSignals DEF SignalQuiet
    <2>. QED BY <1>7, <2>1, <2>2
  <1>9. ASSUME NEW p \in Server, NEW i \in 1 .. MaxIndex, CommitRequest(p, i)
        PROVE  SignalInv'
    <2>1. /\ UNCHANGED <<matchIndex, request>> /\ up[p]
          /\ rep' = [rep EXCEPT ![p] = UpdateCommitIndex(@, i)]
          /\ acks' = [acks EXCEPT ![p][i] = 0]
      BY <1>9 DEF CommitRequest, callVars
    <2>2. \A s \in Server : /\ Base(rep[s]) \in Int /\ LastIndex(rep[s]) \in Int
                            /\ Base(rep'[s]) \in Int /\ LastIndex(rep'[s]) \in Int
      BY ReplicaParts DEF TypeInv, TypeOK, ReplicaTypes
    <2>3. /\ Base(rep[p]) <= Base(rep'[p]) /\ LastIndex(rep'[p]) = LastIndex(rep[p])
      <3>1. Sound(rep[p]) /\ i \in Nat
        BY <2>1, UpIsSound, BoundAssumption DEF TypeInv, TypeOK, ShapeInv
      <3>2. rep'[p] = UpdateCommitIndex(rep[p], i)
        BY <1>1, <2>1
      <3>. QED BY <3>1, <3>2, CommitBounds
    <2>4. \A s \in Server : s # p => acks'[s] = acks[s] /\ rep'[s] = rep[s]
      BY <1>1, <2>1
    <2>5. \A n \in 1 .. MaxIndex : acks'[p][n] <= acks[p][n]
      <3>1. acks'[p] = [acks[p] EXCEPT ![i] = 0] /\ acks[p] \in [1 .. MaxIndex -> Nat]
        BY <1>1, <2>1
      <3>2. \A n \in 1 .. MaxIndex : /\ acks[p][n] \in Nat
                                     /\ acks'[p][n] = 0 \/ acks'[p][n] = acks[p][n]
        BY <3>1
      <3>. QED BY <3>2
    <2>6. SignalStep(p)
      BY <2>1, <2>2, <2>3, <2>5 DEF SignalStep, Greater
    <2>7. \A s \in Server : s # p => SignalsOf(s)'
      BY <2>1, <2>4, QuietKeepsSignals DEF SignalInv, SignalQuiet
    <2>. QED BY <1>1, <2>1, <2>6, <2>7, SignalsKept DEF SignalInv
  <1>10. ASSUME NEW p \in Server, NEW q \in Server, SendAppendEntries(p, q)
         PROVE  SignalInv'
    <2>1. /\ UNCHANGED <<rep, acks, matchIndex>> /\ p # q /\ request[p][q] = Nil
      BY <1>10 DEF SendAppendEntries, MayCall, leaderVars
    <2>2. CASE request' = request
      BY <1>2, <2>1, <2>2, <1>10 DEF SendAppendEntries
    <2>3. ASSUME NEW f, CallOf(p, q, f), request' = [request EXCEPT ![p][q] = f]
          PROVE  SignalInv'
      <3>1. SignalsOf(p)'
        BY <2>1, <2>3, SignalSent DEF SignalInv
      <3>2. \A s \in Server : s # p => request'[s] = request[s]
        BY <1>1, <2>3
      <3>3. \A s \in Server : s # p => SignalsOf(s)'
        BY <2>1, <3>2, QuietKeepsSignals DEF SignalInv, SignalQuiet
      <3>4. \A s \in Server : request'[s][s] = Nil
        BY <1>1, <2>1, <2>3
      <3>. QED BY <3>1, <3>3, <3>4 DEF SignalInv
    <2>. QED BY <1>10, <2>2, <2>3, SentCall
  <1>11. ASSUME NEW p \in Server, NEW q \in Server, SendInstallSnapshot(p, q)
         PROVE  SignalInv'
    <2>. DEFINE f == [type |-> "InstallSnapshot", term |-> currentTerm[p],
                      snapshot |-> rep[p].snapshot]
    <2>1. /\ UNCHANGED <<rep, acks, matchIndex>> /\ p # q
          /\ request' = [request EXCEPT ![p][q] = f]
      BY <1>11 DEF SendInstallSnapshot, MayCall, leaderVars
    <2>2. f.type # "AppendEntries" /\ request[p][q] = Nil
      BY <1>11 DEF SendInstallSnapshot, MayCall
    <2>. HIDE DEF f
    <2>3. \A s, u \in Server : Outstanding(s, u)' <=> (Outstanding(s, u) /\ request'[s][u] = request[s][u])
      BY <1>1, <2>1, <2>2 DEF Outstanding
    <2>4. \A s \in Server : \A i \in 1 .. MaxIndex :
            /\ MaySignal(s, i)' = MaySignal(s, i) /\ HaveSignalled(s, i)' = HaveSignalled(s, i)
      <3>1. \A s, u \in Server : Outstanding(s, u)' <=> Outstanding(s, u)
        BY <1>1, <2>1, <2>2 DEF Outstanding
      <3>. QED BY <2>1, <2>3, <3>1 DEF MaySignal, HaveSignalled
    <2>5. \A s \in Server : SignalsOf(s)'
      BY <2>1, <2>4 DEF SignalInv, SignalsOf
    <2>6. \A s \in Server : request'[s][s] = Nil
      BY <1>1, <2>1
    <2>. QED BY <2>5, <2>6 DEF SignalInv
  <1>12. ASSUME NEW p \in Server, NEW q \in Server, CallFails(p, q)
         PROVE  SignalInv'
    <2>1. request' = [request EXCEPT ![p][q] = Nil] /\ UNCHANGED <<rep, acks, matchIndex>>
      BY <1>12 DEF CallFails, leaderVars
    <2>2. \A s, u \in Server : request'[s][u] \in {request[s][u], Nil}
      BY <1>1, <2>1
    <2>. QED BY <2>1, <2>2, QuietSignals DEF SignalQuiet
  <1>13. ASSUME NEW p \in Server, NEW q \in Server,
                HandleAppendEntriesRes(p, q) \/ HandleInstallSnapshotRes(p, q)
         PROVE  SignalInv'
    <2>1. p # q
      BY <1>1, <1>13 DEF HandleAppendEntriesRes, HandleInstallSnapshotRes, Answered
    <2>2. request' = [request EXCEPT ![p][q] = Nil]
      BY <1>13 DEF HandleAppendEntriesRes, HandleInstallSnapshotRes
    <2>3. \A s \in Server : request'[s][s] = Nil
      BY <1>1, <2>2
    <2>. QED BY <1>13, <2>1, <2>3, SignalReply DEF SignalInv
  <1>14. ASSUME NEW p \in Server, NEW q \in Server,
                ReceiveAppendEntries(p, q) \/ ReceiveInstallSnapshot(p, q)
         PROVE  SignalInv'
    <2>1. /\ request[p][q] \in ReplicationReq
          /\ \/ HandleAppendEntries(q, p, request[p][q])
             \/ HandleInstallSnapshot(q, request[p][q])
      BY <1>1, <1>14 DEF ReceiveAppendEntries, ReceiveInstallSnapshot, Waiting
    <2>2. request' = request \/ request' = [request EXCEPT ![p][q] = Nil]
      BY <1>14 DEF ReceiveAppendEntries, ReceiveInstallSnapshot, Answer
    <2>3. \A s, u \in Server : request'[s][u] \in {request[s][u], Nil}
      <3>1. CASE request' = request
        BY <3>1
      <3>2. CASE request' = [request EXCEPT ![p][q] = Nil]
        BY <1>1, <3>2
      <3>. QED BY <2>2, <3>1, <3>2
    <2>. QED BY <2>1, <2>3, SignalHandler
  <1>15. ASSUME NEW m \in lateRequests, ReceiveLate(m)
         PROVE  SignalInv'
    <2>1. m.to \in Server /\ m.from \in Server /\ m.req \in ReplicationReq
      BY DEF TypeInv, TypeOK, CallTypes
    <2>2. request' = request
      BY <1>15 DEF ReceiveLate
    <2>. QED BY <1>15, <2>1, <2>2, SignalHandler DEF ReceiveLate
  <1>16. ASSUME NEW p \in Server, Crash(p) \/ Stop(p)
         PROVE  SignalInv'
    <2>1. /\ DropLeadership(p) /\ request' = [request EXCEPT ![p] = NoCalls]
          /\ \E r : rep' = [rep EXCEPT ![p] = r]
      BY <1>16 DEF Crash, Stop, NewProcess
    <2>2. \A s, u \in Server : request'[s][u] \in {request[s][u], Nil}
      BY <1>1, <2>1 DEF NoCalls
    <2>3. \A s \in Server : SignalQuiet(s)
      BY <1>1, <2>1 DEF SignalQuiet, DropLeadership
    <2>. QED BY <2>2, <2>3, QuietSignals
  <1>17. CASE Next
    BY <1>4, <1>5, <1>6, <1>8, <1>9, <1>10, <1>11, <1>12, <1>13, <1>14, <1>15, <1>16, <1>17
       DEF Next
  <1>. QED BY <1>3, <1>17

\* What a leader has counted for an index, and may still count, comes from distinct
\* servers.
THEOREM SignalInvHolds == Spec => [](TypeInv /\ SignalInv)
  <1>1. Init => TypeInv /\ SignalInv
    <2>1. ASSUME Init PROVE SignalInv
      <3>1. TypeInv
        BY <2>1, InitTypes
      <3>2. \A p \in Server : /\ acks[p] = NoSignals
                              /\ \A q \in Server : request[p][q] = Nil
        BY <2>1 DEF Init, NoCalls
      <3>. SUFFICES ASSUME NEW p \in Server, NEW i \in 1 .. MaxIndex
                    PROVE  /\ acks[p][i] <= N
                           /\ acks[p][i] + Cardinality(MaySignal(p, i)) <= N
                           /\ acks[p][i] <= 1 + Cardinality(HaveSignalled(p, i))
        BY <3>2 DEF SignalInv, SignalsOf
      <3>3. acks[p][i] = 0
        BY <3>2 DEF NoSignals
      <3>4. MaySignal(p, i) = {} /\ HaveSignalled(p, i) \subseteq Server \ {p}
        BY <3>2 DEF MaySignal, HaveSignalled, Outstanding
      <3>. QED BY <3>3, <3>4, FollowerCounts, FS_EmptySet
    <2>. QED BY <2>1, InitTypes
  <1>2. (TypeInv /\ SignalInv) /\ [Next]_vars => (TypeInv /\ SignalInv)'
    BY NextTypes, NextSignals
  <1>. QED BY <1>1, <1>2, PTL DEF Spec

\* A leader never counts more signals for an index than there are servers, whatever
\* calls it repeats and across whatever changes of leader: the send on the channel,
\* which it makes while it holds the mutex, finds room and cannot block the peer.
THEOREM SignalsFit == Spec => []SignalsFitChannel
  <1>1. SignalInv => SignalsFitChannel
    BY DEF SignalInv, SignalsOf, SignalsFitChannel
  <1>. QED BY <1>1, SignalInvHolds, PTL

=============================================================================

-------------------------- MODULE ReplicationProofs --------------------------
(***************************************************************************)
(* What a leader counts, what it may commit by it, and why nothing panics. *)
(*                                                                         *)
(* ReplicationInv is inductive with LogInv while no log is compacted and   *)
(* no leader handles the reply to a call of an earlier leadership of its   *)
(* own.  Its argument turns on entries that are chosen: a majority holds   *)
(* one and has voted for nobody without it.  A step either hands entries   *)
(* on (AcceptedCall, CallsAfter, ReceiverSteps), moves votes, or counts;   *)
(* KeepsPromises says what all of them keep, and PromisesSuffice that      *)
(* this is enough.  It follows that no merge overrides what is committed,  *)
(* what leaders have, that commits grow, and that the peers implement      *)
(* ReplicatedLog; hence that their state machines agree.                   *)
(*                                                                         *)
(* The last part is about panics.  The merge of handleAppendEntries reads  *)
(* past the entries of a call that the log holds all of and outgrows.      *)
(* That no call is so outgrown by its target (CallsFit) depends on what    *)
(* the leader may send next (NextFits), which a refusal changes            *)
(* (FailuresFit); PanicInv, with ReplicationInv, is inductive when no      *)
(* call comes late.  Harmless says what each step does, action by action,  *)
(* and HarmlessSuffices that it is enough.                                 *)
(***************************************************************************)
EXTENDS LogMatchingProofs

-----------------------------------------------------------------------------
\* what can no longer be lost

\* Where the terms of a chunk pass t, there is a first entry past it.
LEMMA TermRises ==
  ASSUME NEW c, IsChunk(c), NEW t \in Nat, TermIn(c, c.prevLogIndex) < t,
         NEW l \in Positions(c), t <= TermIn(c, l)
  PROVE  \E f \in Indices(c) : f <= l /\ TermIn(c, f - 1) < t /\ t <= TermIn(c, f)
  <1>. DEFINE b == c.prevLogIndex
              S == {d \in Nat : b + d \in Positions(c) /\ t <= TermIn(c, b + d)}
  <1>1. /\ b \in Int /\ LastSent(c) \in Int /\ l \in Int /\ b <= l /\ l <= LastSent(c)
        /\ Positions(c) = b .. LastSent(c) /\ Indices(c) = b + 1 .. LastSent(c)
        /\ \A n \in Positions(c) : TermIn(c, n) \in Nat
    BY ChunkParts DEF IsChunk, Positions, Indices
  <1>2. l - b \in S
    <2>1. l - b \in Nat /\ b + (l - b) = l
      BY <1>1
    <2>. QED BY <2>1
  <1>3. PICK d \in S : \A n \in S : d <= n
    <2>1. S \in SUBSET Nat /\ S # {}
      BY <1>2
    <2>. HIDE DEF S
    <2>. QED BY <2>1, LeastElement
  <1>4. d \in Nat /\ b + d \in Positions(c) /\ t <= TermIn(c, b + d)
    BY <1>3
  <1>5. d # 0
    <2>1. d = 0 => b + d = b
      BY <1>1
    <2>2. TermIn(c, b) \in Nat
      BY <1>1, ChunkParts
    <2>. QED BY <1>4, <2>1, <2>2
  <1>6. d - 1 \notin S
    <2>1. d \in Nat /\ S \in SUBSET Nat
      BY <1>4
    <2>. HIDE DEF S
    <2>. QED BY <1>3, <2>1
  <1>7. d - 1 \in Nat /\ b + (d - 1) \in Positions(c) /\ b + d \in Indices(c)
        /\ b + (d - 1) = (b + d) - 1
    <2>1. \A x, y, z \in Int :
            y >= 0 /\ y # 0 /\ x + y \in x .. z =>
              /\ y - 1 \in Nat /\ x + (y - 1) \in x .. z /\ x + y \in x + 1 .. z
              /\ x + (y - 1) = (x + y) - 1
      OBVIOUS
    <2>2. d \in Int /\ d >= 0
      BY <1>4
    <2>. QED BY <1>1, <1>4, <1>5, <2>1, <2>2, Zenon
  <1>8. TermIn(c, (b + d) - 1) < t
    <2>1. ~(t <= TermIn(c, b + (d - 1)))
      BY <1>6, <1>7
    <2>. QED BY <1>1, <1>7, <2>1
  <1>9. b + d <= l
    <2>1. d <= l - b
      BY <1>2, <1>3
    <2>. QED BY <1>1, <1>4, <2>1
  <1>. QED BY <1>4, <1>7, <1>8, <1>9

\* the entries of a term follow the log that won it, in every log
LEMMA TermOfLeader ==
  ASSUME TypeInv, ElectionInv, LogInv, NEW c, Covered(c, Chunks), NEW i \in Positions(c),
         TermIn(c, c.prevLogIndex) < TermIn(c, i),
         NEW m, Elected(m), m.term = TermIn(c, i)
  PROVE  /\ m.lastLogIndex \in Positions(c) /\ m.lastLogIndex < i
         /\ TermIn(c, m.lastLogIndex) = m.lastLogTerm
         /\ \A j \in Positions(c) : m.lastLogIndex < j /\ j <= i => TermIn(c, j) = TermIn(c, i)
  <1>. DEFINE t == TermIn(c, i)
  <1>1. /\ IsChunk(c) /\ c.prevLogIndex \in Int /\ LastSent(c) \in Int /\ i \in Int
        /\ Positions(c) = c.prevLogIndex .. LastSent(c)
        /\ Indices(c) = c.prevLogIndex + 1 .. LastSent(c)
        /\ \A n \in Positions(c) : TermIn(c, n) \in Nat
    BY ChunkParts DEF Covered, IsChunk, Positions, Indices
  <1>2. PICK f \in Indices(c) : f <= i /\ TermIn(c, f - 1) < t /\ t <= TermIn(c, f)
    <2>1. t \in Nat /\ TermIn(c, c.prevLogIndex) < t /\ t <= TermIn(c, i)
      BY <1>1
    <2>. HIDE DEF t
    <2>. QED BY <1>1, <2>1, TermRises
  <1>3. \A n \in Positions(c), j \in Positions(c) : n <= j => TermIn(c, n) <= TermIn(c, j)
    BY <1>1, CoveredLinks, TermsAscend
  <1>4. f \in Positions(c) /\ f - 1 \in Positions(c) /\ f \in Int
    BY <1>1
  <1>5. TermIn(c, f) = t
    BY <1>1, <1>2, <1>3, <1>4
  <1>6. PICK n \in voteRequests : /\ Elected(n) /\ n.term = t /\ n.lastLogIndex = f - 1
                                  /\ n.lastLogTerm = TermIn(c, f - 1)
    BY <1>2, <1>5, CoveredLinks
  <1>7. n = m
    BY <1>6, ElectedOnce DEF LogInv
  <1>8. ASSUME NEW j \in Positions(c), f - 1 < j, j <= i PROVE TermIn(c, j) = t
    <2>1. f <= j
      BY <1>1, <1>8
    <2>2. TermIn(c, f) <= TermIn(c, j) /\ TermIn(c, j) <= TermIn(c, i)
      BY <1>3, <1>4, <1>8, <2>1
    <2>. QED BY <1>1, <1>5, <2>2
  <1>. QED BY <1>1, <1>2, <1>4, <1>6, <1>7, <1>8

\* A log that holds a later entry of a term holds every entry of that term up to it.
LEMMA SameTermReaches ==
  ASSUME TypeInv, ElectionInv, LogInv, NEW d, Covered(d, Chunks), NEW i \in Positions(d),
         TermIn(d, i) > 0, NEW x, Covered(x, Chunks), x.prevLogIndex <= i,
         NEW l \in Positions(x), i <= l, TermIn(x, l) = TermIn(d, i)
  PROVE  i \in Positions(x) /\ TermIn(x, i) = TermIn(d, i)
  <1>. DEFINE t == TermIn(d, i)
  <1>1. /\ IsChunk(x) /\ IsChunk(d) /\ x.prevLogIndex \in Int /\ LastSent(x) \in Int
        /\ Positions(x) = x.prevLogIndex .. LastSent(x)
        /\ x.prevLogIndex \in Positions(x)
        /\ \A n \in Positions(x) : TermIn(x, n) \in Nat
        /\ i \in Int /\ l \in Int
    BY ChunkParts DEF Covered, IsChunk, Positions
  <1>2. \A n \in Positions(x), j \in Positions(x) : n <= j => TermIn(x, n) <= TermIn(x, j)
    BY <1>1, CoveredLinks, TermsAscend
  <1>3. i \in Positions(x)
    BY <1>1
  <1>4. PICK m \in voteRequests : Elected(m) /\ m.term = t /\ m.lastLogIndex < i
    BY CoveredLinks
  <1>5. CASE TermIn(x, x.prevLogIndex) < t
    BY <1>3, <1>4, <1>5, TermOfLeader
  <1>6. CASE ~(TermIn(x, x.prevLogIndex) < t)
    <2>1. TermIn(x, x.prevLogIndex) <= TermIn(x, i) /\ TermIn(x, i) <= TermIn(x, l)
      BY <1>1, <1>2, <1>3
    <2>2. TermIn(x, l) = t /\ t \in Nat
      BY <1>1
    <2>. HIDE DEF t
    <2>3. TermIn(x, i) = t
      BY <1>1, <1>3, <1>6, <2>1, <2>2
    <2>. QED BY <1>3, <2>3 DEF t
  <1>. QED BY <1>5, <1>6

\* A log that has passed the term of a safe entry holds it.
LEMMA SafeReaches ==
  ASSUME TypeInv, ElectionInv, LogInv, NEW d, Covered(d, Chunks), NEW i \in Positions(d),
         TermIn(d, i) > 0, Safe(i, TermIn(d, i)),
         NEW x, Covered(x, Chunks), x.prevLogIndex <= i,
         TermIn(x, x.prevLogIndex) <= TermIn(d, i),
         NEW l \in Positions(x),
         TermIn(d, i) < TermIn(x, l) \/ (TermIn(d, i) = TermIn(x, l) /\ i <= l)
  PROVE  i <= l /\ i \in Positions(x) /\ TermIn(x, i) = TermIn(d, i)
  <1>. DEFINE t == TermIn(d, i)
  <1>1. /\ IsChunk(x) /\ IsChunk(d) /\ x.prevLogIndex \in Int /\ LastSent(x) \in Int
        /\ Positions(x) = x.prevLogIndex .. LastSent(x)
        /\ Indices(x) = x.prevLogIndex + 1 .. LastSent(x)
        /\ \A n \in Positions(x) : TermIn(x, n) \in Nat
        /\ x.prevLogIndex \in Positions(x)
        /\ i \in Int /\ l \in Int /\ t \in Nat
    <2>1. IsChunk(x) /\ IsChunk(d)
      BY Zenon DEF Covered
    <2>2. /\ x.prevLogIndex \in Int /\ LastSent(x) \in Int
          /\ Positions(x) = x.prevLogIndex .. LastSent(x)
          /\ Indices(x) = x.prevLogIndex + 1 .. LastSent(x)
          /\ d.prevLogIndex \in Int /\ LastSent(d) \in Int
          /\ Positions(d) = d.prevLogIndex .. LastSent(d)
          /\ Indices(d) = d.prevLogIndex + 1 .. LastSent(d)
      BY <2>1, ChunkBounds, Zenon
    <2>3. /\ \A n \in Positions(x) : TermIn(x, n) \in Nat
          /\ \A n \in Positions(d) : TermIn(d, n) \in Nat
          /\ x.prevLogIndex \in Positions(x) /\ Indices(d) \subseteq Positions(d)
      BY <2>1, ChunkParts, Zenon
    <2>. QED BY <2>1, <2>2, <2>3
  <1>2. CASE t = TermIn(x, l) /\ i <= l
    BY <1>2, SameTermReaches
  <1>3. CASE t < TermIn(x, l)
    <2>1. t + 1 \in Nat /\ TermIn(x, x.prevLogIndex) < t + 1 /\ t + 1 <= TermIn(x, l)
      BY <1>1, <1>3
    <2>2. PICK f \in Indices(x) : f <= l /\ TermIn(x, f - 1) < t + 1 /\ t + 1 <= TermIn(x, f)
      <3>. HIDE DEF t
      <3>. QED BY <1>1, <2>1, TermRises
    <2>3. f - 1 \in Positions(x) /\ f \in Positions(x) /\ f \in Int
      BY <1>1
    <2>4. TermIn(x, f - 1) <= t /\ t < TermIn(x, f) /\ TermIn(x, f - 1) < TermIn(x, f)
      <3>. HIDE DEF t
      <3>. QED BY <1>1, <2>2, <2>3
    <2>5. PICK m \in voteRequests : /\ Elected(m) /\ m.term = TermIn(x, f) /\ m.lastLogIndex = f - 1
                                    /\ m.lastLogTerm = TermIn(x, f - 1)
      BY <2>4, CoveredLinks
    <2>6. Covers(m, i, t)
      BY <2>4, <2>5 DEF Safe
    <2>7. TermIn(x, f - 1) = t /\ i <= f - 1
      <3>. HIDE DEF t
      <3>. QED BY <1>1, <2>3, <2>4, <2>5, <2>6 DEF Covers
    <2>8. i \in Positions(x) /\ TermIn(x, i) = t
      BY <2>3, <2>7, SameTermReaches
    <2>. QED BY <1>1, <2>2, <2>3, <2>7, <2>8
  <1>. QED BY <1>2, <1>3

\* A merge keeps a safe entry: no leader of its term or of a later one brings another.
LEMMA MergeKeeps ==
  ASSUME TypeInv, NoSnapshotIsSent, ElectionInv, LogInv,
         NEW c \in Chunks, c.prevLogTerm = 0, NEW f \in Requests, NEW x, NEW k, Merges(x, c, f, k),
         f.entries # <<>> /\ k = LastSent(f) => LastSent(c) <= k,
         NEW i \in Indices(c), TermIn(c, i) > 0, Safe(i, TermIn(c, i)), TermIn(c, i) <= f.term
  PROVE  f.entries = <<>> \/ i <= k
  <1>. DEFINE t == TermIn(c, i)
  <1>. SUFFICES ASSUME f.entries # <<>>, ~(i <= k) PROVE FALSE
    OBVIOUS
  <1>1. IsChunk(c) /\ IsChunk(f) /\ f \in Chunks /\ f.term \in Nat
    BY ChunkTypes, RequestTypes DEF Chunks, AppendEntriesReq
  <1>2. Covered(c, Chunks) /\ Covered(f, Chunks)
    BY <1>1, ChunkIsCovered
  <1>3. /\ c.prevLogIndex \in Int /\ LastSent(c) \in Int
        /\ Positions(c) = c.prevLogIndex .. LastSent(c)
        /\ Indices(c) = c.prevLogIndex + 1 .. LastSent(c)
        /\ \A n \in Positions(c) : TermIn(c, n) \in Nat
        /\ i \in Int /\ i \in Positions(c)
    <2>1. /\ c.prevLogIndex \in Int /\ LastSent(c) \in Int
          /\ Positions(c) = c.prevLogIndex .. LastSent(c)
          /\ Indices(c) = c.prevLogIndex + 1 .. LastSent(c)
      BY <1>1, ChunkBounds, Zenon
    <2>2. (\A n \in Positions(c) : TermIn(c, n) \in Nat) /\ Indices(c) \subseteq Positions(c)
      BY <1>1, ChunkParts, Zenon
    <2>. QED BY <2>1, <2>2
  <1>4. /\ f.prevLogIndex \in Int /\ LastSent(f) \in Int
        /\ Positions(f) = f.prevLogIndex .. LastSent(f)
        /\ \A n \in Positions(f) : TermIn(f, n) \in Nat
        /\ f.prevLogIndex \in Positions(f)
    BY <1>1, ChunkParts DEF IsChunk, Positions, Indices
  <1>5. k \in Positions(c) /\ k \in Positions(f) /\ k \in Int /\ k < i
    BY <1>3 DEF Merges
  <1>6. k < LastSent(f) /\ k < LastSent(c)
    BY <1>3, <1>4, <1>5
  <1>7. TermIn(c, k) = TermIn(f, k) /\ TermIn(c, k + 1) # TermIn(f, k + 1)
    BY <1>5, <1>6 DEF Merges
  <1>8. \A n \in Positions(c) \cap Positions(f) : k < n => TermIn(c, n) # TermIn(f, n)
    <2>. SUFFICES ASSUME NEW n \in Positions(c) \cap Positions(f), k < n, TermIn(c, n) = TermIn(f, n)
                  PROVE  FALSE
      OBVIOUS
    <2>1. k + 1 \in Positions(c) \cap Positions(f) /\ k + 1 <= n
      <3>1. \A a, l, u, v \in Int : u \in a .. l /\ v \in a .. l /\ u < v =>
              u + 1 \in a .. l /\ u + 1 <= v
        OBVIOUS
      <3>2. n \in Positions(c) /\ n \in Positions(f) /\ n \in Int
        BY <1>3
      <3>. QED BY <1>3, <1>4, <1>5, <3>1, <3>2, Zenon
    <2>2. TermIn(c, k + 1) = TermIn(f, k + 1)
      BY <1>2, <2>1, LinksMatch
    <2>. QED BY <1>7, <2>2
  <1>9. PICK m \in voteRequests : Elected(m) /\ m.term = f.term /\ FromLeader(f, m)
    BY DEF LogInv, RequestsAreLeaders
  <1>10. m.lastLogIndex \in Nat /\ m.lastLogTerm \in Nat
    BY DEF TypeInv, TypeOK, ElectionTypes
  <1>11. t \in Nat /\ t > 0 /\ t <= f.term
    BY <1>3
  <1>12. TermIn(f, f.prevLogIndex) <= t
    <2>1. TermIn(f, f.prevLogIndex) <= TermIn(f, k)
      <3>1. f.prevLogIndex <= k
        BY <1>4, <1>5
      <3>. QED BY <1>1, <1>2, <1>4, <1>5, <3>1, CoveredLinks, TermsAscend
    <2>2. TermIn(c, k) <= TermIn(c, i)
      <3>1. \A n \in Indices(c) : TermIn(c, n - 1) <= TermIn(c, n)
        BY <1>2, CoveredLinks
      <3>2. k <= i
        BY <1>3, <1>5
      <3>. QED BY <1>1, <1>3, <1>5, <3>1, <3>2, TermsAscend, Zenon
    <2>3. \A a, b, d \in Nat : a <= b /\ b <= d => a <= d
      OBVIOUS
    <2>4. TermIn(f, k) <= t
      BY <1>7, <2>2, Zenon
    <2>5. /\ TermIn(f, f.prevLogIndex) \in Nat /\ TermIn(f, k) \in Nat /\ t \in Nat
      BY <1>3, <1>4, <1>5, Zenon
    <2>. QED BY <2>1, <2>3, <2>4, <2>5, Zenon
  <1>13. CASE t < f.term
    <2>1. Covers(m, i, t)
      BY <1>9, <1>13 DEF Safe
    <2>2. f.prevLogIndex <= m.lastLogIndex
      <3>1. f.prevLogIndex > m.lastLogIndex => TermIn(f, f.prevLogIndex) = m.term
        BY <1>4, <1>9 DEF FromLeader
      <3>. HIDE DEF t
      <3>. QED BY <1>1, <1>4, <1>9, <1>10, <1>11, <1>12, <1>13, <3>1
    <2>3. m.lastLogIndex \in Positions(f) /\ TermIn(f, m.lastLogIndex) = m.lastLogTerm
      BY <1>4, <1>9, <1>10, <2>2 DEF FromLeader
    <2>4. t < TermIn(f, m.lastLogIndex) \/ (t = TermIn(f, m.lastLogIndex) /\ i <= m.lastLogIndex)
      <3>. HIDE DEF t
      <3>. QED BY <1>3, <1>10, <1>11, <2>1, <2>3 DEF Covers
    <2>5. f.prevLogIndex <= i
      BY <1>3, <1>4, <1>5
    <2>6. i \in Positions(f) /\ TermIn(f, i) = t
      BY <1>2, <1>3, <1>11, <1>12, <2>3, <2>4, <2>5, SafeReaches
    <2>. QED BY <1>3, <1>5, <1>8, <2>6
  <1>14. CASE t = f.term
    <2>1. TermIn(c, c.prevLogIndex) = 0
      BY DEF TermIn
    <2>2. /\ m.lastLogIndex \in Positions(c) /\ m.lastLogIndex < i
          /\ TermIn(c, m.lastLogIndex) = m.lastLogTerm
          /\ \A j \in Positions(c) : m.lastLogIndex < j /\ j <= i => TermIn(c, j) = t
      BY <1>2, <1>3, <1>9, <1>11, <1>14, <2>1, TermOfLeader
    <2>3. CASE m.lastLogIndex < k + 1
      <3>1. k + 1 \in Positions(c) /\ k + 1 \in Positions(f) /\ k + 1 <= i
        BY <1>3, <1>4, <1>5, <1>6
      <3>2. TermIn(c, k + 1) = t
        BY <2>2, <2>3, <3>1
      <3>3. TermIn(f, k + 1) = t
        BY <1>9, <1>10, <1>14, <2>3, <3>1 DEF FromLeader
      <3>. QED BY <1>7, <3>2, <3>3
    <2>4. CASE ~(m.lastLogIndex < k + 1)
      <3>1. m.lastLogIndex \in Positions(f)
        BY <1>4, <1>5, <1>9, <1>10, <2>4 DEF FromLeader
      <3>2. TermIn(f, m.lastLogIndex) = m.lastLogTerm
        BY <1>9, <3>1 DEF FromLeader
      <3>3. k < m.lastLogIndex
        BY <1>5, <1>10, <2>4
      <3>4. TermIn(c, m.lastLogIndex) # TermIn(f, m.lastLogIndex)
        BY <1>8, <2>2, <3>1, <3>3
      <3>. QED BY <2>2, <3>2, <3>4
    <2>. QED BY <2>3, <2>4
  <1>. HIDE DEF t
  <1>. QED BY <1>1, <1>11, <1>13, <1>14

LEMMA MajoritiesMeet ==
  ASSUME NEW A \in SUBSET Server, NEW B \in SUBSET Server,
         2 * Cardinality(A) > N, 2 * Cardinality(B) > N
  PROVE  A \cap B # {}
  <1>1. /\ IsFiniteSet(A) /\ IsFiniteSet(B) /\ IsFiniteSet(A \cup B)
        /\ Cardinality(A) \in Nat /\ Cardinality(B) \in Nat
    BY CountGrows, ServersFinite, FS_Subset, FS_Union
  <1>2. Cardinality(A \cup B) \in Nat /\ Cardinality(A \cup B) <= N
    BY CountGrows DEF N
  <1>3. A \cap B = {} => Cardinality(A \cup B) = Cardinality(A) + Cardinality(B)
    <2>1. Cardinality(A \cup B) = Cardinality(A) + Cardinality(B) - Cardinality(A \cap B)
      BY <1>1, FS_Union, Zenon
    <2>2. A \cap B = {} => Cardinality(A \cap B) = 0
      BY FS_EmptySet
    <2>. QED BY <1>1, <2>1, <2>2
  <1>. QED BY <1>1, <1>2, <1>3, ServersFinite

\* No candidate without a chosen entry has won a later election.
LEMMA ChosenIsSafe ==
  ASSUME NEW i, NEW t, Chosen(i, t)
  PROVE  t > 0 /\ Safe(i, t) /\ \E v \in Server : Locked(v, i, t)
  <1>. DEFINE L == {v \in Server : Locked(v, i, t)}
  <1>1. t > 0 /\ 2 * Cardinality(L) > N /\ L \subseteq Server
    BY DEF Chosen
  <1>. HIDE DEF L
  <1>2. ASSUME NEW m \in voteRequests, Elected(m), m.term > t PROVE Covers(m, i, t)
    <2>1. 2 * Cardinality(VotersFor(m.cand, m.term)) > N /\ VotersFor(m.cand, m.term) \subseteq Server
      BY <1>2 DEF Elected, VotersFor
    <2>2. PICK v \in Server : v \in L /\ v \in VotersFor(m.cand, m.term)
      BY <1>1, <2>1, MajoritiesMeet
    <2>. QED BY <1>2, <2>2 DEF L, Locked, VotersFor
  <1>3. L # {}
    <2>1. N \in Nat /\ Cardinality({}) = 0
      BY ServersFinite, FS_EmptySet
    <2>. QED BY <1>1, <2>1
  <1>. QED BY <1>1, <1>2, <1>3 DEF L, Safe

\* a step that leaves v the entries it has up to i
KeepsUpTo(v, i) ==
  \A j \in Indices(Chunk(rep[v])) : j <= i =>
    /\ j \in Indices(Chunk(rep'[v]))
    /\ TermIn(Chunk(rep'[v]), j) = TermIn(Chunk(rep[v]), j)
    /\ CmdIn(Chunk(rep'[v]), j) = CmdIn(Chunk(rep[v]), j)

\* a step after which every server has the safe entries that it had
SafeEntriesStay ==
  \A v \in Server : \A i \in Indices(Chunk(rep[v])) :
    TermIn(Chunk(rep[v]), i) > 0 /\ Safe(i, TermIn(Chunk(rep[v]), i)) => KeepsUpTo(v, i)

\* a step in which whoever votes has no entry that the candidate lacks
VotesAreInformed ==
  /\ VotesGrow
  /\ \A m \in voteRequests', v \in Server :
       <<v, m.term, m.cand>> \in ballots' =>
         \/ m \in voteRequests /\ <<v, m.term, m.cand>> \in ballots
         \/ \A i \in Indices(Chunk(rep[v])) : Covers(m, i, TermIn(Chunk(rep[v]), i))

LEMMA LockedStays ==
  ASSUME TypeInv, SafeEntriesStay, VotesAreInformed, NEW v \in Server, NEW i, NEW t, t > 0,
         Locked(v, i, t), Safe(i, t)
  PROVE  Locked(v, i, t)'
  <1>1. i \in Indices(Chunk(rep[v])) /\ TermIn(Chunk(rep[v]), i) = t
    BY DEF Locked, HasEntry
  <1>2. HasEntry(v, i, t)'
    <2>1. i \in Int
      BY <1>1, ChunkOfReplica, ReplicaParts DEF TypeInv, TypeOK, ReplicaTypes
    <2>. QED BY <1>1, <2>1 DEF SafeEntriesStay, KeepsUpTo, HasEntry
  <1>3. ASSUME NEW m \in voteRequests', m.term > t, <<v, m.term, m.cand>> \in ballots'
        PROVE  Covers(m, i, t)
    BY <1>1, <1>3 DEF VotesAreInformed, Locked
  <1>. QED BY <1>2, <1>3 DEF Locked, Covers

LEMMA ChosenStays ==
  ASSUME TypeInv, SafeEntriesStay, VotesAreInformed, NEW i, NEW t, Chosen(i, t)
  PROVE  Chosen(i, t)'
  <1>. DEFINE L == {v \in Server : Locked(v, i, t)}
              M == {v \in Server : Locked(v, i, t)'}
  <1>1. t > 0 /\ 2 * Cardinality(L) > N /\ Safe(i, t)
    BY ChosenIsSafe DEF Chosen
  <1>2. L \subseteq M /\ M \in SUBSET Server /\ L \in SUBSET Server
    BY <1>1, LockedStays
  <1>3. /\ Cardinality(L) \in Nat /\ Cardinality(M) \in Nat
        /\ Cardinality(L) <= Cardinality(M)
    <2>. HIDE DEF L, M
    <2>. QED BY <1>2, CountGrows
  <1>4. 2 * Cardinality(M) > N
    <2>. HIDE DEF L, M
    <2>. QED BY <1>1, <1>3, ServersFinite
  <1>5. Chosen(i, t)' <=> t > 0 /\ 2 * Cardinality(M) > N
    BY DEF Chosen, N
  <1>. QED BY <1>1, <1>4, <1>5

LEMMA SameLogsStay ==
  ASSUME \A v \in Server : Chunk(rep'[v]) = Chunk(rep[v])
  PROVE  SafeEntriesStay
  BY DEF SafeEntriesStay, KeepsUpTo

\* A candidate votes for itself with the log it has.
LEMMA CandidateIsInformed ==
  ASSUME TypeInv, NoSnapshotIsSent, LogInv, NEW p \in Server, StartElection(p)
  PROVE  VotesAreInformed
  <1>. DEFINE term == currentTerm[p] + 1
              last == LastIndex(rep[p])
              c    == Chunk(rep[p])
              m0   == [cand |-> p, term |-> term, lastLogIndex |-> last,
                       lastLogTerm |-> TermAt(rep[p], last)]
  <1>1. ballots' = ballots \cup {<<p, term, p>>} /\ voteRequests' = voteRequests \cup {m0}
    BY DEF StartElection
  <1>2. /\ m0.cand = p /\ m0.term = term /\ m0.lastLogIndex = last
        /\ m0.lastLogTerm = TermIn(c, last)
    BY ChunkOfReplica DEF TypeInv, TypeOK, ReplicaTypes
  <1>. HIDE DEF m0
  <1>3. currentTerm[p] \in Nat /\ memory[p].currentTerm \in Nat /\ memory[p].currentTerm <= currentTerm[p]
    BY LogTerms
  <1>4. \A m \in voteRequests : ~(m.cand = p /\ m.term = term)
    <2>. SUFFICES ASSUME NEW m \in voteRequests, m.cand = p, m.term = term PROVE FALSE
      OBVIOUS
    <2>1. m.term <= memory[p].currentTerm
      BY DEF LogInv, CandidaciesAreSaved
    <2>. QED BY <1>3, <2>1
  <1>5. \A v \in Server : <<v, term, p>> \notin ballots
    <2>. SUFFICES ASSUME NEW v \in Server, <<v, term, p>> \in ballots PROVE FALSE
      OBVIOUS
    <2>1. \E m \in voteRequests : m.cand = p /\ m.term = term
      BY DEF LogInv, CandidaciesAreSaved
    <2>. QED BY <1>4, <2>1
  <1>6. \A i \in Indices(c) : Covers(m0, i, TermIn(c, i))
    <2>. SUFFICES ASSUME NEW i \in Indices(c) PROVE Covers(m0, i, TermIn(c, i))
      OBVIOUS
    <2>1. c \in Chunks /\ IsChunk(c) /\ LastSent(c) = last
      BY ChunkTypes, ChunkOfReplica DEF Chunks, TypeInv, TypeOK, ReplicaTypes
    <2>2. i \in Positions(c) /\ last \in Positions(c) /\ i <= last /\ i \in Int /\ last \in Int
      BY <2>1, ChunkParts DEF Indices, Positions, IsChunk
    <2>3. TermIn(c, i) <= TermIn(c, last) /\ TermIn(c, i) \in Nat /\ TermIn(c, last) \in Nat
      BY <2>1, <2>2, ChunkIsCovered, CoveredLinks, TermsAscend, ChunkParts
    <2>. HIDE DEF c, last
    <2>. QED BY <1>2, <2>2, <2>3 DEF Covers
  <1>7. VotesGrow
    BY <1>1 DEF VotesGrow
  <1>8. ASSUME NEW m \in voteRequests', NEW v \in Server, <<v, m.term, m.cand>> \in ballots'
        PROVE  \/ m \in voteRequests /\ <<v, m.term, m.cand>> \in ballots
               \/ \A i \in Indices(Chunk(rep[v])) : Covers(m, i, TermIn(Chunk(rep[v]), i))
    <2>1. CASE m = m0
      <3>1. v = p
        BY <1>1, <1>2, <1>5, <1>8, <2>1
      <3>. QED BY <1>6, <2>1, <3>1
    <2>2. CASE m \in voteRequests
      BY <1>1, <1>4, <1>8, <2>2
    <2>. QED BY <1>1, <2>1, <2>2
  <1>. QED BY <1>7, <1>8 DEF VotesAreInformed

\* A voter compares the logs before it votes.
LEMMA VoterIsInformed ==
  ASSUME TypeInv, NoSnapshotIsSent, LogInv, NEW p \in Server, NEW m \in voteRequests,
         HandleRequestVote(p, m)
  PROVE  VotesAreInformed
  <1>. DEFINE c    == Chunk(rep[p])
              last == LastIndex(rep[p])
  <1>1. /\ voteRequests' = voteRequests
        /\ \/ ballots' = ballots
           \/ WillGrant(p, m) /\ ballots' = ballots \cup {<<p, m.term, m.cand>>}
    BY DEF HandleRequestVote
  <1>2. ASSUME WillGrant(p, m), NEW i \in Indices(c) PROVE Covers(m, i, TermIn(c, i))
    <2>1. c \in Chunks /\ IsChunk(c) /\ LastSent(c) = last /\ TermAt(rep[p], last) = TermIn(c, last)
      BY ChunkTypes, ChunkOfReplica DEF Chunks, TypeInv, TypeOK, ReplicaTypes
    <2>2. i \in Positions(c) /\ last \in Positions(c) /\ i <= last /\ i \in Int /\ last \in Int
      BY <1>2, <2>1, ChunkParts DEF Indices, Positions, IsChunk
    <2>3. TermIn(c, i) <= TermIn(c, last) /\ TermIn(c, i) \in Nat /\ TermIn(c, last) \in Nat
      BY <2>1, <2>2, ChunkIsCovered, CoveredLinks, TermsAscend, ChunkParts
    <2>4. m.lastLogTerm \in Nat /\ m.lastLogIndex \in Nat
      BY DEF TypeInv, TypeOK, ElectionTypes
    <2>5. /\ ~(TermIn(c, last) > m.lastLogTerm)
          /\ ~(TermIn(c, last) = m.lastLogTerm /\ last > m.lastLogIndex)
      BY <1>2, <2>1 DEF WillGrant, MoreUpToDate
    <2>. HIDE DEF c, last
    <2>. QED BY <2>2, <2>3, <2>4, <2>5 DEF Covers
  <1>3. ASSUME NEW n \in voteRequests, n.term = m.term, n.cand = m.cand PROVE n = m
    BY <1>3 DEF LogInv, CandidaciesAreSaved
  <1>4. VotesGrow
    BY <1>1 DEF VotesGrow
  <1>. QED BY <1>1, <1>2, <1>3, <1>4 DEF VotesAreInformed

LEMMA NoVoteIsInformed ==
  ASSUME UNCHANGED <<voteRequests, ballots>>
  PROVE  VotesAreInformed
  BY DEF VotesAreInformed, VotesGrow

-----------------------------------------------------------------------------
\* what state machines are fed

LEMMA SameCommands ==
  ASSUME NEW r, NEW s, Base(r) = -1, Base(s) = -1, NEW a \in Nat,
         \A j \in 1 .. a : CmdIn(Chunk(s), j) = CmdIn(Chunk(r), j)
  PROVE  Commands(s, 1, a) = Commands(r, 1, a)
  <1>1. ASSUME NEW k \in 1 .. a - 1 + 1
        PROVE  s.log[1 + k - 1 - Base(s)].cmd = r.log[1 + k - 1 - Base(r)].cmd
    <2>1. k \in 1 .. a /\ 1 + k - 1 - Base(s) = k - Base(s) /\ 1 + k - 1 - Base(r) = k - Base(r)
      OBVIOUS
    <2>2. CmdIn(Chunk(s), k) = CmdIn(Chunk(r), k)
      BY <2>1
    <2>3. CmdIn(Chunk(s), k) = s.log[k - Base(s)].cmd /\ CmdIn(Chunk(r), k) = r.log[k - Base(r)].cmd
      BY DEF CmdIn, Chunk
    <2>. QED BY <2>1, <2>2, <2>3
  <1>. QED BY <1>1 DEF Commands

\* a step by which v commits nothing, or an entry that is chosen
CommitStep(v) ==
  /\ memory'[v].commitIndex = rep'[v].commitIndex
  /\ \/ rep'[v].commitIndex = rep[v].commitIndex /\ rep'[v].applied = rep[v].applied
     \/ /\ \E i \in Indices(Chunk(rep'[v])) :
             rep'[v].commitIndex <= i /\ Chosen(i, TermIn(Chunk(rep[v]), i))'
        /\ rep[v].commitIndex <= rep'[v].commitIndex
        /\ rep'[v].applied =
             rep[v].applied \o Commands(rep'[v], rep[v].commitIndex + 1, rep'[v].commitIndex)

\* c is a call that brings the end of the log of p, and its commit index
BringsEnd(c, p) == /\ c.leaderCommit = rep[p].commitIndex
                   /\ SuffixOf(c, Chunk(rep[p]))

LEMMA UncompactedLogs ==
  ASSUME TypeInv, Uncompacted, NEW v \in Server
  PROVE  /\ rep[v] \in Replica /\ Base(rep[v]) = -1 /\ LastIndex(rep[v]) \in Nat
         /\ rep[v].commitIndex \in Nat
         /\ IsChunk(Chunk(rep[v])) /\ Chunk(rep[v]) \in Chunks
         /\ Covered(Chunk(rep[v]), Chunks)
         /\ Positions(Chunk(rep[v])) = -1 .. LastIndex(rep[v])
         /\ Indices(Chunk(rep[v])) = 0 .. LastIndex(rep[v])
         /\ LastSent(Chunk(rep[v])) = LastIndex(rep[v])
         /\ Chunk(rep[v]).prevLogIndex = -1 /\ Chunk(rep[v]).prevLogTerm = 0
         /\ TermIn(Chunk(rep[v]), -1) = 0
         /\ \A i \in Positions(Chunk(rep[v])) : TermIn(Chunk(rep[v]), i) \in Nat
  <1>1. rep[v] \in Replica /\ WellFormed(rep[v].log, rep[v].snapshot, rep[v].commitIndex)
    BY DEF TypeInv, TypeOK, ReplicaTypes, ShapeInv, ReplicaShape
  <1>2. rep[v].snapshot = NoSnapshot
    BY DEF Uncompacted
  <1>3. Base(rep[v]) = -1 /\ Chunk(rep[v]).prevLogTerm = 0 /\ Chunk(rep[v]).prevLogIndex = -1
    BY <1>2 DEF Base, NoSnapshot, Chunk
  <1>4. IsChunk(Chunk(rep[v])) /\ Chunk(rep[v]) \in Chunks
    BY <1>1, ChunkOfReplica DEF Chunks
  <1>5. Base(rep[v]) + 1 = 0
    BY <1>3
  <1>. QED BY <1>1, <1>3, <1>4, <1>5, ChunkIsCovered, ChunkOfReplica, ReplicaParts, LastIndexIsNat,
              ChunkParts DEF TermIn

\* A chosen entry of v is still there, and chosen, and so are the entries before it.
LEMMA ChosenKept ==
  ASSUME TypeInv, TypeInv', Uncompacted, Uncompacted', SafeEntriesStay, VotesAreInformed,
         NEW v \in Server, NEW i \in Indices(Chunk(rep[v])), Chosen(i, TermIn(Chunk(rep[v]), i))
  PROVE  /\ i \in Indices(Chunk(rep'[v])) /\ Chosen(i, TermIn(Chunk(rep[v]), i))'
         /\ \A j \in 1 .. i : CmdIn(Chunk(rep'[v]), j) = CmdIn(Chunk(rep[v]), j)
  <1>1. KeepsUpTo(v, i)
    BY ChosenIsSafe DEF SafeEntriesStay
  <1>2. i \in Int /\ \A j \in 1 .. i : j \in Indices(Chunk(rep[v])) /\ j <= i
    BY UncompactedLogs
  <1>3. /\ i \in Indices(Chunk(rep'[v])) /\ TermIn(Chunk(rep'[v]), i) = TermIn(Chunk(rep[v]), i)
        /\ \A j \in 1 .. i : CmdIn(Chunk(rep'[v]), j) = CmdIn(Chunk(rep[v]), j)
    BY <1>1, <1>2 DEF KeepsUpTo
  <1>4. ASSUME NEW t, t = TermIn(Chunk(rep[v]), i) PROVE Chosen(i, t)'
    <2>1. Chosen(i, t)
      BY <1>4
    <2>. QED BY <2>1, ChosenStays
  <1>. QED BY <1>3, <1>4

LEMMA CommitsKept ==
  ASSUME TypeInv, TypeInv', Uncompacted, Uncompacted', LogInv, CommitsAreChosen,
         AppliedIsCommitted, SafeEntriesStay, VotesAreInformed,
         \A v \in Server : CommitStep(v),
         \A c \in Requests' : c \in Requests \/ \E p \in Server : BringsEnd(c, p)
  PROVE  CommitsAreChosen' /\ AppliedIsCommitted'
  <1>1. ASSUME NEW v \in Server, rep[v].commitIndex > 0
        PROVE  \E i \in Indices(Chunk(rep[v])) :
                 /\ rep[v].commitIndex <= i /\ i \in Indices(Chunk(rep'[v]))
                 /\ Chosen(i, TermIn(Chunk(rep[v]), i))'
                 /\ \A j \in 1 .. i : CmdIn(Chunk(rep'[v]), j) = CmdIn(Chunk(rep[v]), j)
    BY <1>1, ChosenKept DEF CommitsAreChosen
  <1>2. ASSUME NEW v \in Server, rep'[v].commitIndex > 0
        PROVE  \E i \in Indices(Chunk(rep'[v])) :
                 rep'[v].commitIndex <= i /\ Chosen(i, TermIn(Chunk(rep[v]), i))'
    <2>1. CASE rep'[v].commitIndex = rep[v].commitIndex
      BY <1>1, <1>2, <2>1
    <2>2. CASE rep'[v].commitIndex # rep[v].commitIndex
      BY <2>2 DEF CommitStep
    <2>. QED BY <2>1, <2>2
  <1>3. ASSUME NEW c \in Requests', c.leaderCommit > 0
        PROVE  \E m \in voteRequests' : \E i \in c.leaderCommit .. LastSent(c) :
                 Chosen(i, m.term)' /\ m.term <= TermIn(c, LastSent(c))
    <2>1. CASE c \in Requests
      <3>1. PICK m \in voteRequests : \E i \in c.leaderCommit .. LastSent(c) :
                 Chosen(i, m.term) /\ m.term <= TermIn(c, LastSent(c))
        BY <1>3, <2>1 DEF CommitsAreChosen
      <3>2. PICK i \in c.leaderCommit .. LastSent(c) :
                 Chosen(i, m.term) /\ m.term <= TermIn(c, LastSent(c))
        BY <3>1
      <3>3. m \in voteRequests'
        BY DEF VotesAreInformed, VotesGrow
      <3>4. Chosen(i, m.term)'
        BY <3>2, ChosenStays
      <3>. QED BY <3>2, <3>3, <3>4
    <2>2. ASSUME NEW p \in Server, BringsEnd(c, p)
          PROVE  \E m \in voteRequests' : \E i \in c.leaderCommit .. LastSent(c) :
                   Chosen(i, m.term)' /\ m.term <= TermIn(c, LastSent(c))
      <3>. DEFINE d == Chunk(rep[p])
      <3>1. /\ c.leaderCommit = rep[p].commitIndex /\ IsChunk(c)
            /\ LastSent(c) = LastSent(d) /\ TermIn(c, LastSent(c)) = TermIn(d, LastSent(d))
        BY <2>2, ChunkParts DEF BringsEnd, SuffixOf
      <3>2. PICK i \in Indices(d) : rep[p].commitIndex <= i /\ Chosen(i, TermIn(d, i))
        BY <1>3, <3>1 DEF CommitsAreChosen
      <3>3. TermIn(d, i) > 0
        BY <3>2, ChosenIsSafe
      <3>4. /\ d \in Chunks /\ Covered(d, Chunks) /\ IsChunk(d) /\ i \in Positions(d) /\ i \in Int
            /\ LastSent(d) \in Positions(d) /\ i <= LastSent(d) /\ LastSent(d) \in Int
            /\ rep[p].commitIndex \in Nat
        BY UncompactedLogs, ChunkParts
      <3>5. PICK m \in voteRequests : m.term = TermIn(d, i)
        BY <3>3, <3>4, CoveredLinks
      <3>6. TermIn(d, i) <= TermIn(d, LastSent(d))
        BY <3>4, CoveredLinks, TermsAscend
      <3>7. m \in voteRequests' /\ i \in c.leaderCommit .. LastSent(c)
        BY <3>1, <3>2, <3>4 DEF VotesAreInformed, VotesGrow
      <3>8. Chosen(i, m.term)'
        BY <3>2, <3>5, ChosenStays
      <3>. QED BY <3>1, <3>5, <3>6, <3>7, <3>8
    <2>. QED BY <2>1, <2>2
  <1>4. CommitsAreChosen'
    BY <1>2, <1>3 DEF CommitsAreChosen, CommitStep
  <1>5. ASSUME NEW v \in Server
        PROVE  /\ rep'[v].commitIndex <= LastIndex(rep'[v])
               /\ rep'[v].applied = Commands(rep'[v], 1, rep'[v].commitIndex)
    <2>. DEFINE a == rep[v].commitIndex
                b == rep'[v].commitIndex
    <2>1. /\ rep[v] \in Replica /\ rep'[v] \in Replica /\ Base(rep[v]) = -1 /\ Base(rep'[v]) = -1
          /\ LastIndex(rep'[v]) \in Nat /\ a \in Nat /\ b \in Nat
          /\ Indices(Chunk(rep'[v])) = 0 .. LastIndex(rep'[v])
      <3>1. /\ rep'[v] \in Replica
            /\ WellFormed(rep'[v].log, rep'[v].snapshot, rep'[v].commitIndex)
            /\ rep'[v].snapshot = NoSnapshot
        BY DEF TypeInv, TypeOK, ReplicaTypes, ShapeInv, ReplicaShape, Uncompacted
      <3>2. Base(rep'[v]) = -1 /\ Base(rep'[v]) + 1 = 0
        BY <3>1 DEF Base, NoSnapshot
      <3>. QED BY <3>1, <3>2, UncompactedLogs, LastIndexIsNat, ReplicaParts, ChunkOfReplica
    <2>2. b <= LastIndex(rep'[v])
      BY <1>2, <2>1
    <2>3. Commands(rep'[v], 1, a) = Commands(rep[v], 1, a)
      <3>1. CASE a = 0
        <4>1. \A j \in 1 .. a : CmdIn(Chunk(rep'[v]), j) = CmdIn(Chunk(rep[v]), j)
          BY <3>1
        <4>. QED BY <2>1, <4>1, SameCommands
      <3>2. CASE a > 0
        <4>1. PICK i \in Indices(Chunk(rep[v])) :
                 /\ a <= i
                 /\ \A j \in 1 .. i : CmdIn(Chunk(rep'[v]), j) = CmdIn(Chunk(rep[v]), j)
          BY <1>1, <3>2
        <4>2. i \in Int
          BY UncompactedLogs
        <4>3. \A j \in 1 .. a : CmdIn(Chunk(rep'[v]), j) = CmdIn(Chunk(rep[v]), j)
          BY <2>1, <4>1, <4>2
        <4>. QED BY <2>1, <4>3, SameCommands
      <3>. QED BY <2>1, <3>1, <3>2
    <2>4. rep[v].applied = Commands(rep[v], 1, a)
      BY DEF AppliedIsCommitted
    <2>5. CASE b = a /\ rep'[v].applied = rep[v].applied
      BY <2>2, <2>3, <2>4, <2>5
    <2>6. CASE a <= b /\ rep'[v].applied = rep[v].applied \o Commands(rep'[v], a + 1, b)
      <3>1. Commands(rep'[v], 1, a) \o Commands(rep'[v], a + 1, b) = Commands(rep'[v], 1, b)
        <4>1. /\ 1 \in Int /\ a \in Int /\ b \in Int /\ Base(rep'[v]) < 1 /\ 1 <= a + 1
              /\ a <= b
          BY <2>1, <2>6
        <4>. HIDE DEF a, b
        <4>. QED BY <2>1, <2>2, <4>1, CommandsJoin
      <3>. QED BY <2>2, <2>3, <2>4, <2>6, <3>1
    <2>. QED BY <2>5, <2>6 DEF CommitStep
  <1>6. AppliedIsCommitted'
    BY <1>5 DEF AppliedIsCommitted
  <1>. QED BY <1>4, <1>6

-----------------------------------------------------------------------------
\* what a leader counts

\* a step by which q accepts the call f: its log now is that of f up to the end of f
Accepts(q, f) ==
  /\ f \in Requests /\ currentTerm'[q] = f.term
  /\ Covered(Chunk(rep'[q]), Chunks)
  /\ LastSent(f) \in Positions(Chunk(rep'[q]))
  /\ TermIn(Chunk(rep'[q]), LastSent(f)) = TermIn(f, LastSent(f))

\* what a step does to the call of leader p to q
CallStep(p, q) ==
  /\ \/ matchIndex'[p][q] = matchIndex[p][q]
     \/ /\ Answered(p, q) /\ Outstanding(p, q) /\ response[p][q].success
        /\ matchIndex'[p][q] = LastSent(request[p][q])
  /\ \/ request'[p][q] = Nil
     \/ /\ request'[p][q] = request[p][q]
        /\ \/ response'[p][q] = response[p][q]
           \/ response'[p][q].success => Accepts(q, request[p][q])
     \/ response'[p][q] = Nil /\ LastSent(request'[p][q]) <= LastIndex(rep'[p])

StaysLeader(p) ==
  /\ state[p] = Leader /\ currentTerm'[p] = currentTerm[p]
  /\ LastIndex(rep[p]) <= LastIndex(rep'[p])
  /\ \A i \in Indices(Chunk(rep[p])) : TermIn(Chunk(rep'[p]), i) = TermIn(Chunk(rep[p]), i)
  /\ \A i \in 1 .. MaxIndex :
       acks'[p][i] > 0 => \/ acks[p][i] > 0
                          \/ /\ i \in Indices(Chunk(rep'[p]))
                             /\ TermIn(Chunk(rep'[p]), i) = currentTerm[p]
  /\ \A q \in Server : CallStep(p, q)

BecomesLeader(p) ==
  /\ state[p] = Candidate /\ currentTerm'[p] = currentTerm[p]
  /\ rep'[p] = rep[p] /\ request'[p] = request[p]
  /\ matchIndex'[p] = NoIndices /\ acks'[p] = NoSignals

LeaderStep(p) == state'[p] = Leader => StaysLeader(p) \/ BecomesLeader(p)

\* Whom a leader counts after a step, it counted before, or it just accepted.
LEMMA AckedBefore ==
  ASSUME TypeInv, Uncompacted, CallsInTime, CountsAreInLog, NEW p \in Server, StaysLeader(p),
         NEW v \in Server, NEW i \in Int, Acked(p, v, i)'
  PROVE  /\ i <= LastIndex(rep[p])
         /\ \/ Acked(p, v, i)
            \/ /\ Accepts(v, request[p][v]) /\ request[p][v].term = currentTerm[p]
               /\ i <= LastSent(request[p][v])
  <1>1. /\ state[p] = Leader /\ currentTerm'[p] = currentTerm[p] /\ CallStep(p, v)
        /\ matchIndex[p][v] \in Nat /\ LastIndex(rep[p]) \in Nat
    BY UncompactedLogs DEF StaysLeader, TypeInv, TypeOK, LeaderTypes
  <1>2. /\ matchIndex[p][v] <= LastIndex(rep[p])
        /\ (Outstanding(p, v) /\ request[p][v].term = currentTerm[p]) =>
             LastSent(request[p][v]) <= LastIndex(rep[p])
    BY <1>1 DEF CountsAreInLog
  <1>3. ASSUME Outstanding(p, v)
        PROVE  LastSent(request[p][v]) \in Int
    <2>1. request[p][v] \in Requests
      BY <1>3, RequestsUnfold DEF Outstanding
    <2>. QED BY <2>1, RequestTypes, ChunkParts DEF Uncompacted, NoSnapshotIsSent
  <1>4. ASSUME Answered(p, v), Outstanding(p, v), response[p][v].success,
               i <= LastSent(request[p][v]), request[p][v].term = currentTerm[p]
        PROVE  i <= LastIndex(rep[p]) /\ Acked(p, v, i)
    BY <1>1, <1>2, <1>3, <1>4 DEF Acked
  <1>5. CASE matchIndex'[p][v] >= i
    <2>1. CASE matchIndex'[p][v] = matchIndex[p][v]
      BY <1>1, <1>2, <1>5, <2>1 DEF Acked
    <2>2. CASE /\ Answered(p, v) /\ Outstanding(p, v) /\ response[p][v].success
               /\ matchIndex'[p][v] = LastSent(request[p][v])
      <3>1. request[p][v].term = currentTerm[p]
        BY <1>1, <2>2 DEF CallsInTime
      <3>2. i <= LastSent(request[p][v])
        BY <1>3, <1>5, <2>2
      <3>. QED BY <1>4, <2>2, <3>1, <3>2
    <2>. QED BY <1>1, <2>1, <2>2 DEF CallStep
  <1>6. CASE /\ Answered(p, v)' /\ Outstanding(p, v)' /\ request'[p][v].term = currentTerm'[p]
             /\ response'[p][v].success /\ LastSent(request'[p][v]) >= i
    <2>1. request'[p][v] # Nil /\ response'[p][v] # Nil
      BY <1>6 DEF Answered
    <2>2. request'[p][v] = request[p][v]
      BY <1>1, <2>1 DEF CallStep
    <2>3. Outstanding(p, v) /\ i <= LastSent(request[p][v]) /\ request[p][v].term = currentTerm[p]
      <3>1. Outstanding(p, v)
        BY <1>6, <2>2 DEF Outstanding
      <3>. QED BY <1>1, <1>3, <1>6, <2>2, <3>1
    <2>4. CASE response'[p][v] = response[p][v]
      BY <1>4, <1>6, <2>1, <2>2, <2>3, <2>4 DEF Answered
    <2>5. CASE Accepts(v, request[p][v])
      <3>1. i <= LastIndex(rep[p])
        BY <1>1, <1>2, <1>3, <2>3
      <3>. QED BY <2>3, <2>5, <3>1
    <2>. QED BY <1>1, <1>6, <2>1, <2>4, <2>5 DEF CallStep
  <1>. QED BY <1>5, <1>6 DEF Acked

LEMMA LeadersTerm ==
  ASSUME TypeInv, LogInv, NEW p \in Server, state[p] = Leader
  PROVE  currentTerm[p] \in Nat /\ currentTerm[p] > 0
  <1>1. PICK m \in voteRequests : m.term = currentTerm[p]
    BY DEF LogInv, LeadersOnlyAppend
  <1>2. m.lastLogTerm \in Nat /\ m.term \in Nat /\ m.lastLogTerm < m.term
    BY DEF TypeInv, TypeOK, ElectionTypes, LogInv, CandidaciesAreSaved
  <1>. QED BY <1>1, <1>2

\* Whoever just accepted a call that reaches an entry of its leader has the entry, and
\* cannot have voted since.
LEMMA AcceptsIsLocked ==
  ASSUME TypeInv, TypeInv', ElectionInv, ElectionInv', Uncompacted, LogInv, LogInv',
         NEW p \in Server, state[p] = Leader,
         NEW i \in Indices(Chunk(rep[p])), TermIn(Chunk(rep[p]), i) = currentTerm[p],
         NEW v \in Server, NEW f, Accepts(v, f), f.term = currentTerm[p], i <= LastSent(f),
         Base(rep'[v]) = -1, NEW t, t = currentTerm[p]
  PROVE  Locked(v, i, t)'
  <1>. DEFINE d == Chunk(rep[p])
              x == Chunk(rep'[v])
              l == LastSent(f)
  <1>1. /\ f \in Requests /\ currentTerm'[v] = t /\ Covered(x, Chunks)
        /\ l \in Positions(x) /\ TermIn(x, l) = TermIn(f, l)
    BY DEF Accepts
  <1>2. t \in Nat /\ t > 0
    BY LeadersTerm
  <1>3. /\ d \in Chunks /\ Covered(d, Chunks) /\ i \in Positions(d) /\ i \in Int /\ i >= 0
        /\ TermIn(d, i) = t
    BY UncompactedLogs
  <1>4. IsChunk(f) /\ l \in Positions(f) /\ l \in Int
    BY <1>1, RequestTypes, ChunkParts DEF Uncompacted, NoSnapshotIsSent
  <1>5. PICK m \in voteRequests : Elected(m) /\ m.term = t /\ FromLeader(f, m)
    BY <1>1 DEF LogInv, RequestsAreLeaders
  <1>6. PICK n \in voteRequests : Elected(n) /\ n.term = t /\ n.lastLogIndex < i
    BY <1>2, <1>3, CoveredLinks
  <1>7. m = n
    BY <1>5, <1>6, ElectedOnce DEF LogInv
  <1>8. m.lastLogIndex \in Nat
    BY DEF TypeInv, TypeOK, ElectionTypes
  <1>9. TermIn(f, l) = t
    BY <1>3, <1>4, <1>5, <1>6, <1>7, <1>8 DEF FromLeader
  <1>10. rep'[v] \in Replica /\ x.prevLogIndex = -1
    BY ChunkOfReplica DEF TypeInv, TypeOK, ReplicaTypes
  <1>11. i \in Positions(x) /\ TermIn(x, i) = t
    <2>1. x.prevLogIndex <= i /\ TermIn(d, i) > 0 /\ TermIn(x, l) = TermIn(d, i)
      BY <1>1, <1>2, <1>3, <1>9, <1>10
    <2>. HIDE DEF d, x, l
    <2>2. i \in Positions(x) /\ TermIn(x, i) = TermIn(d, i)
      BY <1>1, <1>3, <2>1, SameTermReaches DEF l
    <2>. QED BY <1>3, <2>2
  <1>12. HasEntry(v, i, t)'
    <2>1. i \in Indices(x)
      BY <1>3, <1>10, <1>11 DEF Indices, Positions
    <2>. QED BY <1>11, <2>1 DEF HasEntry
  <1>13. ASSUME NEW b \in voteRequests', b.term > t, <<v, b.term, b.cand>> \in ballots'
         PROVE  Covers(b, i, t)
    <2>1. b.term <= memory'[v].currentTerm
      BY <1>13 DEF ElectionInv, VotesSaved
    <2>2. memory'[v].currentTerm <= t
      BY <1>1 DEF LogInv, LogIsSaved
    <2>3. b.term \in Nat /\ memory'[v].currentTerm \in Nat
      BY DEF TypeInv, TypeOK, ElectionTypes, StorageTypes, Data
    <2>. QED BY <1>2, <1>13, <2>1, <2>2, <2>3
  <1>. QED BY <1>12, <1>13 DEF Locked, Covers

LEMMA AckedIsLocked ==
  ASSUME TypeInv, TypeInv', ElectionInv, ElectionInv', Uncompacted, Uncompacted', LogInv, LogInv',
         CallsInTime, CountsAreInLog, CountedAreLocked, SafeEntriesStay, VotesAreInformed,
         NEW p \in Server, StaysLeader(p), NEW v \in Server \ {p},
         NEW i \in Indices(Chunk(rep[p])), TermIn(Chunk(rep[p]), i) = currentTerm[p],
         Acked(p, v, i)', NEW t, t = currentTerm[p], Safe(i, t)
  PROVE  Locked(v, i, t)'
  <1>1. i \in Int /\ state[p] = Leader /\ t > 0 /\ Base(rep'[v]) = -1
    BY UncompactedLogs, LeadersTerm DEF StaysLeader, Uncompacted, Base, NoSnapshot
  <1>2. CASE Acked(p, v, i)
    <2>1. Locked(v, i, t)
      BY <1>1, <1>2 DEF CountedAreLocked, HasEntry
    <2>. QED BY <1>1, <2>1, LockedStays
  <1>3. CASE /\ Accepts(v, request[p][v]) /\ request[p][v].term = currentTerm[p]
             /\ i <= LastSent(request[p][v])
    BY <1>1, <1>3, AcceptsIsLocked
  <1>. QED BY <1>1, <1>2, <1>3, AckedBefore

\* A candidate has no entry of its term.
LEMMA CandidateHasNone ==
  ASSUME TypeInv, NoSnapshotIsSent, LogInv, NEW p \in Server, state[p] = Candidate,
         NEW i \in Positions(Chunk(rep[p]))
  PROVE  TermIn(Chunk(rep[p]), i) # currentTerm[p]
  <1>. DEFINE c    == Chunk(rep[p])
              last == LastIndex(rep[p])
  <1>1. PICK m \in voteRequests : m.term = currentTerm[p] /\ m.lastLogTerm = TermIn(c, last)
    BY DEF LogInv, CandidatesKeepTheirLogs
  <1>2. m.lastLogTerm < m.term
    BY DEF LogInv, CandidaciesAreSaved
  <1>3. c \in Chunks /\ IsChunk(c) /\ LastSent(c) = last
    BY ChunkTypes, ChunkOfReplica DEF Chunks, TypeInv, TypeOK, ReplicaTypes
  <1>4. last \in Positions(c) /\ i <= last
    BY <1>3, ChunkParts DEF Positions, IsChunk
  <1>5. TermIn(c, i) <= TermIn(c, last) /\ TermIn(c, i) \in Nat /\ TermIn(c, last) \in Nat
    BY <1>3, <1>4, ChunkIsCovered, CoveredLinks, TermsAscend, ChunkParts
  <1>6. currentTerm[p] \in Nat
    BY LogTerms
  <1>. QED BY <1>1, <1>2, <1>5, <1>6

LEMMA SafeBefore ==
  ASSUME VotesGrow, NEW i, NEW t, Safe(i, t)'
  PROVE  Safe(i, t)
  BY ElectedStays DEF Safe, VotesGrow, Covers, Elected

LEMMA LeaderCountsKept ==
  ASSUME TypeInv, TypeInv', ElectionInv, ElectionInv', Uncompacted, Uncompacted', LogInv, LogInv',
         CallsInTime, CallsFollowTerms, CountsAreInLog, CountedAreLocked, LostAreNotCounted,
         SafeEntriesStay, VotesAreInformed,
         \A p \in Server : LeaderStep(p) /\ memory[p].currentTerm <= memory'[p].currentTerm
  PROVE  CountsAreInLog' /\ CountedAreLocked' /\ LostAreNotCounted'
  <1>1. \A p \in Server : /\ rep'[p] \in Replica /\ Base(rep'[p]) = -1
                          /\ LastIndex(rep'[p]) \in Nat
                          /\ Indices(Chunk(rep'[p])) = 0 .. LastIndex(rep'[p])
    <2>. SUFFICES ASSUME NEW p \in Server
                  PROVE  /\ rep'[p] \in Replica /\ Base(rep'[p]) = -1
                         /\ LastIndex(rep'[p]) \in Nat
                         /\ Indices(Chunk(rep'[p])) = 0 .. LastIndex(rep'[p])
      OBVIOUS
    <2>1. /\ rep'[p] \in Replica
          /\ WellFormed(rep'[p].log, rep'[p].snapshot, rep'[p].commitIndex)
          /\ rep'[p].snapshot = NoSnapshot
      BY DEF TypeInv, TypeOK, ReplicaTypes, ShapeInv, ReplicaShape, Uncompacted
    <2>2. Base(rep'[p]) = -1 /\ Base(rep'[p]) + 1 = 0
      BY <2>1 DEF Base, NoSnapshot
    <2>. QED BY <2>1, <2>2, LastIndexIsNat, ReplicaParts, ChunkOfReplica
  <1>2. NoSnapshotIsSent /\ VotesGrow
    BY DEF Uncompacted, NoSnapshotIsSent, VotesAreInformed
  <1>3. CountsAreInLog'
    <2>. SUFFICES ASSUME NEW p \in Server, state'[p] = Leader
                  PROVE  /\ \A q \in Server :
                              /\ matchIndex'[p][q] <= LastIndex(rep'[p])
                              /\ (Outstanding(p, q)' /\ request'[p][q].term = currentTerm'[p]) =>
                                   LastSent(request'[p][q]) <= LastIndex(rep'[p])
                         /\ \A i \in 1 .. MaxIndex :
                              acks'[p][i] > 0 => HasEntry(p, i, currentTerm[p])'
      BY DEF CountsAreInLog
    <2>1. CASE BecomesLeader(p)
      <3>1. \A q \in Server : matchIndex'[p][q] = 0
        BY <2>1 DEF BecomesLeader, NoIndices
      <3>2. \A i \in 1 .. MaxIndex : acks'[p][i] = 0
        BY <2>1 DEF BecomesLeader, NoSignals
      <3>3. ASSUME NEW q \in Server, Outstanding(p, q)', request'[p][q].term = currentTerm'[p]
            PROVE  FALSE
        <4>1. request[p][q] # Nil /\ request[p][q].term = currentTerm[p]
          BY <2>1, <3>3 DEF BecomesLeader, Outstanding
        <4>2. request[p][q].term < currentTerm[p] /\ currentTerm[p] \in Nat
          BY <2>1, <4>1, LogTerms DEF BecomesLeader, CallsFollowTerms
        <4>. QED BY <4>1, <4>2
      <3>. QED BY <1>1, <3>1, <3>2, <3>3
    <2>2. CASE StaysLeader(p)
      <3>1. LastIndex(rep[p]) \in Nat /\ LastIndex(rep'[p]) \in Nat
            /\ LastIndex(rep[p]) <= LastIndex(rep'[p]) /\ state[p] = Leader
            /\ currentTerm'[p] = currentTerm[p]
        BY <1>1, <2>2, UncompactedLogs DEF StaysLeader
      <3>2. ASSUME NEW q \in Server PROVE matchIndex'[p][q] <= LastIndex(rep'[p])
        <4>1. matchIndex'[p][q] \in Int /\ matchIndex'[p][q] >= matchIndex'[p][q]
          BY DEF TypeInv, TypeOK, LeaderTypes
        <4>2. matchIndex'[p][q] <= LastIndex(rep[p])
          <5>1. ASSUME NEW i \in Int, i = matchIndex'[p][q] PROVE i <= LastIndex(rep[p])
            <6>1. Acked(p, q, i)'
              BY <4>1, <5>1 DEF Acked
            <6>. QED BY <2>2, <6>1, AckedBefore
          <5>. QED BY <4>1, <5>1
        <4>. QED BY <3>1, <4>1, <4>2
      <3>3. ASSUME NEW q \in Server, Outstanding(p, q)', request'[p][q].term = currentTerm'[p]
            PROVE  LastSent(request'[p][q]) <= LastIndex(rep'[p])
        <4>1. request'[p][q] # Nil /\ CallStep(p, q)
          BY <2>2, <3>3 DEF Outstanding, StaysLeader
        <4>2. CASE request'[p][q] = request[p][q]
          <5>1. Outstanding(p, q) /\ request[p][q].term = currentTerm[p]
            BY <3>1, <3>3, <4>2 DEF Outstanding
          <5>2. LastSent(request[p][q]) <= LastIndex(rep[p])
            BY <3>1, <5>1 DEF CountsAreInLog
          <5>3. LastSent(request[p][q]) \in Int
            BY <1>2, <5>1, RequestTypes, ChunkParts, RequestsUnfold DEF Outstanding
          <5>. QED BY <3>1, <4>2, <5>2, <5>3
        <4>. QED BY <4>1, <4>2 DEF CallStep
      <3>4. ASSUME NEW i \in 1 .. MaxIndex, acks'[p][i] > 0
            PROVE  HasEntry(p, i, currentTerm[p])'
        <4>1. CASE acks[p][i] > 0
          <5>1. i \in Indices(Chunk(rep[p])) /\ TermIn(Chunk(rep[p]), i) = currentTerm[p]
            BY <3>1, <4>1 DEF CountsAreInLog, HasEntry
          <5>2. i \in 0 .. LastIndex(rep[p])
            BY <5>1, UncompactedLogs
          <5>3. i \in Indices(Chunk(rep'[p]))
            BY <1>1, <3>1, <5>2
          <5>. QED BY <2>2, <3>1, <5>1, <5>3 DEF StaysLeader, HasEntry
        <4>2. CASE i \in Indices(Chunk(rep'[p])) /\ TermIn(Chunk(rep'[p]), i) = currentTerm[p]
          BY <3>1, <4>2 DEF HasEntry
        <4>. QED BY <2>2, <3>4, <4>1, <4>2 DEF StaysLeader
      <3>. QED BY <3>2, <3>3, <3>4
    <2>. QED BY <2>1, <2>2 DEF LeaderStep
  <1>4. ASSUME NEW p \in Server, NEW i \in Indices(Chunk(rep'[p])), state'[p] = Leader,
               HasEntry(p, i, currentTerm[p])'
        PROVE  /\ StaysLeader(p) /\ i \in Int /\ currentTerm'[p] = currentTerm[p]
               /\ state[p] = Leader /\ currentTerm[p] \in Nat
               /\ i <= LastIndex(rep[p]) => /\ i \in Indices(Chunk(rep[p]))
                                            /\ TermIn(Chunk(rep[p]), i) = currentTerm[p]
    <2>1. i \in 0 .. LastIndex(rep'[p]) /\ LastIndex(rep'[p]) \in Nat
          /\ TermIn(Chunk(rep'[p]), i) = currentTerm'[p]
      BY <1>1, <1>4 DEF HasEntry
    <2>2. CASE BecomesLeader(p)
      <3>1. rep'[p] = rep[p] /\ currentTerm'[p] = currentTerm[p] /\ state[p] = Candidate
        BY <2>2 DEF BecomesLeader
      <3>2. i \in Positions(Chunk(rep[p]))
        BY <2>1, <3>1, UncompactedLogs
      <3>. QED BY <1>2, <2>1, <3>1, <3>2, CandidateHasNone
    <2>3. CASE StaysLeader(p)
      <3>1. i <= LastIndex(rep[p]) => i \in Indices(Chunk(rep[p]))
        BY <2>1, UncompactedLogs
      <3>. QED BY <2>1, <2>3, <3>1, LogTerms DEF StaysLeader
    <2>. QED BY <1>4, <2>2, <2>3 DEF LeaderStep
  <1>5. CountedAreLocked'
    <2>. SUFFICES ASSUME NEW p \in Server, NEW v \in Server \ {p}, NEW i \in Indices(Chunk(rep'[p])),
                         state'[p] = Leader, HasEntry(p, i, currentTerm[p])', Acked(p, v, i)',
                         NEW t, t = currentTerm'[p], Safe(i, t)'
                  PROVE  Locked(v, i, t)'
      BY DEF CountedAreLocked
    <2>1. /\ StaysLeader(p) /\ i \in Int /\ t = currentTerm[p]
          /\ i <= LastIndex(rep[p]) => /\ i \in Indices(Chunk(rep[p]))
                                       /\ TermIn(Chunk(rep[p]), i) = currentTerm[p]
      BY <1>4
    <2>2. i <= LastIndex(rep[p])
      BY <2>1, AckedBefore
    <2>. QED BY <1>2, <2>1, <2>2, SafeBefore, AckedIsLocked
  <1>6. LostAreNotCounted'
    <2>. SUFFICES ASSUME NEW p \in Server, NEW i \in Indices(Chunk(rep'[p])),
                         state'[p] = Leader, HasEntry(p, i, currentTerm[p])',
                         NEW t, t = currentTerm'[p], ~Safe(i, t)'
                  PROVE  2 * Cardinality(NeverCounted(p, i)') > N
      BY DEF LostAreNotCounted, N
    <2>1. /\ StaysLeader(p) /\ i \in Int /\ t = currentTerm[p] /\ t \in Nat /\ state[p] = Leader
          /\ i <= LastIndex(rep[p]) => /\ i \in Indices(Chunk(rep[p]))
                                       /\ TermIn(Chunk(rep[p]), i) = currentTerm[p]
      BY <1>4
    <2>2. \A u \in Server : /\ memory[u].currentTerm \in Nat /\ memory'[u].currentTerm \in Nat
                            /\ memory'[u].currentTerm <= currentTerm'[u] /\ currentTerm'[u] \in Nat
      BY DEF TypeInv, TypeOK, StorageTypes, PeerTypes, Data, LogInv, LogIsSaved
    <2>. DEFINE C == NeverCounted(p, i)'
    <2>3. \A u \in Server : u \in C <=> u # p /\ memory'[u].currentTerm > t /\ ~Acked(p, u, i)'
      BY DEF NeverCounted
    <2>4. C \in SUBSET Server
      BY DEF NeverCounted
    <2>. HIDE DEF C
    <2>5. ASSUME NEW A \in SUBSET C, 2 * Cardinality(A) > N PROVE 2 * Cardinality(C) > N
      <3>1. Cardinality(A) \in Nat /\ Cardinality(C) \in Nat /\ Cardinality(A) <= Cardinality(C)
        BY <2>4, CountGrows
      <3>. QED BY <2>5, <3>1, ServersFinite
    <2>6. ASSUME i <= LastIndex(rep[p]), ~Safe(i, t) PROVE 2 * Cardinality(C) > N
      <3>1. 2 * Cardinality(NeverCounted(p, i)) > N
        BY <2>1, <2>6 DEF LostAreNotCounted, HasEntry
      <3>2. ASSUME NEW u \in NeverCounted(p, i) PROVE u \in C
        <4>1. u \in Server /\ u # p /\ memory[u].currentTerm > t /\ ~Acked(p, u, i)
          BY <2>1 DEF NeverCounted
        <4>2. memory'[u].currentTerm > t
          BY <2>1, <2>2, <4>1
        <4>3. ASSUME Acked(p, u, i)' PROVE FALSE
          <5>1. Accepts(u, request[p][u]) /\ request[p][u].term = t
            BY <2>1, <4>1, <4>3, AckedBefore
          <5>2. currentTerm'[u] = t
            BY <5>1 DEF Accepts
          <5>. QED BY <2>1, <2>2, <4>1, <4>2, <5>2
        <4>. QED BY <2>3, <4>1, <4>2, <4>3
      <3>. QED BY <2>5, <3>1, <3>2
    <2>7. ASSUME i <= LastIndex(rep[p]) => Safe(i, t) PROVE 2 * Cardinality(C) > N
      <3>1. PICK m \in voteRequests' : Elected(m)' /\ m.term > t /\ ~Covers(m, i, t)
        BY DEF Safe, Covers
      <3>. DEFINE U == {v \in Server : <<v, m.term, m.cand>> \in ballots'}
      <3>2. 2 * Cardinality(U) > N
        BY <3>1 DEF Elected, VotersFor, N
      <3>3. ASSUME NEW u \in U PROVE u \in C
        <4>1. u \in Server /\ <<u, m.term, m.cand>> \in ballots' /\ m.term \in Nat
          BY DEF TypeInv, TypeOK, ElectionTypes
        <4>2. m.term <= memory'[u].currentTerm
          BY <4>1 DEF ElectionInv, VotesSaved
        <4>3. memory'[u].currentTerm > t
          BY <2>1, <2>2, <3>1, <4>1, <4>2
        <4>4. u # p
          <5>1. memory'[p].currentTerm <= t /\ memory'[p].currentTerm \in Nat
            BY <2>2
          <5>. QED BY <2>1, <4>3, <5>1
        <4>5. ASSUME Acked(p, u, i)' PROVE FALSE
          <5>1. i <= LastIndex(rep[p])
            BY <2>1, <4>1, <4>5, AckedBefore
          <5>2. Locked(u, i, t)'
            BY <2>1, <2>7, <4>1, <4>4, <4>5, <5>1, AckedIsLocked
          <5>. QED BY <3>1, <4>1, <5>2 DEF Locked, Covers
        <4>. QED BY <2>3, <4>1, <4>3, <4>4, <4>5
      <3>. HIDE DEF U
      <3>. QED BY <2>5, <3>2, <3>3
    <2>. QED BY <2>6, <2>7 DEF C
  <1>. QED BY <1>3, <1>5, <1>6

-----------------------------------------------------------------------------
\* what every step must do

\* what is known of each state by now
Steady == TypeInv /\ ElectionInv /\ Uncompacted /\ LogInv

\* a step that keeps all that the invariant of replication rests on
KeepsPromises ==
  /\ SafeEntriesStay /\ VotesAreInformed
  /\ \A v \in Server : /\ CommitStep(v) /\ LeaderStep(v)
                       /\ memory[v].currentTerm <= memory'[v].currentTerm
  /\ \A c \in Requests' : c \in Requests \/ \E p \in Server : BringsEnd(c, p)
  /\ CallsFollowTerms'

LEMMA PromisesSuffice ==
  ASSUME Steady, Steady', CallsInTime, ReplicationInv, KeepsPromises
  PROVE  ReplicationInv'
  <1>1. CommitsAreChosen' /\ AppliedIsCommitted'
    BY CommitsKept DEF Steady, ReplicationInv, KeepsPromises
  <1>2. CountsAreInLog' /\ CountedAreLocked' /\ LostAreNotCounted'
    BY LeaderCountsKept DEF Steady, ReplicationInv, KeepsPromises
  <1>. QED BY <1>1, <1>2 DEF ReplicationInv, KeepsPromises

\* A save, or none, while the replicas stay as they are.
LEMMA SameReplicas ==
  ASSUME TypeInv, TypeInv', CommitsAreChosen, rep' = rep,
         memory' = memory \/ \E p \in Server : Save(p)
  PROVE  SafeEntriesStay /\ \A v \in Server : CommitStep(v)
  <1>1. SafeEntriesStay
    BY SameLogsStay
  <1>2. \A v \in Server : memory[v].commitIndex = rep[v].commitIndex
    BY DEF CommitsAreChosen
  <1>3. \A v \in Server : memory'[v].commitIndex = rep'[v].commitIndex
    BY <1>2, SaveWritesLog
  <1>. QED BY <1>1, <1>3 DEF CommitStep

LEMMA SavedTermsGrow ==
  ASSUME TypeInv, TypeInv', LogInv,
         \/ memory' = memory
         \/ \E p \in Server : Save(p) /\ currentTerm[p] <= currentTerm'[p]
  PROVE  \A v \in Server : memory[v].currentTerm <= memory'[v].currentTerm
  <1>1. \A v \in Server : /\ memory[v].currentTerm \in Nat /\ memory[v].currentTerm <= currentTerm[v]
                          /\ currentTerm[v] \in Nat /\ currentTerm'[v] \in Nat
    BY LogTerms DEF TypeInv, TypeOK, PeerTypes
  <1>2. CASE memory' = memory
    BY <1>1, <1>2
  <1>3. ASSUME NEW p \in Server, Save(p), currentTerm[p] <= currentTerm'[p]
        PROVE  \A v \in Server : memory[v].currentTerm <= memory'[v].currentTerm
    <2>1. /\ memory'[p].currentTerm = currentTerm'[p]
          /\ \A v \in Server : v # p => memory'[v] = memory[v]
      BY <1>3, SaveWritesLog
    <2>. QED BY <1>1, <1>3, <2>1
  <1>. QED BY <1>2, <1>3

\* what a step may do to the calls and the term of p
CallTerms(p) ==
  \A q \in Server :
    \/ request'[p][q] = Nil /\ response'[p][q] = Nil
    \/ /\ request'[p][q] = request[p][q]
       /\ request[p][q] = Nil => response'[p][q] = Nil
       /\ currentTerm[p] <= currentTerm'[p]
       /\ state'[p] = Candidate => state[p] = Candidate \/ currentTerm[p] < currentTerm'[p]
    \/ /\ request'[p][q] # Nil /\ request'[p][q].term = currentTerm'[p]
       /\ state'[p] # Candidate

LEMMA CallTermsSuffice ==
  ASSUME Steady, TypeInv', CallsFollowTerms, \A p \in Server : CallTerms(p)
  PROVE  CallsFollowTerms'
  <1>. SUFFICES ASSUME NEW p \in Server, NEW q \in Server
                PROVE  /\ request'[p][q] = Nil => response'[p][q] = Nil
                       /\ request'[p][q] # Nil =>
                            /\ request'[p][q].term <= currentTerm'[p]
                            /\ (state'[p] = Candidate => request'[p][q].term < currentTerm'[p])
    BY DEF CallsFollowTerms
  <1>1. currentTerm[p] \in Nat /\ currentTerm'[p] \in Nat
    BY DEF Steady, TypeInv, TypeOK, PeerTypes
  <1>2. request[p][q] # Nil => request[p][q].term \in Nat
    <2>1. request[p][q] # Nil => request[p][q] \in Requests
      BY RequestsUnfold
    <2>. QED BY <2>1, RequestTypes DEF Steady, Uncompacted, NoSnapshotIsSent, AppendEntriesReq
  <1>3. CASE request'[p][q] = Nil /\ response'[p][q] = Nil
    BY <1>3
  <1>4. CASE /\ request'[p][q] = request[p][q]
             /\ request[p][q] = Nil => response'[p][q] = Nil
             /\ currentTerm[p] <= currentTerm'[p]
             /\ state'[p] = Candidate => state[p] = Candidate \/ currentTerm[p] < currentTerm'[p]
    BY <1>1, <1>2, <1>4 DEF CallsFollowTerms
  <1>5. CASE /\ request'[p][q] # Nil /\ request'[p][q].term = currentTerm'[p]
             /\ state'[p] # Candidate
    BY <1>1, <1>5
  <1>. QED BY <1>3, <1>4, <1>5 DEF CallTerms

\* a leader that a step passes by
LeaderRests(p) ==
  /\ state[p] = Leader /\ currentTerm'[p] = currentTerm[p] /\ rep'[p] = rep[p]
  /\ \A i \in 1 .. MaxIndex : acks'[p][i] > 0 => acks[p][i] > 0
  /\ \A q \in Server : CallStep(p, q)

LEMMA RestingLeader ==
  ASSUME Steady, NEW p \in Server, LeaderRests(p)
  PROVE  StaysLeader(p)
  <1>1. LastIndex(rep[p]) <= LastIndex(rep[p])
    BY UncompactedLogs DEF Steady
  <1>. QED BY <1>1 DEF LeaderRests, StaysLeader

\* a call that a step leaves alone, or ends
LEMMA RestingCall ==
  ASSUME NEW p, NEW q, matchIndex'[p][q] = matchIndex[p][q],
         \/ request'[p][q] = Nil
         \/ request'[p][q] = request[p][q] /\ response'[p][q] = response[p][q]
  PROVE  CallStep(p, q)
  BY DEF CallStep

\* A step that changes no log and no call but those it ends, or a leader's new one.
LEMMA QuietKeeps ==
  ASSUME Steady, Steady', ReplicationInv, rep' = rep, VotesAreInformed,
         \/ memory' = memory
         \/ \E p \in Server : Save(p) /\ currentTerm[p] <= currentTerm'[p],
         \A c \in Requests' : c \in Requests \/ \E p \in Server : BringsEnd(c, p),
         \A p \in Server : CallTerms(p) /\ LeaderStep(p)
  PROVE  KeepsPromises
  <1>1. SafeEntriesStay /\ \A v \in Server : CommitStep(v)
    BY SameReplicas DEF Steady, ReplicationInv
  <1>2. \A v \in Server : memory[v].currentTerm <= memory'[v].currentTerm
    BY SavedTermsGrow DEF Steady
  <1>3. CallsFollowTerms'
    BY CallTermsSuffice DEF Steady, ReplicationInv
  <1>. QED BY <1>1, <1>2, <1>3 DEF KeepsPromises

\* A step that leaves the peers as they are, and every call.
LEMMA ElsewhereKeeps ==
  ASSUME Steady, Steady', ReplicationInv,
         UNCHANGED <<rep, memory, voteRequests, ballots, request, response, lateRequests, state,
                     currentTerm, matchIndex, acks>>
  PROVE  KeepsPromises
  <1>1. VotesAreInformed
    BY NoVoteIsInformed
  <1>2. Requests' = Requests
    BY DEF Requests
  <1>3. ASSUME NEW p \in Server PROVE CallTerms(p) /\ LeaderStep(p)
    <2>1. \A q \in Server : CallStep(p, q)
      BY RestingCall
    <2>2. currentTerm[p] \in Nat
      BY DEF Steady, TypeInv, TypeOK, PeerTypes
    <2>3. CallTerms(p)
      BY <2>2 DEF CallTerms, ReplicationInv, CallsFollowTerms
    <2>4. state[p] = Leader => LeaderRests(p)
      BY <2>1 DEF LeaderRests
    <2>. QED BY <2>3, <2>4, RestingLeader DEF LeaderStep
  <1>. QED BY <1>1, <1>2, <1>3, QuietKeeps

\* p may change its term and its role, but takes no leadership; the others rest.
LEMMA FollowerKeeps ==
  ASSUME Steady, Steady', ReplicationInv, NEW p \in Server, VotesAreInformed,
         UNCHANGED <<rep, request, response, lateRequests>>,
         memory' = memory \/ Save(p),
         currentTerm[p] <= currentTerm'[p],
         \/ state'[p] = Follower
         \/ state'[p] = Candidate /\ currentTerm[p] < currentTerm'[p],
         \A s \in Server : s # p =>
           /\ state'[s] = state[s] /\ currentTerm'[s] = currentTerm[s]
           /\ matchIndex'[s] = matchIndex[s] /\ acks'[s] = acks[s]
  PROVE  KeepsPromises
  <1>1. Requests' = Requests
    BY DEF Requests
  <1>2. \A s \in Server : currentTerm[s] \in Nat /\ currentTerm'[s] \in Nat
    BY DEF Steady, TypeInv, TypeOK, PeerTypes
  <1>3. ASSUME NEW s \in Server PROVE CallTerms(s)
    <2>1. currentTerm[s] <= currentTerm'[s]
      BY <1>2
    <2>2. state'[s] = Candidate => state[s] = Candidate \/ currentTerm[s] < currentTerm'[s]
      BY DEF Follower, Candidate
    <2>. QED BY <2>1, <2>2 DEF CallTerms, ReplicationInv, CallsFollowTerms
  <1>4. ASSUME NEW s \in Server PROVE LeaderStep(s)
    <2>1. CASE s = p
      BY <2>1 DEF LeaderStep, Follower, Candidate, Leader
    <2>2. CASE s # p
      <3>1. \A q \in Server : CallStep(s, q)
        BY <2>2, RestingCall
      <3>2. state[s] = Leader => LeaderRests(s)
        BY <2>2, <3>1 DEF LeaderRests
      <3>. QED BY <2>2, <3>2, RestingLeader DEF LeaderStep
    <2>. QED BY <2>1, <2>2
  <1>. QED BY <1>1, <1>3, <1>4, QuietKeeps

LEMMA CandidacyKeeps ==
  ASSUME Steady, Steady', ReplicationInv, NEW p \in Server,
         FollowerTimeout(p) \/ CandidateTimeout(p)
  PROVE  KeepsPromises
  <1>1. /\ StartElection(p) /\ state' = [state EXCEPT ![p] = Candidate]
        /\ UNCHANGED <<rep, request, response, lateRequests, matchIndex, acks>>
    BY DEF FollowerTimeout, CandidateTimeout, callVars, leaderVars, Steady, TypeInv, TypeOK, PeerTypes
  <1>2. Save(p) /\ currentTerm' = [currentTerm EXCEPT ![p] = currentTerm[p] + 1]
    BY <1>1 DEF StartElection
  <1>3. VotesAreInformed
    BY <1>1, CandidateIsInformed DEF Steady, Uncompacted, NoSnapshotIsSent
  <1>4. /\ currentTerm[p] \in Nat /\ currentTerm'[p] = currentTerm[p] + 1 /\ state'[p] = Candidate
        /\ \A s \in Server : s # p => state'[s] = state[s] /\ currentTerm'[s] = currentTerm[s]
    BY <1>1, <1>2 DEF Steady, TypeInv, TypeOK, PeerTypes
  <1>5. currentTerm[p] < currentTerm'[p] /\ currentTerm[p] <= currentTerm'[p]
    BY <1>4
  <1>. QED BY <1>1, <1>2, <1>3, <1>4, <1>5, FollowerKeeps

LEMMA VoteKeeps ==
  ASSUME Steady, Steady', ReplicationInv, NEW p \in Server, NEW m \in voteRequests,
         HandleRequestVote(p, m)
  PROVE  KeepsPromises
  <1>1. /\ currentTerm' = [currentTerm EXCEPT ![p] = Greater(@, m.term)]
        /\ UNCHANGED <<rep, request, response, lateRequests>>
        /\ Save(p) \/ memory' = memory
        /\ \/ /\ state' = [state EXCEPT ![p] = Follower]
              /\ matchIndex' = [matchIndex EXCEPT ![p] = NoIndices]
              /\ acks' = [acks EXCEPT ![p] = NoSignals]
           \/ UNCHANGED <<state, matchIndex, acks>> /\ ~(m.term > currentTerm[p])
    BY DEF HandleRequestVote, BecomeFollower, DropLeadership, callVars, leaderVars, storageVars
  <1>2. VotesAreInformed
    BY VoterIsInformed DEF Steady, Uncompacted, NoSnapshotIsSent
  <1>3. \A s \in Server : /\ currentTerm[s] \in Nat /\ currentTerm[s] <= currentTerm'[s]
                          /\ s # p => currentTerm'[s] = currentTerm[s]
    BY <1>1 DEF Steady, TypeInv, TypeOK, PeerTypes, ElectionTypes, Greater
  <1>4. \A s \in Server : s # p => /\ matchIndex'[s] = matchIndex[s] /\ acks'[s] = acks[s]
                                   /\ state'[s] = state[s]
    <2>1. /\ DOMAIN matchIndex = Server /\ DOMAIN acks = Server /\ DOMAIN state = Server
      BY DEF Steady, TypeInv, TypeOK, LeaderTypes, PeerTypes
    <2>2. CASE /\ state' = [state EXCEPT ![p] = Follower]
               /\ matchIndex' = [matchIndex EXCEPT ![p] = NoIndices]
               /\ acks' = [acks EXCEPT ![p] = NoSignals]
      BY <2>1, <2>2
    <2>3. CASE UNCHANGED <<state, matchIndex, acks>>
      BY <2>3
    <2>. QED BY <1>1, <2>2, <2>3, Zenon
  <1>5. CASE state' = [state EXCEPT ![p] = Follower]
    <2>1. state'[p] = Follower
      BY <1>5 DEF Steady, TypeInv, TypeOK, PeerTypes
    <2>. QED BY <1>1, <1>2, <1>3, <1>4, <2>1, FollowerKeeps
  <1>6. CASE UNCHANGED <<state, matchIndex, acks>> /\ ~(m.term > currentTerm[p])
    <2>1. \A s \in Server : currentTerm'[s] = currentTerm[s]
      BY <1>1, <1>6 DEF Steady, TypeInv, TypeOK, PeerTypes, ElectionTypes, Greater
    <2>2. ASSUME NEW s \in Server PROVE CallTerms(s) /\ LeaderStep(s)
      <3>1. \A q \in Server : CallStep(s, q)
        BY <1>1, <1>6, RestingCall
      <3>2. CallTerms(s)
        BY <1>1, <1>3, <1>6, <2>1 DEF CallTerms, ReplicationInv, CallsFollowTerms
      <3>3. state[s] = Leader => LeaderRests(s)
        BY <1>1, <1>6, <2>1, <3>1 DEF LeaderRests
      <3>. QED BY <1>6, <3>2, <3>3, RestingLeader DEF LeaderStep
    <2>3. Requests' = Requests
      BY <1>1 DEF Requests
    <2>. QED BY <1>1, <1>2, <1>3, <2>2, <2>3, QuietKeeps
  <1>. QED BY <1>1, <1>5, <1>6

LEMMA VoteReplyKeeps ==
  ASSUME Steady, Steady', ReplicationInv, NEW m \in voteResponses, HandleRequestVoteRespond(m)
  PROVE  KeepsPromises
  <1>. DEFINE p == m.cand
  <1>1. p \in Server /\ m.resTerm \in Nat
    BY DEF Steady, TypeInv, TypeOK, ElectionTypes
  <1>2. UNCHANGED <<rep, voteRequests, ballots, request, response, lateRequests>>
    BY DEF HandleRequestVoteRespond, callVars
  <1>3. VotesAreInformed
    BY <1>2, NoVoteIsInformed
  <1>4. \/ /\ currentTerm' = [currentTerm EXCEPT ![p] = Greater(@, m.resTerm)]
           /\ state' = [state EXCEPT ![p] = Follower] /\ memory' = memory
           /\ matchIndex' = [matchIndex EXCEPT ![p] = NoIndices]
           /\ acks' = [acks EXCEPT ![p] = NoSignals]
        \/ UNCHANGED <<state, currentTerm, matchIndex, acks>> /\ (Save(p) \/ memory' = memory)
        \/ /\ state' = [state EXCEPT ![p] = Leader] /\ state[p] = Candidate
           /\ currentTerm' = currentTerm /\ Save(p)
           /\ matchIndex' = [matchIndex EXCEPT ![p] = NoIndices]
           /\ acks' = [acks EXCEPT ![p] = NoSignals]
    BY DEF HandleRequestVoteRespond, UpdateTerm, BecomeFollower, BecomeLeader, DropLeadership,
           leaderVars, storageVars
  <1>. HIDE DEF p
  <1>5. \A s \in Server : currentTerm[s] \in Nat /\ currentTerm[s] <= currentTerm[s]
    BY DEF Steady, TypeInv, TypeOK, PeerTypes
  <1>6. Requests' = Requests
    BY <1>2 DEF Requests
  <1>7. CASE /\ currentTerm' = [currentTerm EXCEPT ![p] = Greater(@, m.resTerm)]
             /\ state' = [state EXCEPT ![p] = Follower] /\ memory' = memory
             /\ matchIndex' = [matchIndex EXCEPT ![p] = NoIndices]
             /\ acks' = [acks EXCEPT ![p] = NoSignals]
    <2>1. /\ currentTerm[p] <= currentTerm'[p] /\ state'[p] = Follower
          /\ \A s \in Server : s # p => state'[s] = state[s] /\ currentTerm'[s] = currentTerm[s]
      BY <1>1, <1>7 DEF Steady, TypeInv, TypeOK, PeerTypes, Greater
    <2>2. \A s \in Server : s # p => matchIndex'[s] = matchIndex[s] /\ acks'[s] = acks[s]
      BY <1>1, <1>7 DEF Steady, TypeInv, TypeOK, LeaderTypes
    <2>. QED BY <1>1, <1>2, <1>3, <1>7, <2>1, <2>2, FollowerKeeps
  <1>8. CASE UNCHANGED <<state, currentTerm, matchIndex, acks>> /\ (Save(p) \/ memory' = memory)
    <2>1. ASSUME NEW s \in Server PROVE CallTerms(s) /\ LeaderStep(s)
      <3>1. \A q \in Server : CallStep(s, q)
        BY <1>2, <1>8, RestingCall
      <3>2. CallTerms(s)
        BY <1>2, <1>5, <1>8 DEF CallTerms, ReplicationInv, CallsFollowTerms
      <3>3. state[s] = Leader => LeaderRests(s)
        BY <1>2, <1>8, <3>1 DEF LeaderRests
      <3>. QED BY <1>8, <3>2, <3>3, RestingLeader DEF LeaderStep
    <2>. QED BY <1>1, <1>2, <1>3, <1>5, <1>6, <1>8, <2>1, QuietKeeps
  <1>9. CASE /\ state' = [state EXCEPT ![p] = Leader] /\ state[p] = Candidate
             /\ currentTerm' = currentTerm /\ Save(p)
             /\ matchIndex' = [matchIndex EXCEPT ![p] = NoIndices]
             /\ acks' = [acks EXCEPT ![p] = NoSignals]
    <2>1. /\ state'[p] = Leader /\ matchIndex'[p] = NoIndices /\ acks'[p] = NoSignals
          /\ \A s \in Server : s # p => state'[s] = state[s]
      BY <1>1, <1>9 DEF Steady, TypeInv, TypeOK, PeerTypes, LeaderTypes
    <2>2. \A s \in Server : s # p => matchIndex'[s] = matchIndex[s] /\ acks'[s] = acks[s]
      BY <1>1, <1>9 DEF Steady, TypeInv, TypeOK, LeaderTypes
    <2>3. ASSUME NEW s \in Server PROVE CallTerms(s) /\ LeaderStep(s)
      <3>1. CASE s = p
        <4>1. CallTerms(s)
          BY <1>2, <1>5, <1>9, <2>1, <3>1
             DEF CallTerms, ReplicationInv, CallsFollowTerms, Leader, Candidate
        <4>2. BecomesLeader(s)
          BY <1>2, <1>9, <2>1, <3>1 DEF BecomesLeader
        <4>. QED BY <4>1, <4>2 DEF LeaderStep
      <3>2. CASE s # p
        <4>1. \A q \in Server : CallStep(s, q)
          BY <1>2, <2>2, <3>2, RestingCall
        <4>2. CallTerms(s)
          BY <1>2, <1>5, <1>9, <2>1, <3>2 DEF CallTerms, ReplicationInv, CallsFollowTerms
        <4>3. state[s] = Leader => LeaderRests(s)
          BY <1>2, <1>9, <2>2, <3>2, <4>1 DEF LeaderRests
        <4>. QED BY <2>1, <3>2, <4>2, <4>3, RestingLeader DEF LeaderStep
      <3>. QED BY <3>1, <3>2
    <2>. QED BY <1>1, <1>2, <1>3, <1>5, <1>6, <1>9, <2>3, QuietKeeps
  <1>. QED BY <1>4, <1>7, <1>8, <1>9

\* p changes its log or commits; a commit is of an entry that is chosen already.
LEMMA ChangeKeeps ==
  ASSUME Steady, Steady', ReplicationInv, NEW p \in Server, UNCHANGED <<voteRequests, ballots>>,
         Save(p), currentTerm[p] <= currentTerm'[p],
         \A s \in Server : s # p => rep'[s] = rep[s],
         \A i \in Indices(Chunk(rep[p])) :
           TermIn(Chunk(rep[p]), i) > 0 /\ Safe(i, TermIn(Chunk(rep[p]), i)) => KeepsUpTo(p, i),
         \/ rep'[p].commitIndex = rep[p].commitIndex /\ rep'[p].applied = rep[p].applied
         \/ /\ \E i \in Indices(Chunk(rep'[p])) :
                 rep'[p].commitIndex <= i /\ Chosen(i, TermIn(Chunk(rep'[p]), i))
            /\ rep[p].commitIndex <= rep'[p].commitIndex
            /\ rep'[p].applied =
                 rep[p].applied \o Commands(rep'[p], rep[p].commitIndex + 1, rep'[p].commitIndex),
         Requests' \subseteq Requests,
         \A s \in Server : CallTerms(s) /\ LeaderStep(s)
  PROVE  KeepsPromises
  <1>1. VotesAreInformed
    BY NoVoteIsInformed
  <1>2. SafeEntriesStay
    <2>. SUFFICES ASSUME NEW v \in Server, NEW i \in Indices(Chunk(rep[v])),
                         TermIn(Chunk(rep[v]), i) > 0, Safe(i, TermIn(Chunk(rep[v]), i))
                  PROVE  KeepsUpTo(v, i)
      BY DEF SafeEntriesStay
    <2>1. CASE v = p
      BY <2>1
    <2>2. CASE v # p
      BY <2>2 DEF KeepsUpTo
    <2>. QED BY <2>1, <2>2
  <1>3. \A v \in Server : memory[v].currentTerm <= memory'[v].currentTerm
    BY SavedTermsGrow DEF Steady
  <1>4. \A v \in Server : memory'[v].commitIndex = rep'[v].commitIndex
    BY SaveWritesLog DEF Steady, ReplicationInv, CommitsAreChosen
  <1>5. CommitStep(p)
    <2>1. CASE rep'[p].commitIndex = rep[p].commitIndex /\ rep'[p].applied = rep[p].applied
      BY <1>4, <2>1 DEF CommitStep
    <2>2. ASSUME NEW i \in Indices(Chunk(rep'[p])),
                 rep'[p].commitIndex <= i, Chosen(i, TermIn(Chunk(rep'[p]), i)),
                 rep[p].commitIndex <= rep'[p].commitIndex,
                 rep'[p].applied =
                   rep[p].applied \o Commands(rep'[p], rep[p].commitIndex + 1, rep'[p].commitIndex)
          PROVE  CommitStep(p)
      <3>1. ASSUME NEW t, t = TermIn(Chunk(rep'[p]), i) PROVE Chosen(i, t)'
        <4>1. Chosen(i, t)
          BY <2>2, <3>1
        <4>. QED BY <1>1, <1>2, <4>1, ChosenStays DEF Steady
      <3>. QED BY <1>4, <2>2, <3>1 DEF CommitStep
    <2>. QED BY <2>1, <2>2
  <1>6. \A v \in Server : CommitStep(v)
    BY <1>4, <1>5 DEF CommitStep
  <1>7. CallsFollowTerms'
    BY CallTermsSuffice DEF Steady, ReplicationInv
  <1>. QED BY <1>1, <1>2, <1>3, <1>6, <1>7 DEF KeepsPromises

LEMMA AppendKeeps ==
  ASSUME Steady, Steady', ReplicationInv, NEW p \in Server, NEW cmd \in Cmd,
         state[p] = Leader, LeaderAppend(p, cmd),
         UNCHANGED <<state, currentTerm, voteRequests, ballots, request, response, lateRequests,
                     matchIndex>>
  PROVE  KeepsPromises
  <1>. DEFINE e == [term |-> currentTerm[p], cmd |-> cmd]
              c == Chunk(rep[p])
              x == Chunk(AppendEntry(rep[p], e))
              n == LastIndex(rep[p]) + 1
  <1>1. /\ rep' = [rep EXCEPT ![p] = AppendEntry(rep[p], e)]
        /\ acks' = [acks EXCEPT ![p][LogLen(rep[p])] = 1] /\ Save(p)
    BY DEF LeaderAppend
  <1>2. /\ rep'[p] = AppendEntry(rep[p], e)
        /\ \A s \in Server : s # p => rep'[s] = rep[s]
        /\ rep[p] \in Replica /\ e \in Entry
        /\ \A s \in Server : currentTerm[s] \in Nat
    BY <1>1 DEF Steady, TypeInv, TypeOK, ReplicaTypes, PeerTypes, Entry
  <1>3. /\ n \in Int /\ LastIndex(rep[p]) \in Int /\ LastIndex(rep'[p]) = n
        /\ Indices(x) = Indices(c) \cup {n}
        /\ \A i \in Indices(c) : i \in Positions(c) /\ TermIn(x, i) = TermIn(c, i)
                                 /\ CmdIn(x, i) = CmdIn(c, i)
        /\ TermIn(x, n) = e.term
    <2>1. IsChunk(c) /\ LastIndex(rep[p]) \in Int
      BY <1>2, ChunkOfReplica, ReplicaParts
    <2>2. Indices(c) \subseteq Positions(c)
      BY <2>1, ChunkParts
    <2>. QED BY <1>2, <2>1, <2>2, AppendedChunk
  <1>4. Chunk(rep'[p]) = x /\ e.term = currentTerm[p] /\ LogLen(rep[p]) = n
    <2>1. LogLen(rep[p]) \in Int
      BY <1>2, ReplicaParts
    <2>. QED BY <1>2, <2>1 DEF LastIndex
  <1>5. /\ rep'[p].commitIndex = rep[p].commitIndex /\ rep'[p].applied = rep[p].applied
    BY <1>2 DEF AppendEntry, Replica
  <1>. HIDE DEF x, n, c, e
  <1>6. \A i \in Indices(c) : KeepsUpTo(p, i)
    BY <1>3, <1>4 DEF KeepsUpTo, c
  <1>7. Requests' \subseteq Requests
    BY DEF Requests
  <1>8. \A s \in Server : /\ \A q \in Server : CallStep(s, q)
                          /\ CallTerms(s)
    BY <1>2, RestingCall DEF CallTerms, ReplicationInv, CallsFollowTerms
  <1>9. \A s \in Server, i \in 1 .. MaxIndex :
          acks'[s][i] > 0 => acks[s][i] > 0 \/ (s = p /\ i = n)
    BY <1>1, <1>4 DEF Steady, TypeInv, TypeOK, LeaderTypes
  <1>10. ASSUME NEW s \in Server PROVE LeaderStep(s)
    <2>1. CASE s = p
      <3>1. LastIndex(rep[p]) <= LastIndex(rep'[p])
        BY <1>3 DEF n
      <3>2. \A i \in 1 .. MaxIndex :
              acks'[p][i] > 0 => \/ acks[p][i] > 0
                                 \/ /\ i \in Indices(Chunk(rep'[p]))
                                    /\ TermIn(Chunk(rep'[p]), i) = currentTerm[p]
        BY <1>3, <1>4, <1>9
      <3>3. \A i \in Indices(Chunk(rep[p])) : TermIn(Chunk(rep'[p]), i) = TermIn(Chunk(rep[p]), i)
        BY <1>3, <1>4 DEF c
      <3>4. StaysLeader(p)
        BY <1>8, <3>1, <3>2, <3>3 DEF StaysLeader
      <3>. QED BY <2>1, <3>4 DEF LeaderStep
    <2>2. CASE s # p
      <3>1. state[s] = Leader => LeaderRests(s)
        BY <1>2, <1>8, <1>9, <2>2 DEF LeaderRests
      <3>. QED BY <3>1, RestingLeader DEF LeaderStep
    <2>. QED BY <2>1, <2>2
  <1>11. currentTerm[p] <= currentTerm'[p]
    BY <1>2
  <1>. QED BY <1>1, <1>2, <1>5, <1>6, <1>7, <1>8, <1>10, <1>11, ChangeKeeps DEF c

\* A commit within a short log feeds the state machine, and changes nothing else.
LEMMA ShortCommitIs ==
  ASSUME SnapshotThreshold > MaxIndex + 1, NEW r, Sound(r), Short(r), NEW idx \in Nat
  PROVE  LET u == UpdateCommitIndex(r, idx)
         IN  /\ u.log = r.log /\ u.snapshot = r.snapshot /\ Chunk(u) = Chunk(r)
             /\ \/ u.commitIndex = r.commitIndex /\ u.applied = r.applied
                \/ /\ r.commitIndex <= u.commitIndex
                   /\ u.commitIndex \in Nat /\ u.commitIndex > 0
                   /\ u.commitIndex <= idx /\ u.commitIndex <= LastIndex(r)
                   /\ u.applied = r.applied \o Commands(u, r.commitIndex + 1, u.commitIndex)
  <1>. DEFINE new == Lesser(idx, LastIndex(r))
              u   == UpdateCommitIndex(r, idx)
              a   == ApplyUpTo(r, new)
  <1>1. /\ r \in Replica /\ Base(r) = -1 /\ LastIndex(r) \in Nat /\ LastIndex(r) <= MaxIndex
        /\ r.commitIndex \in Nat /\ MaxIndex \in Nat /\ SnapshotThreshold \in Nat
    BY LastIndexIsNat, ReplicaParts, BoundAssumption, ThresholdAssumption
       DEF Sound, Short, Base, NoSnapshot
  <1>2. new <= LastIndex(r) /\ new <= idx /\ new \in Nat
    BY <1>1 DEF Lesser
  <1>3. new < FirstSnapshot(r)
    BY <1>1, <1>2 DEF FirstSnapshot, Greater
  <1>4. \/ u = r
        \/ u = a /\ r.commitIndex < new
    BY <1>1, <1>2, <1>3 DEF UpdateCommitIndex
  <1>5. /\ a.log = r.log /\ a.snapshot = r.snapshot /\ a.commitIndex = new
        /\ a.applied = r.applied \o Commands(r, r.commitIndex + 1, new)
    BY DEF ApplyUpTo
  <1>6. ASSUME u.log = r.log, u.snapshot = r.snapshot
        PROVE  Chunk(u) = Chunk(r) /\ \A i, j : Commands(u, i, j) = Commands(r, i, j)
    BY <1>6 DEF Chunk, Base, Commands
  <1>7. CASE u = r
    BY <1>7
  <1>8. CASE u = a /\ r.commitIndex < new
    <2>1. u.log = r.log /\ u.snapshot = r.snapshot /\ u.commitIndex = new
          /\ u.applied = r.applied \o Commands(r, r.commitIndex + 1, new)
      BY <1>5, <1>8
    <2>2. Chunk(u) = Chunk(r) /\ Commands(u, r.commitIndex + 1, new) = Commands(r, r.commitIndex + 1, new)
      BY <1>6, <2>1
    <2>3. r.commitIndex <= new /\ new > 0
      BY <1>1, <1>2, <1>8
    <2>. HIDE DEF u, a, new
    <2>. QED BY <1>2, <2>1, <2>2, <2>3 DEF u
  <1>. QED BY <1>4, <1>7, <1>8

\* An index that a majority signalled for is that of a chosen entry.
LEMMA CountedIsChosen ==
  ASSUME Steady, SignalInv, ReplicationInv, NEW p \in Server, state[p] = Leader,
         NEW i \in 1 .. MaxIndex, IsMajority(acks[p][i]), NEW t, t = currentTerm[p]
  PROVE  HasEntry(p, i, t) /\ Chosen(i, t)
  <1>. DEFINE A == HaveSignalled(p, i)
              B == A \cup {p}
              L == {v \in Server : Locked(v, i, t)}
  <1>1. /\ acks[p][i] \in Nat /\ N \in Nat /\ 2 * acks[p][i] > N
        /\ \A v \in Server : currentTerm[v] \in Nat /\ memory[v].currentTerm \in Nat
    <2>1. acks[p][i] \in Nat
      BY DEF Steady, TypeInv, TypeOK, LeaderTypes
    <2>. QED BY <2>1, ServersFinite, LogTerms DEF Steady, IsMajority
  <1>2. acks[p][i] > 0
    BY <1>1
  <1>3. HasEntry(p, i, t)
    BY <1>2 DEF ReplicationInv, CountsAreInLog
  <1>4. /\ i \in Indices(Chunk(rep[p])) /\ i > Base(rep[p]) /\ i <= LastIndex(rep[p])
        /\ t \in Nat /\ t > 0
    <2>1. i \in Indices(Chunk(rep[p])) /\ Base(rep[p]) = -1 /\ i \in 0 .. LastIndex(rep[p])
          /\ LastIndex(rep[p]) \in Nat
      BY <1>3, UncompactedLogs DEF HasEntry, Steady
    <2>. QED BY <2>1, LeadersTerm DEF Steady
  <1>5. acks[p][i] <= 1 + Cardinality(A)
    BY <1>4 DEF SignalInv, SignalsOf
  <1>6. A \in SUBSET Server /\ p \notin A /\ B \in SUBSET Server
    BY DEF HaveSignalled
  <1>7. \A v \in A : v \in Server \ {p} /\ Acked(p, v, i)
    BY DEF HaveSignalled, Acked
  <1>. HIDE DEF A
  <1>8. Cardinality(A) \in Nat /\ Cardinality(B) = Cardinality(A) + 1
    <2>1. IsFiniteSet(A)
      BY <1>6, ServersFinite, FS_Subset
    <2>. QED BY <1>6, <2>1, FS_AddElement, FS_CardinalityType
  <1>9. 2 * Cardinality(B) > N
    BY <1>1, <1>5, <1>8
  <1>10. Safe(i, t)
    <2>. SUFFICES ASSUME ~Safe(i, t) PROVE FALSE
      OBVIOUS
    <2>1. 2 * Cardinality(NeverCounted(p, i)) > N
      BY <1>3, <1>4 DEF ReplicationInv, LostAreNotCounted
    <2>2. NeverCounted(p, i) \in SUBSET Server
      BY DEF NeverCounted
    <2>3. B \cap NeverCounted(p, i) # {}
      <3>. HIDE DEF B
      <3>. QED BY <1>6, <1>9, <2>1, <2>2, MajoritiesMeet
    <2>. QED BY <1>7, <2>3 DEF NeverCounted
  <1>11. \A v \in A : Locked(v, i, t)
    BY <1>3, <1>4, <1>7, <1>10 DEF ReplicationInv, CountedAreLocked
  <1>12. Locked(p, i, t)
    <2>1. ASSUME NEW m \in voteRequests, m.term > t, <<p, m.term, m.cand>> \in ballots
          PROVE  FALSE
      <3>1. m.term <= memory[p].currentTerm /\ memory[p].currentTerm <= currentTerm[p]
        BY <2>1, LogTerms DEF Steady, ElectionInv, VotesSaved
      <3>2. m.term \in Nat
        BY DEF Steady, TypeInv, TypeOK, ElectionTypes
      <3>. QED BY <1>1, <2>1, <3>1, <3>2
    <2>. QED BY <1>3, <2>1 DEF Locked
  <1>13. B \subseteq L /\ L \in SUBSET Server
    BY <1>6, <1>11, <1>12
  <1>14. 2 * Cardinality(L) > N
    <2>. HIDE DEF B, L
    <2>1. Cardinality(B) \in Nat /\ Cardinality(L) \in Nat /\ Cardinality(B) <= Cardinality(L)
      BY <1>6, <1>13, CountGrows
    <2>. QED BY <1>1, <1>9, <2>1
  <1>. QED BY <1>3, <1>4, <1>14 DEF Chosen

LEMMA CommitRequestKeeps ==
  ASSUME SnapshotThreshold > MaxIndex + 1, Steady, Steady', SignalInv, ReplicationInv,
         NEW p \in Server, NEW i \in 1 .. MaxIndex, CommitRequest(p, i)
  PROVE  KeepsPromises
  <1>. DEFINE r == rep[p]
              u == UpdateCommitIndex(r, i)
  <1>1. /\ up[p] /\ state[p] = Leader /\ IsMajority(acks[p][i]) /\ rep' = [rep EXCEPT ![p] = u]
        /\ acks' = [acks EXCEPT ![p][i] = 0] /\ Save(p)
        /\ UNCHANGED <<state, currentTerm, voteRequests, ballots, request, response, lateRequests,
                       matchIndex>>
    BY DEF CommitRequest, electionVars, callVars
  <1>2. Sound(r) /\ Short(r) /\ i \in Nat
    BY <1>1, UpIsSound, BoundAssumption DEF Steady, TypeInv, TypeOK, ShapeInv, Uncompacted, Short
  <1>3. /\ u.log = r.log /\ u.snapshot = r.snapshot /\ Chunk(u) = Chunk(r)
        /\ \/ u.commitIndex = r.commitIndex /\ u.applied = r.applied
           \/ /\ r.commitIndex <= u.commitIndex
              /\ u.commitIndex <= i
              /\ u.applied = r.applied \o Commands(u, r.commitIndex + 1, u.commitIndex)
    BY <1>2, ShortCommitIs
  <1>. HIDE DEF u
  <1>4. rep'[p] = u /\ \A s \in Server : s # p => rep'[s] = rep[s]
    BY <1>1 DEF Steady, TypeInv, TypeOK, ReplicaTypes
  <1>5. i \in Indices(Chunk(r)) /\ Chosen(i, TermIn(Chunk(r), i))
    BY <1>1, CountedIsChosen DEF HasEntry
  <1>6. \A s \in Server : Chunk(rep'[s]) = Chunk(rep[s]) /\ LastIndex(rep'[s]) = LastIndex(rep[s])
    BY <1>3, <1>4 DEF LastIndex, LogLen, Base
  <1>7. \A n \in Indices(Chunk(rep[p])) : KeepsUpTo(p, n)
    BY <1>6 DEF KeepsUpTo
  <1>8. \A s \in Server : currentTerm[s] \in Nat /\ currentTerm[s] <= currentTerm'[s]
    BY <1>1 DEF Steady, TypeInv, TypeOK, PeerTypes
  <1>9. \A s \in Server : /\ \A q \in Server : CallStep(s, q)
                          /\ CallTerms(s)
    BY <1>1, <1>8, RestingCall DEF CallTerms, ReplicationInv, CallsFollowTerms
  <1>10. \A s \in Server, n \in 1 .. MaxIndex : acks'[s][n] > 0 => acks[s][n] > 0
    <2>1. \A s \in Server, n \in 1 .. MaxIndex : acks'[s][n] = acks[s][n] \/ acks'[s][n] = 0
      BY <1>1 DEF Steady, TypeInv, TypeOK, LeaderTypes
    <2>. QED BY <2>1
  <1>11. ASSUME NEW s \in Server PROVE LeaderStep(s)
    <2>1. LastIndex(rep[s]) <= LastIndex(rep'[s])
      BY <1>6, UncompactedLogs DEF Steady
    <2>. QED BY <1>1, <1>6, <1>9, <1>10, <2>1 DEF LeaderStep, StaysLeader
  <1>12. Requests' \subseteq Requests
    BY <1>1 DEF Requests
  <1>13. \/ rep'[p].commitIndex = rep[p].commitIndex /\ rep'[p].applied = rep[p].applied
         \/ /\ \E n \in Indices(Chunk(rep'[p])) :
                 rep'[p].commitIndex <= n /\ Chosen(n, TermIn(Chunk(rep'[p]), n))
            /\ rep[p].commitIndex <= rep'[p].commitIndex
            /\ rep'[p].applied =
                 rep[p].applied \o Commands(rep'[p], rep[p].commitIndex + 1, rep'[p].commitIndex)
    BY <1>3, <1>4, <1>5
  <1>. QED BY <1>1, <1>4, <1>7, <1>8, <1>9, <1>11, <1>12, <1>13, ChangeKeeps

\* A process that starts again has the replica it had.
LEMMA ReloadsReplica ==
  ASSUME Steady, ReplicationInv, NEW p \in Server
  PROVE  Reload(memory[p].log, memory[p].snapshot, memory[p].commitIndex) = rep[p]
  <1>. DEFINE r == rep[p]
              k == r.commitIndex
              l == [log |-> r.log, snapshot |-> r.snapshot, commitIndex |-> k,
                    applied |-> r.snapshot.sm]
  <1>1. /\ memory[p].log = r.log /\ memory[p].snapshot = r.snapshot /\ memory[p].commitIndex = k
        /\ r.snapshot = NoSnapshot /\ k <= LastIndex(r) /\ r.applied = Commands(r, 1, k)
    BY DEF Steady, LogInv, LogIsSaved, Uncompacted, ReplicationInv, CommitsAreChosen,
           AppliedIsCommitted
  <1>2. r \in Replica /\ k \in Nat /\ LastIndex(r) \in Int
    BY UncompactedLogs DEF Steady
  <1>3. Base(l) = -1 /\ Base(r) = -1 /\ LastIndex(l) = LastIndex(r)
    BY <1>1 DEF Base, LastIndex, LogLen, NoSnapshot
  <1>4. Greater(Base(l) + 1, 1) = 1 /\ Lesser(k, LastIndex(l)) = k
    BY <1>1, <1>2, <1>3 DEF Greater, Lesser
  <1>5. Commands(l, 1, k) = Commands(r, 1, k)
    BY <1>3 DEF Commands
  <1>6. /\ Reload(r.log, r.snapshot, k).log = r.log /\ Reload(r.log, r.snapshot, k).snapshot = r.snapshot
        /\ Reload(r.log, r.snapshot, k).commitIndex = k
        /\ Reload(r.log, r.snapshot, k).applied = r.snapshot.sm \o Commands(l, 1, k)
        /\ Reload(r.log, r.snapshot, k) =
             [log |-> r.log, snapshot |-> r.snapshot, commitIndex |-> k,
              applied |-> r.snapshot.sm \o Commands(l, 1, k)]
    BY <1>4 DEF Reload
  <1>7. r.snapshot.sm \o Commands(r, 1, k) = r.applied
    <2>1. Commands(r, 1, k) \in Seq(Cmd)
      BY <1>1, <1>2, <1>3, CommandsAreCmds
    <2>. QED BY <1>1, <2>1 DEF NoSnapshot
  <1>8. r = [log |-> r.log, snapshot |-> r.snapshot, commitIndex |-> r.commitIndex,
             applied |-> r.applied]
    BY <1>2 DEF Replica
  <1>. QED BY <1>1, <1>5, <1>6, <1>7, <1>8

LEMMA RestartKeeps ==
  ASSUME Steady, Steady', Durable, ReplicationInv, NEW p \in Server, Crash(p) \/ Stop(p)
  PROVE  KeepsPromises
  <1>. DEFINE d == memory[p]
  <1>1. NewProcess(p, d)
    <2>1. CASE Stop(p)
      BY <2>1 DEF Stop
    <2>2. CASE Crash(p)
      <3>1. ~Hybrid
        <4>1. restarts \in Nat /\ restarts < MaxCrashes
          BY <2>2 DEF Crash, Steady, TypeInv, TypeOK, CallTypes
        <4>. QED BY <4>1 DEF Durable
      <3>2. memory = disk
        BY <3>1 DEF Steady, ElectionInv
      <3>. QED BY <2>2, <3>2 DEF Crash
    <2>. QED BY <2>1, <2>2
  <1>2. /\ currentTerm' = [currentTerm EXCEPT ![p] = d.currentTerm]
        /\ rep' = [rep EXCEPT ![p] = Reload(d.log, d.snapshot, d.commitIndex)]
        /\ memory' = [memory EXCEPT ![p] = d]
        /\ state' = [state EXCEPT ![p] = Follower]
        /\ request' = [request EXCEPT ![p] = NoCalls]
        /\ response' = [response EXCEPT ![p] = NoCalls]
        /\ matchIndex' = [matchIndex EXCEPT ![p] = NoIndices]
        /\ acks' = [acks EXCEPT ![p] = NoSignals]
        /\ \/ lateRequests' = lateRequests
           \/ lateRequests' = lateRequests \cup
                                {[from |-> p, to |-> q, req |-> request[p][q]] :
                                   q \in {s \in Server : Waiting(p, s)}}
        /\ UNCHANGED <<voteRequests, ballots>>
    BY <1>1 DEF NewProcess, DropLeadership
  <1>3. rep' = rep /\ memory' = memory
    BY <1>2, ReloadsReplica DEF Steady, TypeInv, TypeOK, ReplicaTypes, StorageTypes
  <1>. HIDE DEF d
  <1>4. /\ \A s \in Server : s # p =>
             /\ currentTerm'[s] = currentTerm[s] /\ state'[s] = state[s]
             /\ request'[s] = request[s] /\ response'[s] = response[s]
             /\ matchIndex'[s] = matchIndex[s] /\ acks'[s] = acks[s]
        /\ state'[p] = Follower /\ request'[p] = NoCalls /\ response'[p] = NoCalls
    BY <1>2 DEF Steady, TypeInv, TypeOK, PeerTypes, CallTypes, LeaderTypes
  <1>5. VotesAreInformed
    BY <1>2, NoVoteIsInformed
  <1>6. Requests' \subseteq Requests
    BY <1>2, RestartRequests DEF Steady
  <1>7. ASSUME NEW s \in Server PROVE CallTerms(s) /\ LeaderStep(s)
    <2>1. CASE s = p
      BY <1>4, <2>1 DEF CallTerms, NoCalls, LeaderStep, Follower, Leader
    <2>2. CASE s # p
      <3>1. currentTerm[s] \in Nat
        BY DEF Steady, TypeInv, TypeOK, PeerTypes
      <3>2. CallTerms(s)
        BY <1>4, <2>2, <3>1 DEF CallTerms, ReplicationInv, CallsFollowTerms
      <3>3. \A q \in Server : CallStep(s, q)
        BY <1>4, <2>2, RestingCall
      <3>4. state[s] = Leader => LeaderRests(s)
        BY <1>3, <1>4, <2>2, <3>3 DEF LeaderRests
      <3>. QED BY <1>4, <2>2, <3>2, <3>4, RestingLeader DEF LeaderStep
    <2>. QED BY <2>1, <2>2
  <1>. QED BY <1>3, <1>5, <1>6, <1>7, QuietKeeps

-----------------------------------------------------------------------------
\* replication calls

LEMMA SendKeeps ==
  ASSUME Steady, Steady', ReplicationInv, NEW p \in Server, NEW q \in Server,
         SendAppendEntries(p, q)
  PROVE  KeepsPromises
  <1>1. /\ state[p] = Leader /\ request[p][q] = Nil
        /\ UNCHANGED <<state, currentTerm, rep, memory, voteRequests, ballots, lateRequests,
                       response, matchIndex, acks>>
    BY DEF SendAppendEntries, MayCall, electionVars, storageVars, leaderVars
  <1>2. CASE request' = request
    BY <1>1, <1>2, ElsewhereKeeps
  <1>3. ASSUME NEW f, CallOf(p, q, f), request' = [request EXCEPT ![p][q] = f],
               \A c \in Requests' : c \in Requests \/ c = f
        PROVE  KeepsPromises
    <2>1. BringsEnd(f, p) /\ f.term = currentTerm[p] /\ LastSent(f) = LastIndex(rep[p])
      BY <1>3 DEF CallOf, BringsEnd
    <2>2. VotesAreInformed
      BY <1>1, NoVoteIsInformed
    <2>3. response[p][q] = Nil
      BY <1>1 DEF ReplicationInv, CallsFollowTerms
    <2>4. /\ request'[p][q] = f
          /\ \A s, u \in Server : ~(s = p /\ u = q) => request'[s][u] = request[s][u]
      BY <1>3 DEF Steady, TypeInv, TypeOK, CallTypes
    <2>5. LastIndex(rep[p]) \in Nat /\ \A s \in Server : currentTerm[s] \in Nat
      BY UncompactedLogs DEF Steady, TypeInv, TypeOK, PeerTypes
    <2>6. ASSUME NEW s \in Server PROVE CallTerms(s) /\ LeaderStep(s)
      <3>1. ASSUME NEW u \in Server PROVE CallStep(s, u)
        <4>1. CASE s = p /\ u = q
          BY <1>1, <2>1, <2>3, <2>4, <2>5, <4>1 DEF CallStep
        <4>2. CASE ~(s = p /\ u = q)
          BY <1>1, <2>4, <4>2, RestingCall
        <4>. QED BY <4>1, <4>2
      <3>2. CallTerms(s)
        <4>. SUFFICES ASSUME NEW u \in Server
                      PROVE  \/ request'[s][u] = Nil /\ response'[s][u] = Nil
                             \/ /\ request'[s][u] = request[s][u]
                                /\ request[s][u] = Nil => response'[s][u] = Nil
                                /\ currentTerm[s] <= currentTerm'[s]
                                /\ state'[s] = Candidate =>
                                     state[s] = Candidate \/ currentTerm[s] < currentTerm'[s]
                             \/ /\ request'[s][u] # Nil /\ request'[s][u].term = currentTerm'[s]
                                /\ state'[s] # Candidate
          BY DEF CallTerms
        <4>1. CASE s = p /\ u = q
          BY <1>1, <2>1, <2>3, <2>4, <4>1 DEF Leader, Candidate
        <4>2. CASE ~(s = p /\ u = q)
          BY <1>1, <2>4, <2>5, <4>2 DEF ReplicationInv, CallsFollowTerms
        <4>. QED BY <4>1, <4>2
      <3>3. state[s] = Leader => LeaderRests(s)
        BY <1>1, <3>1 DEF LeaderRests
      <3>. QED BY <1>1, <3>2, <3>3, RestingLeader DEF LeaderStep
    <2>. QED BY <1>1, <1>3, <2>1, <2>2, <2>6, QuietKeeps
  <1>. QED BY <1>2, <1>3, SentCall DEF Steady

\* A call of p to q ends, and its leader counts the reply or steps down.
LEMMA ReplyKeeps ==
  ASSUME Steady, Steady', ReplicationInv, NEW p \in Server, NEW q \in Server,
         request[p][q] # Nil, request' = [request EXCEPT ![p][q] = Nil],
         response' = [response EXCEPT ![p][q] = Nil],
         \/ lateRequests' = lateRequests
         \/ lateRequests' = lateRequests \cup {[from |-> p, to |-> q, req |-> request[p][q]]},
         UNCHANGED <<rep, voteRequests, ballots>>,
         memory' = memory \/ Save(p),
         \A s \in Server : /\ currentTerm[s] <= currentTerm'[s]
                           /\ \/ state'[s] = Follower
                              \/ state'[s] = state[s] /\ currentTerm'[s] = currentTerm[s],
         \A s \in Server : state'[s] = Leader =>
           /\ \A i \in 1 .. MaxIndex : acks'[s][i] > 0 => acks[s][i] > 0
           /\ \A u \in Server :
                \/ matchIndex'[s][u] = matchIndex[s][u]
                \/ /\ s = p /\ u = q /\ Answered(p, q) /\ Outstanding(p, q)
                   /\ response[p][q].success /\ matchIndex'[p][q] = LastSent(request[p][q])
  PROVE  KeepsPromises
  <1>1. Requests' \subseteq Requests
    BY CallEnds DEF Steady
  <1>2. VotesAreInformed
    BY NoVoteIsInformed
  <1>3. /\ request'[p][q] = Nil /\ response'[p][q] = Nil
        /\ \A s, u \in Server : ~(s = p /\ u = q) => /\ request'[s][u] = request[s][u]
                                                     /\ response'[s][u] = response[s][u]
    BY DEF Steady, TypeInv, TypeOK, CallTypes
  <1>4. ASSUME NEW s \in Server PROVE CallTerms(s)
    <2>1. state'[s] = Candidate => state[s] = Candidate
      BY DEF Follower, Candidate
    <2>. QED BY <1>3, <2>1 DEF CallTerms, ReplicationInv, CallsFollowTerms
  <1>5. ASSUME NEW s \in Server PROVE LeaderStep(s)
    <2>. SUFFICES ASSUME state'[s] = Leader PROVE StaysLeader(s)
      BY DEF LeaderStep
    <2>1. state[s] = Leader /\ currentTerm'[s] = currentTerm[s]
      BY DEF Follower, Leader
    <2>2. \A u \in Server : CallStep(s, u)
      BY <1>3 DEF CallStep
    <2>3. LeaderRests(s)
      BY <2>1, <2>2 DEF LeaderRests
    <2>. QED BY <2>3, RestingLeader
  <1>. QED BY <1>1, <1>2, <1>4, <1>5, QuietKeeps

LEMMA CallFailsKeeps ==
  ASSUME Steady, Steady', ReplicationInv, NEW p \in Server, NEW q \in Server, CallFails(p, q)
  PROVE  KeepsPromises
  <1>1. /\ request[p][q] # Nil /\ request' = [request EXCEPT ![p][q] = Nil]
        /\ response' = [response EXCEPT ![p][q] = Nil]
        /\ \/ lateRequests' = lateRequests
           \/ lateRequests' = lateRequests \cup {[from |-> p, to |-> q, req |-> request[p][q]]}
        /\ UNCHANGED <<rep, voteRequests, ballots, memory, currentTerm, state, acks, matchIndex>>
    BY DEF CallFails, electionVars, leaderVars, storageVars
  <1>2. \A s \in Server : currentTerm[s] \in Nat /\ currentTerm[s] <= currentTerm[s]
    BY DEF Steady, TypeInv, TypeOK, PeerTypes
  <1>. QED BY <1>1, <1>2, ReplyKeeps

LEMMA HandleResKeeps ==
  ASSUME Steady, Steady', ReplicationInv, NEW p \in Server, NEW q \in Server,
         HandleAppendEntriesRes(p, q)
  PROVE  KeepsPromises
  <1>1. /\ Answered(p, q) /\ request[p][q] # Nil /\ Outstanding(p, q)
        /\ request' = [request EXCEPT ![p][q] = Nil]
        /\ response' = [response EXCEPT ![p][q] = Nil]
        /\ UNCHANGED <<rep, voteRequests, ballots>> /\ lateRequests' = lateRequests
    BY DEF HandleAppendEntriesRes, Answered, Outstanding, storageVars
  <1>2. \/ /\ Save(p) /\ state' = [state EXCEPT ![p] = Follower]
           /\ \E t : t > currentTerm[p] /\ currentTerm' = [currentTerm EXCEPT ![p] = Greater(@, t)]
           /\ matchIndex' = [matchIndex EXCEPT ![p] = NoIndices]
           /\ acks' = [acks EXCEPT ![p] = NoSignals]
        \/ UNCHANGED <<state, currentTerm, memory, matchIndex, acks>>
        \/ /\ UNCHANGED <<state, currentTerm, memory>>
           /\ response[p][q].success
           /\ acks' = [acks EXCEPT ![p] =
                [i \in 1 .. MaxIndex |->
                   IF i \in FirstToSignal(p, q) .. LastSent(request[p][q]) /\ @[i] > 0
                     THEN @[i] + 1 ELSE @[i]]]
           /\ matchIndex' = [matchIndex EXCEPT ![p][q] = LastSent(request[p][q])]
    BY DEF HandleAppendEntriesRes, UpdateTerm, BecomeFollower, DropLeadership, leaderVars, storageVars
  <1>3. \A s \in Server : currentTerm[s] \in Nat
    BY DEF Steady, TypeInv, TypeOK, PeerTypes
  <1>. DEFINE TermsGrow == \A s \in Server :
                /\ currentTerm[s] <= currentTerm'[s]
                /\ \/ state'[s] = Follower
                   \/ state'[s] = state[s] /\ currentTerm'[s] = currentTerm[s]
              Counts == \A s \in Server : state'[s] = Leader =>
                /\ \A i \in 1 .. MaxIndex : acks'[s][i] > 0 => acks[s][i] > 0
                /\ \A u \in Server :
                     \/ matchIndex'[s][u] = matchIndex[s][u]
                     \/ /\ s = p /\ u = q /\ Answered(p, q) /\ Outstanding(p, q)
                        /\ response[p][q].success /\ matchIndex'[p][q] = LastSent(request[p][q])
  <1>4. ASSUME TermsGrow, Counts, memory' = memory \/ Save(p) PROVE KeepsPromises
    BY <1>1, <1>4, ReplyKeeps
  <1>5. CASE /\ Save(p) /\ state' = [state EXCEPT ![p] = Follower]
             /\ \E t : t > currentTerm[p] /\ currentTerm' = [currentTerm EXCEPT ![p] = Greater(@, t)]
             /\ matchIndex' = [matchIndex EXCEPT ![p] = NoIndices]
             /\ acks' = [acks EXCEPT ![p] = NoSignals]
    <2>1. \A s \in Server : /\ currentTerm[s] <= currentTerm'[s]
                            /\ s # p => currentTerm'[s] = currentTerm[s]
      BY <1>3, <1>5 DEF Steady, TypeInv, TypeOK, PeerTypes, Greater
    <2>2. \A s \in Server : /\ state'[p] = Follower
                            /\ s # p => /\ state'[s] = state[s] /\ acks'[s] = acks[s]
                                        /\ matchIndex'[s] = matchIndex[s]
      BY <1>5 DEF Steady, TypeInv, TypeOK, PeerTypes, LeaderTypes
    <2>3. Follower # Leader
      BY DEF Follower, Leader
    <2>4. TermsGrow
      BY <2>1, <2>2
    <2>5. Counts
      BY <2>2, <2>3
    <2>. QED BY <1>4, <1>5, <2>4, <2>5
  <1>6. CASE UNCHANGED <<state, currentTerm, memory, matchIndex, acks>>
    <2>1. TermsGrow
      BY <1>3, <1>6
    <2>2. Counts
      BY <1>6
    <2>. QED BY <1>4, <1>6, <2>1, <2>2
  <1>7. CASE /\ UNCHANGED <<state, currentTerm, memory>>
             /\ response[p][q].success
             /\ acks' = [acks EXCEPT ![p] =
                  [i \in 1 .. MaxIndex |->
                     IF i \in FirstToSignal(p, q) .. LastSent(request[p][q]) /\ @[i] > 0
                       THEN @[i] + 1 ELSE @[i]]]
             /\ matchIndex' = [matchIndex EXCEPT ![p][q] = LastSent(request[p][q])]
    <2>1. \A s \in Server : \A i \in 1 .. MaxIndex : acks'[s][i] > 0 => acks[s][i] > 0
      <3>1. \A s \in Server : s # p => acks'[s] = acks[s]
        BY <1>7 DEF Steady, TypeInv, TypeOK, LeaderTypes
      <3>2. \A i \in 1 .. MaxIndex : acks[p][i] > 0 \/ acks'[p][i] = acks[p][i]
        BY <1>7 DEF Steady, TypeInv, TypeOK, LeaderTypes
      <3>. QED BY <3>1, <3>2
    <2>2. \A s, u \in Server : \/ matchIndex'[s][u] = matchIndex[s][u]
                               \/ s = p /\ u = q /\ matchIndex'[p][q] = LastSent(request[p][q])
      BY <1>7 DEF Steady, TypeInv, TypeOK, LeaderTypes
    <2>3. TermsGrow
      BY <1>3, <1>7
    <2>4. Counts
      BY <1>1, <1>7, <2>1, <2>2
    <2>. QED BY <1>4, <1>7, <2>3, <2>4
  <1>. QED BY <1>2, <1>5, <1>6, <1>7

\* The receiver of a call that it accepts keeps what is safe, has what the call brings,
\* and commits what is chosen.
LEMMA AcceptedCall ==
  ASSUME SnapshotThreshold > MaxIndex + 1, Steady, Steady', ReplicationInv,
         NEW p \in Server, NEW f \in Requests, up[p], f.term >= currentTerm[p],
         ~AppendPanics(p, f), Consistent(p, f), currentTerm'[p] = f.term,
         rep' = [rep EXCEPT ![p] =
                   UpdateCommitIndex(MergeEntries(rep[p], f.prevLogIndex, f.entries),
                                     f.leaderCommit)]
  PROVE  /\ Accepts(p, f)
         /\ \A i \in Indices(Chunk(rep[p])) :
              TermIn(Chunk(rep[p]), i) > 0 /\ Safe(i, TermIn(Chunk(rep[p]), i)) => KeepsUpTo(p, i)
         /\ \/ rep'[p].commitIndex = rep[p].commitIndex /\ rep'[p].applied = rep[p].applied
            \/ /\ \E i \in Indices(Chunk(rep'[p])) :
                    rep'[p].commitIndex <= i /\ Chosen(i, TermIn(Chunk(rep'[p]), i))
               /\ rep[p].commitIndex <= rep'[p].commitIndex
               /\ rep'[p].applied =
                    rep[p].applied \o Commands(rep'[p], rep[p].commitIndex + 1, rep'[p].commitIndex)
  <1>. DEFINE r == rep[p]
              prev == f.prevLogIndex
              s == MergeEntries(r, prev, f.entries)
              u == UpdateCommitIndex(s, f.leaderCommit)
              k == prev + HeldPrefix(r, prev, f.entries)
              c == Chunk(r)
              x == Chunk(rep'[p])
              l == LastSent(f)
  <1>1. /\ f \in AppendEntriesReq /\ IsChunk(f) /\ l <= MaxIndex
        /\ prev \in Nat /\ f.leaderCommit \in Nat /\ NoSnapshotIsSent /\ f.term \in Nat
    BY RequestTypes DEF Steady, Uncompacted, NoSnapshotIsSent, AppendEntriesReq
  <1>2. Sound(r) /\ Short(r)
    BY UpIsSound DEF Steady, TypeInv, TypeOK, ShapeInv, Uncompacted, Short
  <1>3. Readable(r, prev) /\ TermAt(r, prev) = f.prevLogTerm
    BY DEF Consistent
  <1>4. Sound(s) /\ Short(s)
    BY <1>1, <1>2, <1>3, ShortMerge
  <1>5. /\ Chunk(u) = Chunk(s)
        /\ \/ u.commitIndex = s.commitIndex /\ u.applied = s.applied
           \/ /\ s.commitIndex <= u.commitIndex /\ u.commitIndex \in Nat /\ u.commitIndex > 0
              /\ u.commitIndex <= f.leaderCommit
              /\ u.applied = s.applied \o Commands(u, s.commitIndex + 1, u.commitIndex)
    BY <1>1, <1>4, ShortCommitIs
  <1>6. r \in Replica
    BY <1>2 DEF Sound
  <1>7. s.commitIndex = r.commitIndex /\ s.applied = r.applied
    BY <1>6 DEF MergeEntries, Replica
  <1>8. Merges(Chunk(s), c, f, k)
    BY <1>1, <1>2, <1>3, MergedChunk
  <1>9. rep'[p] = u
    BY DEF Steady, TypeInv, TypeOK, ReplicaTypes
  <1>10. Merges(x, c, f, k) /\ x = Chunk(u)
    BY <1>5, <1>8, <1>9
  <1>11. /\ c \in Chunks /\ IsChunk(c) /\ c.prevLogTerm = 0 /\ c.prevLogIndex = -1
         /\ LastSent(c) = LastIndex(r) /\ LastIndex(r) \in Nat
    BY UncompactedLogs DEF Steady
  <1>12. /\ f \in Chunks /\ l \in Int /\ l = prev + Len(f.entries) /\ Len(f.entries) \in Nat
         /\ l \in Positions(f) /\ Positions(f) = prev .. l /\ Indices(f) = prev + 1 .. l
    BY <1>1, ChunkParts DEF Chunks, Positions, Indices
  <1>13. f.entries # <<>> /\ k = l => LastSent(c) <= k
    <2>. SUFFICES ASSUME f.entries # <<>>, k = l PROVE LastSent(c) <= k
      OBVIOUS
    <2>1. LogLen(r) \in Int /\ LastIndex(r) = LogLen(r) - 1 /\ prev < LogLen(r)
      BY <1>3, <1>6, ReplicaParts DEF LastIndex, Readable
    <2>2. ~OverrunsEntries(r, prev, f.entries)
      BY <1>3, <2>1 DEF AppendPanics
    <2>3. HeldPrefix(r, prev, f.entries) = Len(f.entries)
      <3>1. HeldPrefix(r, prev, f.entries) \in Nat
        <4>1. f.entries \in Seq(Entry) /\ prev <= LastIndex(r)
          BY <1>1, <2>1 DEF IsChunk
        <4>. QED BY <1>1, <1>6, <1>12, <4>1, HeldPrefixBounds
      <3>. QED BY <1>1, <1>12, <3>1
    <2>4. ~(LogLen(r) > prev + Len(f.entries) + 1)
      BY <2>2, <2>3 DEF OverrunsEntries
    <2>. QED BY <1>1, <1>11, <1>12, <2>1, <2>4
  <1>14. Covered(x, Chunks)
    <2>1. Covered(x, {c, f})
      BY <1>1, <1>10, <1>11, MergeIsCovered
    <2>2. \A d \in {c, f} : Covered(d, Chunks)
      BY <1>1, <1>11, <1>12, ChunkIsCovered
    <2>. QED BY <2>1, <2>2, CoveredTransitive
  <1>. HIDE DEF s, u, k, c, x, l
  <1>15. /\ k \in Positions(c) /\ k \in Positions(f) /\ k \in Positions(x)
         /\ k \in Int /\ k <= l /\ IsChunk(x) /\ x.prevLogIndex = -1 /\ LastSent(x) \in Int
         /\ LastSent(x) \in Positions(x)
         /\ Positions(x) = -1 .. LastSent(x) /\ Indices(x) = 0 .. LastSent(x)
         /\ Positions(c) = -1 .. LastSent(c) /\ Indices(c) = 0 .. LastSent(c)
    <2>1. k \in Positions(c) /\ k \in Positions(f) /\ k \in Positions(x) /\ IsChunk(x)
          /\ x.prevLogIndex = -1
      BY <1>10, <1>11 DEF Merges
    <2>2. LastSent(x) \in Int /\ LastSent(x) \in Positions(x) /\ LastSent(c) \in Int
      BY <1>11, <2>1, ChunkParts
    <2>3. Positions(x) = -1 .. LastSent(x) /\ Positions(c) = -1 .. LastSent(c)
      BY <1>11, <2>1 DEF Positions
    <2>4. Indices(x) = 0 .. LastSent(x) /\ Indices(c) = 0 .. LastSent(c)
      BY <1>11, <2>1 DEF Indices
    <2>. QED BY <1>12, <2>1, <2>2, <2>3, <2>4
  <1>16. l \in Positions(x) /\ TermIn(x, l) = TermIn(f, l)
    <2>1. CASE f.entries = <<>>
      <3>1. l = prev /\ k = prev
        BY <1>1, <1>12, <1>15, <2>1
      <3>. QED BY <1>10, <1>12, <1>15, <2>1, <3>1 DEF Merges
    <2>2. CASE f.entries # <<>>
      <3>1. l \in Positions(x)
        BY <1>10, <1>15, <2>2 DEF Merges, l
      <3>2. CASE k < l
        <4>1. l \in Indices(f)
          BY <1>1, <1>12, <1>15, <3>2
        <4>. QED BY <1>10, <2>2, <3>1, <3>2, <4>1 DEF Merges
      <3>3. CASE k = l
        BY <1>10, <1>12, <1>15, <3>1, <3>3 DEF Merges
      <3>. QED BY <1>12, <1>15, <3>2, <3>3
    <2>. QED BY <2>1, <2>2
  <1>17. Accepts(p, f)
    BY <1>14, <1>16 DEF Accepts, x, l
  <1>18. ASSUME NEW i \in Indices(Chunk(rep[p])), TermIn(Chunk(rep[p]), i) > 0,
                Safe(i, TermIn(Chunk(rep[p]), i))
         PROVE  KeepsUpTo(p, i)
    <2>1. TermIn(c, i) <= f.term
      <3>1. i \in Positions(Chunk(rep[p]))
        BY <1>11, <1>18, ChunkParts DEF c
      <3>2. TermIn(c, i) \in Nat /\ TermIn(c, i) <= currentTerm[p] /\ currentTerm[p] \in Nat
        BY <3>1, LogTerms DEF Steady, c
      <3>. QED BY <1>1, <3>2
    <2>2. f.entries = <<>> \/ i <= k
      BY <1>1, <1>10, <1>11, <1>13, <1>18, <2>1, MergeKeeps DEF Steady, c, l
    <2>3. CASE f.entries = <<>>
      <3>1. x = c
        BY <1>10, <2>3 DEF Merges
      <3>. QED BY <3>1 DEF KeepsUpTo, x, c
    <2>4. CASE i <= k
      <3>1. ASSUME NEW j \in Indices(c), j <= i
            PROVE  j \in Indices(x) /\ TermIn(x, j) = TermIn(c, j) /\ CmdIn(x, j) = CmdIn(c, j)
        <4>1. j \in Int /\ i \in Int /\ j <= k /\ j \in Positions(c) /\ j \in Indices(x)
          BY <1>11, <1>15, <1>18, <2>4, <3>1 DEF c
        <4>. QED BY <1>10, <3>1, <4>1 DEF Merges
      <3>. QED BY <3>1 DEF KeepsUpTo, x, c
    <2>. QED BY <2>2, <2>3, <2>4
  <1>19. CASE u.commitIndex = s.commitIndex /\ u.applied = s.applied
    BY <1>7, <1>9, <1>17, <1>18, <1>19
  <1>20. CASE /\ s.commitIndex <= u.commitIndex /\ u.commitIndex \in Nat /\ u.commitIndex > 0
              /\ u.commitIndex <= f.leaderCommit
              /\ u.applied = s.applied \o Commands(u, s.commitIndex + 1, u.commitIndex)
    <2>1. f.leaderCommit > 0
      BY <1>1, <1>20
    <2>2. PICK m \in voteRequests : \E i \in f.leaderCommit .. l :
                 Chosen(i, m.term) /\ m.term <= TermIn(f, l)
      BY <2>1 DEF ReplicationInv, CommitsAreChosen, l
    <2>3. PICK i \in f.leaderCommit .. l : Chosen(i, m.term) /\ m.term <= TermIn(f, l)
      BY <2>2
    <2>4. PICK v \in Server : Locked(v, i, m.term) /\ Safe(i, m.term) /\ m.term > 0
      BY <2>3, ChosenIsSafe
    <2>. DEFINE d == Chunk(rep[v])
    <2>5. /\ i \in Indices(d) /\ TermIn(d, i) = m.term /\ Covered(d, Chunks) /\ i \in Positions(d)
          /\ i \in Nat /\ i <= l
      <3>1. i \in Indices(d) /\ TermIn(d, i) = m.term
        BY <2>4 DEF Locked, HasEntry
      <3>. QED BY <1>1, <1>12, <2>3, <3>1, UncompactedLogs DEF Steady
    <2>6. x.prevLogIndex <= i /\ TermIn(x, x.prevLogIndex) <= m.term
      <3>1. TermIn(x, x.prevLogIndex) = 0
        <4>1. TermIn(x, k) = TermIn(c, k) /\ TermIn(x, -1) = TermIn(c, -1)
          <5>1. -1 \in Positions(c) /\ -1 <= k
            BY <1>11, <1>15
          <5>. QED BY <1>10, <1>15, <5>1 DEF Merges
        <4>2. TermIn(c, -1) = 0
          BY <1>11 DEF TermIn
        <4>. QED BY <1>15, <4>1, <4>2
      <3>2. m.term \in Nat
        BY DEF Steady, TypeInv, TypeOK, ElectionTypes
      <3>. QED BY <1>15, <2>5, <3>1, <3>2
    <2>7. TermIn(x, l) \in Nat /\ m.term \in Nat
      BY <1>15, <1>16, ChunkParts DEF Steady, TypeInv, TypeOK, ElectionTypes
    <2>8. m.term < TermIn(x, l) \/ (m.term = TermIn(x, l) /\ i <= l)
      BY <1>16, <2>3, <2>5, <2>7
    <2>. HIDE DEF d
    <2>9. i \in Positions(x) /\ TermIn(x, i) = m.term
      <3>1. /\ TermIn(d, i) > 0 /\ Safe(i, TermIn(d, i))
            /\ TermIn(x, x.prevLogIndex) <= TermIn(d, i)
            /\ TermIn(d, i) < TermIn(x, l) \/ (TermIn(d, i) = TermIn(x, l) /\ i <= l)
        BY <2>4, <2>5, <2>6, <2>8
      <3>2. TypeInv /\ ElectionInv /\ LogInv
        BY DEF Steady
      <3>3. i \in Positions(x) /\ TermIn(x, i) = TermIn(d, i)
        BY <1>14, <1>16, <2>5, <2>6, <3>1, <3>2, SafeReaches
      <3>. QED BY <2>5, <3>3
    <2>10. i \in Indices(x) /\ u.commitIndex <= i /\ Chosen(i, TermIn(x, i))
      BY <1>1, <1>12, <1>15, <1>20, <2>3, <2>5, <2>9
    <2>. QED BY <1>7, <1>9, <1>17, <1>18, <1>20, <2>10 DEF x
  <1>. QED BY <1>5, <1>19, <1>20

\* what the handling of call f by p does to the calls: one may end, or get its reply
CallsAfter(p, f) ==
  \A s, u \in Server :
    \/ request'[s][u] = Nil /\ response'[s][u] = Nil
    \/ request'[s][u] = request[s][u] /\ response'[s][u] = response[s][u]
    \/ /\ u = p /\ up'[p] /\ f # Nil /\ request[s][u] = f /\ request'[s][u] = f
       /\ response'[s][u] = AppendReply(p, f)

LEMMA ReceiverSteps ==
  ASSUME Steady, ReplicationInv, NEW p \in Server, NEW f, CallsAfter(p, f),
         up'[p] /\ Consistent(p, f) => Accepts(p, f),
         currentTerm[p] <= currentTerm'[p],
         \/ state'[p] = Follower
         \/ /\ state'[p] = state[p] /\ currentTerm'[p] = currentTerm[p] /\ rep'[p] = rep[p]
            /\ matchIndex'[p] = matchIndex[p] /\ acks'[p] = acks[p],
         \A s \in Server : s # p =>
           /\ state'[s] = state[s] /\ currentTerm'[s] = currentTerm[s] /\ rep'[s] = rep[s]
           /\ matchIndex'[s] = matchIndex[s] /\ acks'[s] = acks[s],
         NEW s \in Server
  PROVE  CallTerms(s) /\ LeaderStep(s)
  <1>1. currentTerm[s] <= currentTerm'[s]
    BY DEF Steady, TypeInv, TypeOK, PeerTypes
  <1>2. state'[s] = Candidate => state[s] = Candidate
    BY DEF Follower, Candidate
  <1>3. CallTerms(s)
    <2>1. ASSUME NEW u \in Server
          PROVE  \/ request'[s][u] = Nil /\ response'[s][u] = Nil
                 \/ /\ request'[s][u] = request[s][u]
                    /\ request[s][u] = Nil => response'[s][u] = Nil
      BY DEF CallsAfter, ReplicationInv, CallsFollowTerms
    <2>. QED BY <1>1, <1>2, <2>1 DEF CallTerms
  <1>4. CASE state'[s] = Follower
    BY <1>3, <1>4 DEF LeaderStep, Follower, Leader
  <1>5. CASE /\ state'[s] = state[s] /\ currentTerm'[s] = currentTerm[s] /\ rep'[s] = rep[s]
             /\ matchIndex'[s] = matchIndex[s] /\ acks'[s] = acks[s]
    <2>1. ASSUME NEW u \in Server PROVE CallStep(s, u)
      <3>1. CASE \/ request'[s][u] = Nil
                 \/ request'[s][u] = request[s][u] /\ response'[s][u] = response[s][u]
        BY <1>5, <3>1, RestingCall
      <3>2. CASE /\ u = p /\ up'[p] /\ f # Nil /\ request[s][u] = f /\ request'[s][u] = f
                 /\ response'[s][u] = AppendReply(p, f)
        <4>1. response'[s][u].success => Consistent(p, f)
          BY <3>2 DEF AppendReply
        <4>2. response'[s][u].success => Accepts(u, request[s][u])
          BY <3>2, <4>1
        <4>3. matchIndex'[s][u] = matchIndex[s][u] /\ request'[s][u] = request[s][u]
          BY <1>5, <3>2
        <4>. QED BY <4>2, <4>3 DEF CallStep
      <3>. QED BY <3>1, <3>2 DEF CallsAfter
    <2>2. state[s] = Leader => LeaderRests(s)
      BY <1>5, <2>1 DEF LeaderRests
    <2>. QED BY <1>3, <1>5, <2>2, RestingLeader DEF LeaderStep
  <1>. QED BY <1>4, <1>5

LEMMA ReceiveKeeps ==
  ASSUME SnapshotThreshold > MaxIndex + 1, Steady, Steady', ReplicationInv,
         NEW p \in Server, NEW leader \in Server, NEW f \in Requests,
         HandleAppendEntries(p, leader, f), Requests' \subseteq Requests, CallsAfter(p, f)
  PROVE  KeepsPromises
  <1>1. f.term \in Nat /\ currentTerm[p] \in Nat /\ up[p] /\ UNCHANGED <<voteRequests, ballots>>
    BY RequestTypes DEF Steady, Uncompacted, NoSnapshotIsSent, AppendEntriesReq, TypeInv, TypeOK,
                        PeerTypes, HandleAppendEntries, electionVars
  <1>2. VotesAreInformed
    BY <1>1, NoVoteIsInformed
  <1>3. CASE f.term < currentTerm[p]
    <2>1. UNCHANGED <<rep, memory, state, currentTerm, matchIndex, acks>>
      BY <1>3 DEF HandleAppendEntries, leaderVars, storageVars
    <2>2. ~Consistent(p, f)
      BY <1>1, <1>3 DEF Consistent
    <2>3. currentTerm[p] <= currentTerm'[p]
      BY <1>1, <2>1
    <2>4. \A s \in Server : CallTerms(s) /\ LeaderStep(s)
      BY <2>1, <2>2, <2>3, ReceiverSteps
    <2>. QED BY <1>2, <2>1, <2>4, QuietKeeps
  <1>4. CASE ~(f.term < currentTerm[p])
    <2>1. /\ currentTerm' = [currentTerm EXCEPT ![p] = Greater(@, f.term)]
          /\ state' = [state EXCEPT ![p] = Follower]
          /\ matchIndex' = [matchIndex EXCEPT ![p] = NoIndices]
          /\ acks' = [acks EXCEPT ![p] = NoSignals]
          /\ up' = [up EXCEPT ![p] = ~AppendPanics(p, f)]
          /\ rep' = IF AppendPanics(p, f) \/ ~Consistent(p, f)
                      THEN rep
                      ELSE [rep EXCEPT ![p] =
                             UpdateCommitIndex(MergeEntries(@, f.prevLogIndex, f.entries),
                                               f.leaderCommit)]
          /\ Save(p)
      BY <1>4 DEF HandleAppendEntries, UpdateTerm, DropLeadership
    <2>2. /\ currentTerm'[p] = f.term /\ currentTerm[p] <= currentTerm'[p]
          /\ f.term >= currentTerm[p]
          /\ state'[p] = Follower /\ up'[p] = ~AppendPanics(p, f)
      BY <1>1, <1>4, <2>1 DEF Steady, TypeInv, TypeOK, PeerTypes, Greater
    <2>3. \A s \in Server : s # p =>
            /\ state'[s] = state[s] /\ currentTerm'[s] = currentTerm[s] /\ rep'[s] = rep[s]
            /\ matchIndex'[s] = matchIndex[s] /\ acks'[s] = acks[s]
      BY <2>1 DEF Steady, TypeInv, TypeOK, PeerTypes, ReplicaTypes, LeaderTypes
    <2>4. ASSUME up'[p] /\ Consistent(p, f) => Accepts(p, f)
          PROVE  \A s \in Server : CallTerms(s) /\ LeaderStep(s)
      BY <2>2, <2>3, <2>4, ReceiverSteps
    <2>5. CASE AppendPanics(p, f) \/ ~Consistent(p, f)
      <3>1. rep' = rep
        BY <2>1, <2>5
      <3>2. \A s \in Server : CallTerms(s) /\ LeaderStep(s)
        BY <2>2, <2>4, <2>5
      <3>3. \A c \in Requests' : c \in Requests
        OBVIOUS
      <3>. QED BY <1>2, <2>1, <2>2, <3>1, <3>2, <3>3, QuietKeeps
    <2>6. CASE ~(AppendPanics(p, f) \/ ~Consistent(p, f))
      <3>1. rep' = [rep EXCEPT ![p] =
                     UpdateCommitIndex(MergeEntries(rep[p], f.prevLogIndex, f.entries),
                                       f.leaderCommit)]
        BY <2>1, <2>6
      <3>. DEFINE Kept == \A i \in Indices(Chunk(rep[p])) :
                    TermIn(Chunk(rep[p]), i) > 0 /\ Safe(i, TermIn(Chunk(rep[p]), i)) =>
                      KeepsUpTo(p, i)
                  Commits ==
                    \/ rep'[p].commitIndex = rep[p].commitIndex /\ rep'[p].applied = rep[p].applied
                    \/ /\ \E i \in Indices(Chunk(rep'[p])) :
                            rep'[p].commitIndex <= i /\ Chosen(i, TermIn(Chunk(rep'[p]), i))
                       /\ rep[p].commitIndex <= rep'[p].commitIndex
                       /\ rep'[p].applied =
                            rep[p].applied
                              \o Commands(rep'[p], rep[p].commitIndex + 1, rep'[p].commitIndex)
      <3>2. Accepts(p, f) /\ Kept /\ Commits
        BY <1>1, <2>2, <2>6, <3>1, AcceptedCall
      <3>3. \A s \in Server : CallTerms(s) /\ LeaderStep(s)
        BY <2>4, <3>2
      <3>. QED BY <1>1, <2>1, <2>2, <2>3, <3>2, <3>3, ChangeKeeps
    <2>. QED BY <2>5, <2>6
  <1>. QED BY <1>3, <1>4

LEMMA AnswerKeeps ==
  ASSUME SnapshotThreshold > MaxIndex + 1, Steady, Steady', ReplicationInv,
         NEW p \in Server, NEW q \in Server, ReceiveAppendEntries(p, q)
  PROVE  KeepsPromises
  <1>. DEFINE f == request[p][q]
  <1>1. /\ f # Nil /\ response[p][q] = Nil /\ HandleAppendEntries(q, p, f)
        /\ lateRequests' = lateRequests
        /\ \/ /\ up'[q] /\ request' = request
              /\ response' = [response EXCEPT ![p][q] = AppendReply(q, f)]
           \/ response' = response /\ request' = [request EXCEPT ![p][q] = Nil]
    BY DEF ReceiveAppendEntries, Answer, Waiting
  <1>2. f \in Requests
    BY <1>1, RequestsUnfold
  <1>3. Requests' \subseteq Requests
    <2>1. CASE request' = request
      BY <1>1, <2>1 DEF Requests
    <2>2. CASE request' = [request EXCEPT ![p][q] = Nil]
      BY <1>1, <2>2, CallEnds DEF Steady
    <2>. QED BY <1>1, <2>1, <2>2
  <1>4. CallsAfter(q, f)
    <2>1. CASE /\ up'[q] /\ request' = request
               /\ response' = [response EXCEPT ![p][q] = AppendReply(q, f)]
      <3>1. /\ response'[p][q] = AppendReply(q, f)
            /\ \A s, u \in Server : ~(s = p /\ u = q) => response'[s][u] = response[s][u]
        BY <2>1 DEF Steady, TypeInv, TypeOK, CallTypes
      <3>. QED BY <1>1, <2>1, <3>1 DEF CallsAfter
    <2>2. CASE response' = response /\ request' = [request EXCEPT ![p][q] = Nil]
      <3>1. /\ request'[p][q] = Nil
            /\ \A s, u \in Server : ~(s = p /\ u = q) => request'[s][u] = request[s][u]
        BY <2>2 DEF Steady, TypeInv, TypeOK, CallTypes
      <3>. QED BY <1>1, <2>2, <3>1 DEF CallsAfter
    <2>. QED BY <1>1, <2>1, <2>2
  <1>. HIDE DEF f
  <1>. QED BY <1>1, <1>2, <1>3, <1>4, ReceiveKeeps

LEMMA LateKeeps ==
  ASSUME SnapshotThreshold > MaxIndex + 1, Steady, Steady', ReplicationInv,
         NEW m \in lateRequests, ReceiveLate(m)
  PROVE  KeepsPromises
  <1>1. m.req \in Requests /\ m.to \in Server /\ m.from \in Server
    BY RequestsUnfold DEF Steady, TypeInv, TypeOK, CallTypes
  <1>2. HandleAppendEntries(m.to, m.from, m.req)
    <2>1. ~HandleInstallSnapshot(m.to, m.req)
      BY <1>1 DEF HandleInstallSnapshot, Steady, Uncompacted
    <2>. QED BY <2>1 DEF ReceiveLate
  <1>3. request' = request /\ response' = response /\ lateRequests' \subseteq lateRequests
    BY DEF ReceiveLate
  <1>4. Requests' \subseteq Requests
    BY <1>3, RequestsUnfold
  <1>5. CallsAfter(m.to, m.req)
    BY <1>3 DEF CallsAfter
  <1>. QED BY <1>1, <1>2, <1>4, <1>5, ReceiveKeeps

-----------------------------------------------------------------------------
\* the invariant of replication

LEMMA StepKeeps ==
  ASSUME SnapshotThreshold > MaxIndex + 1, Durable, Steady, Steady', SignalInv, ReplicationInv,
         [Next]_vars
  PROVE  KeepsPromises
  <1>1. CASE UNCHANGED vars
    BY <1>1, ElsewhereKeeps DEF vars, callVars, electionVars, storageVars, leaderVars
  <1>2. ASSUME NEW p \in Server, FollowerRearm(p) \/ Flush(p)
        PROVE  KeepsPromises
    <2>1. UNCHANGED <<rep, memory, voteRequests, ballots, request, response, lateRequests, state,
                      currentTerm, matchIndex, acks>>
      BY <1>2 DEF FollowerRearm, Flush, electionVars, callVars, storageVars, leaderVars
    <2>. QED BY <2>1, ElsewhereKeeps
  <1>3. ASSUME NEW p \in Server, NEW cmd \in Command, ClientRequest(p, cmd)
        PROVE  KeepsPromises
    <2>1. /\ state[p] = Leader /\ LeaderAppend(p, cmd) /\ cmd \in Cmd
          /\ UNCHANGED <<state, currentTerm, voteRequests, ballots, request, response, lateRequests,
                         matchIndex>>
      BY <1>3 DEF ClientRequest, electionVars, callVars, Cmd
    <2>. QED BY <2>1, AppendKeeps
  <1>4. ASSUME NEW p \in Server, AppendNoop(p)
        PROVE  KeepsPromises
    <2>1. UNCHANGED <<state, currentTerm, voteRequests, ballots, request, response, lateRequests,
                      matchIndex>>
      BY <1>4 DEF AppendNoop, electionVars, callVars
    <2>2. CASE state[p] = Leader
      <3>1. LeaderAppend(p, NoOp) /\ NoOp \in Cmd
        BY <1>4, <2>2 DEF AppendNoop, Cmd
      <3>. QED BY <2>1, <2>2, <3>1, AppendKeeps
    <2>3. CASE state[p] # Leader
      <3>1. UNCHANGED <<rep, memory, acks>>
        BY <1>4, <2>3 DEF AppendNoop, storageVars
      <3>. QED BY <2>1, <3>1, ElsewhereKeeps
    <2>. QED BY <2>2, <2>3
  <1>5. ASSUME NEW p \in Server, NEW q \in Server,
               SendInstallSnapshot(p, q) \/ HandleInstallSnapshotRes(p, q)
                 \/ ReceiveInstallSnapshot(p, q)
        PROVE  FALSE
    <2>1. ~SendInstallSnapshot(p, q)
      BY DEF SendInstallSnapshot, SendsSnapshot, Steady, Uncompacted
    <2>2. /\ request[p][q] # Nil /\ request[p][q].type = "InstallSnapshot"
      BY <1>5, <2>1 DEF ReceiveInstallSnapshot, HandleInstallSnapshotRes, Answered, Waiting,
                        HandleInstallSnapshot
    <2>3. request[p][q] \in Requests
      BY <2>2, RequestsUnfold
    <2>. QED BY <2>2, <2>3 DEF Steady, Uncompacted
  <1>6. CASE Next
    BY <1>2, <1>3, <1>4, <1>5, <1>6, CandidacyKeeps, VoteKeeps, VoteReplyKeeps, CommitRequestKeeps,
       RestartKeeps, SendKeeps, CallFailsKeeps, HandleResKeeps, AnswerKeeps, LateKeeps DEF Next
  <1>. QED BY <1>1, <1>6

LEMMA InitReplication ==
  ASSUME Init
  PROVE  ReplicationInv
  <1>1. \A p \in Server :
          /\ rep[p] = InitReplica /\ state[p] = Follower /\ memory[p].commitIndex = 0
          /\ \A q \in Server : request[p][q] = Nil /\ response[p][q] = Nil
    BY DEF Init, PersistentData, InitReplica, NoCalls
  <1>2. Requests = {}
    <2>1. lateRequests = {}
      BY DEF Init
    <2>. QED BY <1>1, <2>1, RequestsUnfold
  <1>3. InitReplica.commitIndex = 0 /\ LastIndex(InitReplica) = 0 /\ InitReplica.applied = <<>>
    BY DEF InitReplica, LastIndex, LogLen, Base, NoSnapshot
  <1>4. Commands(InitReplica, 1, 0) = <<>>
    BY DEF Commands
  <1>5. Follower # Leader
    BY DEF Follower, Leader
  <1>6. CallsFollowTerms
    BY <1>1 DEF CallsFollowTerms
  <1>7. CountsAreInLog /\ CountedAreLocked /\ LostAreNotCounted
    BY <1>1, <1>5 DEF CountsAreInLog, CountedAreLocked, LostAreNotCounted
  <1>8. CommitsAreChosen
    BY <1>1, <1>2, <1>3 DEF CommitsAreChosen
  <1>9. AppliedIsCommitted
    BY <1>1, <1>3, <1>4 DEF AppliedIsCommitted
  <1>. QED BY <1>6, <1>7, <1>8, <1>9 DEF ReplicationInv

\* what is proved from here on holds in these runs of the system
Tame == Spec /\ []CallsInTime

LEMMA SteadyHolds ==
  Durable /\ SnapshotThreshold > MaxIndex + 1 /\ Spec => [](Steady /\ SignalInv)
  <1>. SUFFICES ASSUME Durable, SnapshotThreshold > MaxIndex + 1
                PROVE  Spec => [](Steady /\ SignalInv)
    OBVIOUS
  <1>1. Uncompacted => NoSnapshotIsSent
    BY DEF Uncompacted, NoSnapshotIsSent
  <1>2. Spec => [](TypeInv /\ Uncompacted)
    BY UncompactedHolds
  <1>3. Spec /\ []NoSnapshotIsSent => [](TypeInv /\ ElectionInv /\ LogInv)
    BY LogInvHolds
  <1>4. Spec => [](TypeInv /\ SignalInv)
    BY SignalInvHolds
  <1>. QED BY <1>1, <1>2, <1>3, <1>4, PTL DEF Steady

\* The inductive invariant of replication: what is counted was locked, unless it is
\* lost, and then too few will ever be counted; and no step breaks a promise.
THEOREM ReplicationInvHolds ==
  Durable /\ SnapshotThreshold > MaxIndex + 1 /\ Tame =>
    [](Steady /\ SignalInv /\ ReplicationInv)
  <1>. SUFFICES ASSUME Durable, SnapshotThreshold > MaxIndex + 1
                PROVE  Tame => [](Steady /\ SignalInv /\ ReplicationInv)
    OBVIOUS
  <1>1. Init => ReplicationInv
    BY InitReplication
  <1>2. Steady /\ Steady' /\ SignalInv /\ CallsInTime /\ ReplicationInv /\ [Next]_vars
          => ReplicationInv'
    BY StepKeeps, PromisesSuffice
  <1>3. Spec => [](Steady /\ SignalInv)
    BY SteadyHolds
  <1>. QED BY <1>1, <1>2, <1>3, PTL DEF Tame, Spec

-----------------------------------------------------------------------------
\* what the invariant says of leaders and of state machines

\* Two servers with an entry of one index and term were given the same commands up to it.
LEMMA SharedCommands ==
  ASSUME Steady, NEW p \in Server, NEW q \in Server, NEW i, NEW t, HasEntry(p, i, t),
         HasEntry(q, i, t), NEW a \in Nat, a <= i
  PROVE  Commands(rep[q], 1, a) = Commands(rep[p], 1, a)
  <1>. DEFINE c == Chunk(rep[p])
              d == Chunk(rep[q])
  <1>1. /\ Covered(c, Chunks) /\ Covered(d, Chunks) /\ Base(rep[p]) = -1 /\ Base(rep[q]) = -1
        /\ LastIndex(rep[p]) \in Nat /\ LastIndex(rep[q]) \in Nat
        /\ Positions(c) = -1 .. LastIndex(rep[p]) /\ Indices(c) = 0 .. LastIndex(rep[p])
        /\ Positions(d) = -1 .. LastIndex(rep[q]) /\ Indices(d) = 0 .. LastIndex(rep[q])
    BY UncompactedLogs DEF Steady
  <1>2. i \in Indices(c) /\ i \in Indices(d) /\ TermIn(c, i) = TermIn(d, i)
    BY DEF HasEntry
  <1>. HIDE DEF c, d
  <1>3. i \in Positions(c) \cap Positions(d) /\ i \in Nat
    BY <1>1, <1>2
  <1>4. ASSUME NEW j \in 1 .. a PROVE CmdIn(d, j) = CmdIn(c, j)
    <2>1. /\ j \in Positions(c) \cap Positions(d) /\ j <= i
          /\ j \in Indices(c) \cap Indices(d)
      BY <1>1, <1>2, <1>3
    <2>2. TypeInv /\ LogInv
      BY DEF Steady
    <2>. QED BY <1>1, <1>2, <1>3, <2>1, <2>2, LinksMatch
  <1>. QED BY <1>1, <1>4, SameCommands DEF c, d

LEMMA PrefixOfJoin ==
  ASSUME NEW S, NEW s \in Seq(S), NEW t \in Seq(S)
  PROVE  IsPrefixOf(s, s \o t)
  <1>1. /\ s \o t \in Seq(S) /\ Len(s \o t) = Len(s) + Len(t) /\ Len(s) \in Nat /\ Len(t) \in Nat
        /\ \A k \in 1 .. Len(s) : (s \o t)[k] = s[k]
    BY ConcatProperties
  <1>2. /\ SubSeq(s \o t, 1, Len(s)) \in Seq(S) /\ Len(SubSeq(s \o t, 1, Len(s))) = Len(s)
        /\ \A k \in 1 .. Len(s) : SubSeq(s \o t, 1, Len(s))[k] = (s \o t)[k]
    BY <1>1
  <1>3. SubSeq(s \o t, 1, Len(s)) = s
    BY <1>1, <1>2, SeqEqual
  <1>. QED BY <1>1, <1>3 DEF IsPrefixOf

LEMMA CommandsPrefix ==
  ASSUME Steady, NEW p \in Server, NEW a \in Nat, NEW b \in Nat, a <= b, b <= LastIndex(rep[p])
  PROVE  IsPrefixOf(Commands(rep[p], 1, a), Commands(rep[p], 1, b))
  <1>. DEFINE s == Commands(rep[p], 1, a)
              t == Commands(rep[p], a + 1, b)
  <1>1. rep[p] \in Replica /\ Base(rep[p]) = -1 /\ LastIndex(rep[p]) \in Nat
    BY UncompactedLogs DEF Steady
  <1>2. s \o t = Commands(rep[p], 1, b)
    BY <1>1, CommandsJoin
  <1>3. s \in Seq(Cmd) /\ t \in Seq(Cmd)
    BY <1>1, CommandsAreCmds
  <1>. HIDE DEF s, t
  <1>4. IsPrefixOf(s, s \o t)
    BY <1>3, PrefixOfJoin
  <1>. QED BY <1>2, <1>4 DEF s

\* What a server applied are the commands up to a chosen entry, or fewer.
LEMMA AppliedAre ==
  ASSUME Steady, ReplicationInv, NEW p \in Server
  PROVE  /\ rep[p].commitIndex \in Nat /\ rep[p].commitIndex <= LastIndex(rep[p])
         /\ rep[p].applied = Commands(rep[p], 1, rep[p].commitIndex)
         /\ rep[p].applied \in Seq(Cmd) /\ Len(rep[p].applied) = rep[p].commitIndex
         /\ rep[p].commitIndex > 0 =>
              \E i \in Nat, t \in Nat : /\ rep[p].commitIndex <= i /\ HasEntry(p, i, t)
                                        /\ Chosen(i, t) /\ t <= currentTerm[p]
  <1>1. /\ rep[p] \in Replica /\ Base(rep[p]) = -1 /\ LastIndex(rep[p]) \in Nat
        /\ rep[p].commitIndex \in Nat
        /\ Indices(Chunk(rep[p])) = 0 .. LastIndex(rep[p])
        /\ Positions(Chunk(rep[p])) = -1 .. LastIndex(rep[p])
    BY UncompactedLogs DEF Steady
  <1>2. /\ rep[p].commitIndex <= LastIndex(rep[p])
        /\ rep[p].applied = Commands(rep[p], 1, rep[p].commitIndex)
    BY DEF ReplicationInv, AppliedIsCommitted
  <1>3. /\ Commands(rep[p], 1, rep[p].commitIndex) \in Seq(Cmd)
        /\ Len(Commands(rep[p], 1, rep[p].commitIndex)) = rep[p].commitIndex
    BY <1>1, <1>2, CommandsAreCmds
  <1>4. ASSUME rep[p].commitIndex > 0
        PROVE  \E i \in Nat, t \in Nat : /\ rep[p].commitIndex <= i /\ HasEntry(p, i, t)
                                         /\ Chosen(i, t) /\ t <= currentTerm[p]
    <2>1. PICK i \in Indices(Chunk(rep[p])) :
            rep[p].commitIndex <= i /\ Chosen(i, TermIn(Chunk(rep[p]), i))
      BY <1>4 DEF ReplicationInv, CommitsAreChosen
    <2>2. i \in Nat /\ i \in Positions(Chunk(rep[p]))
      BY <1>1
    <2>3. TermIn(Chunk(rep[p]), i) \in Nat /\ TermIn(Chunk(rep[p]), i) <= currentTerm[p]
      BY <2>2, LogTerms DEF Steady
    <2>4. HasEntry(p, i, TermIn(Chunk(rep[p]), i))
      BY DEF HasEntry
    <2>. QED BY <2>1, <2>2, <2>3, <2>4
  <1>. QED BY <1>1, <1>2, <1>3, <1>4

\* A server with an entry at least as late as a chosen one has that one.
LEMMA LaterLogsHaveIt ==
  ASSUME Steady, NEW q \in Server, NEW i, NEW t, Chosen(i, t), NEW k, NEW u, HasEntry(q, k, u),
         t < u \/ (t = u /\ i <= k)
  PROVE  HasEntry(q, i, t)
  <1>1. PICK v \in Server : Locked(v, i, t) /\ Safe(i, t) /\ t > 0
    BY ChosenIsSafe
  <1>. DEFINE d == Chunk(rep[v])
              x == Chunk(rep[q])
  <1>2. /\ Covered(d, Chunks) /\ Covered(x, Chunks)
        /\ LastIndex(rep[v]) \in Nat /\ LastIndex(rep[q]) \in Nat
        /\ Positions(d) = -1 .. LastIndex(rep[v]) /\ Indices(d) = 0 .. LastIndex(rep[v])
        /\ Positions(x) = -1 .. LastIndex(rep[q]) /\ Indices(x) = 0 .. LastIndex(rep[q])
        /\ x.prevLogIndex = -1 /\ TermIn(x, -1) = 0
    BY UncompactedLogs DEF Steady
  <1>3. i \in Indices(d) /\ TermIn(d, i) = t /\ k \in Indices(x) /\ TermIn(x, k) = u
    BY <1>1 DEF Locked, HasEntry
  <1>. HIDE DEF d, x
  <1>4. /\ i \in Positions(d) /\ k \in Positions(x) /\ x.prevLogIndex <= i
        /\ TermIn(d, i) > 0 /\ Safe(i, TermIn(d, i))
        /\ TermIn(x, x.prevLogIndex) <= TermIn(d, i)
        /\ TermIn(d, i) < TermIn(x, k) \/ (TermIn(d, i) = TermIn(x, k) /\ i <= k)
    <2>1. t \in Nat
      <3>1. i \in Positions(Chunk(rep[v]))
        BY <1>2, <1>3 DEF d
      <3>. QED BY <1>3, <3>1, LogTerms DEF Steady, d
    <2>. QED BY <1>1, <1>2, <1>3, <2>1
  <1>5. TypeInv /\ ElectionInv /\ LogInv
    BY DEF Steady
  <1>6. i \in Positions(x) /\ TermIn(x, i) = TermIn(d, i)
    BY <1>2, <1>4, <1>5, SafeReaches
  <1>. QED BY <1>2, <1>3, <1>6 DEF HasEntry, x

\* The state machines of two servers were fed the same, as far as both were fed.
LEMMA AppliedAgree ==
  ASSUME Steady, ReplicationInv, NEW p \in Server, NEW q \in Server,
         rep[p].commitIndex <= rep[q].commitIndex
  PROVE  IsPrefixOf(rep[p].applied, rep[q].applied)
  <1>. DEFINE a == rep[p].commitIndex
              b == rep[q].commitIndex
  <1>1. /\ a \in Nat /\ b \in Nat /\ a <= b /\ b <= LastIndex(rep[q])
        /\ rep[p].applied = Commands(rep[p], 1, a) /\ rep[q].applied = Commands(rep[q], 1, b)
    BY AppliedAre
  <1>2. IsPrefixOf(Commands(rep[q], 1, a), Commands(rep[q], 1, b))
    BY <1>1, CommandsPrefix
  <1>3. CASE a = 0
    <2>1. Commands(rep[p], 1, a) = Commands(rep[q], 1, a)
      BY <1>3 DEF Commands
    <2>. QED BY <1>1, <1>2, <2>1
  <1>4. CASE a > 0
    <2>1. PICK i \in Nat, t \in Nat : a <= i /\ HasEntry(p, i, t) /\ Chosen(i, t)
      BY <1>4, AppliedAre
    <2>2. PICK k \in Nat, u \in Nat : b <= k /\ HasEntry(q, k, u) /\ Chosen(k, u)
      BY <1>1, <1>4, AppliedAre
    <2>3. CASE t < u \/ (t = u /\ i <= k)
      <3>1. HasEntry(q, i, t)
        BY <2>1, <2>2, <2>3, LaterLogsHaveIt
      <3>2. Commands(rep[q], 1, a) = Commands(rep[p], 1, a)
        BY <1>1, <2>1, <3>1, SharedCommands
      <3>. QED BY <1>1, <1>2, <3>2
    <2>4. CASE ~(t < u \/ (t = u /\ i <= k))
      <3>1. u < t \/ (u = t /\ k <= i)
        BY <2>4
      <3>2. HasEntry(p, k, u)
        BY <2>1, <2>2, <3>1, LaterLogsHaveIt
      <3>3. a <= k
        BY <1>1, <2>2
      <3>4. Commands(rep[q], 1, a) = Commands(rep[p], 1, a)
        BY <1>1, <2>2, <3>2, <3>3, SharedCommands
      <3>. QED BY <1>1, <1>2, <3>4
    <2>. QED BY <2>3, <2>4
  <1>. QED BY <1>1, <1>3, <1>4

\* A leader has every chosen entry of its term or an earlier one.
LEMMA LeaderHasChosen ==
  ASSUME Steady, NEW p \in Server, state[p] = Leader, NEW i, NEW t, Chosen(i, t),
         t <= currentTerm[p]
  PROVE  HasEntry(p, i, t)
  <1>. DEFINE x == Chunk(rep[p])
  <1>1. PICK m \in voteRequests : /\ Elected(m) /\ m.cand = p /\ m.term = currentTerm[p]
                                  /\ FromLeader(x, m)
    BY DEF Steady, LogInv, LeadersOnlyAppend
  <1>2. PICK v \in Server : Locked(v, i, t) /\ Safe(i, t) /\ t > 0
    BY ChosenIsSafe
  <1>. DEFINE d == Chunk(rep[v])
  <1>3. /\ Covered(d, Chunks) /\ d \in Chunks
        /\ LastIndex(rep[v]) \in Nat /\ LastIndex(rep[p]) \in Nat
        /\ Positions(d) = -1 .. LastIndex(rep[v]) /\ Indices(d) = 0 .. LastIndex(rep[v])
        /\ Positions(x) = -1 .. LastIndex(rep[p]) /\ Indices(x) = 0 .. LastIndex(rep[p])
        /\ LastSent(x) = LastIndex(rep[p])
    BY UncompactedLogs DEF Steady
  <1>4. i \in Indices(d) /\ TermIn(d, i) = t /\ i \in Positions(d)
    BY <1>2, <1>3 DEF Locked, HasEntry
  <1>5. m.lastLogIndex \in Nat /\ m.lastLogTerm \in Nat /\ m.term \in Nat /\ t \in Nat
    <2>1. t \in Nat
      BY <1>3, <1>4, LogTerms DEF Steady
    <2>. QED BY <2>1 DEF Steady, TypeInv, TypeOK, ElectionTypes
  <1>. HIDE DEF d
  <1>6. CASE t < m.term
    <2>1. m.lastLogIndex \in Positions(x) /\ TermIn(x, m.lastLogIndex) = m.lastLogTerm
      BY <1>1, <1>3, <1>5 DEF FromLeader
    <2>2. Covers(m, i, t)
      BY <1>1, <1>2, <1>6 DEF Safe
    <2>3. \/ t < m.lastLogTerm
          \/ t = m.lastLogTerm /\ i <= m.lastLogIndex
      BY <1>3, <1>4, <1>5, <2>2 DEF Covers
    <2>4. CASE m.lastLogIndex \in Indices(x)
      <3>1. HasEntry(p, m.lastLogIndex, m.lastLogTerm)
        BY <2>1, <2>4 DEF HasEntry
      <3>. QED BY <2>3, <3>1, LaterLogsHaveIt
    <2>5. CASE m.lastLogIndex \notin Indices(x)
      BY <1>3, <1>5, <2>1, <2>5
    <2>. QED BY <2>4, <2>5
  <1>7. CASE t = m.term
    <2>1. i <= LastIndex(rep[p])
      BY <1>1, <1>3, <1>4, <1>7 DEF Steady, LogInv, LeadersKeepTheirTerm
    <2>2. PICK n \in voteRequests : Elected(n) /\ n.term = TermIn(d, i) /\ n.lastLogIndex < i
      BY <1>2, <1>3, <1>4 DEF Steady, LogInv, TermsAreWon
    <2>3. n = m
      BY <1>1, <1>4, <1>7, <2>2, ElectedOnce DEF Steady, LogInv
    <2>4. i \in Positions(x) /\ i \in Indices(x) /\ i > m.lastLogIndex
      BY <1>3, <1>4, <1>5, <2>1, <2>2, <2>3
    <2>5. TermIn(x, i) = t
      BY <1>1, <1>7, <2>4 DEF FromLeader
    <2>. QED BY <2>4, <2>5 DEF HasEntry
  <1>. QED BY <1>1, <1>5, <1>6, <1>7

LEMMA LeadersAreComplete ==
  ASSUME Steady, ReplicationInv
  PROVE  LeaderCompleteness
  <1>. SUFFICES ASSUME NEW p \in Server, state[p] = Leader,
                       \A q \in Server : currentTerm[q] <= currentTerm[p], NEW q \in Server
                PROVE  IsPrefixOf(rep[q].applied, AllCommands(rep[p]))
    BY DEF LeaderCompleteness
  <1>. DEFINE a == rep[q].commitIndex
              b == rep[p].commitIndex
              l == LastIndex(rep[p])
  <1>1. /\ rep[p] \in Replica /\ Base(rep[p]) = -1 /\ l \in Nat /\ b \in Nat /\ b <= l
        /\ rep[p].applied = Commands(rep[p], 1, b)
    BY UncompactedLogs, AppliedAre DEF Steady
  <1>2. Commands(rep[p], 1, b) \o Commands(rep[p], b + 1, l) = Commands(rep[p], 1, l)
    <2>1. /\ l <= LastIndex(rep[p]) /\ 1 \in Int /\ b \in Int /\ l \in Int
          /\ Base(rep[p]) < 1 /\ 1 <= b + 1
      BY <1>1
    <2>. HIDE DEF b, l
    <2>. QED BY <1>1, <2>1, CommandsJoin
  <1>3. AllCommands(rep[p]) = Commands(rep[p], 1, l)
    BY <1>1, <1>2 DEF AllCommands
  <1>4. a \in Nat /\ rep[q].applied = Commands(rep[q], 1, a)
    BY AppliedAre
  <1>5. CASE a = 0
    <2>1. Commands(rep[q], 1, a) = Commands(rep[p], 1, a) /\ a <= l
      BY <1>1, <1>5 DEF Commands
    <2>2. IsPrefixOf(Commands(rep[p], 1, a), Commands(rep[p], 1, l))
      BY <1>1, <1>4, <2>1, CommandsPrefix
    <2>. QED BY <1>3, <1>4, <2>1, <2>2
  <1>6. CASE a > 0
    <2>1. PICK i \in Nat, t \in Nat : /\ a <= i /\ HasEntry(q, i, t) /\ Chosen(i, t)
                                      /\ t <= currentTerm[q]
      BY <1>6, AppliedAre
    <2>2. t <= currentTerm[p]
      BY <2>1 DEF Steady, TypeInv, TypeOK, PeerTypes
    <2>3. HasEntry(p, i, t)
      BY <2>1, <2>2, LeaderHasChosen
    <2>4. Commands(rep[q], 1, a) = Commands(rep[p], 1, a)
      BY <1>4, <2>1, <2>3, SharedCommands
    <2>5. a <= l
      <3>1. i \in 0 .. l
        BY <2>3, UncompactedLogs DEF HasEntry, Steady
      <3>. QED BY <1>1, <1>4, <2>1, <3>1
    <2>6. IsPrefixOf(Commands(rep[p], 1, a), Commands(rep[p], 1, l))
      BY <1>1, <1>4, <2>5, CommandsPrefix
    <2>. QED BY <1>3, <1>4, <2>4, <2>6
  <1>. QED BY <1>4, <1>5, <1>6

LEMMA CommitsTravel ==
  ASSUME Steady, ReplicationInv
  PROVE  CommitTravelsWithEntries
  <1>1. ASSUME NEW c \in Requests PROVE c.leaderCommit <= c.prevLogIndex + Len(c.entries)
    <2>1. /\ c.leaderCommit \in Nat /\ c.prevLogIndex \in Nat /\ Len(c.entries) \in Nat
          /\ LastSent(c) = c.prevLogIndex + Len(c.entries)
      BY RequestTypes DEF Steady, Uncompacted, NoSnapshotIsSent, AppendEntriesReq, LastSent
    <2>2. CASE c.leaderCommit = 0
      BY <2>1, <2>2
    <2>3. CASE c.leaderCommit > 0
      BY <2>1, <2>3 DEF ReplicationInv, CommitsAreChosen
    <2>. QED BY <2>1, <2>2, <2>3
  <1>. QED BY <1>1, RequestsUnfold DEF CommitTravelsWithEntries

\* No call cuts off what its target has committed: the committed entries are chosen, and
\* a merge keeps those.
LEMMA NothingOverridden ==
  ASSUME Steady, ReplicationInv, NEW q \in Server, NEW f \in Requests
  PROVE  ~Overrides(q, f)
  <1>. SUFFICES ASSUME Overrides(q, f) PROVE FALSE
    OBVIOUS
  <1>. DEFINE r == rep[q]
              prev == f.prevLogIndex
              k == prev + HeldPrefix(r, prev, f.entries)
              c == Chunk(r)
              x == Chunk(MergeEntries(r, prev, f.entries))
  <1>1. /\ up[q] /\ Readable(r, prev) /\ TermAt(r, prev) = f.prevLogTerm
        /\ f.term >= currentTerm[q] /\ ~AppendPanics(q, f) /\ f.entries # <<>>
        /\ k < r.commitIndex
    BY DEF Overrides, Consistent
  <1>2. /\ f \in AppendEntriesReq /\ IsChunk(f)
        /\ prev \in Nat /\ NoSnapshotIsSent /\ f.term \in Nat
    BY RequestTypes DEF Steady, Uncompacted, NoSnapshotIsSent, AppendEntriesReq
  <1>3. Sound(r) /\ Short(r) /\ r \in Replica
    BY <1>1, UpIsSound DEF Steady, TypeInv, TypeOK, ShapeInv, Uncompacted, Short, Sound
  <1>4. Merges(x, c, f, k)
    BY <1>1, <1>2, <1>3, MergedChunk
  <1>5. /\ c \in Chunks /\ c.prevLogTerm = 0
        /\ LastSent(c) = LastIndex(r) /\ LastIndex(r) \in Nat
        /\ \A i \in Indices(c) : i \in Int
    <2>1. /\ c \in Chunks /\ IsChunk(c) /\ c.prevLogTerm = 0
          /\ LastSent(c) = LastIndex(r) /\ LastIndex(r) \in Nat
      BY UncompactedLogs DEF Steady
    <2>2. Indices(c) = c.prevLogIndex + 1 .. LastSent(c) /\ c.prevLogIndex \in Int
          /\ LastSent(c) \in Int
      BY <2>1, ChunkBounds, Zenon
    <2>. QED BY <2>1, <2>2
  <1>6. Len(f.entries) \in Nat /\ LastSent(f) = prev + Len(f.entries) /\ f.entries \in Seq(Entry)
    BY <1>2 DEF IsChunk, LastSent
  <1>7. /\ LogLen(r) \in Int /\ LastIndex(r) = LogLen(r) - 1 /\ prev < LogLen(r)
        /\ prev <= LastIndex(r)
    BY <1>1, <1>2, <1>3, ReplicaParts DEF LastIndex, Readable
  <1>8. HeldPrefix(r, prev, f.entries) \in Nat
    BY <1>2, <1>3, <1>6, <1>7, HeldPrefixBounds
  <1>9. k = LastSent(f) => LastSent(c) <= k
    <2>1. ~OverrunsEntries(r, prev, f.entries)
      BY <1>1, <1>7 DEF AppendPanics
    <2>. QED BY <1>1, <1>2, <1>5, <1>6, <1>7, <1>8, <2>1 DEF OverrunsEntries
  <1>10. PICK i \in Indices(c) : r.commitIndex <= i /\ Chosen(i, TermIn(c, i))
    <2>1. r.commitIndex \in Nat
      BY <1>3, ReplicaParts
    <2>. QED BY <1>1, <1>2, <1>8, <2>1 DEF ReplicationInv, CommitsAreChosen
  <1>11. TermIn(c, i) > 0 /\ Safe(i, TermIn(c, i))
    BY <1>10, ChosenIsSafe
  <1>12. TermIn(c, i) <= f.term
    <2>1. i \in Positions(c)
      BY UncompactedLogs, ChunkParts DEF Steady
    <2>2. TermIn(c, i) \in Nat /\ TermIn(c, i) <= currentTerm[q] /\ currentTerm[q] \in Nat
      BY <2>1, LogTerms DEF Steady
    <2>. QED BY <1>1, <1>2, <2>2
  <1>. HIDE DEF x, c, k, r
  <1>13. i <= k
    BY <1>1, <1>2, <1>4, <1>5, <1>9, <1>11, <1>12, MergeKeeps DEF Steady
  <1>14. r.commitIndex \in Nat /\ i \in Int /\ k \in Int
    BY <1>2, <1>3, <1>5, <1>8, ReplicaParts DEF k
  <1>. QED BY <1>1, <1>10, <1>13, <1>14

LEMMA CallsOverrideNothing ==
  ASSUME Steady, ReplicationInv
  PROVE  OverridesNothing
  <1>1. ASSUME NEW p \in Server, NEW q \in Server, Waiting(p, q)
        PROVE  request[p][q] \in Requests
    <2>1. <<p, q>> \in Server \X Server /\ request[p][q] # Nil
      BY <1>1 DEF Waiting
    <2>. QED BY <2>1 DEF Requests
  <1>2. ASSUME NEW m \in lateRequests PROVE m.to \in Server /\ m.req \in Requests
    BY DEF Requests, Steady, TypeInv, TypeOK, CallTypes
  <1>. QED BY <1>1, <1>2, NothingOverridden DEF OverridesNothing

\* Nobody has voted in a term past the highest, so no entry of that term is lost yet.
LEMMA HighestIsSafe ==
  ASSUME Steady, NEW T \in Nat, \A q \in Server : currentTerm[q] <= T, NEW i
  PROVE  Safe(i, T)
  <1>. SUFFICES ASSUME NEW m \in voteRequests, Elected(m), m.term > T PROVE FALSE
    BY DEF Safe
  <1>1. 2 * Cardinality(VotersFor(m.cand, m.term)) > N /\ N \in Nat
    BY ServersFinite DEF Elected
  <1>2. PICK v \in VotersFor(m.cand, m.term) : TRUE
    <2>1. Cardinality({}) = 0
      BY FS_EmptySet
    <2>. QED BY <1>1, <2>1
  <1>3. v \in Server /\ <<v, m.term, m.cand>> \in ballots
    BY <1>2 DEF VotersFor
  <1>4. m.term <= currentTerm[v]
    BY <1>3 DEF Steady, ElectionInv, VotesRemembered
  <1>5. m.term \in Nat /\ currentTerm[v] \in Nat
    BY <1>3 DEF Steady, TypeInv, TypeOK, ElectionTypes, PeerTypes
  <1>. QED BY <1>3, <1>4, <1>5

LEMMA AcksHonest ==
  ASSUME Steady, SignalInv, ReplicationInv
  PROVE  AcksAreHonest
  <1>. SUFFICES ASSUME NEW p \in Server, state[p] = Leader,
                       \A q \in Server : currentTerm[q] <= currentTerm[p],
                       NEW i \in rep[p].commitIndex + 1 .. LastIndex(rep[p]), acks[p][i] > 0
                PROVE  acks[p][i] <= Cardinality({q \in Server : Holds(rep[q], rep[p], i)})
    BY DEF AcksAreHonest
  <1>. DEFINE T == currentTerm[p]
              A == HaveSignalled(p, i)
              H == {q \in Server : Holds(rep[q], rep[p], i)}
  <1>1. /\ rep[p].commitIndex \in Nat /\ LastIndex(rep[p]) \in Nat /\ Base(rep[p]) = -1
        /\ LastIndex(rep[p]) <= MaxIndex /\ MaxIndex \in Nat /\ T \in Nat
    BY UncompactedLogs, BoundAssumption DEF Steady, Uncompacted, TypeInv, TypeOK, PeerTypes
  <1>2. i \in 1 .. MaxIndex /\ i > Base(rep[p]) /\ i <= LastIndex(rep[p])
    BY <1>1
  <1>3. acks[p][i] <= 1 + Cardinality(A) /\ acks[p][i] \in Nat
    BY <1>2 DEF SignalInv, SignalsOf, Steady, TypeInv, TypeOK, LeaderTypes
  <1>4. HasEntry(p, i, T)
    BY <1>2 DEF ReplicationInv, CountsAreInLog
  <1>5. Safe(i, T)
    BY <1>1, HighestIsSafe
  <1>6. ASSUME NEW v \in Server, HasEntry(v, i, T) PROVE v \in H
    <2>1. \A q \in Server : HasEntry(q, i, T) => i <= LastIndex(rep[q]) /\ TermAt(rep[q], i) = T
      <3>. SUFFICES ASSUME NEW q \in Server, HasEntry(q, i, T)
                    PROVE  i <= LastIndex(rep[q]) /\ TermAt(rep[q], i) = T
        OBVIOUS
      <3>1. i \in 0 .. LastIndex(rep[q]) /\ TermIn(Chunk(rep[q]), i) = T
        BY UncompactedLogs DEF HasEntry, Steady
      <3>. QED BY <3>1 DEF TermIn, TermAt, Chunk
    <2>. QED BY <1>4, <1>6, <2>1 DEF Holds
  <1>7. ASSUME NEW v \in A PROVE v \in H
    <2>1. v \in Server \ {p} /\ Acked(p, v, i)
      BY DEF HaveSignalled, Acked
    <2>2. Locked(v, i, T)
      BY <1>4, <1>5, <2>1 DEF ReplicationInv, CountedAreLocked, HasEntry
    <2>. QED BY <1>6, <2>1, <2>2 DEF Locked
  <1>8. /\ A \in SUBSET Server /\ p \notin A /\ A \cup {p} \subseteq H /\ H \in SUBSET Server
    BY <1>4, <1>6, <1>7 DEF HaveSignalled
  <1>. HIDE DEF A, H
  <1>9. Cardinality(A) \in Nat /\ Cardinality(A \cup {p}) = Cardinality(A) + 1
    <2>1. IsFiniteSet(A)
      BY <1>8, ServersFinite, FS_Subset
    <2>. QED BY <1>8, <2>1, FS_AddElement, FS_CardinalityType
  <1>10. Cardinality(H) \in Nat /\ Cardinality(A \cup {p}) <= Cardinality(H)
    BY <1>8, CountGrows
  <1>11. acks[p][i] <= Cardinality(H)
    BY <1>3, <1>9, <1>10
  <1>. QED BY <1>11 DEF H

-----------------------------------------------------------------------------
\* the replicated log

\* What state machines were fed are prefixes of one sequence, which one of them has.
FedOneSequence ==
  /\ \A p \in Server : rep[p].applied \in Seq(Cmd)
  /\ \A p, q \in Server : Len(rep[p].applied) <= Len(rep[q].applied) =>
                            IsPrefixOf(rep[p].applied, rep[q].applied)
  /\ \E p \in Server : Decided = rep[p].applied
  /\ \A p \in Server : Len(rep[p].applied) <= Len(Decided)

LEMMA OneSequence ==
  ASSUME Server # {}, Steady, ReplicationInv
  PROVE  FedOneSequence
  <1>1. ASSUME NEW p \in Server
        PROVE  /\ rep[p].applied \in Seq(Cmd) /\ Len(rep[p].applied) = rep[p].commitIndex
               /\ Len(rep[p].applied) \in Nat /\ Len(rep[p].applied) <= MaxIndex
    <2>1. /\ LastIndex(rep[p]) <= MaxIndex /\ LastIndex(rep[p]) \in Nat /\ MaxIndex \in Nat
      BY UncompactedLogs, BoundAssumption DEF Steady, Uncompacted
    <2>. QED BY <2>1, AppliedAre
  <1>2. ASSUME NEW p \in Server, NEW q \in Server, Len(rep[p].applied) <= Len(rep[q].applied)
        PROVE  IsPrefixOf(rep[p].applied, rep[q].applied)
    BY <1>1, <1>2, AppliedAgree
  <1>. DEFINE fed == {rep[p].applied : p \in Server}
              S == {MaxIndex - Len(s) : s \in fed}
  <1>3. PICK d \in S : \A n \in S : d <= n
    <2>1. MaxIndex \in Nat
      BY BoundAssumption
    <2>2. S \in SUBSET Nat
      BY <1>1, <2>1
    <2>3. S # {}
      OBVIOUS
    <2>. HIDE DEF S
    <2>. QED BY <2>2, <2>3, LeastElement
  <1>4. PICK s \in fed : d = MaxIndex - Len(s)
    OBVIOUS
  <1>5. \A t \in fed : Len(t) <= Len(s)
    <2>. SUFFICES ASSUME NEW t \in fed PROVE Len(t) <= Len(s)
      OBVIOUS
    <2>1. MaxIndex - Len(s) <= MaxIndex - Len(t)
      BY <1>3, <1>4
    <2>2. Len(s) \in Nat /\ Len(t) \in Nat /\ MaxIndex \in Nat
      BY <1>1, BoundAssumption
    <2>. QED BY <2>1, <2>2
  <1>6. Decided \in fed /\ \A t \in fed : Len(t) <= Len(Decided)
    <2>1. Decided = CHOOSE u \in fed : \A t \in fed : Len(t) <= Len(u)
      BY DEF Decided
    <2>. HIDE DEF fed
    <2>. QED BY <1>5, <2>1
  <1>. QED BY <1>1, <1>2, <1>6 DEF FedOneSequence

\* A step feeds no more than one state machine, ...
LEMMA OneReplicaMoves ==
  ASSUME TypeInv, Server # {}, [Next]_vars
  PROVE  \E p \in Server : \A s \in Server \ {p} : rep'[s] = rep[s]
  <1>. DEFINE Moves(p) == \A s \in Server \ {p} : rep'[s] = rep[s]
  <1>1. CASE rep' = rep
    BY <1>1
  <1>2. ASSUME NEW p \in Server, NEW r, rep' = [rep EXCEPT ![p] = r]
        PROVE  Moves(p)
    BY <1>2 DEF TypeInv, TypeOK, ReplicaTypes
  <1>3. CASE UNCHANGED vars
    BY <1>1, <1>3 DEF vars
  <1>4. ASSUME NEW p \in Server,
               \/ FollowerTimeout(p) \/ FollowerRearm(p) \/ CandidateTimeout(p) \/ Flush(p)
               \/ \E m \in voteRequests : HandleRequestVote(p, m)
        PROVE  rep' = rep
    BY <1>4 DEF FollowerTimeout, FollowerRearm, CandidateTimeout, Flush, HandleRequestVote
  <1>5. ASSUME NEW m \in voteResponses, HandleRequestVoteRespond(m)
        PROVE  rep' = rep
    BY <1>5 DEF HandleRequestVoteRespond
  <1>6. ASSUME NEW p \in Server,
               \/ \E cmd \in Command : ClientRequest(p, cmd)
               \/ AppendNoop(p)
               \/ \E i \in 1 .. MaxIndex : CommitRequest(p, i)
               \/ Crash(p) \/ Stop(p)
        PROVE  Moves(p)
    <2>1. rep' = rep \/ \E r : rep' = [rep EXCEPT ![p] = r]
      BY <1>6 DEF ClientRequest, AppendNoop, LeaderAppend, CommitRequest, Crash, Stop, NewProcess
    <2>. QED BY <1>2, <2>1
  <1>7. ASSUME NEW p \in Server, NEW q \in Server,
               \/ SendAppendEntries(p, q) \/ SendInstallSnapshot(p, q) \/ CallFails(p, q)
               \/ HandleAppendEntriesRes(p, q) \/ HandleInstallSnapshotRes(p, q)
        PROVE  rep' = rep
    BY <1>7 DEF SendAppendEntries, SendInstallSnapshot, CallFails, HandleAppendEntriesRes,
                HandleInstallSnapshotRes
  <1>8. ASSUME NEW p \in Server, NEW leader, NEW f,
               HandleAppendEntries(p, leader, f) \/ HandleInstallSnapshot(p, f)
        PROVE  Moves(p)
    <2>1. rep' = rep \/ \E r : rep' = [rep EXCEPT ![p] = r]
      BY <1>8 DEF HandleAppendEntries, HandleInstallSnapshot
    <2>. QED BY <1>2, <2>1
  <1>9. ASSUME NEW p \in Server, NEW q \in Server,
               ReceiveAppendEntries(p, q) \/ ReceiveInstallSnapshot(p, q)
        PROVE  Moves(q)
    BY <1>8, <1>9 DEF ReceiveAppendEntries, ReceiveInstallSnapshot
  <1>10. ASSUME NEW m \in lateRequests, ReceiveLate(m)
         PROVE  m.to \in Server /\ Moves(m.to)
    <2>1. m.to \in Server
      BY DEF TypeInv, TypeOK, CallTypes
    <2>. QED BY <1>8, <1>10, <2>1 DEF ReceiveLate
  <1>. HIDE DEF Moves
  <1>11. CASE Next
    <2>1. rep' = rep \/ \E p \in Server : Moves(p)
      BY <1>4, <1>5, <1>6, <1>7, <1>9, <1>10, <1>11 DEF Next
    <2>. QED BY <1>1, <2>1 DEF Moves
  <1>. QED BY <1>3, <1>11

\* ... and takes nothing back.
LEMMA AppliedGrows ==
  ASSUME Steady, Steady', ReplicationInv, ReplicationInv', KeepsPromises, NEW v \in Server
  PROVE  IsPrefixOf(rep[v].applied, rep'[v].applied)
  <1>. DEFINE a == rep[v].commitIndex
              b == rep'[v].commitIndex
              s == rep[v].applied
              c == Commands(rep'[v], a + 1, b)
  <1>1. s \in Seq(Cmd) /\ a \in Nat
    BY AppliedAre
  <1>2. CASE rep'[v].applied = s
    BY <1>1, <1>2 DEF IsPrefixOf
  <1>3. CASE a <= b /\ rep'[v].applied = s \o c
    <2>1. /\ rep'[v] \in Replica /\ rep'[v].snapshot = NoSnapshot /\ b <= LastIndex(rep'[v])
      BY DEF Steady, TypeInv, TypeOK, ReplicaTypes, Uncompacted, ReplicationInv, AppliedIsCommitted
    <2>2. Base(rep'[v]) = -1 /\ LastIndex(rep'[v]) \in Int /\ b \in Nat
      BY <2>1, ReplicaParts DEF Base, NoSnapshot
    <2>3. c \in Seq(Cmd)
      <3>. DEFINE n == a + 1
      <3>1. n \in Int /\ b \in Int /\ Base(rep'[v]) < n /\ n <= b + 1
        BY <1>1, <1>3, <2>2
      <3>. HIDE DEF n, b
      <3>2. Commands(rep'[v], n, b) \in Seq(Cmd)
        BY <2>1, <3>1, CommandsAreCmds
      <3>. QED BY <3>2 DEF n
    <2>. HIDE DEF s, c
    <2>4. IsPrefixOf(s, s \o c)
      BY <1>1, <2>3, PrefixOfJoin
    <2>. QED BY <1>3, <2>4 DEF s
  <1>. QED BY <1>2, <1>3 DEF KeepsPromises, CommitStep

LEMMA LogStep ==
  ASSUME FedOneSequence, FedOneSequence',
         \A v \in Server : IsPrefixOf(rep[v].applied, rep'[v].applied),
         NEW p \in Server, \A s \in Server \ {p} : rep'[s] = rep[s]
  PROVE  [ReplicatedLogAbs!Next]_(ReplicatedLogAbs!vars)
  <1>. DEFINE f(s) == rep[s].applied
              g(s) == rep'[s].applied
              D == Decided
              E == Decided'
  <1>1. /\ \A s \in Server : /\ f(s) \in Seq(Cmd) /\ g(s) \in Seq(Cmd)
                             /\ IsPrefixOf(f(s), g(s))
                             /\ Len(f(s)) <= Len(D) /\ Len(g(s)) <= Len(E)
        /\ \A s \in Server : s # p => g(s) = f(s)
        /\ \A s, t \in Server : Len(f(s)) <= Len(f(t)) => IsPrefixOf(f(s), f(t))
        /\ \A s, t \in Server : Len(g(s)) <= Len(g(t)) => IsPrefixOf(g(s), g(t))
    BY DEF FedOneSequence
  <1>2. PICK d \in Server : D = f(d)
    BY DEF FedOneSequence
  <1>3. PICK e \in Server : E = g(e)
    BY DEF FedOneSequence
  <1>4. Cmd = Command \cup {NoOp}
    BY DEF Cmd
  <1>6. /\ [s \in Server |-> rep'[s].applied] = [s \in Server |-> g(s)]
        /\ [s \in Server |-> rep[s].applied] = [s \in Server |-> f(s)]
    OBVIOUS
  <1>. HIDE DEF f, g, D, E
  <1>7. \A s \in Server : /\ Len(f(s)) \in Nat /\ Len(g(s)) \in Nat
                          /\ f(s) \in Seq(Cmd) /\ g(s) \in Seq(Cmd)
    BY <1>1
  <1>8. ASSUME NEW s \in Seq(Cmd), NEW t \in Seq(Cmd), IsPrefixOf(s, t), Len(t) <= Len(s)
        PROVE  s = t
    BY <1>8 DEF IsPrefixOf
  <1>9. CASE g(p) = f(p)
    <2>1. \A s \in Server : g(s) = f(s)
      BY <1>1, <1>9
    <2>2. Len(D) = Len(E) /\ IsPrefixOf(D, E)
      BY <1>1, <1>2, <1>3, <1>7, <2>1
    <2>3. D = E
      BY <1>2, <1>3, <1>7, <1>8, <2>2
    <2>4. [s \in Server |-> g(s)] = [s \in Server |-> f(s)]
      BY <2>1
    <2>. QED BY <1>6, <2>3, <2>4 DEF ReplicatedLogAbs!vars, D, E
  <1>10. CASE g(p) # f(p) /\ Len(g(p)) > Len(D)
    <2>1. e = p
      BY <1>1, <1>3, <1>7, <1>10, <1>2
    <2>2. E = g(p) /\ E \in Seq(Cmd) /\ E # D
      BY <1>3, <1>7, <1>10, <2>1
    <2>3. IsPrefixOf(D, E)
      <3>1. CASE d = p
        BY <1>1, <1>2, <2>2, <3>1
      <3>2. CASE d # p
        <4>1. D = g(d) /\ Len(g(d)) <= Len(g(p))
          BY <1>1, <1>2, <1>7, <1>10, <3>2
        <4>. QED BY <1>1, <2>2, <4>1
      <3>. QED BY <3>1, <3>2
    <2>4. [s \in Server |-> g(s)] = [[s \in Server |-> f(s)] EXCEPT ![p] = E]
      BY <1>1, <2>2
    <2>5. ReplicatedLogAbs!Decide(p)
      BY <1>4, <1>6, <2>2, <2>3, <2>4 DEF ReplicatedLogAbs!Decide, ReplicatedLogAbs!Extends,
                                         IsPrefixOf, D, E
    <2>. QED BY <2>5 DEF ReplicatedLogAbs!Next
  <1>11. CASE g(p) # f(p) /\ ~(Len(g(p)) > Len(D))
    <2>1. d # p
      <3>1. Len(g(p)) <= Len(f(p)) => g(p) = f(p)
        BY <1>1, <1>7, <1>8
      <3>. QED BY <1>2, <1>7, <1>11, <3>1
    <2>2. g(d) = D
      BY <1>1, <1>2, <2>1
    <2>3. Len(D) \in Nat /\ Len(E) \in Nat /\ D \in Seq(Cmd) /\ E \in Seq(Cmd)
      BY <1>2, <1>3, <1>7
    <2>4. Len(E) <= Len(D) /\ Len(D) <= Len(E)
      <3>1. Len(E) <= Len(D)
        BY <1>1, <1>3, <1>7, <1>11, <2>3
      <3>. QED BY <1>1, <2>2, <3>1
    <2>5. D = E
      BY <1>1, <1>3, <1>8, <2>2, <2>3, <2>4
    <2>6. IsPrefixOf(g(p), D)
      BY <1>1, <1>7, <1>11, <2>2, <2>3
    <2>7. [s \in Server |-> g(s)] = [[s \in Server |-> f(s)] EXCEPT ![p] = g(p)]
      BY <1>1
    <2>8. /\ g(p) \in Seq(Cmd) /\ IsPrefixOf(f(p), g(p))
          /\ rep'[p].applied = g(p) /\ rep[p].applied = f(p)
      BY <1>1 DEF f, g
    <2>9. ReplicatedLogAbs!Learn(p)
      BY <1>4, <1>6, <1>11, <2>5, <2>6, <2>7, <2>8
         DEF ReplicatedLogAbs!Learn, ReplicatedLogAbs!Extends, IsPrefixOf, D, E
    <2>. QED BY <2>9 DEF ReplicatedLogAbs!Next
  <1>. QED BY <1>9, <1>10, <1>11

-----------------------------------------------------------------------------
\* the theorems

\* Uncompacted logs, storage that loses nothing it was given, and no reply that reaches
\* a later leadership than the one that made the call.
Orderly == Durable /\ SnapshotThreshold > MaxIndex + 1 /\ Tame

\* A leader that no one has overtaken has every command that any state machine was fed
\* (the election restriction of logPriorCheck, request_vote.go:124, with the counting
\* of onReceiveClientRequest, client_request.go).
THEOREM LeadersHaveWhatIsApplied == Orderly => []LeaderCompleteness
  <1>1. Steady /\ ReplicationInv => LeaderCompleteness
    BY LeadersAreComplete
  <1>. QED BY <1>1, ReplicationInvHolds, PTL DEF Orderly

\* What a leader has counted for an index is never more than there are servers with its
\* entry, whatever they compared, cut off or voted for since they answered.
THEOREM CountsAreOfHolders == Orderly => []AcksAreHonest
  <1>1. Steady /\ SignalInv /\ ReplicationInv => AcksAreHonest
    BY AcksHonest
  <1>. QED BY <1>1, ReplicationInvHolds, PTL DEF Orderly

\* No call announces a commit past its entries, so updateCommitIndex may clip at the end
\* of the receiver's log.
THEOREM CommitsTravelWithEntries == Orderly => []CommitTravelsWithEntries
  <1>1. Steady /\ ReplicationInv => CommitTravelsWithEntries
    BY CommitsTravel
  <1>. QED BY <1>1, ReplicationInvHolds, PTL DEF Orderly

\* No call that a peer may yet handle cuts off what that peer has committed, so the merge
\* need not check it, nor does the branch that logs it ever run.
THEOREM NothingIsOverridden == Orderly => []OverridesNothing
  <1>1. Steady /\ ReplicationInv => OverridesNothing
    BY CallsOverrideNothing
  <1>. QED BY <1>1, ReplicationInvHolds, PTL DEF Orderly

\* Since no merge cuts off what is committed, the log reaches the commit index, and the
\* state machine is fed exactly that far.
THEOREM CommitsAreInLogs == Orderly => []CommitWithinLog
  BY NothingIsOverridden, CommitsFitTheLog, PTL DEF Orderly, Tame

\* Every handler saves what it changed: a process rebuilt from its file has the replica,
\* state machine and all, that the one before it had.
THEOREM WhatIsSavedIsWhole == Orderly => []CrashKeepsReplica
  BY NothingIsOverridden, CrashesLoseNothing, PTL DEF Orderly, Tame

LEMMA PromisesAreKept == Orderly => [][KeepsPromises]_vars
  <1>. SUFFICES ASSUME Durable, SnapshotThreshold > MaxIndex + 1
                PROVE  Tame => [][KeepsPromises]_vars
    BY DEF Orderly
  <1>1. Steady /\ Steady' /\ SignalInv /\ ReplicationInv /\ [Next]_vars => [KeepsPromises]_vars
    BY StepKeeps
  <1>. QED BY <1>1, ReplicationInvHolds, PTL DEF Orderly, Tame, Spec

\* commitIndex "increases monotonically" (peer.go:56), from one process to the next too.
THEOREM CommitsOnlyGrow == Orderly => CommitMonotone
  <1>. DEFINE Typed == \A p \in Server : rep[p].commitIndex \in Nat
  <1>1. Steady => Typed
    BY UncompactedLogs DEF Steady
  <1>2. Typed /\ Typed' /\ [KeepsPromises]_vars =>
          [\A p \in Server : rep'[p].commitIndex >= rep[p].commitIndex]_vars
    <2>. SUFFICES ASSUME Typed, Typed', KeepsPromises, NEW p \in Server
                  PROVE  rep'[p].commitIndex >= rep[p].commitIndex
      OBVIOUS
    <2>1. rep[p].commitIndex \in Nat /\ rep'[p].commitIndex \in Nat
      OBVIOUS
    <2>2. CommitStep(p)
      BY DEF KeepsPromises
    <2>3. \/ rep'[p].commitIndex = rep[p].commitIndex
          \/ rep[p].commitIndex <= rep'[p].commitIndex
      BY <2>2, Zenon DEF CommitStep
    <2>. QED BY <2>1, <2>3
  <1>. QED BY <1>1, <1>2, ReplicationInvHolds, PromisesAreKept, PTL DEF Orderly, CommitMonotone

\* The peers implement ReplicatedLog: there is one sequence of commands, which only grows,
\* and every state machine is fed a prefix of it, which only grows, whoever leads and
\* whatever crashes.
THEOREM PeersImplementLog == Server # {} /\ Orderly => ImplementsReplicatedLog
  <1>. SUFFICES ASSUME Server # {} PROVE Orderly => ImplementsReplicatedLog
    OBVIOUS
  <1>1. Init => ReplicatedLogAbs!Init
    <2>. SUFFICES ASSUME Init PROVE ReplicatedLogAbs!Init
      OBVIOUS
    <2>1. \A p \in Server : rep[p].applied = <<>>
      BY DEF Init, InitReplica
    <2>2. {rep[p].applied : p \in Server} = {<<>>}
      BY <2>1
    <2>3. Decided = <<>>
      <3>. DEFINE fed == {rep[p].applied : p \in Server}
      <3>1. Decided = CHOOSE s \in fed : \A t \in fed : Len(t) <= Len(s)
        BY DEF Decided
      <3>2. fed = {<<>>}
        BY <2>2
      <3>. HIDE DEF fed
      <3>3. <<>> \in fed /\ \A t \in fed : Len(t) <= Len(<<>>)
        BY <3>2
      <3>. QED BY <3>1, <3>2, <3>3
    <2>. QED BY <2>1, <2>3 DEF ReplicatedLogAbs!Init
  <1>2. Steady /\ ReplicationInv => FedOneSequence
    BY OneSequence
  <1>3. /\ Steady /\ Steady' /\ ReplicationInv /\ ReplicationInv'
        /\ FedOneSequence /\ FedOneSequence' /\ [Next]_vars /\ [KeepsPromises]_vars
        => [ReplicatedLogAbs!Next]_(ReplicatedLogAbs!vars)
    <2>. SUFFICES ASSUME Steady, Steady', ReplicationInv, ReplicationInv',
                         FedOneSequence, FedOneSequence', [Next]_vars, [KeepsPromises]_vars
                  PROVE  [ReplicatedLogAbs!Next]_(ReplicatedLogAbs!vars)
      OBVIOUS
    <2>1. \A v \in Server : IsPrefixOf(rep[v].applied, rep'[v].applied)
      <3>1. CASE KeepsPromises
        BY <3>1, AppliedGrows
      <3>2. CASE UNCHANGED vars
        BY <3>2, AppliedAre DEF vars, IsPrefixOf
      <3>. QED BY <3>1, <3>2
    <2>2. PICK p \in Server : \A s \in Server \ {p} : rep'[s] = rep[s]
      BY OneReplicaMoves DEF Steady
    <2>. QED BY <2>1, <2>2, LogStep
  <1>. QED BY <1>1, <1>2, <1>3, ReplicationInvHolds, PromisesAreKept, PTL
           DEF Orderly, Tame, Spec, ImplementsReplicatedLog, ReplicatedLogAbs!Spec

\* No two state machines are fed different commands at the same place
\* (updateCommitIndex, peer.go:330).
THEOREM StateMachinesAgree == Server # {} /\ Orderly => []ReplicatedLogAbs!Agreement
  <1>. SUFFICES ASSUME Server # {} PROVE Orderly => []ReplicatedLogAbs!Agreement
    OBVIOUS
  <1>1. Steady /\ ReplicationInv => ReplicatedLogAbs!Agreement
    <2>. SUFFICES ASSUME Steady, ReplicationInv, NEW p \in Server, NEW q \in Server
                  PROVE  \/ IsPrefixOf(rep[q].applied, rep[p].applied)
                         \/ IsPrefixOf(rep[p].applied, rep[q].applied)
      BY DEF ReplicatedLogAbs!Agreement, ReplicatedLogAbs!Extends, IsPrefixOf
    <2>1. Len(rep[p].applied) \in Nat /\ Len(rep[q].applied) \in Nat
      BY OneSequence DEF FedOneSequence
    <2>. QED BY <2>1, OneSequence DEF FedOneSequence
  <1>. QED BY <1>1, ReplicationInvHolds, PTL DEF Orderly

\* What is committed is not taken back, nor is what one of them was fed, from one
\* process to the next too.
THEOREM WhatIsAppliedStays == Server # {} /\ Orderly => ReplicatedLogAbs!NothingIsTakenBack
  <1>. SUFFICES ASSUME Server # {} PROVE Orderly => ReplicatedLogAbs!NothingIsTakenBack
    OBVIOUS
  <1>. DEFINE Kept == /\ IsPrefixOf(Decided, Decided')
                      /\ \A p \in Server : IsPrefixOf(rep[p].applied, rep'[p].applied)
  <1>1. Steady /\ ReplicationInv => FedOneSequence
    BY OneSequence
  <1>2. /\ Steady /\ Steady' /\ ReplicationInv /\ ReplicationInv'
        /\ FedOneSequence /\ FedOneSequence' /\ [KeepsPromises]_vars
        => Kept
    <2>. SUFFICES ASSUME Steady, Steady', ReplicationInv, ReplicationInv',
                         FedOneSequence, FedOneSequence', [KeepsPromises]_vars
                  PROVE  Kept
      OBVIOUS
    <2>1. \A v \in Server : IsPrefixOf(rep[v].applied, rep'[v].applied)
      <3>1. CASE KeepsPromises
        BY <3>1, AppliedGrows
      <3>2. CASE UNCHANGED vars
        BY <3>2, AppliedAre DEF vars, IsPrefixOf
      <3>. QED BY <3>1, <3>2
    <2>2. PICK p \in Server : Decided = rep[p].applied
      BY DEF FedOneSequence
    <2>3. PICK q \in Server : Decided' = rep'[q].applied
      BY DEF FedOneSequence
    <2>4. /\ rep[p].applied \in Seq(Cmd) /\ rep'[p].applied \in Seq(Cmd)
          /\ rep'[q].applied \in Seq(Cmd)
      BY DEF FedOneSequence
    <2>5. IsPrefixOf(rep'[p].applied, rep'[q].applied)
      BY <2>3 DEF FedOneSequence
    <2>6. ASSUME NEW s \in Seq(Cmd), NEW t \in Seq(Cmd), NEW u \in Seq(Cmd),
                 IsPrefixOf(s, t), IsPrefixOf(t, u)
          PROVE  IsPrefixOf(s, u)
      BY <2>6 DEF IsPrefixOf
    <2>7. IsPrefixOf(rep[p].applied, rep'[q].applied)
      BY <2>1, <2>4, <2>5, <2>6
    <2>. QED BY <2>1, <2>2, <2>3, <2>7
  <1>3. Kept => [ReplicatedLogAbs!TakesNothingBack]_(ReplicatedLogAbs!vars)
    BY DEF ReplicatedLogAbs!TakesNothingBack, ReplicatedLogAbs!Extends, IsPrefixOf
  <1>. QED BY <1>1, <1>2, <1>3, ReplicationInvHolds, PromisesAreKept, PTL
           DEF Orderly, ReplicatedLogAbs!NothingIsTakenBack

-----------------------------------------------------------------------------
\* what winners, calls and logs are

\* One server wins a term.
LEMMA OneWinner ==
  ASSUME TypeInv, ElectionInv, LogInv,
         NEW p \in Server, NEW q \in Server, NEW t,
         \E m \in voteRequests : m.cand = p /\ m.term = t /\ Elected(m),
         \E m \in voteRequests : m.cand = q /\ m.term = t /\ Elected(m)
  PROVE  p = q
  BY ElectedOnce DEF LogInv

LEMMA LeadersWon ==
  ASSUME LogInv, NEW p \in Server, state[p] = Leader
  PROVE  \E m \in voteRequests : m.cand = p /\ m.term = currentTerm[p] /\ Elected(m)
  BY DEF LogInv, LeadersOnlyAppend

\* What is known of a call, and of the log of its target.
LEMMA CallParts ==
  ASSUME Steady, NEW p \in Server, NEW q \in Server, NEW f, f = request[p][q], f # Nil
  PROVE  /\ f \in Requests /\ f \in Chunks /\ IsChunk(f) /\ Covered(f, Chunks)
         /\ f \in AppendEntriesReq /\ Outstanding(p, q)
         /\ f.term \in Nat /\ f.prevLogIndex \in Nat
         /\ f.entries \in Seq(Entry) /\ Len(f.entries) \in Nat
         /\ LastSent(f) \in Nat /\ LastSent(f) = f.prevLogIndex + Len(f.entries)
         /\ Positions(f) = f.prevLogIndex .. LastSent(f)
         /\ f.prevLogIndex \in Positions(f) /\ LastSent(f) \in Positions(f)
         /\ \A i \in Positions(f) : TermIn(f, i) \in Nat /\ TermIn(f, i) <= f.term
         /\ TermIn(f, f.prevLogIndex) = f.prevLogTerm
  <1>1. f \in Requests
    BY RequestsUnfold
  <1>2. f \in Chunks /\ NoSnapshotIsSent
    BY <1>1 DEF Chunks, Steady, Uncompacted, NoSnapshotIsSent
  <1>3. f \in AppendEntriesReq /\ IsChunk(f)
    BY <1>1, <1>2, RequestTypes DEF Steady
  <1>4. Covered(f, Chunks)
    BY <1>2, <1>3, ChunkIsCovered
  <1>5. \A i \in Positions(f) : TermIn(f, i) \in Nat /\ TermIn(f, i) <= f.term
    BY <1>1, <1>2, RequestTerms DEF Steady
  <1>6. /\ f.term \in Nat /\ f.prevLogIndex \in Nat /\ f.entries \in Seq(Entry)
        /\ f.type = "AppendEntries"
    BY <1>3 DEF AppendEntriesReq
  <1>7. /\ Len(f.entries) \in Nat /\ LastSent(f) = f.prevLogIndex + Len(f.entries)
        /\ f.prevLogIndex \in Positions(f) /\ LastSent(f) \in Positions(f)
    BY <1>3, ChunkParts
  <1>8. Positions(f) = f.prevLogIndex .. LastSent(f)
    BY <1>3, ChunkBounds
  <1>9. LastSent(f) \in Nat
    BY <1>6, <1>7
  <1>10. Outstanding(p, q) /\ TermIn(f, f.prevLogIndex) = f.prevLogTerm
    BY <1>6 DEF Outstanding, TermIn
  <1>. QED BY <1>1, <1>2, <1>3, <1>4, <1>5, <1>6, <1>7, <1>8, <1>9, <1>10

\* What is known of a log.
LEMMA LogParts ==
  ASSUME Steady, NEW q \in Server
  PROVE  /\ LastIndex(rep[q]) \in Nat /\ rep[q] \in Replica
         /\ Positions(Chunk(rep[q])) = -1 .. LastIndex(rep[q])
         /\ Covered(Chunk(rep[q]), Chunks) /\ IsChunk(Chunk(rep[q]))
         /\ Chunk(rep[q]) \in Chunks
         /\ memory[q].currentTerm \in Nat /\ currentTerm[q] \in Nat
         /\ memory[q].currentTerm <= currentTerm[q]
         /\ \A i : TermIn(Chunk(rep[q]), i) = TermAt(rep[q], i)
         /\ \A i \in Positions(Chunk(rep[q])) :
              /\ TermAt(rep[q], i) \in Nat /\ TermAt(rep[q], i) <= memory[q].currentTerm
         /\ TermAt(rep[q], -1) = 0
  <1>1. /\ LastIndex(rep[q]) \in Nat /\ rep[q] \in Replica
        /\ Positions(Chunk(rep[q])) = -1 .. LastIndex(rep[q])
        /\ Covered(Chunk(rep[q]), Chunks) /\ IsChunk(Chunk(rep[q])) /\ Chunk(rep[q]) \in Chunks
        /\ TermIn(Chunk(rep[q]), -1) = 0
    BY UncompactedLogs DEF Steady
  <1>2. \A i : TermIn(Chunk(rep[q]), i) = TermAt(rep[q], i)
    BY <1>1, ChunkOfReplica
  <1>3. /\ memory[q].currentTerm \in Nat /\ currentTerm[q] \in Nat
        /\ memory[q].currentTerm <= currentTerm[q]
        /\ \A i \in Positions(Chunk(rep[q])) : TermIn(Chunk(rep[q]), i) \in Nat
    BY LogTerms DEF Steady
  <1>4. \A i \in Positions(Chunk(rep[q])) : TermIn(Chunk(rep[q]), i) <= memory[q].currentTerm
    BY DEF Steady, LogInv, LogIsSaved
  <1>. QED BY <1>1, <1>2, <1>3, <1>4

\* The index before every log and entry is of term 0.
LEMMA SentinelTerm ==
  ASSUME Steady, NEW c, Covered(c, Chunks), 0 \in Positions(c)
  PROVE  TermIn(c, 0) = 0
  <1>1. TermIn(c, 0) \in Nat
    BY ChunkParts DEF Covered
  <1>2. TermIn(c, 0) > 0 => \E m \in voteRequests : m.lastLogIndex < 0
    BY CoveredLinks DEF Steady
  <1>3. \A m \in voteRequests : m.lastLogIndex \in Nat
    BY DEF Steady, TypeInv, TypeOK, ElectionTypes
  <1>. QED BY <1>1, <1>2, <1>3

\* Whoever has not passed the term of a leader has no entry of it that the leader lacks.
LEMMA NotOutgrown ==
  ASSUME Steady, NEW p \in Server, NEW q \in Server, state[p] = Leader,
         memory[q].currentTerm <= currentTerm[p]
  PROVE  ~Outgrows(q, LastIndex(rep[p]), currentTerm[p])
  <1>. DEFINE i == LastIndex(rep[p])
              d == Chunk(rep[q])
  <1>. SUFFICES ASSUME i < LastIndex(rep[q]), TermAt(rep[q], i) = currentTerm[p]
                PROVE  FALSE
    BY DEF Outgrows
  <1>1. /\ i \in Nat /\ LastIndex(rep[q]) \in Nat /\ currentTerm[p] \in Nat
        /\ Positions(d) = -1 .. LastIndex(rep[q]) /\ IsChunk(d) /\ Covered(d, Chunks) /\ d \in Chunks
        /\ memory[q].currentTerm \in Nat
        /\ \A j : TermIn(d, j) = TermAt(rep[q], j)
        /\ \A j \in Positions(d) : TermIn(d, j) \in Nat /\ TermIn(d, j) <= memory[q].currentTerm
    BY LogParts
  <1>2. Indices(d) = 0 .. LastIndex(rep[q])
    BY UncompactedLogs DEF Steady
  <1>. HIDE DEF i, d
  <1>3. i \in Positions(d) /\ i + 1 \in Positions(d) /\ i + 1 \in Indices(d) /\ i <= i + 1
    BY <1>1, <1>2
  <1>4. TermIn(d, i) <= TermIn(d, i + 1)
    <2>1. \A j \in Indices(d) : TermIn(d, j - 1) <= TermIn(d, j)
      BY <1>1, CoveredLinks DEF Steady
    <2>. QED BY <1>1, <1>3, <2>1, TermsAscend
  <1>5. TermIn(d, i + 1) = currentTerm[p]
    BY <1>1, <1>3, <1>4
  <1>6. i + 1 <= LastIndex(rep[p])
    BY <1>1, <1>3, <1>5 DEF Steady, LogInv, LeadersKeepTheirTerm
  <1>. QED BY <1>1, <1>6 DEF i

\* A call of a leader's term brings the log of the leader, as far as it goes.
LEMMA CallOfLeader ==
  ASSUME Steady, ReplicationInv, NEW p \in Server, NEW q \in Server, NEW f, f = request[p][q],
         f # Nil, state[p] = Leader, f.term = currentTerm[p]
  PROVE  /\ LastSent(f) <= LastIndex(rep[p])
         /\ \A j \in Positions(f) : j \in Positions(Chunk(rep[p])) /\ TermIn(f, j) = TermAt(rep[p], j)
         /\ LastSent(f) < LastIndex(rep[p]) =>
              TermAt(rep[p], LastIndex(rep[p])) = currentTerm[p]
  <1>. DEFINE c == Chunk(rep[p])
              l == LastSent(f)
  <1>1. /\ f \in Requests /\ Outstanding(p, q) /\ f.prevLogIndex \in Nat /\ l \in Nat
        /\ Covered(f, Chunks)
        /\ Positions(f) = f.prevLogIndex .. l /\ l \in Positions(f)
    BY CallParts
  <1>2. /\ LastIndex(rep[p]) \in Nat /\ Positions(c) = -1 .. LastIndex(rep[p]) /\ Covered(c, Chunks)
        /\ \A i : TermIn(c, i) = TermAt(rep[p], i)
    BY LogParts
  <1>3. l <= LastIndex(rep[p])
    BY <1>1 DEF ReplicationInv, CountsAreInLog
  <1>4. PICK m \in voteRequests : m.term = f.term /\ Elected(m) /\ FromLeader(f, m)
    BY <1>1 DEF Steady, LogInv, RequestsAreLeaders
  <1>5. PICK n \in voteRequests : n.term = currentTerm[p] /\ Elected(n) /\ FromLeader(c, n)
    BY DEF Steady, LogInv, LeadersOnlyAppend
  <1>6. m = n
    BY <1>4, <1>5, ElectedOnce DEF Steady, LogInv
  <1>7. m.lastLogIndex \in Nat /\ m.lastLogIndex <= l
    BY <1>4 DEF Steady, TypeInv, TypeOK, ElectionTypes, FromLeader
  <1>. HIDE DEF c, l
  <1>8. l \in Positions(c) /\ LastIndex(rep[p]) \in Positions(c) /\ Positions(f) \subseteq Positions(c)
    BY <1>1, <1>2, <1>3
  <1>9. TermIn(f, l) = TermIn(c, l)
    <2>1. l = m.lastLogIndex \/ l > m.lastLogIndex
      BY <1>1, <1>7
    <2>. QED BY <1>1, <1>4, <1>5, <1>6, <1>8, <2>1 DEF FromLeader
  <1>10. \A j \in Positions(f) : TermIn(f, j) = TermIn(c, j)
    <2>. SUFFICES ASSUME NEW j \in Positions(f) PROVE TermIn(f, j) = TermIn(c, j)
      OBVIOUS
    <2>1. l \in Positions(f) \cap Positions(c) /\ j \in Positions(f) \cap Positions(c) /\ j <= l
      BY <1>1, <1>8
    <2>. QED BY <1>1, <1>2, <1>9, <2>1, LinksMatch DEF Steady
  <1>11. l < LastIndex(rep[p]) => TermIn(c, LastIndex(rep[p])) = currentTerm[p]
    <2>1. l < LastIndex(rep[p]) => LastIndex(rep[p]) > m.lastLogIndex
      BY <1>1, <1>2, <1>7
    <2>. QED BY <1>5, <1>6, <1>8, <2>1 DEF FromLeader
  <1>. QED BY <1>2, <1>3, <1>8, <1>10, <1>11 DEF c, l

\* A refusal in the term of the leader shows that its log fits.
LEMMA RefusalFits ==
  ASSUME Steady, ReplicationInv, FailuresFit, NEW p \in Server, NEW q \in Server,
         Answered(p, q), ~response[p][q].success, response[p][q].term <= currentTerm[p],
         state[p] = Leader, request[p][q].term = currentTerm[p]
  PROVE  Fits(q, currentTerm[p], LastIndex(rep[p]), TermAt(rep[p], LastIndex(rep[p])))
  <1>. DEFINE c == Chunk(rep[p])
              d == Chunk(rep[q])
              i == LastIndex(rep[p])
  <1>1. PICK f : f = request[p][q] /\ f # Nil
    BY DEF Answered
  <1>2. /\ Outstanding(p, q) /\ f.prevLogIndex \in Nat /\ f.prevLogIndex \in Positions(f)
        /\ TermIn(f, f.prevLogIndex) = f.prevLogTerm /\ f.term \in Nat /\ LastSent(f) \in Nat
        /\ Positions(f) = f.prevLogIndex .. LastSent(f)
    BY <1>1, CallParts
  <1>3. /\ f.term <= memory[q].currentTerm
        /\ memory[q].currentTerm = f.term /\ f.prevLogIndex <= LastIndex(rep[q]) =>
             TermAt(rep[q], f.prevLogIndex) # f.prevLogTerm
    BY <1>1, <1>2 DEF FailuresFit
  <1>4. /\ LastSent(f) <= i
        /\ TermIn(f, f.prevLogIndex) = TermAt(rep[p], f.prevLogIndex)
    BY <1>1, <1>2, CallOfLeader
  <1>5. /\ LastIndex(rep[q]) \in Nat /\ memory[q].currentTerm \in Nat
        /\ Positions(d) = -1 .. LastIndex(rep[q]) /\ Covered(d, Chunks)
        /\ \A j : TermIn(d, j) = TermAt(rep[q], j)
    BY LogParts
  <1>6. /\ i \in Nat /\ Positions(c) = -1 .. i /\ Covered(c, Chunks)
        /\ \A j : TermIn(c, j) = TermAt(rep[p], j)
    BY LogParts
  <1>. HIDE DEF c, d, i
  <1>7. ASSUME memory[q].currentTerm <= currentTerm[p], i < LastIndex(rep[q]),
               TermAt(rep[q], i) = TermAt(rep[p], i)
        PROVE  FALSE
    <2>1. i \in Positions(c) \cap Positions(d) /\ TermIn(c, i) = TermIn(d, i)
      BY <1>5, <1>6, <1>7
    <2>2. f.prevLogIndex \in Positions(c) \cap Positions(d) /\ f.prevLogIndex <= i
      BY <1>2, <1>4, <1>5, <1>6, <1>7
    <2>3. TermIn(c, f.prevLogIndex) = TermIn(d, f.prevLogIndex)
      BY <1>5, <1>6, <2>1, <2>2, LinksMatch DEF Steady
    <2>4. memory[q].currentTerm = f.term
      BY <1>1, <1>2, <1>3, <1>5, <1>7
    <2>5. f.prevLogIndex <= LastIndex(rep[q])
      BY <1>2, <1>5, <2>2
    <2>. QED BY <1>2, <1>3, <1>4, <1>5, <1>6, <2>3, <2>4, <2>5
  <1>. QED BY <1>1, <1>3, <1>7 DEF Fits, Outgrows, i

\* The entry before a call was won no later than a safe entry that lies past it.
LEMMA PrevTermIsOld ==
  ASSUME Steady, CandidatesLogsAreWon, NEW f, Covered(f, Chunks), f.prevLogIndex \in Nat,
         TermIn(f, f.prevLogIndex) = f.prevLogTerm,
         NEW i \in Nat, f.prevLogIndex <= i, NEW t \in Nat, Safe(i, t)
  PROVE  f.prevLogTerm <= t
  <1>. DEFINE S == {n \in Nat : /\ n > t
                               /\ \E m \in voteRequests : /\ Elected(m) /\ m.term = n
                                                          /\ m.lastLogIndex < f.prevLogIndex}
  <1>1. f.prevLogTerm \in Nat /\ f.prevLogIndex \in Positions(f)
    BY ChunkParts DEF Covered, IsChunk
  <1>. SUFFICES ASSUME f.prevLogTerm > t PROVE FALSE
    BY <1>1
  <1>2. PICK m \in voteRequests : /\ Elected(m) /\ m.term = f.prevLogTerm
                                  /\ m.lastLogIndex < f.prevLogIndex
    <2>1. TermIn(f, f.prevLogIndex) > 0
      BY <1>1
    <2>. QED BY <1>1, <2>1, CoveredLinks DEF Steady
  <1>3. f.prevLogTerm \in S
    BY <1>1, <1>2
  <1>4. PICK x \in S : \A y \in S : x <= y
    <2>1. S \in SUBSET Nat /\ S # {}
      BY <1>3
    <2>. HIDE DEF S
    <2>. QED BY <2>1, LeastElement
  <1>5. PICK k \in voteRequests : Elected(k) /\ k.term = x /\ k.lastLogIndex < f.prevLogIndex
    BY <1>4
  <1>6. /\ x \in Nat /\ x > t /\ k.lastLogIndex \in Nat /\ k.lastLogTerm \in Nat
        /\ k.lastLogTerm < k.term
    BY <1>4 DEF Steady, TypeInv, TypeOK, ElectionTypes, LogInv, CandidaciesAreSaved
  <1>7. k.lastLogTerm > t
    BY <1>5, <1>6 DEF Safe, Covers
  <1>8. PICK n \in voteRequests : /\ n.term = k.lastLogTerm /\ Elected(n)
                                  /\ n.lastLogIndex < k.lastLogIndex
    BY <1>6, <1>7 DEF CandidatesLogsAreWon
  <1>9. n.lastLogIndex \in Nat /\ n.lastLogIndex < f.prevLogIndex
    BY <1>5, <1>6, <1>8 DEF Steady, TypeInv, TypeOK, ElectionTypes
  <1>10. k.lastLogTerm \in S
    BY <1>6, <1>7, <1>8, <1>9
  <1>. HIDE DEF S
  <1>. QED BY <1>4, <1>5, <1>6, <1>10

\* A call agrees with whoever has a safe entry that lies past the one it follows, if its
\* term is not older than that of the entry.
LEMMA SafeCallAgrees ==
  ASSUME Steady, CandidatesLogsAreWon, NEW p \in Server, NEW q \in Server,
         NEW f, f = request[p][q], f # Nil, NEW v \in Server,
         NEW i \in Indices(Chunk(rep[v])), TermIn(Chunk(rep[v]), i) > 0,
         Safe(i, TermIn(Chunk(rep[v]), i)),
         f.prevLogIndex <= i, TermIn(Chunk(rep[v]), i) <= f.term
  PROVE  TermIn(Chunk(rep[v]), f.prevLogIndex) = f.prevLogTerm
  <1>. DEFINE d == Chunk(rep[v])
              prev == f.prevLogIndex
              l == LastSent(f)
              t == TermIn(d, i)
  <1>1. /\ f \in Requests /\ Covered(f, Chunks) /\ f.term \in Nat /\ prev \in Nat
        /\ l \in Nat /\ Positions(f) = prev .. l /\ prev \in Positions(f) /\ l \in Positions(f)
        /\ TermIn(f, prev) = f.prevLogTerm /\ f.prevLogTerm \in Nat
        /\ \A j \in Positions(f) : TermIn(f, j) \in Nat
    BY CallParts
  <1>2. /\ LastIndex(rep[v]) \in Nat /\ Positions(d) = -1 .. LastIndex(rep[v]) /\ Covered(d, Chunks)
        /\ Indices(d) = 0 .. LastIndex(rep[v]) /\ d.prevLogIndex = -1 /\ TermIn(d, -1) = 0
        /\ \A j \in Positions(d) : TermIn(d, j) \in Nat
    BY UncompactedLogs DEF Steady
  <1>3. i \in Nat /\ i \in Positions(d) /\ prev \in Positions(d) /\ t \in Nat /\ t > 0
    BY <1>1, <1>2
  <1>4. f.prevLogTerm <= t
    BY <1>1, <1>3, PrevTermIsOld
  <1>5. PICK m \in voteRequests : Elected(m) /\ m.term = f.term /\ FromLeader(f, m)
    BY <1>1 DEF Steady, LogInv, RequestsAreLeaders
  <1>6. m.lastLogIndex \in Nat /\ m.lastLogTerm \in Nat /\ m.lastLogIndex <= l
    BY <1>5 DEF Steady, TypeInv, TypeOK, ElectionTypes, FromLeader
  <1>7. prev > m.lastLogIndex => f.prevLogTerm = f.term
    BY <1>1, <1>5 DEF FromLeader
  <1>8. prev <= m.lastLogIndex => /\ m.lastLogIndex \in Positions(f)
                                  /\ TermIn(f, m.lastLogIndex) = m.lastLogTerm
    BY <1>1, <1>5, <1>6 DEF FromLeader
  <1>. HIDE DEF d, l, t
  <1>9. ASSUME NEW j \in Positions(f) \cap Positions(d), TermIn(f, j) = TermIn(d, j), prev <= j
        PROVE  TermIn(d, prev) = f.prevLogTerm
    <2>1. prev \in Positions(f) \cap Positions(d)
      BY <1>1, <1>3
    <2>2. TypeInv /\ LogInv
      BY DEF Steady
    <2>3. TermIn(f, prev) = TermIn(d, prev)
      <3>1. Covered(f, Chunks) /\ Covered(d, Chunks)
        BY <1>1, <1>2
      <3>2. prev <= j /\ TermIn(f, j) = TermIn(d, j) /\ j \in Positions(f) \cap Positions(d)
        BY <1>9
      <3>. HIDE DEF prev
      <3>. QED BY <2>1, <2>2, <3>1, <3>2, LinksMatch
    <2>. QED BY <1>1, <2>3 DEF d
  <1>10. CASE t = f.term
    <2>1. /\ m.lastLogIndex \in Positions(d) /\ m.lastLogIndex < i
          /\ TermIn(d, m.lastLogIndex) = m.lastLogTerm
          /\ \A j \in Positions(d) : m.lastLogIndex < j /\ j <= i => TermIn(d, j) = TermIn(d, i)
      <3>1. TermIn(d, d.prevLogIndex) < TermIn(d, i)
        BY <1>2, <1>3 DEF t
      <3>2. m.term = TermIn(d, i)
        BY <1>5, <1>10 DEF t
      <3>. QED BY <1>2, <1>3, <1>5, <3>1, <3>2, TermOfLeader DEF Steady
    <2>2. CASE prev > m.lastLogIndex
      <3>1. prev <= i
        OBVIOUS
      <3>. QED BY <1>3, <1>7, <1>10, <2>1, <2>2, <3>1 DEF t, d
    <2>3. CASE ~(prev > m.lastLogIndex)
      <3>1. prev <= m.lastLogIndex
        BY <1>1, <1>6, <2>3
      <3>. QED BY <1>8, <1>9, <2>1, <3>1 DEF d
    <2>. QED BY <2>2, <2>3
  <1>11. CASE t # f.term
    <2>1. t < f.term
      BY <1>1, <1>3, <1>11 DEF t, d
    <2>2. prev <= m.lastLogIndex
      BY <1>1, <1>3, <1>4, <1>6, <1>7, <2>1
    <2>3. Covers(m, i, t)
      BY <1>5, <2>1 DEF Safe, t, d
    <2>4. t < TermIn(f, m.lastLogIndex) \/ (t = TermIn(f, m.lastLogIndex) /\ i <= m.lastLogIndex)
      BY <1>3, <1>6, <1>8, <2>2, <2>3 DEF Covers
    <2>5. i \in Positions(f) /\ TermIn(f, i) = t
      <3>1. /\ TermIn(d, i) > 0 /\ Safe(i, TermIn(d, i)) /\ TermIn(f, f.prevLogIndex) <= TermIn(d, i)
            /\ \/ TermIn(d, i) < TermIn(f, m.lastLogIndex)
               \/ TermIn(d, i) = TermIn(f, m.lastLogIndex) /\ i <= m.lastLogIndex
        BY <1>1, <1>3, <1>4, <2>4 DEF t, d
      <3>2. m.lastLogIndex \in Positions(f)
        BY <1>8, <2>2
      <3>. QED BY <1>1, <1>2, <1>3, <3>1, <3>2, SafeReaches DEF Steady, t
    <2>. QED BY <1>3, <1>9, <2>5 DEF t, d
  <1>. QED BY <1>10, <1>11

\* The receiver of a call does not find that it would override what is committed, and the
\* entries of the call do not run out.
LEMMA CallIsHarmless ==
  ASSUME Steady, ReplicationInv, CallsFit, CandidatesLogsAreWon,
         NEW p \in Server, NEW q \in Server, NEW f, f = request[p][q], Waiting(p, q)
  PROVE  ~AppendPanics(q, f)
  <1>. DEFINE r == rep[q]
              d == Chunk(rep[q])
              prev == f.prevLogIndex
              n == Len(f.entries)
  <1>. SUFFICES ASSUME AppendPanics(q, f) PROVE FALSE
    OBVIOUS
  <1>1. /\ f # Nil /\ Outstanding(p, q) /\ f.term \in Nat /\ prev \in Nat
        /\ f.entries \in Seq(Entry) /\ n \in Nat /\ LastSent(f) = prev + n /\ Covered(f, Chunks)
        /\ prev \in Positions(f) /\ TermIn(f, prev) = f.prevLogTerm
    BY CallParts DEF Waiting
  <1>2. /\ LastIndex(r) \in Nat /\ Positions(d) = -1 .. LastIndex(r) /\ Covered(d, Chunks)
        /\ memory[q].currentTerm \in Nat /\ currentTerm[q] \in Nat /\ r \in Replica
        /\ memory[q].currentTerm <= currentTerm[q]
        /\ \A j : TermIn(d, j) = TermAt(r, j)
        /\ \A j \in Positions(d) : TermAt(r, j) \in Nat /\ TermAt(r, j) <= memory[q].currentTerm
    BY LogParts
  <1>3. /\ Indices(d) = 0 .. LastIndex(r) /\ Base(r) = -1 /\ r.commitIndex \in Nat
        /\ LogLen(r) = LastIndex(r) + 1
    BY <1>2, UncompactedLogs, ReplicaParts DEF Steady, LastIndex
  <1>4. f.term >= currentTerm[q] /\ prev < LogLen(r)
    BY DEF AppendPanics
  <1>5. Readable(r, prev) /\ prev \in Positions(d)
    BY <1>1, <1>2, <1>3, <1>4 DEF Readable
  <1>. HIDE DEF r, d, n
  <1>6. CASE TermAt(r, prev) # f.prevLogTerm /\ prev <= r.commitIndex
    <2>1. prev > 0
      <3>1. prev = 0 => TermIn(f, 0) = 0 /\ TermIn(d, 0) = 0
        BY <1>1, <1>2, <1>5, SentinelTerm
      <3>. QED BY <1>1, <1>2, <1>6, <3>1
    <2>2. PICK i \in Indices(d) : r.commitIndex <= i /\ Chosen(i, TermIn(d, i))
      <3>1. rep[q].commitIndex > 0
        BY <1>1, <1>3, <1>6, <2>1 DEF r
      <3>. QED BY <3>1 DEF ReplicationInv, CommitsAreChosen, r, d
    <2>3. TermIn(d, i) > 0 /\ Safe(i, TermIn(d, i))
      BY <2>2, ChosenIsSafe
    <2>4. i \in Nat /\ i \in Positions(d) /\ prev <= i
      BY <1>1, <1>2, <1>3, <1>6, <2>2
    <2>5. TermIn(d, i) <= f.term
      BY <1>1, <1>2, <1>4, <2>4
    <2>6. TermIn(d, prev) = f.prevLogTerm
      BY <1>1, <2>2, <2>3, <2>4, <2>5, SafeCallAgrees DEF d
    <2>. QED BY <1>2, <1>6, <2>6
  <1>7. CASE TermAt(r, prev) = f.prevLogTerm /\ OverrunsEntries(r, prev, f.entries)
    <2>1. f.entries # <<>> /\ HeldPrefix(r, prev, f.entries) = n /\ LogLen(r) > prev + n + 1
      BY <1>7 DEF OverrunsEntries, n
    <2>2. n > 0
      BY <1>1, <2>1 DEF n
    <2>3. \A k \in 0 .. n - 1 : Agrees(r, prev, f.entries, k)
      <3>1. LET h == HeldPrefix(r, prev, f.entries)
            IN  \A k \in 0 .. h - 1 : Agrees(r, prev, f.entries, k)
        BY <1>1, <1>2, HeldPrefixAgrees
      <3>. QED BY <2>1, <3>1
    <2>4. Agrees(r, prev, f.entries, n - 1)
      BY <1>1, <2>2, <2>3
    <2>5. prev + (n - 1) + 1 = LastSent(f) /\ (n - 1) + 1 = n
      BY <1>1, <2>2
    <2>6. TermAt(r, LastSent(f)) = f.entries[n].term
      BY <2>4, <2>5 DEF Agrees
    <2>7. TermIn(f, LastSent(f)) = f.entries[n].term
      <3>1. LastSent(f) # prev /\ LastSent(f) - prev = n
        BY <1>1, <2>2
      <3>. QED BY <3>1 DEF TermIn
    <2>8. LastSent(f) < LastIndex(r)
      BY <1>1, <1>2, <1>3, <2>1
    <2>9. Outgrows(q, LastSent(f), TermIn(f, LastSent(f)))
      BY <2>6, <2>7, <2>8 DEF Outgrows, r
    <2>10. ~Outgrows(q, LastSent(f), TermIn(f, LastSent(f)))
      <3>1. memory[q].currentTerm <= f.term
        BY <1>1, <1>2, <1>4
      <3>. QED BY <1>1, <2>1, <3>1 DEF CallsFit, Fits
    <2>. QED BY <2>9, <2>10
  <1>. QED BY <1>5, <1>6, <1>7 DEF AppendPanics, r

-----------------------------------------------------------------------------
\* what every step must do, for no handler to panic

\* Fits, after the step
FitsAfter(q, term, i, t) ==
  /\ t < term => memory'[q].currentTerm >= term
  /\ memory'[q].currentTerm <= term => ~(i < LastIndex(rep'[q]) /\ TermAt(rep'[q], i) = t)

\* what a step does to the log of q: nothing, or q leads and appends, or it takes a call
LogMoves(q) ==
  \/ rep'[q].log = rep[q].log
  \/ state[q] = Leader /\ memory'[q].currentTerm = currentTerm[q]
  \/ \E s \in Server : /\ Waiting(s, q)
                       /\ request'[s][q] = Nil \/ response'[s][q] # Nil
                       /\ memory'[q].currentTerm = request[s][q].term
                       /\ LastIndex(rep'[q]) = LastSent(request[s][q])

\* what it does to the call of p to q: the call may end, be made, or be answered
CallMoves(p, q) ==
  \/ request'[p][q] = Nil
  \/ request'[p][q] = request[p][q] /\ response'[p][q] = response[p][q]
  \/ /\ state[p] = Leader /\ q # p /\ rep' = rep /\ memory' = memory
     /\ request'[p][q] # Nil /\ response'[p][q] = Nil
     /\ request'[p][q].term = currentTerm[p]
     /\ request'[p][q].prevLogIndex = nextIndex[p][q] - 1
     /\ SuffixOf(request'[p][q], Chunk(rep[p]))
     /\ LastSent(request'[p][q]) = LastIndex(rep[p])
  \/ /\ Waiting(p, q) /\ request'[p][q] = request[p][q]
     /\ response'[p][q] = AppendReply(q, request[p][q])
     /\ request[p][q].term >= currentTerm[q] =>
          /\ memory'[q].currentTerm = request[p][q].term
          /\ ~Consistent(q, request[p][q]) => rep'[q].log = rep[q].log

\* what it does to what p as a leader sends q next
NextMoves(p, q) ==
  state'[p] = Leader =>
    \/ /\ state[p] = Leader /\ currentTerm'[p] = currentTerm[p]
       /\ rep'[p].log = rep[p].log /\ nextIndex'[p][q] = nextIndex[p][q]
    \/ nextIndex'[p][q] = LastIndex(rep'[p]) + 1
    \/ /\ nextIndex'[p][q] <= LastIndex(rep'[p]) + 1
       /\ TermAt(rep'[p], LastIndex(rep'[p])) = currentTerm'[p]
    \/ /\ state[p] = Leader /\ currentTerm'[p] = currentTerm[p]
       /\ rep' = rep /\ memory' = memory /\ nextIndex'[p][q] <= nextIndex[p][q]
       /\ Fits(q, currentTerm[p], LastIndex(rep[p]), TermAt(rep[p], LastIndex(rep[p])))

\* a candidate asks with the log of some server
AsksWithLogs ==
  \A m \in voteRequests' :
    m \in voteRequests \/ \E p \in Server : /\ m.lastLogIndex = LastIndex(rep[p])
                                            /\ m.lastLogTerm = TermAt(rep[p], LastIndex(rep[p]))

Harmless ==
  /\ VotesGrow /\ AsksWithLogs /\ lateRequests' = {} /\ NoPanic'
  /\ \A q \in Server : memory[q].currentTerm <= memory'[q].currentTerm /\ LogMoves(q)
  /\ \A p, q \in Server : CallMoves(p, q)
  /\ \A p \in Server : \A q \in Server \ {p} : NextMoves(p, q)

\* what holds of the state after a step as of the one before it
LogsRead ==
  \A q \in Server :
    /\ LastIndex(rep[q]) \in Nat /\ memory[q].currentTerm \in Nat /\ currentTerm[q] \in Nat
    /\ \A i \in Nat : i <= LastIndex(rep[q]) =>
         TermAt(rep[q], i) \in Nat /\ TermAt(rep[q], i) <= memory[q].currentTerm
    /\ \A p \in Server : state[p] = Leader /\ memory[q].currentTerm <= currentTerm[p] =>
         ~Outgrows(q, LastIndex(rep[p]), currentTerm[p])

LEMMA SteadyLogsRead == Steady => LogsRead
  <1>. SUFFICES ASSUME Steady, NEW q \in Server
                PROVE  /\ LastIndex(rep[q]) \in Nat /\ memory[q].currentTerm \in Nat
                       /\ currentTerm[q] \in Nat
                       /\ \A i \in Nat : i <= LastIndex(rep[q]) =>
                            TermAt(rep[q], i) \in Nat /\ TermAt(rep[q], i) <= memory[q].currentTerm
    BY NotOutgrown DEF LogsRead
  <1>1. /\ LastIndex(rep[q]) \in Nat /\ memory[q].currentTerm \in Nat /\ currentTerm[q] \in Nat
        /\ Positions(Chunk(rep[q])) = -1 .. LastIndex(rep[q])
        /\ \A i \in Positions(Chunk(rep[q])) :
             TermAt(rep[q], i) \in Nat /\ TermAt(rep[q], i) <= memory[q].currentTerm
    BY LogParts
  <1>2. \A i \in Nat : i <= LastIndex(rep[q]) => i \in Positions(Chunk(rep[q]))
    BY <1>1
  <1>. QED BY <1>1, <1>2

LEMMA LogsReadAfter == Steady' => LogsRead'
  BY SteadyLogsRead, PTL

\* A log that is unchanged reads the same.
LEMMA SameLogReads ==
  ASSUME Steady, Steady', NEW q \in Server, rep'[q].log = rep[q].log
  PROVE  /\ LastIndex(rep'[q]) = LastIndex(rep[q])
         /\ \A i : TermAt(rep'[q], i) = TermAt(rep[q], i)
  <1>1. rep[q].snapshot = NoSnapshot /\ rep'[q].snapshot = NoSnapshot
    BY DEF Steady, Uncompacted
  <1>. QED BY <1>1 DEF LastIndex, LogLen, Base, TermAt

\* What fits q goes on to fit, while q has the log it had, or is of another term, or
\* has taken no more than that.
LEMMA FitsStays ==
  ASSUME Steady, Steady', NEW q \in Server, memory[q].currentTerm <= memory'[q].currentTerm,
         NEW term \in Nat, NEW i \in Nat, NEW t \in Nat, t <= term, Fits(q, term, i, t),
         \/ rep'[q].log = rep[q].log
         \/ memory'[q].currentTerm # term
         \/ LastIndex(rep'[q]) <= i
  PROVE  FitsAfter(q, term, i, t)
  <1>1. /\ memory[q].currentTerm \in Nat /\ memory'[q].currentTerm \in Nat
        /\ LastIndex(rep[q]) \in Nat /\ LastIndex(rep'[q]) \in Nat
        /\ \A j \in Nat : j <= LastIndex(rep'[q]) => TermAt(rep'[q], j) <= memory'[q].currentTerm
    BY SteadyLogsRead, LogsReadAfter DEF LogsRead
  <1>2. t < term => memory'[q].currentTerm >= term
    BY <1>1 DEF Fits
  <1>3. CASE rep'[q].log = rep[q].log
    BY <1>1, <1>2, <1>3, SameLogReads DEF Fits, FitsAfter, Outgrows
  <1>4. CASE LastIndex(rep'[q]) <= i
    BY <1>1, <1>2, <1>4 DEF FitsAfter
  <1>5. CASE memory'[q].currentTerm # term
    <2>. SUFFICES ASSUME memory'[q].currentTerm <= term, i < LastIndex(rep'[q]),
                         TermAt(rep'[q], i) = t
                  PROVE  FALSE
      BY <1>2 DEF FitsAfter
    <2>1. memory'[q].currentTerm < term /\ ~(t < term)
      BY <1>1, <1>2, <1>5
    <2>2. t <= memory'[q].currentTerm
      BY <1>1
    <2>. QED BY <1>1, <2>1, <2>2
  <1>. QED BY <1>3, <1>4, <1>5

\* While a call of p is out, only it changes the log of its target in its term, ...
LEMMA CallIsAlone ==
  ASSUME Steady, SignalInv, CallersWon, NEW p \in Server, NEW q \in Server, NEW f,
         f = request[p][q], f # Nil, request'[p][q] = f, response'[p][q] = response[p][q],
         LogMoves(q)
  PROVE  rep'[q].log = rep[q].log \/ memory'[q].currentTerm # f.term
  <1>1. \E m \in voteRequests : m.cand = p /\ m.term = f.term /\ Elected(m)
    BY DEF CallersWon
  <1>2. p # q
    BY DEF SignalInv
  <1>3. ASSUME state[q] = Leader, currentTerm[q] = f.term PROVE FALSE
    BY <1>1, <1>2, <1>3, LeadersWon, OneWinner DEF Steady
  <1>4. ASSUME NEW s \in Server, Waiting(s, q), request'[s][q] = Nil \/ response'[s][q] # Nil,
               request[s][q].term = f.term
        PROVE  FALSE
    <2>1. \E m \in voteRequests : m.cand = s /\ m.term = f.term /\ Elected(m)
      BY <1>4 DEF CallersWon, Waiting
    <2>2. s = p
      BY <1>1, <2>1, OneWinner DEF Steady
    <2>. QED BY <1>4, <2>2 DEF Waiting
  <1>. QED BY <1>3, <1>4 DEF LogMoves

\* ... and only the leader of a term changes the logs of others in it, within its own.
LEMMA LeaderIsAlone ==
  ASSUME Steady, ReplicationInv, CallersWon, NEW p \in Server, NEW q \in Server, q # p,
         state[p] = Leader, LogMoves(q)
  PROVE  \/ rep'[q].log = rep[q].log
         \/ memory'[q].currentTerm # currentTerm[p]
         \/ LastIndex(rep'[q]) <= LastIndex(rep[p])
  <1>1. \E m \in voteRequests : m.cand = p /\ m.term = currentTerm[p] /\ Elected(m)
    BY LeadersWon DEF Steady
  <1>2. ASSUME state[q] = Leader, currentTerm[q] = currentTerm[p] PROVE FALSE
    BY <1>1, <1>2, LeadersWon, OneWinner DEF Steady
  <1>3. ASSUME NEW s \in Server, Waiting(s, q), request[s][q].term = currentTerm[p]
        PROVE  LastSent(request[s][q]) <= LastIndex(rep[p])
    <2>1. \E m \in voteRequests : m.cand = s /\ m.term = currentTerm[p] /\ Elected(m)
      BY <1>3 DEF CallersWon, Waiting
    <2>2. s = p
      BY <1>1, <2>1, OneWinner DEF Steady
    <2>. QED BY <1>3, <2>2, CallOfLeader DEF Waiting
  <1>. QED BY <1>2, <1>3 DEF LogMoves

LEMMA RepliesAreNotNil ==
  ASSUME Steady, NEW p \in Server, NEW q \in Server, Waiting(p, q)
  PROVE  AppendReply(q, request[p][q]) # Nil
  <1>1. currentTerm[q] \in Nat /\ request[p][q].term \in Nat
    BY CallParts DEF Waiting, Steady, TypeInv, TypeOK, PeerTypes
  <1>2. Consistent(q, request[p][q]) \in BOOLEAN
    BY DEF Consistent
  <1>3. AppendReply(q, request[p][q]) \in [term : Nat, success : BOOLEAN]
    BY <1>1, <1>2 DEF AppendReply, Greater
  <1>. QED BY <1>3, NilAssumption

LEMMA CallsStayFit ==
  ASSUME Steady, Steady', SignalInv, ReplicationInv, PanicInv, Harmless
  PROVE  CallsFit'
  <1>. SUFFICES ASSUME NEW p \in Server, NEW q \in Server, NEW f, f = request'[p][q],
                       f # Nil, response'[p][q] = Nil, f.entries # <<>>
                PROVE  FitsAfter(q, f.term, LastSent(f), TermIn(f, LastSent(f)))
    BY DEF CallsFit, Fits, FitsAfter, Outgrows, Waiting
  <1>1. CASE request'[p][q] = request[p][q] /\ response'[p][q] = response[p][q]
    <2>1. Waiting(p, q) /\ f = request[p][q]
      BY <1>1 DEF Waiting
    <2>2. /\ Outstanding(p, q) /\ f.term \in Nat /\ LastSent(f) \in Nat
          /\ TermIn(f, LastSent(f)) \in Nat /\ TermIn(f, LastSent(f)) <= f.term
      BY <2>1, CallParts
    <2>3. Fits(q, f.term, LastSent(f), TermIn(f, LastSent(f)))
      BY <2>1, <2>2 DEF PanicInv, CallsFit
    <2>4. rep'[q].log = rep[q].log \/ memory'[q].currentTerm # f.term
      BY <1>1, <2>1, CallIsAlone DEF PanicInv, Harmless
    <2>5. memory[q].currentTerm <= memory'[q].currentTerm
      BY DEF Harmless
    <2>. QED BY <2>2, <2>3, <2>4, <2>5, FitsStays
  <1>2. CASE /\ state[p] = Leader /\ q # p /\ rep' = rep /\ memory' = memory
             /\ request'[p][q].term = currentTerm[p]
             /\ request'[p][q].prevLogIndex = nextIndex[p][q] - 1
             /\ SuffixOf(request'[p][q], Chunk(rep[p]))
             /\ LastSent(request'[p][q]) = LastIndex(rep[p])
    <2>. DEFINE c == Chunk(rep[p])
                i == LastIndex(rep[p])
    <2>1. i \in Nat /\ IsChunk(c) /\ \A j : TermIn(c, j) = TermAt(rep[p], j)
      BY LogParts
    <2>2. IsChunk(f) /\ \A j \in Positions(f) : TermIn(f, j) = TermIn(c, j)
      BY <1>2 DEF SuffixOf
    <2>3. LastSent(f) \in Positions(f) /\ LastSent(f) = f.prevLogIndex + Len(f.entries)
          /\ Len(f.entries) \in Nat /\ f.entries \in Seq(Entry) /\ f.prevLogIndex \in Int
      BY <2>2, ChunkParts DEF IsChunk
    <2>4. TermIn(f, LastSent(f)) = TermAt(rep[p], i)
      BY <1>2, <2>1, <2>2, <2>3
    <2>5. nextIndex[p][q] <= i
      <3>1. nextIndex[p][q] \in Int
        BY DEF Steady, TypeInv, TypeOK, LeaderTypes
      <3>2. Len(f.entries) > 0
        BY <2>3
      <3>. QED BY <1>2, <2>1, <2>3, <3>1, <3>2
    <2>6. Fits(q, currentTerm[p], i, TermAt(rep[p], i))
      BY <1>2, <2>5 DEF PanicInv, NextFits
    <2>. QED BY <1>2, <2>4, <2>6 DEF Fits, FitsAfter, Outgrows
  <1>3. CASE response'[p][q] = AppendReply(q, request[p][q]) /\ Waiting(p, q)
    BY <1>3, RepliesAreNotNil DEF Waiting
  <1>. QED BY <1>1, <1>2, <1>3 DEF Harmless, CallMoves

LEMMA NextStaysFit ==
  ASSUME Steady, Steady', ReplicationInv, PanicInv, Harmless
  PROVE  NextFits' /\ NextInLog'
  <1>. SUFFICES ASSUME NEW p \in Server, NEW q \in Server \ {p}, state'[p] = Leader
                PROVE  /\ nextIndex'[p][q] <= LastIndex(rep'[p]) + 1
                       /\ nextIndex'[p][q] <= LastIndex(rep'[p]) =>
                            FitsAfter(q, currentTerm'[p], LastIndex(rep'[p]),
                                      TermAt(rep'[p], LastIndex(rep'[p])))
    BY DEF NextFits, NextInLog, Fits, FitsAfter, Outgrows
  <1>1. /\ LastIndex(rep'[p]) \in Nat /\ LastIndex(rep[p]) \in Nat /\ currentTerm[p] \in Nat
        /\ currentTerm'[p] \in Nat /\ nextIndex[p][q] \in Int /\ nextIndex'[p][q] \in Int
        /\ memory[p].currentTerm <= currentTerm[p] /\ memory[p].currentTerm \in Nat
        /\ TermAt(rep[p], LastIndex(rep[p])) \in Nat
        /\ TermAt(rep[p], LastIndex(rep[p])) <= memory[p].currentTerm
    <2>1. nextIndex[p][q] \in Int /\ nextIndex'[p][q] \in Int
      BY DEF Steady, TypeInv, TypeOK, LeaderTypes
    <2>2. LastIndex(rep'[p]) \in Nat /\ currentTerm'[p] \in Nat
      BY LogsReadAfter DEF LogsRead
    <2>. QED BY <2>1, <2>2, SteadyLogsRead, LogParts DEF LogsRead
  <1>2. CASE /\ state[p] = Leader /\ currentTerm'[p] = currentTerm[p]
             /\ rep'[p].log = rep[p].log /\ nextIndex'[p][q] = nextIndex[p][q]
    <2>. DEFINE i == LastIndex(rep[p])
                t == TermAt(rep[p], i)
    <2>1. LastIndex(rep'[p]) = i /\ TermAt(rep'[p], i) = t
      BY <1>2, SameLogReads
    <2>2. nextIndex[p][q] <= i + 1
      BY <1>2 DEF PanicInv, NextInLog
    <2>3. nextIndex[p][q] <= i => Fits(q, currentTerm[p], i, t)
      BY <1>2 DEF PanicInv, NextFits
    <2>4. \/ rep'[q].log = rep[q].log
          \/ memory'[q].currentTerm # currentTerm[p]
          \/ LastIndex(rep'[q]) <= i
      BY <1>2, LeaderIsAlone DEF PanicInv, Harmless
    <2>5. memory[q].currentTerm <= memory'[q].currentTerm
      BY DEF Harmless
    <2>6. t \in Nat /\ i \in Nat /\ t <= currentTerm[p]
      BY <1>1
    <2>. HIDE DEF i, t
    <2>7. nextIndex[p][q] <= i => FitsAfter(q, currentTerm[p], i, t)
      BY <1>1, <2>3, <2>4, <2>5, <2>6, FitsStays
    <2>. QED BY <1>2, <2>1, <2>2, <2>7
  <1>3. CASE nextIndex'[p][q] = LastIndex(rep'[p]) + 1
    BY <1>1, <1>3
  <1>4. CASE /\ nextIndex'[p][q] <= LastIndex(rep'[p]) + 1
             /\ TermAt(rep'[p], LastIndex(rep'[p])) = currentTerm'[p]
    <2>1. memory'[q].currentTerm <= currentTerm'[p] =>
            ~(LastIndex(rep'[p]) < LastIndex(rep'[q])
                /\ TermAt(rep'[q], LastIndex(rep'[p])) = currentTerm'[p])
      BY LogsReadAfter DEF LogsRead, Outgrows
    <2>. QED BY <1>1, <1>4, <2>1 DEF FitsAfter
  <1>5. CASE /\ state[p] = Leader /\ currentTerm'[p] = currentTerm[p]
             /\ rep' = rep /\ memory' = memory /\ nextIndex'[p][q] <= nextIndex[p][q]
             /\ Fits(q, currentTerm[p], LastIndex(rep[p]), TermAt(rep[p], LastIndex(rep[p])))
    <2>1. nextIndex[p][q] <= LastIndex(rep[p]) + 1
      BY <1>5 DEF PanicInv, NextInLog
    <2>. QED BY <1>1, <1>5, <2>1 DEF Fits, FitsAfter, Outgrows
  <1>. QED BY <1>2, <1>3, <1>4, <1>5 DEF Harmless, NextMoves

LEMMA FailuresStayFit ==
  ASSUME Steady, Steady', SignalInv, PanicInv, Harmless
  PROVE  FailuresFit'
  <1>. SUFFICES ASSUME NEW p \in Server, NEW q \in Server, NEW f, f = request'[p][q], f # Nil,
                       response'[p][q] # Nil, ~response'[p][q].success,
                       response'[p][q].term <= f.term
                PROVE  /\ f.term <= memory'[q].currentTerm
                       /\ memory'[q].currentTerm = f.term /\ f.prevLogIndex <= LastIndex(rep'[q]) =>
                            TermAt(rep'[q], f.prevLogIndex) # f.prevLogTerm
    BY DEF FailuresFit, Answered
  <1>1. /\ memory[q].currentTerm \in Nat /\ memory'[q].currentTerm \in Nat
        /\ memory[q].currentTerm <= memory'[q].currentTerm
    BY SteadyLogsRead, LogsReadAfter DEF LogsRead, Harmless
  <1>2. CASE request'[p][q] = request[p][q] /\ response'[p][q] = response[p][q]
    <2>1. f = request[p][q] /\ Outstanding(p, q) /\ f.term \in Nat
      BY <1>2, CallParts
    <2>2. /\ f.term <= memory[q].currentTerm
          /\ memory[q].currentTerm = f.term /\ f.prevLogIndex <= LastIndex(rep[q]) =>
               TermAt(rep[q], f.prevLogIndex) # f.prevLogTerm
      BY <1>2, <2>1 DEF PanicInv, FailuresFit, Answered
    <2>3. rep'[q].log = rep[q].log \/ memory'[q].currentTerm # f.term
      BY <1>2, <2>1, CallIsAlone DEF PanicInv, Harmless
    <2>. QED BY <1>1, <2>1, <2>2, <2>3, SameLogReads
  <1>3. CASE /\ Waiting(p, q) /\ request'[p][q] = request[p][q]
             /\ response'[p][q] = AppendReply(q, request[p][q])
             /\ request[p][q].term >= currentTerm[q] =>
                  /\ memory'[q].currentTerm = request[p][q].term
                  /\ ~Consistent(q, request[p][q]) => rep'[q].log = rep[q].log
    <2>1. f = request[p][q] /\ f.term \in Nat /\ f.prevLogIndex \in Nat
      BY <1>3, CallParts
    <2>2. currentTerm[q] \in Nat /\ LastIndex(rep[q]) \in Nat
      BY LogParts
    <2>3. f.term >= currentTerm[q] /\ ~Consistent(q, f)
      BY <1>3, <2>1, <2>2 DEF AppendReply, Greater
    <2>4. memory'[q].currentTerm = f.term /\ rep'[q].log = rep[q].log
      BY <1>3, <2>1, <2>3
    <2>5. f.prevLogIndex <= LastIndex(rep[q]) => Readable(rep[q], f.prevLogIndex)
      BY <2>1, <2>2, UncompactedLogs, ReplicaParts DEF Steady, Readable, LastIndex
    <2>. QED BY <1>1, <2>1, <2>3, <2>4, <2>5, SameLogReads DEF Consistent
  <1>. QED BY <1>2, <1>3 DEF Harmless, CallMoves

LEMMA HarmlessSuffices ==
  ASSUME Steady, Steady', SignalInv, ReplicationInv, PanicInv, Harmless
  PROVE  PanicInv'
  <1>1. CallsFit' /\ NextFits' /\ NextInLog' /\ FailuresFit'
    BY CallsStayFit, NextStaysFit, FailuresStayFit
  <1>2. CallersWon'
    <2>. SUFFICES ASSUME NEW p \in Server, NEW q \in Server, NEW f, f = request'[p][q], f # Nil
                  PROVE  \E m \in voteRequests' : m.cand = p /\ m.term = f.term /\ Elected(m)'
      BY DEF CallersWon
    <2>1. \E m \in voteRequests : m.cand = p /\ m.term = f.term /\ Elected(m)
      BY LeadersWon DEF PanicInv, CallersWon, Harmless, CallMoves, Waiting, Steady
    <2>2. PICK m : m \in voteRequests /\ m.cand = p /\ m.term = f.term /\ Elected(m)
      BY <2>1
    <2>. QED BY <2>2, ElectedStays DEF Harmless, VotesGrow
  <1>3. CandidatesLogsAreWon'
    <2>. SUFFICES ASSUME NEW m \in voteRequests', m.lastLogTerm > 0
                  PROVE  \E n \in voteRequests' : /\ n.term = m.lastLogTerm /\ Elected(n)'
                                                  /\ n.lastLogIndex < m.lastLogIndex
      BY DEF CandidatesLogsAreWon
    <2>1. \E n \in voteRequests : /\ n.term = m.lastLogTerm /\ Elected(n)
                                  /\ n.lastLogIndex < m.lastLogIndex
      <3>1. CASE m \in voteRequests
        BY <3>1 DEF PanicInv, CandidatesLogsAreWon
      <3>2. ASSUME NEW p \in Server, m.lastLogIndex = LastIndex(rep[p]),
                   m.lastLogTerm = TermAt(rep[p], LastIndex(rep[p]))
            PROVE  \E n \in voteRequests : /\ n.term = m.lastLogTerm /\ Elected(n)
                                           /\ n.lastLogIndex < m.lastLogIndex
        <4>1. /\ LastIndex(rep[p]) \in Positions(Chunk(rep[p])) /\ Covered(Chunk(rep[p]), Chunks)
              /\ TermIn(Chunk(rep[p]), LastIndex(rep[p])) = m.lastLogTerm
          BY <3>2, LogParts
        <4>. QED BY <3>2, <4>1, CoveredLinks DEF Steady
      <3>. QED BY <3>1, <3>2 DEF Harmless, AsksWithLogs
    <2>2. PICK n : /\ n \in voteRequests /\ n.term = m.lastLogTerm /\ Elected(n)
                   /\ n.lastLogIndex < m.lastLogIndex
      BY <2>1
    <2>. QED BY <2>2, ElectedStays DEF Harmless, VotesGrow
  <1>. QED BY <1>1, <1>2, <1>3 DEF PanicInv, Harmless

-----------------------------------------------------------------------------
\* why no step lets a handler panic

LeadersRest ==
  \A p \in Server : state'[p] = Leader =>
    state[p] = Leader /\ currentTerm'[p] = currentTerm[p] /\ nextIndex'[p] = nextIndex[p]

CallsRest ==
  \A p, q \in Server :
    \/ request'[p][q] = Nil
    \/ request'[p][q] = request[p][q] /\ response'[p][q] = response[p][q]

\* A step that changes no log and makes no call.
LEMMA RestIsHarmless ==
  ASSUME VotesGrow, AsksWithLogs, lateRequests' = {}, NoPanic', KeepsPromises, CallsRest,
         \A q \in Server : rep'[q].log = rep[q].log,
         \A p \in Server : \A q \in Server \ {p} : NextMoves(p, q)
  PROVE  Harmless
  BY DEF Harmless, KeepsPromises, CallsRest, CallMoves, LogMoves

LEMMA RestingLeaders ==
  ASSUME LeadersRest, \A q \in Server : rep'[q].log = rep[q].log
  PROVE  \A p \in Server : \A q \in Server \ {p} : NextMoves(p, q)
  BY DEF LeadersRest, NextMoves

\* What a step that does nothing to elections, calls and processes leaves as it was.
LEMMA Elsewhere ==
  ASSUME PanicInv, UNCHANGED <<up, voteRequests, ballots, request, response, lateRequests>>
  PROVE  VotesGrow /\ AsksWithLogs /\ lateRequests' = {} /\ NoPanic' /\ CallsRest
  BY DEF PanicInv, NoPanic, VotesGrow, AsksWithLogs, CallsRest

LEMMA IdleIsHarmless ==
  ASSUME PanicInv, KeepsPromises,
         UNCHANGED <<up, voteRequests, ballots, request, response, lateRequests, rep>>, LeadersRest
  PROVE  Harmless
  BY Elsewhere, RestingLeaders, RestIsHarmless

LEMMA CandidacyIsHarmless ==
  ASSUME Steady, PanicInv, KeepsPromises, NEW p \in Server,
         FollowerTimeout(p) \/ CandidateTimeout(p)
  PROVE  Harmless
  <1>1. /\ StartElection(p) /\ UNCHANGED <<up, rep, nextIndex, request, response, lateRequests>>
        /\ state' = [state EXCEPT ![p] = Candidate]
    BY DEF FollowerTimeout, CandidateTimeout, leaderVars, callVars, Steady, TypeInv, TypeOK, PeerTypes
  <1>2. /\ \A s \in Server : s # p => state'[s] = state[s] /\ currentTerm'[s] = currentTerm[s]
        /\ state'[p] = Candidate
    BY <1>1 DEF StartElection, Steady, TypeInv, TypeOK, PeerTypes
  <1>3. LeadersRest
    BY <1>1, <1>2 DEF LeadersRest, Candidate, Leader
  <1>4. VotesGrow /\ AsksWithLogs
    BY <1>1 DEF StartElection, VotesGrow, AsksWithLogs
  <1>5. lateRequests' = {} /\ NoPanic' /\ CallsRest
    BY <1>1 DEF PanicInv, NoPanic, CallsRest
  <1>. QED BY <1>1, <1>3, <1>4, <1>5, RestingLeaders, RestIsHarmless

LEMMA VoteIsHarmless ==
  ASSUME Steady, PanicInv, KeepsPromises, NEW p \in Server, NEW m \in voteRequests,
         HandleRequestVote(p, m)
  PROVE  Harmless
  <1>1. UNCHANGED <<up, rep, voteRequests, request, response, lateRequests>>
    BY DEF HandleRequestVote, callVars
  <1>2. ballots \subseteq ballots'
    BY DEF HandleRequestVote
  <1>3. \/ state' = [state EXCEPT ![p] = Follower]
           /\ nextIndex' = [nextIndex EXCEPT ![p] = NoIndices]
        \/ UNCHANGED <<state, nextIndex>> /\ ~(m.term > currentTerm[p])
    BY DEF HandleRequestVote, BecomeFollower, DropLeadership, leaderVars
  <1>4. currentTerm' = [currentTerm EXCEPT ![p] = Greater(@, m.term)]
    BY DEF HandleRequestVote
  <1>5. LeadersRest
    <2>1. /\ m.term \in Nat /\ currentTerm \in [Server -> Nat]
          /\ DOMAIN state = Server /\ DOMAIN nextIndex = Server
      BY DEF Steady, TypeInv, TypeOK, PeerTypes, LeaderTypes, ElectionTypes
    <2>2. CASE state' = [state EXCEPT ![p] = Follower] /\ nextIndex' = [nextIndex EXCEPT ![p] = NoIndices]
      BY <1>4, <2>1, <2>2 DEF LeadersRest, Follower, Leader
    <2>3. CASE UNCHANGED <<state, nextIndex>> /\ ~(m.term > currentTerm[p])
      <3>1. currentTerm' = currentTerm
        BY <1>4, <2>1, <2>3 DEF Greater
      <3>. QED BY <2>3, <3>1 DEF LeadersRest
    <2>. QED BY <1>3, <2>2, <2>3
  <1>6. VotesGrow /\ AsksWithLogs /\ lateRequests' = {} /\ NoPanic' /\ CallsRest
    BY <1>1, <1>2 DEF VotesGrow, AsksWithLogs, PanicInv, NoPanic, CallsRest
  <1>. QED BY <1>1, <1>5, <1>6, RestingLeaders, RestIsHarmless

LEMMA VoteReplyIsHarmless ==
  ASSUME Steady, Steady', PanicInv, KeepsPromises, NEW m \in voteResponses, HandleRequestVoteRespond(m)
  PROVE  Harmless
  <1>. DEFINE p == m.cand
  <1>1. /\ p \in Server
        /\ UNCHANGED <<up, rep, voteRequests, ballots, request, response, lateRequests>>
    BY DEF HandleRequestVoteRespond, callVars, Steady, TypeInv, TypeOK, ElectionTypes
  <1>2. \/ /\ state' = [state EXCEPT ![p] = Follower]
           /\ nextIndex' = [nextIndex EXCEPT ![p] = NoIndices]
           /\ currentTerm' = [currentTerm EXCEPT ![p] = Greater(@, m.resTerm)]
        \/ UNCHANGED <<state, currentTerm, nextIndex>>
        \/ BecomeLeader(p) /\ currentTerm' = currentTerm
    BY DEF HandleRequestVoteRespond, BecomeFollower, DropLeadership, UpdateTerm, leaderVars
  <1>. HIDE DEF p
  <1>3. \A s \in Server : \A q \in Server \ {s} : NextMoves(s, q)
    <2>1. CASE BecomeLeader(p) /\ currentTerm' = currentTerm
      <3>1. /\ \A q \in Server : nextIndex'[p][q] = LogLen(rep[p])
            /\ \A s \in Server : s # p => state'[s] = state[s] /\ nextIndex'[s] = nextIndex[s]
        BY <1>1, <2>1 DEF BecomeLeader, Steady, TypeInv, TypeOK, PeerTypes, LeaderTypes
      <3>2. LogLen(rep[p]) = LastIndex(rep'[p]) + 1
        BY <1>1, ReplicaParts DEF LastIndex, Steady, TypeInv, TypeOK, ReplicaTypes
      <3>. QED BY <1>1, <2>1, <3>1, <3>2 DEF NextMoves
    <2>2. CASE \/ /\ state' = [state EXCEPT ![p] = Follower]
                  /\ nextIndex' = [nextIndex EXCEPT ![p] = NoIndices]
                  /\ currentTerm' = [currentTerm EXCEPT ![p] = Greater(@, m.resTerm)]
               \/ UNCHANGED <<state, currentTerm, nextIndex>>
      <3>1. LeadersRest
        BY <1>1, <2>2 DEF LeadersRest, Follower, Leader, Steady, TypeInv, TypeOK, PeerTypes,
                                LeaderTypes
      <3>. QED BY <1>1, <3>1, RestingLeaders
    <2>. QED BY <1>2, <2>1, <2>2
  <1>. QED BY <1>1, <1>3, Elsewhere, RestIsHarmless

LEMMA AppendIsHarmless ==
  ASSUME Steady, Steady', PanicInv, KeepsPromises, NEW p \in Server, NEW cmd \in Cmd,
         state[p] = Leader, LeaderAppend(p, cmd),
         UNCHANGED <<up, state, currentTerm, nextIndex, voteRequests, ballots, request, response,
                     lateRequests>>
  PROVE  Harmless
  <1>. DEFINE e == [term |-> currentTerm[p], cmd |-> cmd]
  <1>1. /\ rep' = [rep EXCEPT ![p] = AppendEntry(rep[p], e)] /\ Save(p)
    BY DEF LeaderAppend
  <1>2. /\ rep'[p] = AppendEntry(rep[p], e)
        /\ \A s \in Server : s # p => rep'[s] = rep[s]
        /\ rep[p] \in Replica /\ e \in Entry /\ e.term = currentTerm[p]
    BY <1>1 DEF Steady, TypeInv, TypeOK, ReplicaTypes, PeerTypes, Entry
  <1>. HIDE DEF e
  <1>3. /\ LastIndex(rep'[p]) = LastIndex(rep[p]) + 1
        /\ TermAt(rep'[p], LastIndex(rep'[p])) = currentTerm[p]
    <2>1. /\ LastIndex(AppendEntry(rep[p], e)) = LastIndex(rep[p]) + 1
          /\ TermIn(Chunk(AppendEntry(rep[p], e)), LastIndex(rep[p]) + 1) = e.term
      BY <1>2, AppendedChunk
    <2>2. TermIn(Chunk(rep'[p]), LastIndex(rep'[p])) = TermAt(rep'[p], LastIndex(rep'[p]))
      BY ChunkOfReplica DEF Steady, TypeInv, TypeOK, ReplicaTypes
    <2>. QED BY <1>2, <2>1, <2>2
  <1>4. /\ memory'[p].currentTerm = currentTerm[p]
        /\ \A s \in Server : s # p => rep'[s].log = rep[s].log
    BY <1>1, <1>2, SaveWritesLog DEF Steady
  <1>5. \A q \in Server : LogMoves(q)
    BY <1>4 DEF LogMoves
  <1>6. ASSUME NEW s \in Server, NEW q \in Server \ {s} PROVE NextMoves(s, q)
    <2>1. CASE s = p
      <3>1. nextIndex[p][q] <= LastIndex(rep[p]) + 1
        BY <1>6, <2>1 DEF PanicInv, NextInLog
      <3>2. nextIndex[p][q] \in Int
        BY DEF Steady, TypeInv, TypeOK, LeaderTypes
      <3>3. LastIndex(rep[p]) \in Nat
        BY LogParts
      <3>. QED BY <1>3, <2>1, <3>1, <3>2, <3>3 DEF NextMoves
    <2>2. CASE s # p
      BY <1>2, <2>2 DEF NextMoves
    <2>. QED BY <2>1, <2>2
  <1>. QED BY <1>5, <1>6, Elsewhere DEF Harmless, KeepsPromises, CallsRest, CallMoves

LEMMA CommitRequestIsHarmless ==
  ASSUME SnapshotThreshold > MaxIndex + 1, Steady, PanicInv, KeepsPromises,
         NEW p \in Server, NEW i \in 1 .. MaxIndex, CommitRequest(p, i)
  PROVE  Harmless
  <1>1. /\ up[p] /\ rep' = [rep EXCEPT ![p] = UpdateCommitIndex(rep[p], i)]
        /\ UNCHANGED <<up, state, currentTerm, nextIndex, voteRequests, ballots, request, response,
                       lateRequests>>
    BY DEF CommitRequest, electionVars, callVars
  <1>2. Sound(rep[p]) /\ Short(rep[p]) /\ i \in Nat
    BY <1>1, UpIsSound, BoundAssumption DEF Steady, TypeInv, TypeOK, ShapeInv, Uncompacted, Short
  <1>3. UpdateCommitIndex(rep[p], i).log = rep[p].log
    BY <1>2, ShortCommitIs
  <1>4. \A s \in Server : rep'[s].log = rep[s].log
    BY <1>1, <1>3 DEF Steady, TypeInv, TypeOK, ReplicaTypes
  <1>5. LeadersRest
    BY <1>1 DEF LeadersRest
  <1>. QED BY <1>1, <1>4, <1>5, Elsewhere, RestingLeaders, RestIsHarmless

LEMMA RestartIsHarmless ==
  ASSUME Steady, Durable, ~LateDelivery, ReplicationInv, PanicInv, KeepsPromises,
         NEW p \in Server, Crash(p) \/ Stop(p)
  PROVE  Harmless
  <1>. DEFINE d == memory[p]
  <1>1. NewProcess(p, d)
    <2>1. CASE Stop(p)
      BY <2>1 DEF Stop
    <2>2. CASE Crash(p)
      <3>1. ~Hybrid
        <4>1. restarts \in Nat /\ restarts < MaxCrashes
          BY <2>2 DEF Crash, Steady, TypeInv, TypeOK, CallTypes
        <4>. QED BY <4>1 DEF Durable
      <3>2. memory = disk
        BY <3>1 DEF Steady, ElectionInv
      <3>. QED BY <2>2, <3>2 DEF Crash
    <2>. QED BY <2>1, <2>2
  <1>2. ~LoadPanics(d.log, d.snapshot, d.commitIndex)
    <2>1. /\ d.log = rep[p].log /\ d.snapshot = rep[p].snapshot
          /\ d.commitIndex = rep[p].commitIndex /\ rep[p].commitIndex <= LastIndex(rep[p])
      BY DEF Steady, LogInv, LogIsSaved, ReplicationInv, CommitsAreChosen, AppliedIsCommitted
    <2>2. /\ LastIndex(rep[p]) = Len(rep[p].log) + Base(rep[p]) /\ rep[p].commitIndex \in Nat
          /\ LastIndex(rep[p]) \in Int
      BY LogParts, ReplicaParts
    <2>. QED BY <2>1, <2>2 DEF LoadPanics, Base
  <1>3. rep' = rep
    <2>1. rep' = [rep EXCEPT ![p] = Reload(d.log, d.snapshot, d.commitIndex)]
      BY <1>1 DEF NewProcess
    <2>. QED BY <2>1, ReloadsReplica DEF Steady, TypeInv, TypeOK, ReplicaTypes
  <1>. HIDE DEF d
  <1>4. /\ up' = [up EXCEPT ![p] = TRUE] /\ state' = [state EXCEPT ![p] = Follower]
        /\ nextIndex' = [nextIndex EXCEPT ![p] = NoIndices]
        /\ currentTerm' = [currentTerm EXCEPT ![p] = d.currentTerm]
        /\ request' = [request EXCEPT ![p] = NoCalls]
        /\ response' = [response EXCEPT ![p] = NoCalls]
        /\ UNCHANGED <<voteRequests, ballots, lateRequests>>
    BY <1>1, <1>2 DEF NewProcess, DropLeadership
  <1>5. NoPanic'
    BY <1>4 DEF PanicInv, NoPanic, Steady, TypeInv, TypeOK, PeerTypes
  <1>6. /\ \A s \in Server : s # p =>
             /\ currentTerm'[s] = currentTerm[s] /\ state'[s] = state[s]
             /\ request'[s] = request[s] /\ response'[s] = response[s]
             /\ nextIndex'[s] = nextIndex[s]
        /\ state'[p] = Follower /\ request'[p] = NoCalls
    BY <1>4 DEF Steady, TypeInv, TypeOK, PeerTypes, CallTypes, LeaderTypes
  <1>7. LeadersRest
    BY <1>6 DEF LeadersRest, Follower, Leader
  <1>8. CallsRest
    BY <1>6 DEF CallsRest, NoCalls
  <1>9. VotesGrow /\ AsksWithLogs /\ lateRequests' = {}
    BY <1>4 DEF VotesGrow, AsksWithLogs, PanicInv
  <1>. QED BY <1>3, <1>5, <1>7, <1>8, <1>9, RestingLeaders, RestIsHarmless

LEMMA SendIsHarmless ==
  ASSUME Steady, PanicInv, ReplicationInv, KeepsPromises, NEW p \in Server, NEW q \in Server,
         SendAppendEntries(p, q)
  PROVE  Harmless
  <1>. DEFINE prev == nextIndex[p][q] - 1
  <1>1. /\ state[p] = Leader /\ request[p][q] = Nil /\ p # q /\ nextIndex[p][q] > 0
        /\ UNCHANGED <<state, currentTerm, rep, memory, nextIndex, voteRequests, ballots,
                       lateRequests, response>>
        /\ Readable(rep[p], prev) => up' = up
    BY DEF SendAppendEntries, MayCall, electionVars, storageVars, leaderVars
  <1>2. Readable(rep[p], prev)
    <2>1. nextIndex[p][q] \in Int /\ LastIndex(rep[p]) \in Nat
      BY LogParts DEF Steady, TypeInv, TypeOK, LeaderTypes
    <2>2. Base(rep[p]) = -1 /\ LogLen(rep[p]) = LastIndex(rep[p]) + 1
      BY UncompactedLogs, LogParts, ReplicaParts DEF Steady, LastIndex
    <2>3. nextIndex[p][q] <= LastIndex(rep[p]) + 1
      BY <1>1 DEF PanicInv, NextInLog
    <2>. QED BY <1>1, <2>1, <2>2, <2>3 DEF Readable
  <1>3. NoPanic'
    BY <1>1, <1>2 DEF PanicInv, NoPanic
  <1>. HIDE DEF prev
  <1>4. VotesGrow /\ AsksWithLogs /\ lateRequests' = {}
    BY <1>1 DEF VotesGrow, AsksWithLogs, PanicInv
  <1>5. LeadersRest
    BY <1>1 DEF LeadersRest
  <1>6. \A s \in Server : \A u \in Server \ {s} : NextMoves(s, u)
    BY <1>1, <1>5, RestingLeaders
  <1>7. CASE request' = request
    <2>1. CallsRest
      BY <1>1, <1>7 DEF CallsRest
    <2>. QED BY <1>1, <1>3, <1>4, <1>6, <2>1, RestIsHarmless
  <1>8. ASSUME NEW f, CallOf(p, q, f), request' = [request EXCEPT ![p][q] = f]
        PROVE  Harmless
    <2>1. /\ request'[p][q] = f
          /\ \A s, u \in Server : ~(s = p /\ u = q) => request'[s][u] = request[s][u]
      BY <1>8 DEF Steady, TypeInv, TypeOK, CallTypes
    <2>2. response[p][q] = Nil
      BY <1>1 DEF ReplicationInv, CallsFollowTerms
    <2>3. /\ f.term = currentTerm[p] /\ f.prevLogIndex = nextIndex[p][q] - 1
          /\ SuffixOf(f, Chunk(rep[p])) /\ LastSent(f) = LastIndex(rep[p])
      BY <1>8 DEF CallOf
    <2>4. CallMoves(p, q)
      BY <1>1, <2>1, <2>2, <2>3 DEF CallMoves
    <2>5. \A s, u \in Server : CallMoves(s, u)
      BY <1>1, <2>1, <2>4 DEF CallMoves
    <2>. QED BY <1>1, <1>3, <1>4, <1>6, <2>5 DEF Harmless, KeepsPromises, LogMoves
  <1>. QED BY <1>7, <1>8, SentCall DEF Steady

LEMMA CallFailsIsHarmless ==
  ASSUME Steady, ~LateDelivery, PanicInv, KeepsPromises, NEW p \in Server, NEW q \in Server,
         CallFails(p, q)
  PROVE  Harmless
  <1>1. /\ request' = [request EXCEPT ![p][q] = Nil] /\ response' = [response EXCEPT ![p][q] = Nil]
        /\ UNCHANGED <<up, state, currentTerm, rep, nextIndex, voteRequests, ballots, lateRequests>>
    BY DEF CallFails, electionVars, leaderVars
  <1>2. CallsRest
    BY <1>1 DEF CallsRest, Steady, TypeInv, TypeOK, CallTypes
  <1>3. LeadersRest
    BY <1>1 DEF LeadersRest
  <1>4. VotesGrow /\ AsksWithLogs /\ lateRequests' = {} /\ NoPanic'
    BY <1>1 DEF VotesGrow, AsksWithLogs, PanicInv, NoPanic
  <1>. QED BY <1>1, <1>2, <1>3, <1>4, RestingLeaders, RestIsHarmless

LEMMA HandleResIsHarmless ==
  ASSUME Steady, RepliesInTime, ReplicationInv, PanicInv, KeepsPromises,
         NEW p \in Server, NEW q \in Server, HandleAppendEntriesRes(p, q)
  PROVE  Harmless
  <1>. DEFINE f == request[p][q]
  <1>1. /\ Answered(p, q) /\ f # Nil /\ Outstanding(p, q)
        /\ request' = [request EXCEPT ![p][q] = Nil] /\ response' = [response EXCEPT ![p][q] = Nil]
        /\ UNCHANGED <<up, rep, voteRequests, ballots, lateRequests>>
    BY DEF HandleAppendEntriesRes, Answered, Outstanding
  <1>2. CallsRest
    BY <1>1 DEF CallsRest, Steady, TypeInv, TypeOK, CallTypes
  <1>3. VotesGrow /\ AsksWithLogs /\ lateRequests' = {} /\ NoPanic'
    BY <1>1 DEF VotesGrow, AsksWithLogs, PanicInv, NoPanic
  <1>4. \A s \in Server : \A u \in Server \ {s} : NextMoves(s, u)
    <2>1. ASSUME LeadersRest PROVE \A s \in Server : \A u \in Server \ {s} : NextMoves(s, u)
      BY <1>1, <2>1, RestingLeaders
    <2>2. CASE \E t : /\ state' = [state EXCEPT ![p] = Follower]
                      /\ nextIndex' = [nextIndex EXCEPT ![p] = NoIndices]
                      /\ currentTerm' = [currentTerm EXCEPT ![p] = Greater(@, t)]
      <3>1. LeadersRest
        BY <2>2 DEF LeadersRest, Follower, Leader, Steady, TypeInv, TypeOK, PeerTypes, LeaderTypes
      <3>. QED BY <2>1, <3>1
    <2>3. CASE UNCHANGED <<state, currentTerm, nextIndex>>
      <3>1. LeadersRest
        BY <2>3 DEF LeadersRest
      <3>. QED BY <2>1, <3>1
    <2>4. ASSUME NEW n, UNCHANGED <<state, currentTerm>>, state[p] = Leader,
                 nextIndex' = [nextIndex EXCEPT ![p][q] = n],
                 q # p => NextMoves(p, q)
          PROVE  \A s \in Server : \A u \in Server \ {s} : NextMoves(s, u)
      <3>1. \A s, u \in Server : ~(s = p /\ u = q) => nextIndex'[s][u] = nextIndex[s][u]
        BY <2>4 DEF Steady, TypeInv, TypeOK, LeaderTypes
      <3>. QED BY <1>1, <2>4, <3>1 DEF NextMoves
    <2>5. f.term = currentTerm[p] \/ state[p] # Leader
      BY <1>1 DEF RepliesInTime
    <2>6. CASE /\ state[p] = Leader /\ ~response[p][q].success
               /\ response[p][q].term <= currentTerm[p]
               /\ nextIndex' = [nextIndex EXCEPT ![p][q] = @ - 1]
               /\ UNCHANGED <<state, currentTerm, memory>>
      <3>1. Fits(q, currentTerm[p], LastIndex(rep[p]), TermAt(rep[p], LastIndex(rep[p])))
        BY <1>1, <2>5, <2>6, RefusalFits DEF PanicInv
      <3>2. nextIndex[p][q] \in Int /\ nextIndex'[p][q] = nextIndex[p][q] - 1
        BY <2>6 DEF Steady, TypeInv, TypeOK, LeaderTypes
      <3>3. nextIndex'[p][q] <= nextIndex[p][q]
        BY <3>2
      <3>4. NextMoves(p, q)
        BY <1>1, <2>6, <3>1, <3>3 DEF NextMoves
      <3>. QED BY <2>4, <2>6, <3>4
    <2>7. CASE /\ state[p] = Leader /\ nextIndex' = [nextIndex EXCEPT ![p][q] = LastSent(f) + 1]
               /\ UNCHANGED <<state, currentTerm, memory>>
      <3>1. /\ LastSent(f) <= LastIndex(rep[p])
            /\ LastSent(f) < LastIndex(rep[p]) =>
                 TermAt(rep[p], LastIndex(rep[p])) = currentTerm[p]
        BY <1>1, <2>5, <2>7, CallOfLeader
      <3>2. LastSent(f) \in Nat
        BY <1>1, CallParts
      <3>3. LastIndex(rep[p]) \in Nat
        BY LogParts
      <3>. HIDE DEF f
      <3>4. nextIndex'[p][q] = LastSent(f) + 1
        BY <2>7 DEF Steady, TypeInv, TypeOK, LeaderTypes
      <3>5. NextMoves(p, q)
        BY <1>1, <2>7, <3>1, <3>2, <3>3, <3>4 DEF NextMoves
      <3>. QED BY <2>4, <2>7, <3>5
    <2>. QED BY <2>2, <2>3, <2>6, <2>7 DEF HandleAppendEntriesRes, UpdateTerm, BecomeFollower,
                                           DropLeadership, leaderVars, storageVars
  <1>. QED BY <1>1, <1>2, <1>3, <1>4, RestIsHarmless

\* The receiver of a call answers it.
LEMMA ReceiveIsHarmless ==
  ASSUME SnapshotThreshold > MaxIndex + 1, Steady, Steady', ReplicationInv, PanicInv,
         KeepsPromises, NEW p \in Server, NEW q \in Server, ReceiveAppendEntries(p, q)
  PROVE  Harmless
  <1>. DEFINE f == request[p][q]
              r == rep[q]
              s == MergeEntries(r, f.prevLogIndex, f.entries)
  <1>1. /\ Waiting(p, q) /\ f # Nil /\ response[p][q] = Nil /\ HandleAppendEntries(q, p, f)
        /\ up'[q] => request' = request /\ response' = [response EXCEPT ![p][q] = AppendReply(q, f)]
        /\ lateRequests' = lateRequests /\ up[q]
        /\ UNCHANGED <<voteRequests, ballots>>
    BY DEF ReceiveAppendEntries, Answer, Waiting, HandleAppendEntries, electionVars
  <1>2. ~AppendPanics(q, f)
    BY <1>1, CallIsHarmless DEF PanicInv
  <1>3. /\ f.term \in Nat /\ currentTerm[q] \in Nat /\ f \in Requests /\ f \in AppendEntriesReq
        /\ IsChunk(f) /\ f.prevLogIndex \in Nat /\ f.entries \in Seq(Entry)
        /\ LastSent(f) = f.prevLogIndex + Len(f.entries) /\ Len(f.entries) \in Nat
    BY <1>1, CallParts, LogParts
  <1>4. f.leaderCommit \in Nat /\ LastSent(f) <= MaxIndex
    BY <1>3, RequestTypes DEF Steady, Uncompacted, NoSnapshotIsSent, AppendEntriesReq
  <1>5. Sound(r) /\ Short(r) /\ r \in Replica
    BY <1>1, UpIsSound, LogParts DEF Steady, TypeInv, TypeOK, ShapeInv, Uncompacted, Short
  <1>. HIDE DEF f, s
  <1>6. up'[q] /\ NoPanic'
    <2>1. \/ up' = up
          \/ up' = [up EXCEPT ![q] = TRUE]
      BY <1>1, <1>2 DEF HandleAppendEntries
    <2>. QED BY <1>1, <2>1 DEF PanicInv, NoPanic, Steady, TypeInv, TypeOK, PeerTypes
  <1>7. /\ request' = request /\ response'[p][q] = AppendReply(q, f)
        /\ \A v, u \in Server : ~(v = p /\ u = q) => response'[v][u] = response[v][u]
    BY <1>1, <1>6 DEF Steady, TypeInv, TypeOK, CallTypes
  <1>8. CASE f.term < currentTerm[q]
    <2>1. UNCHANGED <<state, currentTerm, rep, nextIndex>>
      BY <1>1, <1>8 DEF HandleAppendEntries, leaderVars
    <2>2. LeadersRest
      BY <2>1 DEF LeadersRest
    <2>3. \A v, u \in Server : CallMoves(v, u)
      BY <1>1, <1>3, <1>7, <1>8 DEF CallMoves, f
    <2>. QED BY <1>1, <1>6, <2>1, <2>2, <2>3, RestingLeaders
         DEF Harmless, KeepsPromises, LogMoves, VotesGrow, AsksWithLogs, PanicInv
  <1>9. CASE ~(f.term < currentTerm[q])
    <2>1. /\ currentTerm' = [currentTerm EXCEPT ![q] = Greater(@, f.term)]
          /\ state' = [state EXCEPT ![q] = Follower]
          /\ nextIndex' = [nextIndex EXCEPT ![q] = NoIndices]
          /\ rep' = IF Consistent(q, f)
                      THEN [rep EXCEPT ![q] = UpdateCommitIndex(s, f.leaderCommit)]
                      ELSE rep
          /\ Save(q)
      BY <1>1, <1>2, <1>9 DEF HandleAppendEntries, UpdateTerm, DropLeadership, s, f
    <2>2. currentTerm'[q] = f.term /\ memory'[q].currentTerm = f.term
      <3>1. currentTerm'[q] = f.term
        BY <1>3, <1>9, <2>1 DEF Steady, TypeInv, TypeOK, PeerTypes, Greater
      <3>. QED BY <2>1, <3>1, SaveWritesLog DEF Steady
    <2>3. /\ state'[q] = Follower
          /\ \A v \in Server : v # q => /\ state'[v] = state[v] /\ currentTerm'[v] = currentTerm[v]
                                        /\ nextIndex'[v] = nextIndex[v] /\ rep'[v] = rep[v]
      BY <2>1 DEF Steady, TypeInv, TypeOK, PeerTypes, ReplicaTypes, LeaderTypes
    <2>4. ~Consistent(q, f) => rep'[q].log = rep[q].log
      BY <2>1
    <2>5. Consistent(q, f) => \/ rep'[q].log = rep[q].log
                              \/ LastIndex(rep'[q]) = LastSent(f)
      <3>. SUFFICES ASSUME Consistent(q, f)
                    PROVE  rep'[q].log = rep[q].log \/ LastIndex(rep'[q]) = LastSent(f)
        OBVIOUS
      <3>1. Readable(r, f.prevLogIndex) /\ LogLen(r) \in Int
        BY <1>5, ReplicaParts DEF Consistent
      <3>2. Base(r) <= f.prevLogIndex /\ f.prevLogIndex <= LastIndex(r)
        BY <1>3, <3>1 DEF Readable, LastIndex
      <3>3. Sound(s) /\ Short(s)
        BY <1>3, <1>4, <1>5, <3>1, ShortMerge DEF s
      <3>4. rep'[q].log = s.log /\ rep'[q].snapshot = s.snapshot
        <4>1. rep'[q] = UpdateCommitIndex(s, f.leaderCommit)
          BY <2>1 DEF Steady, TypeInv, TypeOK, ReplicaTypes
        <4>. QED BY <1>4, <3>3, <4>1, ShortCommitIs
      <3>5. CASE f.entries = <<>>
        BY <3>4, <3>5 DEF s, MergeEntries
      <3>6. CASE f.entries # <<>>
        <4>1. LastIndex(s) = f.prevLogIndex + Len(f.entries)
          BY <1>3, <1>5, <3>2, <3>6, MergedLog DEF s
        <4>2. LastIndex(rep'[q]) = LastIndex(s)
          BY <3>4 DEF LastIndex, LogLen, Base
        <4>. QED BY <1>3, <4>1, <4>2
      <3>. QED BY <3>5, <3>6
    <2>6. LogMoves(q)
      <3>1. response'[p][q] # Nil
        BY <1>1, <1>7, RepliesAreNotNil DEF f
      <3>. QED BY <1>1, <2>2, <2>4, <2>5, <3>1 DEF LogMoves, f
    <2>7. \A u \in Server : LogMoves(u)
      BY <2>3, <2>6 DEF LogMoves
    <2>8. \A v, u \in Server : CallMoves(v, u)
      BY <1>1, <1>7, <2>2, <2>4 DEF CallMoves, f
    <2>9. \A v \in Server : \A u \in Server \ {v} : NextMoves(v, u)
      BY <2>3 DEF NextMoves, Follower, Leader
    <2>. QED BY <1>1, <1>6, <2>7, <2>8, <2>9
         DEF Harmless, KeepsPromises, VotesGrow, AsksWithLogs, PanicInv
  <1>. QED BY <1>8, <1>9

LEMMA StepIsHarmless ==
  ASSUME SnapshotThreshold > MaxIndex + 1, Durable, ~LateDelivery, Steady, Steady', RepliesInTime,
         ReplicationInv, PanicInv, KeepsPromises, [Next]_vars
  PROVE  Harmless
  <1>1. CASE UNCHANGED vars
    BY <1>1, IdleIsHarmless DEF vars, callVars, electionVars, leaderVars, LeadersRest
  <1>2. ASSUME NEW p \in Server, FollowerRearm(p) \/ Flush(p)
        PROVE  Harmless
    BY <1>2, IdleIsHarmless DEF FollowerRearm, Flush, electionVars, callVars, leaderVars, LeadersRest
  <1>3. ASSUME NEW p \in Server, NEW cmd \in Command, ClientRequest(p, cmd)
        PROVE  Harmless
    BY <1>3, AppendIsHarmless DEF ClientRequest, electionVars, callVars, Cmd
  <1>4. ASSUME NEW p \in Server, AppendNoop(p)
        PROVE  Harmless
    <2>1. UNCHANGED <<up, state, currentTerm, nextIndex, voteRequests, ballots, request, response,
                      lateRequests>>
      BY <1>4 DEF AppendNoop, electionVars, callVars
    <2>2. CASE state[p] = Leader
      BY <1>4, <2>1, <2>2, AppendIsHarmless DEF AppendNoop, Cmd
    <2>3. CASE state[p] # Leader
      BY <1>4, <2>1, <2>3, IdleIsHarmless DEF AppendNoop, LeadersRest
    <2>. QED BY <2>2, <2>3
  <1>5. ASSUME NEW p \in Server, NEW q \in Server,
               SendInstallSnapshot(p, q) \/ HandleInstallSnapshotRes(p, q)
                 \/ ReceiveInstallSnapshot(p, q)
        PROVE  FALSE
    <2>1. ~SendInstallSnapshot(p, q)
      BY DEF SendInstallSnapshot, SendsSnapshot, Steady, Uncompacted
    <2>2. /\ request[p][q] # Nil /\ request[p][q].type = "InstallSnapshot"
      BY <1>5, <2>1 DEF ReceiveInstallSnapshot, HandleInstallSnapshotRes, Answered, Waiting,
                        HandleInstallSnapshot
    <2>3. request[p][q] \in Requests
      BY <2>2, RequestsUnfold
    <2>. QED BY <2>2, <2>3 DEF Steady, Uncompacted
  <1>6. lateRequests = {}
    BY DEF PanicInv
  <1>7. CASE Next
    BY <1>2, <1>3, <1>4, <1>5, <1>6, <1>7, CandidacyIsHarmless, VoteIsHarmless, VoteReplyIsHarmless,
       CommitRequestIsHarmless, RestartIsHarmless, SendIsHarmless, CallFailsIsHarmless,
       HandleResIsHarmless, ReceiveIsHarmless DEF Next
  <1>. QED BY <1>1, <1>7

LEMMA InitPanic ==
  ASSUME Init
  PROVE  PanicInv
  <1>1. \A p, q \in Server : up[p] /\ state[p] = Follower /\ request[p][q] = Nil
    BY DEF Init, NoCalls
  <1>2. lateRequests = {} /\ voteRequests = {}
    BY DEF Init
  <1>3. Follower # Leader
    BY DEF Follower, Leader
  <1>. QED BY <1>1, <1>2, <1>3
       DEF PanicInv, CallsFit, NextFits, FailuresFit, NextInLog, CallersWon, CandidatesLogsAreWon,
           NoPanic, Waiting, Answered

\* No handler reads past the end of a request or of a log, finds that a leader would have it
\* override what it committed, or loads a file that ends before its commitIndex (the panics
\* and the Fatalf of append_entry.go and peer.go), as long as calls do not come late, a
\* leader handles no reply to a call of an earlier term, and nothing is compacted.
THEOREM NothingPanics ==
  Durable /\ ~LateDelivery /\ SnapshotThreshold > MaxIndex + 1 /\ Spec /\ []RepliesInTime
    => []NoPanic
  <1>. SUFFICES ASSUME Durable, ~LateDelivery, SnapshotThreshold > MaxIndex + 1
                PROVE  Spec /\ []RepliesInTime => []NoPanic
    OBVIOUS
  <1>1. RepliesInTime => CallsInTime
    BY DEF RepliesInTime, CallsInTime
  <1>2. Init => PanicInv
    BY InitPanic
  <1>3. Steady /\ Steady' /\ SignalInv /\ ReplicationInv /\ RepliesInTime /\ PanicInv /\ [Next]_vars
          => PanicInv'
    BY StepKeeps, StepIsHarmless, HarmlessSuffices
  <1>4. PanicInv => NoPanic
    BY DEF PanicInv
  <1>. QED BY <1>1, <1>2, <1>3, <1>4, ReplicationInvHolds, PTL DEF Tame, Spec

=============================================================================

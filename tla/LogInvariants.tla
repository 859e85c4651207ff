---------------------------- MODULE LogInvariants ----------------------------
(***************************************************************************)
(* What makes the safety of replication inductive.  RaftProperties states  *)
(* what must hold; here is why it does: which entries there are, which     *)
(* election each of them comes from, and which of them can no longer be    *)
(* lost.                                                                   *)
(*                                                                         *)
(* A chunk is a stretch of a log: all that a replica still holds, or what  *)
(* an appendEntries call carries.  It is read by the fields of the call:   *)
(* the index and term of the entry before it, and its entries.             *)
(***************************************************************************)
EXTENDS RaftProperties

Chunk(r) == [prevLogIndex |-> Base(r), prevLogTerm |-> r.snapshot.term, entries |-> r.log]

\* every replication call that may still be handled, or whose reply may be
Requests == ({request[c[1]][c[2]] : c \in Server \X Server} \ {Nil})
              \cup {m.req : m \in lateRequests}

Chunks == {Chunk(rep[p]) : p \in Server} \cup Requests

\* the indices whose term a chunk tells, and those whose entry it holds
Positions(c) == c.prevLogIndex .. LastSent(c)
Indices(c)   == c.prevLogIndex + 1 .. LastSent(c)

TermIn(c, i) == IF i = c.prevLogIndex THEN c.prevLogTerm
                                      ELSE c.entries[i - c.prevLogIndex].term
CmdIn(c, i)  == c.entries[i - c.prevLogIndex].cmd

\* The entry at index i of two chunks is the same, and so is the term before it.
SameLink(c, d, i) == /\ TermIn(c, i) = TermIn(d, i)
                     /\ CmdIn(c, i) = CmdIn(d, i)
                     /\ TermIn(c, i - 1) = TermIn(d, i - 1)

\* m is the request for votes of a candidate that a majority voted for
Elected(m) == /\ m \in voteRequests
              /\ 2 * Cardinality(VotersFor(m.cand, m.term)) > N

\* the candidate of m no longer waits to win that election
Over(m) == currentTerm[m.cand] = m.term => state[m.cand] # Candidate

\* c ends a log that was m's at the election and has grown by entries of m's term
FromLeader(c, m) ==
  /\ m.lastLogIndex <= LastSent(c)
  /\ \A i \in Positions(c) : /\ i = m.lastLogIndex => TermIn(c, i) = m.lastLogTerm
                             /\ i > m.lastLogIndex => TermIn(c, i) = m.term

-----------------------------------------------------------------------------
\* log matching

\* the storage holds the log of memory, and no term that is not reached
LogIsSaved ==
  \A p \in Server : /\ memory[p].log = rep[p].log
                    /\ memory[p].snapshot = rep[p].snapshot
                    /\ memory[p].currentTerm <= currentTerm[p]
                    /\ \A i \in Positions(Chunk(rep[p])) :
                         TermIn(Chunk(rep[p]), i) <= memory[p].currentTerm

\* a candidate asks for votes once in a term, which it has saved
CandidaciesAreSaved ==
  /\ \A m, n \in voteRequests : m.cand = n.cand /\ m.term = n.term => m = n
  /\ \A m \in voteRequests : /\ m.lastLogTerm < m.term
                             /\ m.term <= memory[m.cand].currentTerm
  /\ \A b \in ballots : \E m \in voteRequests : m.cand = b[3] /\ m.term = b[2]

\* the log of a candidate is the one it asked for votes with
CandidatesKeepTheirLogs ==
  \A p \in Server : state[p] = Candidate =>
    \E m \in voteRequests : /\ m.cand = p /\ m.term = currentTerm[p]
                            /\ m.lastLogIndex = LastIndex(rep[p])
                            /\ m.lastLogTerm = TermIn(Chunk(rep[p]), LastIndex(rep[p]))

LeadersOnlyAppend ==
  \A p \in Server : state[p] = Leader =>
    \E m \in voteRequests : /\ m.cand = p /\ m.term = currentTerm[p] /\ Elected(m)
                            /\ FromLeader(Chunk(rep[p]), m)

RequestsAreLeaders ==
  \A c \in Requests : \E m \in voteRequests : /\ m.term = c.term /\ Elected(m)
                                              /\ FromLeader(c, m)

\* an index and a term identify an entry and the term of the one before it
LinksAgree ==
  \A c, d \in Chunks : \A i \in Indices(c) \cap Indices(d) :
    TermIn(c, i) = TermIn(d, i) => SameLink(c, d, i)

\* where the term rises, the log is that of a leader when it was elected
TermsBeginWithLeaders ==
  \A c \in Chunks : \A i \in Indices(c) :
    /\ TermIn(c, i - 1) <= TermIn(c, i)
    /\ TermIn(c, i - 1) < TermIn(c, i) =>
         \E m \in voteRequests : /\ m.term = TermIn(c, i) /\ Elected(m)
                                 /\ m.lastLogIndex = i - 1
                                 /\ m.lastLogTerm = TermIn(c, i - 1)

\* a term in a log was won, by a log shorter than that, and the winner knows
TermsAreWon ==
  \A c \in Chunks : \A i \in Positions(c) : TermIn(c, i) > 0 =>
    \E m \in voteRequests : /\ m.term = TermIn(c, i) /\ Elected(m)
                            /\ m.lastLogIndex < i /\ Over(m)

\* the log of a leader covers every entry of its term
LeadersKeepTheirTerm ==
  \A p \in Server : state[p] = Leader =>
    \A c \in Chunks : \A i \in Indices(c) :
      TermIn(c, i) = currentTerm[p] => i <= LastIndex(rep[p])

LogInv == /\ LogIsSaved /\ CandidaciesAreSaved /\ CandidatesKeepTheirLogs
          /\ LeadersOnlyAppend /\ RequestsAreLeaders /\ LinksAgree
          /\ TermsBeginWithLeaders /\ TermsAreWon /\ LeadersKeepTheirTerm

\* no peer has fallen so far behind that it is sent a snapshot
NoSnapshotIsSent == \A c \in Requests : c.type = "AppendEntries"

\* no log has reached the length at which it is replaced by a snapshot
Uncompacted ==
  /\ \A p \in Server : /\ rep[p].snapshot = NoSnapshot /\ LastIndex(rep[p]) <= MaxIndex
                       /\ memory[p].snapshot = NoSnapshot /\ disk[p].snapshot = NoSnapshot
                       /\ Len(memory[p].log) <= MaxIndex + 1
                       /\ Len(disk[p].log) <= MaxIndex + 1
  /\ \A c \in Requests : c.type = "AppendEntries" /\ LastSent(c) <= MaxIndex

-----------------------------------------------------------------------------
\* what can no longer be lost

\* the log that the candidate of m asked with reaches an entry (i, t), or is of a
\* later term
Covers(m, i, t) == \/ m.lastLogTerm > t
                   \/ m.lastLogTerm = t /\ m.lastLogIndex >= i

\* no log without the entry (i, t) has won an election after its term, so far
Safe(i, t) == \A m \in voteRequests : m.term > t /\ Elected(m) => Covers(m, i, t)

HasEntry(v, i, t) == /\ i \in Indices(Chunk(rep[v]))
                     /\ TermIn(Chunk(rep[v]), i) = t

\* v has the entry, and has voted for no candidate after its term without it
Locked(v, i, t) ==
  /\ HasEntry(v, i, t)
  /\ \A m \in voteRequests : m.term > t /\ <<v, m.term, m.cand>> \in ballots => Covers(m, i, t)

\* a majority has: every later leader will have it
Chosen(i, t) == t > 0 /\ 2 * Cardinality({v \in Server : Locked(v, i, t)}) > N

\* p has counted v for index i, or is about to
Acked(p, v, i) ==
  \/ matchIndex[p][v] >= i
  \/ /\ Answered(p, v) /\ Outstanding(p, v) /\ request[p][v].term = currentTerm[p]
     /\ response[p][v].success /\ LastSent(request[p][v]) >= i

\* no leader handles the reply to a call that it made in an earlier term
CallsInTime ==
  \A p, q \in Server :
    state[p] = Leader /\ Answered(p, q) /\ Outstanding(p, q) /\ response[p][q].success =>
      request[p][q].term = currentTerm[p]

CallsFollowTerms ==
  \A p, q \in Server :
    /\ request[p][q] = Nil => response[p][q] = Nil
    /\ request[p][q] # Nil =>
         /\ request[p][q].term <= currentTerm[p]
         /\ (state[p] = Candidate => request[p][q].term < currentTerm[p])

\* what a leader counts is in its log, and channels are for entries of its term
CountsAreInLog ==
  \A p \in Server : state[p] = Leader =>
    /\ \A q \in Server : /\ matchIndex[p][q] <= LastIndex(rep[p])
                         /\ (Outstanding(p, q) /\ request[p][q].term = currentTerm[p]) =>
                              LastSent(request[p][q]) <= LastIndex(rep[p])
    /\ \A i \in 1 .. MaxIndex : acks[p][i] > 0 => HasEntry(p, i, currentTerm[p])

\* whom a leader counts has the entry, and votes for nobody without it, unless it
\* is lost already, ...
CountedAreLocked ==
  \A p \in Server : \A v \in Server \ {p} : \A i \in Indices(Chunk(rep[p])) :
    /\ state[p] = Leader /\ HasEntry(p, i, currentTerm[p])
    /\ Acked(p, v, i) /\ Safe(i, currentTerm[p])
    => Locked(v, i, currentTerm[p])

\* the servers past the term of leader p that it has not counted for i, and never will
NeverCounted(p, i) ==
  {u \in Server \ {p} : memory[u].currentTerm > currentTerm[p] /\ ~Acked(p, u, i)}

\* ... and then a majority is never counted
LostAreNotCounted ==
  \A p \in Server : \A i \in Indices(Chunk(rep[p])) :
    /\ state[p] = Leader /\ HasEntry(p, i, currentTerm[p])
    /\ ~Safe(i, currentTerm[p])
    => 2 * Cardinality(NeverCounted(p, i)) > N

\* a commit index is that of a chosen entry, or below one; so is one on its way,
\* and the call that brings it brings a log that reaches the entry
CommitsAreChosen ==
  /\ \A p \in Server :
       /\ memory[p].commitIndex = rep[p].commitIndex
       /\ rep[p].commitIndex > 0 =>
            \E i \in Indices(Chunk(rep[p])) :
              rep[p].commitIndex <= i /\ Chosen(i, TermIn(Chunk(rep[p]), i))
  /\ \A c \in Requests : c.leaderCommit > 0 =>
       \E m \in voteRequests : \E i \in c.leaderCommit .. LastSent(c) :
         Chosen(i, m.term) /\ m.term <= TermIn(c, LastSent(c))

\* a state machine was fed the committed entries
AppliedIsCommitted ==
  \A p \in Server : /\ rep[p].commitIndex <= LastIndex(rep[p])
                    /\ rep[p].applied = Commands(rep[p], 1, rep[p].commitIndex)

ReplicationInv == /\ CallsFollowTerms /\ CountsAreInLog /\ CountedAreLocked
                  /\ LostAreNotCounted /\ CommitsAreChosen /\ AppliedIsCommitted

-----------------------------------------------------------------------------
\* why no handler panics

\* no leader handles a reply, good or bad, to a call that it made in an earlier term
RepliesInTime ==
  \A p, q \in Server :
    state[p] = Leader /\ Answered(p, q) /\ Outstanding(p, q) =>
      request[p][q].term = currentTerm[p]

\* the log of q reaches past index i, and has a term-t entry there
Outgrows(q, i, t) == i < LastIndex(rep[q]) /\ TermAt(rep[q], i) = t

\* Entries that end with (i, t), brought to q by the leader of a term, will not run
\* out before its log does: q has reached the term, if they end with an earlier
\* one, and its log does not outgrow them unless it is past the term.
Fits(q, term, i, t) ==
  /\ t < term => memory[q].currentTerm >= term
  /\ memory[q].currentTerm <= term => ~Outgrows(q, i, t)

\* the entries on their way fit ...
CallsFit ==
  \A p, q \in Server : Waiting(p, q) /\ Outstanding(p, q) /\ request[p][q].entries # <<>> =>
    LET f == request[p][q] IN Fits(q, f.term, LastSent(f), TermIn(f, LastSent(f)))

\* ... and so will those that a leader sends next
NextFits ==
  \A p \in Server : \A q \in Server \ {p} :
    state[p] = Leader /\ nextIndex[p][q] <= LastIndex(rep[p]) =>
      Fits(q, currentTerm[p], LastIndex(rep[p]), TermAt(rep[p], LastIndex(rep[p])))

\* whoever refused a call in its term has nothing that follows the entry it was about
FailuresFit ==
  \A p, q \in Server :
    LET f == request[p][q]
    IN /\ Answered(p, q) /\ Outstanding(p, q)
       /\ ~response[p][q].success /\ response[p][q].term <= f.term
       => /\ f.term <= memory[q].currentTerm
          /\ memory[q].currentTerm = f.term /\ f.prevLogIndex <= LastIndex(rep[q]) =>
               TermAt(rep[q], f.prevLogIndex) # f.prevLogTerm

\* a leader has the entry before the next it sends
NextInLog ==
  \A p \in Server : \A q \in Server \ {p} :
    state[p] = Leader => nextIndex[p][q] <= LastIndex(rep[p]) + 1

\* who calls has won the term of the call
CallersWon ==
  \A p, q \in Server : request[p][q] # Nil =>
    \E m \in voteRequests : m.cand = p /\ m.term = request[p][q].term /\ Elected(m)

\* the last term of a candidate's log was won, by a shorter log
CandidatesLogsAreWon ==
  \A m \in voteRequests : m.lastLogTerm > 0 =>
    \E n \in voteRequests : n.term = m.lastLogTerm /\ Elected(n) /\ n.lastLogIndex < m.lastLogIndex

\* What makes NoPanic inductive where no call and no reply comes late.
PanicInv == /\ lateRequests = {} /\ CallsFit /\ NextFits /\ FailuresFit /\ NextInLog
            /\ CallersWon /\ CandidatesLogsAreWon /\ NoPanic

=============================================================================

-------------------------------- MODULE Raft --------------------------------
(***************************************************************************)
(* The peers of src/raft: elections, log replication, snapshots, and what  *)
(* survives a crash.                                                       *)
(*                                                                         *)
(* A handler holds p.mutex from its first to its last access to the peer,  *)
(* so each handler is one action.  The goroutines of the code that release *)
(* the mutex in the middle are split where they release it: one goroutine  *)
(* per peer asked for its vote (awaiting), one per peer that a leader      *)
(* replicates to (request, response), one per client request (acks).       *)
(*                                                                         *)
(* A message that is lost is one that is never handled.                    *)
(***************************************************************************)
EXTENDS RaftLog

CONSTANTS
  Server,        \* the node IDs of the cluster
  Nil,           \* a nil pointer
  Hybrid,        \* is the storage a pstorage.Hybrid (a save reaches the file
                 \*   at the next flush) or written through at each save?
  LateDelivery,  \* may a request still be handled after its sender gave up?
  \* bounds of a finite instance:
  Timers,        \* the servers whose election timer fires
  MaxTerm,       \* the highest term a candidate starts
  MaxIndex,      \* the highest index a leader fills
  MaxCrashes,    \* how often a process crashes
  MaxStops,      \* how often a process is stopped in order
  MaxFailures,   \* how many replication calls fail
  MaxInFlight    \* how many replication calls are outstanding at a time

ASSUME ServerAssumption == IsFiniteSet(Server) /\ Nil \notin Server
ASSUME NilAssumption == Nil \notin [term : Nat, success : BOOLEAN]   \* and Nil is no reply
ASSUME SwitchAssumption == Hybrid \in BOOLEAN /\ LateDelivery \in BOOLEAN
ASSUME BoundAssumption == /\ Timers \subseteq Server
                          /\ MaxTerm \in Nat
                          /\ MaxIndex \in Nat
                          /\ MaxCrashes \in Nat
                          /\ MaxStops \in Nat
                          /\ MaxFailures \in Nat
                          /\ MaxInFlight \in Nat

Follower  == "Follower"
Candidate == "Candidate"
Leader    == "Leader"

VARIABLES
  up,               \* up[p]: the process of p has not panicked
  state,            \* p.state
  currentTerm,      \* p.currentTerm
  votedFor,         \* p.votedFor
  voteCount,        \* p.voteCount
  heardFromLeader,  \* p.heardFromLeader
  leaderID,         \* p.leaderID
  rep,              \* p.log, p.snapshot, p.commitIndex, p.stateMachine
  nextIndex,        \* p.nextIndex, all 0 when the map is nil
  matchIndex,       \* p.matchIndex, all 0 when the map is nil
  acks,             \* acks[p][i]: signals sent on the channel
                    \*   p.logIndexMajorityCheckChannel[i], 0 when there is none
  pendingNoop,      \* goroutines of p about to run onReceiveClientRequest(nil)
  awaiting,         \* <<c, t, v>>: a goroutine of c asks v for its vote in t
  voteRequests,     \* requestVote calls sent, one record for each election
  voteResponses,    \* replies to them on their way
  request,          \* request[p][q]: the appendEntries or installSnapshot call
                    \*   the replication goroutine of p for q waits for
  response,         \* response[p][q]: the reply to it, Nil until q sends one
  lateRequests,     \* calls whose sender gave up that may still be handled
  memory,           \* memory[p]: what p saved last
  disk,             \* disk[p]: what a new process of p will load
  restarts,         \* crashes and stops so far (a bound, nothing in the code)
  failures,         \* failed calls so far (the same)
  ballots           \* history, read by no action: <<v, t, c>>, v voted for c in t

electionVars == <<voteCount, awaiting, voteRequests, voteResponses, ballots>>
leaderVars   == <<nextIndex, matchIndex, acks>>
callVars     == <<request, response, lateRequests, failures>>
storageVars  == <<memory, disk>>
vars == <<up, state, currentTerm, votedFor, heardFromLeader, leaderID, rep,
          pendingNoop, restarts, electionVars, leaderVars, callVars, storageVars>>

N == Cardinality(Server)

\* Mutant: the vote is not part of what is saved.
PersistentData_NoVote(p) ==
  [currentTerm |-> currentTerm[p], votedFor |-> Nil,
   voteCount |-> voteCount[p], commitIndex |-> rep[p].commitIndex,
   log |-> rep[p].log, snapshot |-> rep[p].snapshot]

\* Mutant: the snapshot is not part of what is saved.
PersistentData_NoSnapshot(p) ==
  [currentTerm |-> currentTerm[p], votedFor |-> votedFor[p],
   voteCount |-> voteCount[p], commitIndex |-> rep[p].commitIndex,
   log |-> rep[p].log, snapshot |-> NoSnapshot]

\* what saveToPersistentStorage writes
PersistentData(p) ==
  [currentTerm |-> currentTerm[p], votedFor |-> votedFor[p],
   voteCount |-> voteCount[p], commitIndex |-> rep[p].commitIndex,
   log |-> rep[p].log, snapshot |-> rep[p].snapshot]

NoSignals == [i \in 1 .. MaxIndex |-> 0]
NoIndices == [q \in Server |-> 0]
NoCalls   == [q \in Server |-> Nil]

Init ==
  /\ up = [p \in Server |-> TRUE]
  /\ state = [p \in Server |-> Follower]
  /\ currentTerm = [p \in Server |-> 0]
  /\ votedFor = [p \in Server |-> Nil]
  /\ voteCount = [p \in Server |-> 0]
  /\ heardFromLeader = [p \in Server |-> FALSE]
  /\ leaderID = [p \in Server |-> Nil]
  /\ rep = [p \in Server |-> InitReplica]
  /\ nextIndex = [p \in Server |-> NoIndices]
  /\ matchIndex = [p \in Server |-> NoIndices]
  /\ acks = [p \in Server |-> NoSignals]
  /\ pendingNoop = [p \in Server |-> 0]
  /\ awaiting = {}
  /\ voteRequests = {}
  /\ voteResponses = {}
  /\ request = [p \in Server |-> NoCalls]
  /\ response = [p \in Server |-> NoCalls]
  /\ lateRequests = {}
  /\ memory = [p \in Server |-> PersistentData(p)]
  /\ disk = memory
  /\ restarts = 0
  /\ failures = 0
  /\ ballots = {}

-----------------------------------------------------------------------------
\* parts of the handlers

\* saveToPersistentStorage; it reads the state the handler leaves behind
Save(p) ==
  /\ memory' = [memory EXCEPT ![p] = PersistentData(p)']
  /\ disk' = IF Hybrid THEN disk ELSE [disk EXCEPT ![p] = PersistentData(p)']

\* updateTerm
UpdateTerm(p, term) ==
  /\ currentTerm' = [currentTerm EXCEPT ![p] = Greater(@, term)]
  /\ votedFor' = [votedFor EXCEPT ![p] = IF term > currentTerm[p] THEN Nil ELSE @]

\* changeState: the fields of a leader are dropped with its state
DropLeadership(p) ==
  /\ nextIndex' = [nextIndex EXCEPT ![p] = NoIndices]
  /\ matchIndex' = [matchIndex EXCEPT ![p] = NoIndices]
  /\ acks' = [acks EXCEPT ![p] = NoSignals]

\* changeState(Follower), which does nothing in a follower
BecomeFollower(p) ==
  /\ state' = [state EXCEPT ![p] = Follower]
  /\ heardFromLeader' = [heardFromLeader EXCEPT ![p] = @ /\ state[p] = Follower]
  /\ DropLeadership(p)

\* changeState(Leader); the heartbeats it triggers are SendAppendEntries
BecomeLeader(p) ==
  /\ state' = [state EXCEPT ![p] = Leader]
  /\ nextIndex' = [nextIndex EXCEPT ![p] = [q \in Server |-> LogLen(rep[p])]]
  /\ matchIndex' = [matchIndex EXCEPT ![p] = NoIndices]
  /\ acks' = [acks EXCEPT ![p] = NoSignals]

StartElection(p) ==
  /\ currentTerm[p] < MaxTerm
  /\ LET term == currentTerm[p] + 1
         last == LastIndex(rep[p])
     IN /\ currentTerm' = [currentTerm EXCEPT ![p] = term]
        /\ votedFor' = [votedFor EXCEPT ![p] = p]
        /\ voteCount' = [voteCount EXCEPT ![p] = 1]
        /\ ballots' = ballots \cup {<<p, term, p>>}
        /\ awaiting' = awaiting \cup {<<p, term, q>> : q \in Server \ {p}}
        /\ voteRequests' = voteRequests \cup
             {[cand |-> p, term |-> term, lastLogIndex |-> last,
               lastLogTerm |-> TermAt(rep[p], last)]}
        /\ UNCHANGED voteResponses
  /\ Save(p)

-----------------------------------------------------------------------------
\* timeoutLoop

\* a follower's timer fires after a quiet period: changeState(Candidate)
FollowerTimeout(p) ==
  /\ up[p] /\ state[p] = Follower /\ p \in Timers
  /\ ~heardFromLeader[p]
  /\ state' = [state EXCEPT ![p] = Candidate]
  /\ leaderID' = [leaderID EXCEPT ![p] = Nil]
  /\ UNCHANGED <<up, heardFromLeader, rep, pendingNoop, restarts, leaderVars, callVars>>
  /\ StartElection(p)

\* a follower's timer fires after it heard from a leader
FollowerRearm(p) ==
  /\ up[p] /\ state[p] = Follower /\ p \in Timers
  /\ heardFromLeader[p]
  /\ heardFromLeader' = [heardFromLeader EXCEPT ![p] = FALSE]
  /\ UNCHANGED <<up, state, currentTerm, votedFor, leaderID, rep, pendingNoop,
                 restarts, electionVars, leaderVars, callVars, storageVars>>

CandidateTimeout(p) ==
  /\ up[p] /\ state[p] = Candidate /\ p \in Timers
  /\ UNCHANGED <<up, state, heardFromLeader, leaderID, rep, pendingNoop, restarts,
                 leaderVars, callVars>>
  /\ StartElection(p)

-----------------------------------------------------------------------------
\* request_vote.go

(***************************************************************************)
(* A vote request stays available once sent: the goroutine of the          *)
(* candidate repeats it until it gets a reply.  The reply goes to a        *)
(* goroutine that still waits for one.                                     *)
(***************************************************************************)
\* Mutant: the vote already given in the term is not looked at.
WillGrant_IgnoresVotedFor(v, m) ==
  /\ m.term >= currentTerm[v]
  /\ ~MoreUpToDate(rep[v], m.lastLogIndex, m.lastLogTerm)

\* Mutant: the candidate's log is not compared with the voter's.
WillGrant_IgnoresLog(v, m) ==
  /\ m.term >= currentTerm[v]
  /\ m.term > currentTerm[v] \/ votedFor[v] = Nil

WillGrant(v, m) ==
  /\ m.term >= currentTerm[v]
  /\ ~MoreUpToDate(rep[v], m.lastLogIndex, m.lastLogTerm)
     \* the code's second disjunct compares two pointers and is never true
  /\ m.term > currentTerm[v] \/ votedFor[v] = Nil

\* a refusal changes nothing that nobody waits for, or that is on its way already
Refused(v, m) ==
  \/ <<m.cand, m.term, v>> \notin awaiting
  \/ [cand |-> m.cand, term |-> m.term, voter |-> v, resTerm |-> currentTerm[v],
      granted |-> FALSE] \in voteResponses

HandleRequestVote(v, m) ==
  /\ up[v] /\ v # m.cand
  /\ m.term > currentTerm[v] \/ WillGrant(v, m) \/ ~Refused(v, m)
  /\ currentTerm' = [currentTerm EXCEPT ![v] = Greater(@, m.term)]
  /\ IF m.term > currentTerm[v]
       THEN BecomeFollower(v)
       ELSE UNCHANGED <<state, heardFromLeader, leaderVars>>
  /\ IF WillGrant(v, m)
       THEN /\ votedFor' = [votedFor EXCEPT ![v] = m.cand]
            /\ ballots' = ballots \cup {<<v, m.term, m.cand>>}
       ELSE /\ votedFor' = [votedFor EXCEPT
                              ![v] = IF m.term > currentTerm[v] THEN Nil ELSE @]
            /\ UNCHANGED ballots
  /\ voteResponses' = voteResponses \cup
       {[cand |-> a[1], term |-> a[2], voter |-> v,
         resTerm |-> currentTerm'[v], granted |-> WillGrant(v, m)] :
           a \in awaiting \cap {<<m.cand, m.term, v>>}}
  /\ UNCHANGED <<up, voteCount, leaderID, rep, pendingNoop, awaiting, voteRequests,
                 callVars, restarts>>
  /\ IF WillGrant(v, m) THEN Save(v) ELSE UNCHANGED storageVars

HandleRequestVoteRespond(m) ==
  LET p == m.cand
  IN
  /\ up[p]
  /\ <<p, m.term, m.voter>> \in awaiting
  /\ UNCHANGED <<up, leaderID, rep, voteRequests, ballots, callVars, restarts>>
  /\ awaiting' = awaiting \ {<<p, m.term, m.voter>>}
  /\ voteResponses' = {r \in voteResponses :
                         <<r.cand, r.term, r.voter>> # <<p, m.term, m.voter>>}
  /\ \/ /\ m.resTerm > currentTerm[p]            \* steps down, does not save
        /\ UpdateTerm(p, m.resTerm)
        /\ BecomeFollower(p)
        /\ UNCHANGED <<voteCount, pendingNoop, storageVars>>
     \/ /\ m.resTerm <= currentTerm[p]            \* outdated
        /\ m.resTerm < currentTerm[p] \/ state[p] # Candidate
        /\ UNCHANGED <<state, currentTerm, votedFor, heardFromLeader, voteCount,
                       pendingNoop, leaderVars, storageVars>>
     \/ /\ m.resTerm = currentTerm[p] /\ state[p] = Candidate
        /\ voteCount' = [voteCount EXCEPT ![p] = IF m.granted THEN @ + 1 ELSE @]
        /\ IF m.granted /\ voteCount[p] + 1 > N \div 2
             THEN /\ BecomeLeader(p)
                  /\ pendingNoop' = [pendingNoop EXCEPT ![p] = @ + 1]
             ELSE UNCHANGED <<state, leaderVars, pendingNoop>>
        /\ UNCHANGED <<currentTerm, votedFor, heardFromLeader>>
        /\ Save(p)


-----------------------------------------------------------------------------
\* append_entry.go, the leader

(***************************************************************************)
(* onReceiveClientRequest up to where it waits on the channel it made.     *)
(* The channel already holds the signal of the leader itself.              *)
(***************************************************************************)
LeaderAppend(p, cmd) ==
  /\ LogLen(rep[p]) <= MaxIndex
  /\ rep' = [rep EXCEPT ![p] = AppendEntry(@, [term |-> currentTerm[p], cmd |-> cmd])]
  /\ acks' = [acks EXCEPT ![p][LogLen(rep[p])] = 1]
  /\ Save(p)

ClientRequest(p, cmd) ==
  /\ up[p] /\ state[p] = Leader
  /\ UNCHANGED <<up, state, currentTerm, votedFor, heardFromLeader, leaderID, pendingNoop,
                 nextIndex, matchIndex, electionVars, callVars, restarts>>
  /\ LeaderAppend(p, cmd)

\* the goroutine a new leader started to append its nil entry gets to run
AppendNoop(p) ==
  /\ up[p] /\ pendingNoop[p] > 0
  /\ pendingNoop' = [pendingNoop EXCEPT ![p] = @ - 1]
  /\ UNCHANGED <<up, state, currentTerm, votedFor, heardFromLeader, leaderID,
                 nextIndex, matchIndex, electionVars, callVars, restarts>>
  /\ IF state[p] = Leader
       THEN LeaderAppend(p, NoOp)
       ELSE UNCHANGED <<rep, acks, storageVars>>

\* Mutant: half of the peers is taken for a majority.
IsMajority_Half(count) == 2 * count >= N - 1

IsMajority(count) == 2 * count > N

(***************************************************************************)
(* onReceiveClientRequest once it counted a majority of signals.  Its test *)
(* of the term is implied: the channels of an earlier leadership are gone. *)
(***************************************************************************)
CommitRequest(p, i) ==
  /\ up[p] /\ state[p] = Leader
  /\ IsMajority(acks[p][i])
  /\ rep' = [rep EXCEPT ![p] = UpdateCommitIndex(@, i)]
  /\ acks' = [acks EXCEPT ![p][i] = 0]
  /\ UNCHANGED <<up, state, currentTerm, votedFor, heardFromLeader, leaderID, pendingNoop,
                 nextIndex, matchIndex, electionVars, callVars, restarts>>
  /\ Save(p)

(***************************************************************************)
(* One round of callAppendEntryRPC, up to the call.  A goroutine that      *)
(* loops and one started by the next heartbeat are not told apart, so the  *)
(* round may begin whenever no call is outstanding.                        *)
(***************************************************************************)
MayCall(p, q) ==
  /\ p # q /\ request[p][q] = Nil
  /\ Cardinality({c \in Server \X Server : request[c[1]][c[2]] # Nil}) < MaxInFlight

SendsSnapshot(p, q) == nextIndex[p][q] <= Base(rep[p]) /\ rep[p].snapshot # NoSnapshot

\* Mutant: a request carries one entry at most.
EntriesAfter_One(r, prev) ==
  SubSeq(r.log, prev + 1 - Base(r), Lesser(prev + 1 - Base(r), Len(r.log)))

\* a request carries every entry that follows prev
EntriesAfter(r, prev) == SuffixFrom(r, prev + 1)

SendAppendEntries(p, q) ==
  /\ up[p] /\ state[p] = Leader
  /\ MayCall(p, q)
  /\ ~SendsSnapshot(p, q)
  /\ nextIndex[p][q] > 0
  /\ LET prev == nextIndex[p][q] - 1
     IN IF Readable(rep[p], prev)
          THEN /\ request' = [request EXCEPT ![p][q] =
                    [type |-> "AppendEntries", term |-> currentTerm[p],
                     prevLogIndex |-> prev, prevLogTerm |-> TermAt(rep[p], prev),
                     leaderCommit |-> rep[p].commitIndex,
                     entries |-> EntriesAfter(rep[p], prev)]]
               /\ UNCHANGED up
          ELSE /\ up' = [up EXCEPT ![p] = FALSE]        \* index out of range
               /\ UNCHANGED request
  /\ UNCHANGED <<state, currentTerm, votedFor, heardFromLeader, leaderID, rep, pendingNoop,
                 restarts, electionVars, leaderVars, response, lateRequests,
                 failures, storageVars>>

SendInstallSnapshot(p, q) ==
  /\ up[p] /\ state[p] = Leader
  /\ MayCall(p, q)
  /\ SendsSnapshot(p, q)
  /\ request' = [request EXCEPT ![p][q] =
       [type |-> "InstallSnapshot", term |-> currentTerm[p], snapshot |-> rep[p].snapshot]]
  /\ UNCHANGED <<up, state, currentTerm, votedFor, heardFromLeader, leaderID, rep,
                 pendingNoop, restarts, electionVars, leaderVars, response, lateRequests,
                 failures, storageVars>>

\* what callRPC of p for q is doing: waiting for the reply, or about to return it
Waiting(p, q)  == request[p][q] # Nil /\ response[p][q] = Nil
Answered(p, q) == request[p][q] # Nil /\ response[p][q] # Nil

\* callRPC returns an error: the request or its reply is lost, or late
CallFails(p, q) ==
  /\ up[p] /\ request[p][q] # Nil
  /\ failures < MaxFailures
  /\ failures' = failures + 1
  /\ request' = [request EXCEPT ![p][q] = Nil]
  /\ response' = [response EXCEPT ![p][q] = Nil]
  /\ lateRequests' = IF LateDelivery /\ response[p][q] = Nil
                       THEN lateRequests \cup {[from |-> p, to |-> q, req |-> request[p][q]]}
                       ELSE lateRequests
  /\ UNCHANGED <<up, state, currentTerm, votedFor, heardFromLeader, leaderID, rep,
                 pendingNoop, restarts, electionVars, leaderVars, storageVars>>

\* Mutant: the index after the last entry sent counts as replicated.
LastSent_TooFar(req) == req.prevLogIndex + Len(req.entries) + 1

LastSent(req) == req.prevLogIndex + Len(req.entries)

\* Mutant: signals already sent for this follower are not skipped.
FirstToSignal_Again(p, q) == rep[p].commitIndex + 1

FirstToSignal(p, q) == Greater(rep[p].commitIndex, matchIndex[p][q]) + 1

(***************************************************************************)
(* The reply to an appendEntries call.  Nothing ties it to the term the    *)
(* call was made in: a peer that lost the leadership and regained it       *)
(* handles it as its own.                                                  *)
(***************************************************************************)
HandleAppendEntriesRes(p, q) ==
  /\ up[p] /\ Answered(p, q) /\ request[p][q].type = "AppendEntries"
  /\ LET req  == request[p][q]
         res  == response[p][q]
     IN \/ /\ state[p] = Leader /\ ~res.success /\ res.term > currentTerm[p]
           /\ UpdateTerm(p, res.term)
           /\ BecomeFollower(p)
           /\ UNCHANGED <<voteCount, rep>>
           /\ Save(p)
        \/ /\ state[p] = Leader /\ ~res.success /\ res.term <= currentTerm[p]
           /\ nextIndex' = [nextIndex EXCEPT ![p][q] = @ - 1]
           /\ UNCHANGED <<state, currentTerm, votedFor, heardFromLeader, voteCount, rep,
                          matchIndex, acks, storageVars>>
        \/ /\ state[p] = Leader /\ res.success
           /\ nextIndex' = [nextIndex EXCEPT ![p][q] = LastSent(req) + 1]
           /\ acks' = [acks EXCEPT ![p] =
                [i \in 1 .. MaxIndex |->
                   IF i \in FirstToSignal(p, q) .. LastSent(req) /\ @[i] > 0
                     THEN @[i] + 1 ELSE @[i]]]
           /\ matchIndex' = [matchIndex EXCEPT ![p][q] = LastSent(req)]
           /\ UNCHANGED <<state, currentTerm, votedFor, heardFromLeader, voteCount, rep,
                          storageVars>>
        \/ /\ state[p] # Leader
           /\ UNCHANGED <<state, currentTerm, votedFor, heardFromLeader, voteCount, rep,
                          leaderVars, storageVars>>
  /\ request' = [request EXCEPT ![p][q] = Nil]
  /\ response' = [response EXCEPT ![p][q] = Nil]
  /\ UNCHANGED <<up, leaderID, pendingNoop, awaiting, voteRequests, voteResponses, ballots,
                 lateRequests, failures, restarts>>

\* handleInstallSnapshotRes and what follows it in callAppendEntryRPC; the
\* index comes from the leader's snapshot of now, not from the one it sent
HandleInstallSnapshotRes(p, q) ==
  /\ up[p] /\ Answered(p, q) /\ request[p][q].type = "InstallSnapshot"
  /\ LET res == response[p][q]
     IN \/ /\ res.term > currentTerm[p]
           /\ UpdateTerm(p, res.term)
           /\ BecomeFollower(p)
           /\ UNCHANGED <<voteCount, rep>>
           /\ Save(p)
        \/ /\ res.term <= currentTerm[p]
           /\ nextIndex' = IF state[p] = Leader
                             THEN [nextIndex EXCEPT ![p][q] = Base(rep[p]) + 1]
                             ELSE nextIndex
           /\ UNCHANGED <<state, currentTerm, votedFor, heardFromLeader, voteCount, rep,
                          matchIndex, acks, storageVars>>
  /\ request' = [request EXCEPT ![p][q] = Nil]
  /\ response' = [response EXCEPT ![p][q] = Nil]
  /\ UNCHANGED <<up, leaderID, pendingNoop, awaiting, voteRequests, voteResponses, ballots,
                 lateRequests, failures, restarts>>

-----------------------------------------------------------------------------
\* append_entry.go and snapshot.go, the receiver

\* what makes the handler panic, or call Fatalf, after it saved the new term
AppendPanics(p, req) ==
  LET r == rep[p]
  IN /\ req.term >= currentTerm[p]
     /\ req.prevLogIndex < LogLen(r)
     /\ \/ ~Readable(r, req.prevLogIndex)
        \/ /\ TermAt(r, req.prevLogIndex) # req.prevLogTerm
           /\ req.prevLogIndex <= r.commitIndex
        \/ /\ TermAt(r, req.prevLogIndex) = req.prevLogTerm
           /\ OverrunsEntries(r, req.prevLogIndex, req.entries)

Consistent(p, req) ==
  /\ req.term >= currentTerm[p]
  /\ Readable(rep[p], req.prevLogIndex)
  /\ TermAt(rep[p], req.prevLogIndex) = req.prevLogTerm

AppendReply(p, req) ==
  [term |-> Greater(currentTerm[p], req.term), success |-> Consistent(p, req)]

HandleAppendEntries(p, leader, req) ==
  /\ up[p] /\ req.type = "AppendEntries"
  /\ IF req.term < currentTerm[p]
       THEN UNCHANGED <<up, state, currentTerm, votedFor, heardFromLeader, leaderID, rep,
                        leaderVars, storageVars>>
       ELSE /\ UpdateTerm(p, req.term)
            /\ state' = [state EXCEPT ![p] = Follower]
               \* set, then cleared again by changeState unless a follower already
            /\ heardFromLeader' = [heardFromLeader EXCEPT ![p] = state[p] = Follower]
            /\ DropLeadership(p)
            /\ leaderID' = [leaderID EXCEPT ![p] = leader]
            /\ up' = [up EXCEPT ![p] = ~AppendPanics(p, req)]
            /\ rep' = IF AppendPanics(p, req) \/ ~Consistent(p, req)
                        THEN rep
                        ELSE [rep EXCEPT ![p] =
                               UpdateCommitIndex(
                                 MergeEntries(@, req.prevLogIndex, req.entries),
                                 req.leaderCommit)]
            /\ UNCHANGED voteCount
            /\ Save(p)
  /\ UNCHANGED <<pendingNoop, restarts, electionVars>>

\* the log is read below its base
InstallPanics(p, req) ==
  /\ req.term >= currentTerm[p]
  /\ req.snapshot.index < LastIndex(rep[p])
  /\ ~Readable(rep[p], req.snapshot.index)

\* the handler passes its own term to updateTerm: it never adopts that of the
\* request, and never steps down
HandleInstallSnapshot(p, req) ==
  /\ up[p] /\ req.type = "InstallSnapshot"
  /\ up' = [up EXCEPT ![p] = ~InstallPanics(p, req)]
  /\ IF req.term < currentTerm[p] \/ InstallPanics(p, req)
       THEN UNCHANGED <<heardFromLeader, rep, storageVars>>
       ELSE /\ rep' = [rep EXCEPT ![p] = InstallSnapshot(@, req.snapshot)]
            /\ heardFromLeader' = [heardFromLeader EXCEPT ![p] = TRUE]
            /\ UNCHANGED <<currentTerm, votedFor, voteCount>>
            /\ Save(p)
  /\ UNCHANGED <<state, currentTerm, votedFor, leaderID, pendingNoop, restarts,
                 electionVars, leaderVars>>

\* a panic of q breaks the connection
Answer(p, q, res) ==
  IF up'[q] THEN /\ response' = [response EXCEPT ![p][q] = res]
                 /\ UNCHANGED <<request, lateRequests, failures>>
            ELSE /\ request' = [request EXCEPT ![p][q] = Nil]
                 /\ UNCHANGED <<response, lateRequests, failures>>

ReceiveAppendEntries(p, q) ==
  /\ Waiting(p, q)
  /\ HandleAppendEntries(q, p, request[p][q])
  /\ Answer(p, q, AppendReply(q, request[p][q]))

ReceiveInstallSnapshot(p, q) ==
  /\ Waiting(p, q)
  /\ HandleInstallSnapshot(q, request[p][q])
  /\ Answer(p, q, [term |-> currentTerm[q]])

\* a call reaches its target after the sender gave up; nobody reads the reply
ReceiveLate(m) ==
  /\ \/ HandleAppendEntries(m.to, m.from, m.req)
     \/ HandleInstallSnapshot(m.to, m.req)
  /\ lateRequests' = lateRequests \ {m}
  /\ UNCHANGED <<request, response, failures>>

-----------------------------------------------------------------------------
\* processes and storage

\* Hybrid.Flush, called by its ticker
Flush(p) ==
  /\ Hybrid /\ up[p]
  /\ disk' = [disk EXCEPT ![p] = memory[p]]
  /\ UNCHANGED <<up, state, currentTerm, votedFor, heardFromLeader, leaderID, rep,
                 pendingNoop, restarts, electionVars, leaderVars, callVars, memory>>

(***************************************************************************)
(* The goroutines of p are gone; NewPeer and loadFromPersistentStorage     *)
(* make a peer from the data d.                                            *)
(***************************************************************************)
NewProcess(p, d) ==
  /\ currentTerm' = [currentTerm EXCEPT ![p] = d.currentTerm]
  /\ votedFor' = [votedFor EXCEPT ![p] = d.votedFor]
  /\ voteCount' = [voteCount EXCEPT ![p] = d.voteCount]
  /\ rep' = [rep EXCEPT ![p] = Reload(d.log, d.snapshot, d.commitIndex)]
  /\ memory' = [memory EXCEPT ![p] = d]
  /\ up' = [up EXCEPT ![p] = ~LoadPanics(d.log, d.snapshot, d.commitIndex)]
  /\ state' = [state EXCEPT ![p] = Follower]
  /\ heardFromLeader' = [heardFromLeader EXCEPT ![p] = FALSE]
  /\ leaderID' = [leaderID EXCEPT ![p] = Nil]
  /\ DropLeadership(p)
  /\ pendingNoop' = [pendingNoop EXCEPT ![p] = 0]
  /\ awaiting' = {a \in awaiting : a[1] # p}
  /\ voteResponses' = {m \in voteResponses : m.cand # p}
  /\ lateRequests' = IF LateDelivery
                       THEN lateRequests \cup
                              {[from |-> p, to |-> q, req |-> request[p][q]] :
                                 q \in {s \in Server : Waiting(p, s)}}
                       ELSE lateRequests
  /\ request' = [request EXCEPT ![p] = NoCalls]
  /\ response' = [response EXCEPT ![p] = NoCalls]
  /\ restarts' = restarts + 1
  /\ UNCHANGED <<voteRequests, ballots, failures>>

\* the process dies, and starts again from its file
Crash(p) ==
  /\ restarts < MaxCrashes
  /\ NewProcess(p, disk[p])
  /\ UNCHANGED disk

\* Mutant: the storage is not flushed.
Stop_NoFlush(p) ==
  /\ up[p] /\ restarts < MaxStops
  /\ NewProcess(p, disk[p])
  /\ UNCHANGED disk

\* StartPeerFromFile is told to stop: ShutDown, then the storage is flushed
Stop(p) ==
  /\ up[p] /\ restarts < MaxStops
  /\ NewProcess(p, memory[p])
  /\ disk' = [disk EXCEPT ![p] = memory[p]]

-----------------------------------------------------------------------------
Next ==
  \/ \E p \in Server :
       \/ FollowerTimeout(p)
       \/ FollowerRearm(p)
       \/ CandidateTimeout(p)
       \/ \E m \in voteRequests : HandleRequestVote(p, m)
       \/ \E cmd \in Command : ClientRequest(p, cmd)
       \/ AppendNoop(p)
       \/ \E i \in 1 .. MaxIndex : CommitRequest(p, i)
       \/ Flush(p)
       \/ Crash(p)
       \/ Stop(p)
  \/ \E m \in voteResponses : HandleRequestVoteRespond(m)
  \/ \E p, q \in Server :
       \/ SendAppendEntries(p, q)
       \/ SendInstallSnapshot(p, q)
       \/ CallFails(p, q)
       \/ ReceiveAppendEntries(p, q)
       \/ ReceiveInstallSnapshot(p, q)
       \/ HandleAppendEntriesRes(p, q)
       \/ HandleInstallSnapshotRes(p, q)
  \/ \E m \in lateRequests : ReceiveLate(m)

Spec == Init /\ [][Next]_vars

=============================================================================

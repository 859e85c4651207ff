------------------------------- MODULE MCRaft -------------------------------
(***************************************************************************)
(* Finite instances of Raft.                                               *)
(***************************************************************************)
EXTENDS SimulationChecks, LogInvariants, TLC

CONSTANT FirstLeader   \* the server that has won term 1, Nil to begin before it

\* every vote of term 1 went to FirstLeader and was counted or came too late
\* to be, and its nil entry is in its log
AfterElection ==
  /\ up = [p \in Server |-> TRUE]
  /\ state = [p \in Server |-> IF p = FirstLeader THEN Leader ELSE Follower]
  /\ currentTerm = [p \in Server |-> 1]
  /\ votedFor = [p \in Server |-> FirstLeader]
  /\ voteCount = [p \in Server |-> IF p = FirstLeader THEN N \div 2 + 1 ELSE 0]
  /\ heardFromLeader = [p \in Server |-> FALSE]
  /\ leaderID = [p \in Server |-> Nil]
  /\ rep = [p \in Server |-> IF p = FirstLeader
                               THEN AppendEntry(InitReplica, [term |-> 1, cmd |-> NoOp])
                               ELSE InitReplica]
  /\ nextIndex = [p \in Server |-> IF p = FirstLeader THEN [q \in Server |-> 1]
                                                      ELSE NoIndices]
  /\ matchIndex = [p \in Server |-> NoIndices]
  /\ acks = [p \in Server |-> IF p = FirstLeader THEN [NoSignals EXCEPT ![1] = 1]
                                                ELSE NoSignals]
  /\ pendingNoop = [p \in Server |-> 0]
  /\ awaiting = {}
  /\ voteRequests = {[cand |-> FirstLeader, term |-> 1, lastLogIndex |-> 0,
                      lastLogTerm |-> 0]}
  /\ voteResponses = {}
  /\ request = [p \in Server |-> NoCalls]
  /\ response = [p \in Server |-> NoCalls]
  /\ lateRequests = {}
  /\ memory = [p \in Server |-> PersistentData(p)]
  /\ disk = memory
  /\ restarts = 0
  /\ failures = 0
  /\ ballots = {<<v, 1, FirstLeader>> : v \in Server}

MCInit == IF FirstLeader = Nil THEN Init ELSE AfterElection

MCSpec == MCInit /\ [][Next]_vars

\* servers that differ only in whether their timers fire are interchangeable
Symmetry ==
  {f @@ g : f \in Permutations(Timers), g \in Permutations(Server \ Timers)}

=============================================================================

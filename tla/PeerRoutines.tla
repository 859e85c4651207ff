---------------------------- MODULE PeerRoutines ----------------------------
(***************************************************************************)
(* The goroutines of one peer of src/raft, between Start and the end of    *)
(* what ShutDown leaves behind: timeoutLoop with its channel of one slot   *)
(* and its skip flag, the goroutines of callAppendEntryRPC and of          *)
(* onReceiveClientRequest with the channels between them, and handlers     *)
(* that have passed the test of shutdown (rpc.go:134) and not run yet.     *)
(*                                                                         *)
(* A step is what a goroutine does while it holds p.mutex, or a channel    *)
(* operation between two such stretches.  Raft says what the other peers   *)
(* answer; here they answer anything that one leader per term allows.      *)
(* Logs are not compacted.                                                 *)
(***************************************************************************)
EXTENDS Integers, Sequences, FiniteSets

CONSTANTS
  Peer,         \* p.rpcPeersIds
  Reachable,    \* those of them whose replies arrive, now and then
  Request,      \* the commands that clients have p append
  Nobody,       \* no goroutine
  \* bounds of a finite instance:
  MaxTerm,      \* the highest term
  Winnable,     \* the terms in which p may be elected; p hears of the others
  EarlyTerm,    \* the last term in which clients ask, p is stopped, and more than
                \*   one goroutine waits to run for one follower
  MaxIndex,     \* the highest index p fills
  MaxStarting   \* how many do then

ASSUME PeerAssumption == IsFiniteSet(Peer) /\ Reachable \subseteq Peer
ASSUME BoundAssumption == /\ {MaxTerm, EarlyTerm, MaxIndex, MaxStarting} \subseteq Nat
                          /\ Winnable \subseteq 1 .. MaxTerm

\* the goroutines of onReceiveClientRequest: one for each command of a client,
\* and one that a new leader starts for the nil entry of its term
Routine == Request \cup Winnable

ASSUME RoutineAssumption == Nobody \notin Routine /\ Request \cap Nat = {}

N == Cardinality(Peer) + 1

VARIABLES
  state, currentTerm, heardFromLeader,
  shutdown, startBefore,
  panicked,     \* the process has panicked
  log,          \* p.log without its first entry; an entry is the goroutine that
                \*   appended it, Nobody when it is another peer's
  commitIndex,
  nextIndex, matchIndex,
  channelAt,    \* p.logIndexMajorityCheckChannel: the goroutine whose channel is at an index
  channel,      \* channel[r]: the signals sent on the channel of r; is it closed?
  routine,      \* routine[r]: where r is, and its local variables
  appending,    \* p.appendingEntries
  starting,     \* starting[q]: goroutines of callAppendEntryRPC(q) yet to run
  call,         \* call[q]: where the one that set the flag is, and its variables
  loop,         \* where timeoutLoop is, and the state it read when it armed its timer
  slot,         \* is there a message in p.timeoutLoopChan?
  skip,         \* p.timeoutLoopSkipThisRound
  entered       \* may a handler have passed the test of shutdown before ShutDown?

peerVars    == <<state, currentTerm, heardFromLeader>>
logVars     == <<log, commitIndex>>
leaderVars  == <<nextIndex, matchIndex, channelAt>>
callVars    == <<appending, starting, call>>
loopVars    == <<loop, slot, skip>>
vars == <<peerVars, shutdown, startBefore, panicked, logVars, leaderVars, channel, routine,
          callVars, loopVars, entered>>

NoIndices  == [q \in Peer |-> 0]
NoChannel  == [sent |-> 0, closed |-> FALSE]
Idle       == [pc |-> "idle", index |-> 0, term |-> 0]
NoChannels == [i \in 1 .. MaxIndex |-> Nobody]

\* NewPeer with an empty storage
Init ==
  /\ state = "Follower" /\ currentTerm = 0 /\ heardFromLeader = FALSE
  /\ shutdown = TRUE /\ startBefore = FALSE /\ panicked = FALSE
  /\ log = <<>> /\ commitIndex = 0
  /\ nextIndex = NoIndices /\ matchIndex = NoIndices /\ channelAt = NoChannels
  /\ channel = [r \in Routine |-> NoChannel]
  /\ routine = [r \in Routine |-> Idle]
  /\ appending = [q \in Peer |-> FALSE]
  /\ starting = NoIndices
  /\ call = [q \in Peer |-> [pc |-> "none", first |-> FALSE, last |-> 0, term |-> 0]]
  /\ loop = [pc |-> "none", armed |-> "none"]
  /\ slot = FALSE /\ skip = FALSE
  /\ entered = FALSE

-----------------------------------------------------------------------------
\* parts of the steps

ResetTimeout   == slot' = TRUE /\ skip' = TRUE
TriggerTimeout == slot' = TRUE /\ skip' = FALSE

Resets(really) == IF really THEN ResetTimeout ELSE UNCHANGED <<slot, skip>>

\* the goroutines whose channels are in the map
Registered == {channelAt[i] : i \in 1 .. MaxIndex} \ {Nobody}

\* to close a closed channel, or to send on one, is a panic
CloseRegistered ==
  /\ channel' = [r \in Routine |-> [channel[r] EXCEPT !.closed = @ \/ r \in Registered]]
  /\ panicked' = \E r \in Registered : channel[r].closed

\* changeState(Follower) but for the reset, heard being p.heardFromLeader before it
BecomeFollower(heard) ==
  /\ state' = "Follower"
  /\ heardFromLeader' = (heard /\ state = "Follower")
  /\ CloseRegistered
  /\ nextIndex' = NoIndices /\ matchIndex' = NoIndices /\ channelAt' = NoChannels

\* updateTerm and changeState(Follower), for a later term in a reply
StepDown(term) ==
  /\ currentTerm' = term
  /\ BecomeFollower(heardFromLeader)
  /\ Resets(state # "Follower")

TriggerLeaderHeartbeat ==
  /\ \A q \in Peer : ~appending[q] =>
       starting[q] < (IF currentTerm <= EarlyTerm THEN MaxStarting ELSE 1)
  /\ starting' = [q \in Peer |-> IF appending[q] THEN starting[q] ELSE starting[q] + 1]

StartElection ==
  /\ currentTerm < MaxTerm
  /\ currentTerm' = currentTerm + 1

-----------------------------------------------------------------------------
\* Start, ShutDown, timeoutLoop

Start ==
  /\ shutdown /\ ~startBefore
  /\ shutdown' = FALSE /\ startBefore' = TRUE
  /\ loop' = [loop EXCEPT !.pc = "top"]
  /\ UNCHANGED <<peerVars, panicked, logVars, leaderVars, channel, routine, callVars,
                 slot, skip, entered>>

\* Mutant: the loop is woken up as if something were to be sent.
ShutDown_Triggers ==
  /\ ~shutdown /\ currentTerm <= EarlyTerm
  /\ shutdown' = TRUE
  /\ TriggerTimeout
  /\ CloseRegistered
  /\ entered' = TRUE
  /\ UNCHANGED <<peerVars, startBefore, logVars, leaderVars, routine, callVars, loop>>

\* the channels are closed and stay in the map, and the state stays what it is
ShutDown ==
  /\ ~shutdown /\ currentTerm <= EarlyTerm
  /\ shutdown' = TRUE
  /\ ResetTimeout
  /\ CloseRegistered
  /\ entered' = TRUE
  /\ UNCHANGED <<peerVars, startBefore, logVars, leaderVars, routine, callVars, loop>>

LoopArms ==
  /\ loop.pc = "top"
  /\ loop' = [pc |-> "waiting", armed |-> state]
  /\ UNCHANGED <<peerVars, shutdown, startBefore, panicked, logVars, leaderVars, channel,
                 routine, callVars, slot, skip, entered>>

\* The select: the timer has fired, or there is a message.  One that the timer
\* leaves behind is taken out before anybody can tell.
LoopWakes ==
  /\ loop.pc = "waiting"
  /\ loop' = [loop EXCEPT !.pc = "woken"]
  /\ slot' = FALSE
  /\ UNCHANGED <<peerVars, shutdown, startBefore, panicked, logVars, leaderVars, channel,
                 routine, callVars, skip, entered>>

\* the end of a round
LoopRepeats == loop' = [pc |-> IF shutdown THEN "ended" ELSE "top", armed |-> "none"]

LoopActs(inState) == /\ loop.pc = "woken" /\ ~skip
                     /\ state = inState /\ loop.armed = inState

Drain == slot' = FALSE /\ skip' = FALSE

\* Mutant: the channel is drained at the end of the round.
DrainThenReset_SwappedOrder == slot' = FALSE /\ skip' = TRUE

\* the channel is drained, then changeState resets the timeout
DrainThenReset == ResetTimeout

LoopIgnores ==
  /\ loop.pc = "woken" /\ (skip \/ loop.armed # state)
  /\ Drain /\ LoopRepeats
  /\ UNCHANGED <<peerVars, shutdown, startBefore, panicked, logVars, leaderVars, channel,
                 routine, callVars, entered>>

LoopFollower ==
  /\ LoopActs("Follower")
  /\ LoopRepeats
  /\ IF heardFromLeader
       THEN heardFromLeader' = FALSE /\ Drain /\ UNCHANGED <<state, currentTerm>>
       ELSE /\ state' = "Candidate" /\ StartElection /\ DrainThenReset
            /\ UNCHANGED heardFromLeader
  /\ UNCHANGED <<shutdown, startBefore, panicked, logVars, leaderVars, channel, routine,
                 callVars, entered>>

LoopCandidate ==
  /\ LoopActs("Candidate")
  /\ StartElection /\ Drain /\ LoopRepeats
  /\ UNCHANGED <<state, heardFromLeader, shutdown, startBefore, panicked, logVars, leaderVars,
                 channel, routine, callVars, entered>>

LoopLeader ==
  /\ LoopActs("Leader")
  /\ TriggerLeaderHeartbeat /\ Drain /\ LoopRepeats
  /\ UNCHANGED <<peerVars, shutdown, startBefore, panicked, logVars, leaderVars, channel,
                 routine, appending, call, entered>>

LoopRound == LoopIgnores \/ LoopFollower \/ LoopCandidate \/ LoopLeader

-----------------------------------------------------------------------------
\* handlers, and the replies to requestVote

(***************************************************************************)
(* handleRPCCallAndLogError tests shutdown and gives the mutex up before   *)
(* the handler takes it: until ShutDown that makes no difference, and then *)
(* a handler that was let in may still run.                                *)
(***************************************************************************)
HandlerRuns == /\ startBefore /\ (shutdown => entered)
               /\ entered' = FALSE

\* p.votedFor is left out: a follower may seem to vote again in its term
HandleRequestVote(term, grant) ==
  /\ HandlerRuns
  /\ \/ term > currentTerm
     \/ term = currentTerm /\ grant /\ state = "Follower"
  /\ currentTerm' = term
  /\ IF term > currentTerm
       THEN BecomeFollower(heardFromLeader)
       ELSE UNCHANGED <<state, heardFromLeader, leaderVars, channel, panicked>>
  /\ Resets(grant \/ state # "Follower")
  /\ UNCHANGED <<shutdown, startBefore, logVars, routine, callVars, loop>>

\* the leader of term may replace what is not committed, add an entry, and commit
HandleAppendEntries(term) ==
  /\ HandlerRuns
  /\ term > currentTerm \/ (term = currentTerm /\ state # "Leader")
  /\ currentTerm' = term
  /\ BecomeFollower(TRUE)
  /\ Resets(state # "Follower")
  /\ log' \in {log} \cup {Append(SubSeq(log, 1, kept), Nobody) :
                           kept \in {i \in commitIndex .. Len(log) : i < MaxIndex}}
  /\ commitIndex' \in commitIndex .. Len(log')
  /\ UNCHANGED <<shutdown, startBefore, routine, callVars, loop>>

\* a majority has voted for p, which starts a goroutine to append nil
VotesWon ==
  /\ state = "Candidate" /\ currentTerm \in Winnable
  /\ state' = "Leader"
  /\ nextIndex' = [q \in Peer |-> Len(log) + 1]
  /\ matchIndex' = NoIndices /\ channelAt' = NoChannels
  /\ TriggerLeaderHeartbeat
  /\ ResetTimeout
  /\ routine' = [routine EXCEPT ![currentTerm].pc = "new"]
  /\ UNCHANGED <<currentTerm, heardFromLeader, shutdown, startBefore, panicked, logVars,
                 channel, appending, call, loop, entered>>

\* a voter was in a later term (to a follower, that is no more than HandleRequestVote does)
VotesLost(term) ==
  /\ state # "Follower" /\ term > currentTerm
  /\ StepDown(term)
  /\ UNCHANGED <<shutdown, startBefore, logVars, routine, callVars, loop, entered>>

-----------------------------------------------------------------------------
\* callAppendEntryRPC

CallBegins(q) ==
  /\ starting[q] > 0
  /\ starting' = [starting EXCEPT ![q] = @ - 1]
  /\ IF appending[q]
       THEN UNCHANGED <<appending, call>>
       ELSE /\ appending' = [appending EXCEPT ![q] = TRUE]
            /\ call' = [call EXCEPT ![q].pc = "top", ![q].first = TRUE]
  /\ UNCHANGED <<peerVars, shutdown, startBefore, panicked, logVars, leaderVars, channel,
                 routine, loopVars, entered>>

MayGoOn == state = "Leader" /\ ~shutdown

\* one round up to the call: the log is read from nextIndex on
CallLoops(q) ==
  LET nothingNew == nextIndex[q] = Len(log) + 1
  IN
  /\ call[q].pc = "top"
  /\ panicked' = (MayGoOn /\ nextIndex[q] > Len(log) + 1)
  /\ call' = [call EXCEPT ![q] =
       IF ~MayGoOn \/ (nothingNew /\ ~call[q].first)
         THEN [pc |-> "leaving", first |-> FALSE, last |-> 0, term |-> 0]
         ELSE [pc |-> "calling", first |-> FALSE, last |-> Len(log), term |-> currentTerm]]
  /\ UNCHANGED <<peerVars, shutdown, startBefore, logVars, leaderVars, channel, routine,
                 appending, starting, loopVars, entered>>

\* what is left of the round when the call ends
CallRepeats(q) == call' = [call EXCEPT ![q].pc = "top", ![q].last = 0, ![q].term = 0]

\* no reply within the time limit
CallFails(q) ==
  /\ call[q].pc = "calling"
  /\ CallRepeats(q)
  /\ UNCHANGED <<peerVars, shutdown, startBefore, panicked, logVars, leaderVars, channel,
                 routine, appending, starting, loopVars, entered>>

\* Mutant: the entry after the last one known to be replicated is left out.
FirstToSignal_OneTooFar(q) ==
  (IF matchIndex[q] > commitIndex THEN matchIndex[q] ELSE commitIndex) + 2

FirstToSignal(q) ==
  (IF matchIndex[q] > commitIndex THEN matchIndex[q] ELSE commitIndex) + 1

\* A call is over before p can have lost the leadership and won it again: its
\* time limit is shorter than an election timeout.
InTime(q) == state = "Leader" => call[q].term = currentTerm

\* the follower has the entries: the channels of those it had not are signalled
CallSucceeds(q) ==
  LET signalled == {channelAt[i] : i \in FirstToSignal(q) .. call[q].last} \ {Nobody}
  IN
  /\ call[q].pc = "calling" /\ InTime(q)
  /\ IF state = "Leader"
       THEN /\ nextIndex' = [nextIndex EXCEPT ![q] = call[q].last + 1]
            /\ matchIndex' = [matchIndex EXCEPT ![q] = call[q].last]
            /\ channel' = [r \in Routine |->
                 IF r \in signalled THEN [channel[r] EXCEPT !.sent = @ + 1] ELSE channel[r]]
            /\ panicked' = \E r \in signalled : channel[r].closed
       ELSE UNCHANGED <<nextIndex, matchIndex, channel, panicked>>
  /\ CallRepeats(q)
  /\ UNCHANGED <<peerVars, shutdown, startBefore, logVars, channelAt, routine, appending,
                 starting, loopVars, entered>>

\* the follower's log parts from p's before nextIndex
CallDisagrees(q) ==
  /\ call[q].pc = "calling" /\ InTime(q)
  /\ state = "Leader" /\ nextIndex[q] > matchIndex[q] + 1
  /\ nextIndex' = [nextIndex EXCEPT ![q] = @ - 1]
  /\ CallRepeats(q)
  /\ UNCHANGED <<peerVars, shutdown, startBefore, panicked, logVars, matchIndex, channelAt,
                 channel, routine, appending, starting, loopVars, entered>>

\* the follower is in a later term
CallRefused(q, term) ==
  /\ call[q].pc = "calling" /\ term > currentTerm
  /\ state = "Leader"
  /\ StepDown(term)
  /\ CallRepeats(q)
  /\ UNCHANGED <<shutdown, startBefore, logVars, routine, appending, starting, loop, entered>>

\* Mutant: the flag is left set.
CallLeaves_KeepsFlag(q) ==
  /\ call[q].pc = "leaving"
  /\ call' = [call EXCEPT ![q].pc = "none"]
  /\ UNCHANGED <<peerVars, shutdown, startBefore, panicked, logVars, leaderVars, channel,
                 routine, appending, starting, loopVars, entered>>

\* the deferred function
CallLeaves(q) ==
  /\ call[q].pc = "leaving"
  /\ appending' = [appending EXCEPT ![q] = FALSE]
  /\ call' = [call EXCEPT ![q].pc = "none"]
  /\ UNCHANGED <<peerVars, shutdown, startBefore, panicked, logVars, leaderVars, channel,
                 routine, starting, loopVars, entered>>

-----------------------------------------------------------------------------
\* onReceiveClientRequest

\* HandleClientRequest or handleClientActionRequest of a leader starts the goroutine
HandleClientRequest(r) ==
  /\ state = "Leader" /\ currentTerm <= EarlyTerm
  /\ routine[r].pc = "idle" /\ r \notin Registered
  /\ routine' = [routine EXCEPT ![r].pc = "new"]
  /\ UNCHANGED <<peerVars, shutdown, startBefore, panicked, logVars, leaderVars, channel,
                 callVars, loopVars, entered>>

\* it runs up to its wait; shutdown is not looked at
OnReceiveClientRequest(r) ==
  LET i == Len(log) + 1
  IN
  /\ routine[r].pc = "new"
  /\ IF state = "Leader"
       THEN /\ i <= MaxIndex
            /\ log' = Append(log, r)
            /\ channel' = [channel EXCEPT ![r] = [sent |-> 1, closed |-> FALSE]]
            /\ channelAt' = [channelAt EXCEPT ![i] = r]
            /\ TriggerTimeout
            /\ routine' = [routine EXCEPT ![r] = [pc |-> "ranging", index |-> i,
                                                 term |-> currentTerm]]
       ELSE /\ routine' = [routine EXCEPT ![r] = Idle]
            /\ UNCHANGED <<log, channel, channelAt, slot, skip>>
  /\ UNCHANGED <<peerVars, shutdown, startBefore, panicked, commitIndex, nextIndex, matchIndex,
                 callVars, loop, entered>>

\* r returns; what remains of its channel is whether it is closed, in the map
Returns(r, closed) ==
  /\ routine' = [routine EXCEPT ![r] = Idle]
  /\ channel' = [channel EXCEPT ![r] =
       [sent |-> 0, closed |-> closed /\ \E i \in 1 .. MaxIndex : channelAt'[i] = r]]

\* the range over the channel yields a majority of signals ...
Range(r) ==
  /\ routine[r].pc = "ranging" /\ 2 * channel[r].sent > N
  /\ routine' = [routine EXCEPT ![r].pc = "counted"]
  /\ UNCHANGED <<peerVars, shutdown, startBefore, panicked, logVars, leaderVars, channel,
                 callVars, loopVars, entered>>

\* ... or ends before, the channel being closed: true is returned all the same
RangeEnds(r) ==
  /\ routine[r].pc = "ranging" /\ 2 * channel[r].sent <= N /\ channel[r].closed
  /\ UNCHANGED <<peerVars, shutdown, startBefore, panicked, logVars, leaderVars, callVars,
                 loopVars, entered>>
  /\ Returns(r, TRUE)

\* Mutant: any leadership will do.
StillLeads_AnyTerm(r) == state = "Leader"

StillLeads(r) == state = "Leader" /\ routine[r].term = currentTerm

\* Mutant: the channel is closed and stays in the map.
Unregister_Keeps(i) == UNCHANGED channelAt

Unregister(i) == channelAt' = [channelAt EXCEPT ![i] = Nobody]

\* a majority was counted, and the mutex has been obtained
Commit(r) ==
  LET i == routine[r].index
      upTo == IF i < Len(log) THEN i ELSE Len(log)
  IN
  /\ routine[r].pc = "counted"
  /\ IF StillLeads(r)
       THEN /\ commitIndex' = IF upTo > commitIndex THEN upTo ELSE commitIndex
            /\ Unregister(i)
            /\ panicked' = channel[r].closed
       ELSE UNCHANGED <<commitIndex, channelAt, panicked>>
  /\ Returns(r, TRUE)
  /\ UNCHANGED <<peerVars, shutdown, startBefore, log, nextIndex, matchIndex, callVars,
                 loopVars, entered>>

-----------------------------------------------------------------------------
HeardOf == (1 .. MaxTerm) \ Winnable

Next ==
  /\ ~panicked
  /\ \/ Start \/ ShutDown
     \/ LoopArms \/ LoopWakes \/ LoopRound
     \/ \E term \in HeardOf : \/ \E grant \in BOOLEAN : HandleRequestVote(term, grant)
                               \/ HandleAppendEntries(term)
                               \/ VotesLost(term)
     \/ VotesWon
     \/ \E q \in Peer : \/ CallBegins(q) \/ CallLoops(q) \/ CallLeaves(q)
                        \/ CallFails(q) \/ CallSucceeds(q) \/ CallDisagrees(q)
                        \/ \E term \in HeardOf : CallRefused(q, term)
     \/ \E r \in Request : HandleClientRequest(r)
     \/ \E r \in Routine : OnReceiveClientRequest(r) \/ Range(r) \/ RangeEnds(r) \/ Commit(r)

(***************************************************************************)
(* Goroutines run, timers fire, and a call ends at its time limit at the   *)
(* latest.  Of the calls to a reachable follower some succeed.             *)
(***************************************************************************)
LoopStep == LoopArms \/ LoopWakes \/ LoopRound

CallStep(q) == \/ CallBegins(q) \/ CallLoops(q) \/ CallLeaves(q)
               \/ CallFails(q) \/ CallSucceeds(q) \/ CallDisagrees(q)

RoutineStep(r) == Range(r) \/ RangeEnds(r) \/ Commit(r)

Fairness ==
  /\ WF_vars(~panicked /\ LoopStep)
  /\ \A q \in Peer : WF_vars(~panicked /\ CallStep(q))
  /\ \A q \in Reachable : SF_vars(~panicked /\ CallSucceeds(q))
  /\ WF_vars(~panicked /\ \E r \in Routine : RoutineStep(r))

Spec == Init /\ [][Next]_vars /\ Fairness

-----------------------------------------------------------------------------
\* While a round of timeoutLoop waits, a skip flag that is set has a message in
\* the channel beside it: the round it ends is the one it was set for, and no
\* timeout that is due later is swallowed (peer.go:163).
SkipIsForThisRound == skip /\ loop.pc \in {"top", "waiting"} => slot

\* No goroutine sends on a closed channel, closes one twice, or reads past the log
\* while the peer runs, however step-downs and commits cross (append_entry.go:198,
\* 246, peer.go:222).  ShutDown is different: see the README.
PanicsOnlyAfterShutdown == panicked => shutdown

\* A goroutine that commits, commits the entry it appended: an index that was cut
\* off and filled again in a later leadership is not mistaken for it.
CommitsItsOwnEntry ==
  [][\A r \in Routine :
       routine[r].pc = "counted" /\ routine'[r].pc = "idle" /\ commitIndex' > commitIndex =>
       /\ log[routine[r].index] = r
       /\ commitIndex' = routine[r].index]_vars

\* ShutDown resets the timeout, and so no election is started after it, be the
\* loop waiting, woken, or about to arm its timer.
StoppedPeerDoesNotCampaign ==
  [][shutdown /\ loop'.pc # loop.pc => currentTerm' = currentTerm]_vars

\* The goroutine of a request does not wait forever: the entry is committed, or
\* the leadership is over, though triggers are dropped, heartbeats find the
\* flag of a goroutine that is about to leave, and indices below the commit
\* index are signalled no more (append_entry.go:86, 195, 228).  Terms and the log
\* being bounded, requests come to an end.
RequestsEnd ==
  []<>(\A r \in Routine : routine[r].pc = "ranging" => shutdown \/ panicked)

\* After ShutDown, which is final, the loop ends, and every goroutine that replicates.
StoppedPeerWindsDown ==
  []<>(shutdown /\ startBefore /\ ~panicked =>
         loop.pc = "ended" /\ \A q \in Peer : ~appending[q] /\ starting[q] = 0)

=============================================================================

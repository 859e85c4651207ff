------------------------ MODULE PeerRoutinesProofs ------------------------
(***************************************************************************)
(* The goroutines of a peer, for any number of followers, requests and     *)
(* terms: a goroutine commits only its own entry, nothing panics before    *)
(* ShutDown, and no election is started after it.                          *)
(***************************************************************************)
EXTENDS PeerRoutines, TLAPS

Waiting == {"ranging", "counted"}
Stopped == shutdown /\ startBefore

-----------------------------------------------------------------------------
\* the invariant, in parts

LogType     == Seq(Routine \cup {Nobody})
SignalType  == [sent : Nat, closed : BOOLEAN]
RoutineType == [pc : {"idle", "new", "ranging", "counted"}, index : Nat, term : Nat]
CallType    == [pc : {"none", "top", "calling", "leaving"}, first : BOOLEAN,
                last : Nat, term : Nat]

Types ==
  /\ state \in {"Follower", "Candidate", "Leader"}
  /\ currentTerm \in Nat /\ commitIndex \in Nat
  /\ log \in LogType /\ Len(log) <= MaxIndex
  /\ nextIndex \in [Peer -> Nat] /\ matchIndex \in [Peer -> Nat]
  /\ channelAt \in [1 .. MaxIndex -> Routine \cup {Nobody}]
  /\ channel \in [Routine -> SignalType]
  /\ routine \in [Routine -> RoutineType]
  /\ call \in [Peer -> CallType]
  /\ loop \in [pc : {"none", "top", "waiting", "woken", "ended"},
               armed : {"none", "Follower", "Candidate", "Leader"}]

\* a skip flag is set for the round that is going on
LoopInv ==
  /\ startBefore \/ (shutdown /\ loop.pc = "none")
  /\ skip => slot \/ loop.pc \in {"woken", "ended"}
  /\ Stopped => loop.pc = "ended" \/ skip \/ state = "Leader"

\* the goroutine of the present term leads, and its entry is where it put it
OwnEntries ==
  \A r \in Routine : routine[r].pc \in Waiting =>
    /\ routine[r].term <= currentTerm
    /\ routine[r].term = currentTerm =>
         /\ state = "Leader"
         /\ routine[r].index \in 1 .. Len(log)
         /\ log[routine[r].index] = r

\* a call of the present term carried a prefix of the log
CallsFit ==
  \A q \in Peer : call[q].pc = "calling" =>
    /\ call[q].term <= currentTerm
    /\ call[q].term = currentTerm => state = "Leader" /\ call[q].last <= Len(log)

IndicesFit == state = "Leader" => \A q \in Peer : nextIndex[q] <= Len(log) + 1

HistoryInv == OwnEntries /\ CallsFit /\ IndicesFit

\* until ShutDown, the channels in the map are open, and those of goroutines that wait
ChannelsInv ==
  /\ panicked => Stopped
  /\ ~Stopped =>
       /\ \A i \in 1 .. MaxIndex : channelAt[i] # Nobody =>
            /\ ~channel[channelAt[i]].closed
            /\ state = "Leader"
            /\ routine[channelAt[i]].pc \in Waiting
            /\ routine[channelAt[i]].index = i
            /\ routine[channelAt[i]].term = currentTerm
       /\ \A r \in Routine :
            routine[r].pc \in Waiting /\ routine[r].term = currentTerm => ~channel[r].closed

-----------------------------------------------------------------------------
LEMMA TermsAreNumbers == Winnable \subseteq Nat /\ HeardOf \subseteq Nat /\ MaxTerm \in Nat
                         /\ MaxIndex \in Nat /\ Nobody \notin Routine
  BY BoundAssumption, RoutineAssumption DEF HeardOf

USE DEF peerVars, logVars, leaderVars, callVars, loopVars, vars, Waiting, Stopped,
        NoIndices, NoChannel, NoChannels, Idle

LEMMA InitHolds == Init => Types /\ LoopInv /\ HistoryInv /\ ChannelsInv
  <1>. SUFFICES ASSUME Init PROVE Types /\ LoopInv /\ HistoryInv /\ ChannelsInv
    OBVIOUS
  <1>1. Types
    BY TermsAreNumbers DEF Init, Types, LogType, SignalType, RoutineType, CallType
  <1>2. LoopInv
    BY DEF Init, LoopInv
  <1>3. HistoryInv
    BY DEF Init, HistoryInv, OwnEntries, CallsFit, IndicesFit
  <1>4. ChannelsInv
    BY TermsAreNumbers DEF Init, ChannelsInv
  <1>. QED BY <1>1, <1>2, <1>3, <1>4

-----------------------------------------------------------------------------
\* types

LEMMA AppendKeepsType ==
  ASSUME NEW l \in LogType, NEW e \in Routine \cup {Nobody}
  PROVE  Append(l, e) \in LogType /\ Len(Append(l, e)) = Len(l) + 1
  BY DEF LogType

LEMMA PrefixType ==
  ASSUME NEW l \in LogType, NEW k \in 0 .. Len(l)
  PROVE  SubSeq(l, 1, k) \in LogType /\ Len(SubSeq(l, 1, k)) = k
  BY DEF LogType

LEMMA LengthType == ASSUME NEW l \in LogType PROVE Len(l) \in Nat
  BY DEF LogType

LEMMA RoutineMoves ==
  ASSUME NEW f \in [Routine -> RoutineType], NEW r \in Routine,
         NEW pc \in {"idle", "new", "ranging", "counted"}
  PROVE  [f EXCEPT ![r].pc = pc] \in [Routine -> RoutineType]
  BY DEF RoutineType

LEMMA CallMoves ==
  ASSUME NEW f \in [Peer -> CallType], NEW q \in Peer,
         NEW pc \in {"none", "top", "calling", "leaving"}
  PROVE  [f EXCEPT ![q].pc = pc] \in [Peer -> CallType]
  BY DEF CallType

LEMMA ClosingTypes ==
  ASSUME Types, CloseRegistered
  PROVE  channel' \in [Routine -> SignalType]
  BY DEF Types, CloseRegistered, SignalType

LEMMA BecomeFollowerTypes ==
  ASSUME Types, NEW heard, BecomeFollower(heard)
  PROVE  /\ state' = "Follower"
         /\ channel' \in [Routine -> SignalType]
         /\ nextIndex' \in [Peer -> Nat] /\ matchIndex' \in [Peer -> Nat]
         /\ channelAt' \in [1 .. MaxIndex -> Routine \cup {Nobody}]
  BY ClosingTypes DEF BecomeFollower

LEMMA RepeatingTypes ==
  ASSUME Types, NEW q \in Peer, CallRepeats(q)
  PROVE  call' \in [Peer -> CallType]
  <1>1. call \in [Peer -> CallType] /\ call[q] \in CallType
    BY DEF Types
  <1>2. [call[q] EXCEPT !.pc = "top", !.last = 0, !.term = 0] \in CallType
    BY <1>1 DEF CallType
  <1>3. call' = [call EXCEPT ![q] = [@ EXCEPT !.pc = "top", !.last = 0, !.term = 0]]
    BY <1>1 DEF CallRepeats
  <1>. QED BY <1>1, <1>2, <1>3

LEMMA ReturningTypes ==
  ASSUME Types, NEW r \in Routine, NEW closed \in BOOLEAN, Returns(r, closed)
  PROVE  routine' \in [Routine -> RoutineType] /\ channel' \in [Routine -> SignalType]
  <1>1. routine' \in [Routine -> RoutineType]
    BY DEF Types, Returns, RoutineType
  <1>2. [sent |-> 0, closed |-> closed /\ \E i \in 1 .. MaxIndex : channelAt'[i] = r]
          \in SignalType
    BY DEF SignalType
  <1>3. channel' \in [Routine -> SignalType]
    BY <1>2 DEF Types, Returns
  <1>. QED BY <1>1, <1>3

LEMMA StepTypes == Types /\ Next => Types'
  <1>. SUFFICES ASSUME Types, Next PROVE Types'
    OBVIOUS
  <1>. USE TermsAreNumbers
  <1>1. CASE Start
    BY <1>1 DEF Start, Types
  <1>2. CASE ShutDown
    BY <1>2, ClosingTypes DEF ShutDown, Types
  <1>3. CASE LoopArms
    BY <1>3 DEF LoopArms, Types
  <1>4. CASE LoopWakes
    BY <1>4 DEF LoopWakes, Types
  <1>5. CASE LoopRound
    <2>1. CASE LoopIgnores
      BY <2>1 DEF LoopIgnores, LoopRepeats, Types
    <2>2. CASE LoopFollower
      BY <2>2 DEF LoopFollower, LoopRepeats, StartElection, Types
    <2>3. CASE LoopCandidate
      BY <2>3 DEF LoopCandidate, LoopRepeats, StartElection, Types
    <2>4. CASE LoopLeader
      BY <2>4 DEF LoopLeader, LoopRepeats, Types
    <2>. QED BY <1>5, <2>1, <2>2, <2>3, <2>4 DEF LoopRound
  <1>6. ASSUME NEW term \in HeardOf, NEW grant \in BOOLEAN, HandleRequestVote(term, grant)
        PROVE Types'
    <2>1. CASE term > currentTerm
      BY <1>6, <2>1, BecomeFollowerTypes DEF HandleRequestVote, Types
    <2>2. CASE ~(term > currentTerm)
      BY <1>6, <2>2 DEF HandleRequestVote, Types
    <2>. QED BY <2>1, <2>2
  <1>7. ASSUME NEW term \in HeardOf, HandleAppendEntries(term) PROVE Types'
    <2>1. log' \in LogType /\ Len(log') <= MaxIndex
      <3>1. log \in LogType /\ Len(log) <= MaxIndex /\ commitIndex \in Nat
        BY DEF Types
      <3>2. ASSUME NEW kept \in commitIndex .. Len(log), kept < MaxIndex,
                   log' = Append(SubSeq(log, 1, kept), Nobody)
            PROVE  log' \in LogType /\ Len(log') <= MaxIndex
        <4>1. kept \in 0 .. Len(log)
          BY <3>1, LengthType
        <4>2. SubSeq(log, 1, kept) \in LogType /\ Len(SubSeq(log, 1, kept)) = kept
          BY <3>1, <4>1, PrefixType
        <4>. QED BY <3>2, <4>1, <4>2, AppendKeepsType
      <3>3. \/ log' = log
            \/ \E kept \in commitIndex .. Len(log) :
                 kept < MaxIndex /\ log' = Append(SubSeq(log, 1, kept), Nobody)
        BY <1>7 DEF HandleAppendEntries
      <3>. QED BY <3>1, <3>2, <3>3
    <2>2. commitIndex' \in Nat
      BY <1>7, <2>1, LengthType DEF HandleAppendEntries, Types
    <2>3. UNCHANGED <<routine, call, loop>> /\ BecomeFollower(TRUE) /\ currentTerm' \in Nat
      BY <1>7 DEF HandleAppendEntries
    <2>. QED BY <2>1, <2>2, <2>3, BecomeFollowerTypes DEF Types
  <1>8. ASSUME NEW term \in HeardOf, VotesLost(term) PROVE Types'
    BY <1>8, BecomeFollowerTypes DEF VotesLost, StepDown, Types
  <1>9. CASE VotesWon
    <2>1. routine' \in [Routine -> RoutineType]
      BY <1>9, RoutineMoves DEF VotesWon, Types, Routine
    <2>2. nextIndex' \in [Peer -> Nat]
      BY <1>9, LengthType DEF VotesWon, Types
    <2>. QED BY <1>9, <2>1, <2>2 DEF VotesWon, Types
  <1>10. ASSUME NEW q \in Peer, CallBegins(q) PROVE Types'
    <2>1. call' \in [Peer -> CallType]
      <3>1. call \in [Peer -> CallType]
        BY DEF Types
      <3>2. call' = call \/ call' = [call EXCEPT ![q].pc = "top", ![q].first = TRUE]
        BY <1>10 DEF CallBegins
      <3>3. [call EXCEPT ![q].pc = "top", ![q].first = TRUE] \in [Peer -> CallType]
        BY <3>1 DEF CallType
      <3>. QED BY <3>1, <3>2, <3>3
    <2>. QED BY <1>10, <2>1 DEF CallBegins, Types
  <1>11. ASSUME NEW q \in Peer, CallLoops(q) PROVE Types'
    <2>1. call' \in [Peer -> CallType]
      <3>1. [pc |-> "leaving", first |-> FALSE, last |-> 0, term |-> 0] \in CallType
        BY DEF CallType
      <3>2. [pc |-> "calling", first |-> FALSE, last |-> Len(log), term |-> currentTerm]
              \in CallType
        BY LengthType DEF CallType, Types
      <3>. QED BY <1>11, <3>1, <3>2 DEF CallLoops, Types
    <2>. QED BY <1>11, <2>1 DEF CallLoops, Types
  <1>12. ASSUME NEW q \in Peer, CallLeaves(q) PROVE Types'
    BY <1>12, CallMoves DEF CallLeaves, Types
  <1>13. ASSUME NEW q \in Peer, CallFails(q) PROVE Types'
    BY <1>13, RepeatingTypes DEF CallFails, Types
  <1>14. ASSUME NEW q \in Peer, CallSucceeds(q) PROVE Types'
    <2>1. call[q].last \in Nat
      BY DEF Types, CallType
    <2>2. nextIndex' \in [Peer -> Nat] /\ matchIndex' \in [Peer -> Nat]
      <3>1. \/ UNCHANGED <<nextIndex, matchIndex>>
            \/ /\ nextIndex' = [nextIndex EXCEPT ![q] = call[q].last + 1]
               /\ matchIndex' = [matchIndex EXCEPT ![q] = call[q].last]
        BY <1>14 DEF CallSucceeds
      <3>2. nextIndex \in [Peer -> Nat] /\ matchIndex \in [Peer -> Nat]
        BY DEF Types
      <3>. QED BY <2>1, <3>1, <3>2
    <2>3. channel' \in [Routine -> SignalType]
      <3>1. PICK signalled :
              \/ channel' = channel
              \/ channel' = [s \in Routine |-> IF s \in signalled
                               THEN [channel[s] EXCEPT !.sent = @ + 1] ELSE channel[s]]
        BY <1>14 DEF CallSucceeds
      <3>2. channel \in [Routine -> SignalType]
        BY DEF Types
      <3>3. ASSUME NEW s \in Routine PROVE [channel[s] EXCEPT !.sent = @ + 1] \in SignalType
        BY <3>2 DEF SignalType
      <3>. QED BY <3>1, <3>2, <3>3
    <2>4. call' \in [Peer -> CallType]
      BY <1>14, RepeatingTypes DEF CallSucceeds
    <2>. QED BY <1>14, <2>2, <2>3, <2>4 DEF CallSucceeds, Types
  <1>15. ASSUME NEW q \in Peer, CallDisagrees(q) PROVE Types'
    <2>1. nextIndex' \in [Peer -> Nat]
      BY <1>15 DEF CallDisagrees, Types
    <2>2. call' \in [Peer -> CallType]
      BY <1>15, RepeatingTypes DEF CallDisagrees
    <2>. QED BY <1>15, <2>1, <2>2 DEF CallDisagrees, Types
  <1>16. ASSUME NEW q \in Peer, NEW term \in HeardOf, CallRefused(q, term) PROVE Types'
    <2>1. call' \in [Peer -> CallType]
      BY <1>16, RepeatingTypes DEF CallRefused
    <2>. QED BY <1>16, <2>1, BecomeFollowerTypes DEF CallRefused, StepDown, Types
  <1>17. ASSUME NEW r \in Request, HandleClientRequest(r) PROVE Types'
    BY <1>17, RoutineMoves DEF HandleClientRequest, Types, Routine
  <1>18. ASSUME NEW r \in Routine, OnReceiveClientRequest(r) PROVE Types'
    <2>1. log' \in LogType /\ Len(log') <= MaxIndex
      <3>1. log' = log \/ (log' = Append(log, r) /\ Len(log) + 1 <= MaxIndex)
        BY <1>18 DEF OnReceiveClientRequest
      <3>2. log \in LogType /\ Len(log) <= MaxIndex
        BY DEF Types
      <3>. QED BY <3>1, <3>2, AppendKeepsType
    <2>2. routine' \in [Routine -> RoutineType]
      <3>1. Idle \in RoutineType
        BY DEF RoutineType
      <3>2. [pc |-> "ranging", index |-> Len(log) + 1, term |-> currentTerm] \in RoutineType
        BY LengthType DEF RoutineType, Types
      <3>. QED BY <1>18, <3>1, <3>2 DEF OnReceiveClientRequest, Types
    <2>3. channel' \in [Routine -> SignalType]
      <3>1. [sent |-> 1, closed |-> FALSE] \in SignalType
        BY DEF SignalType
      <3>. QED BY <1>18, <3>1 DEF OnReceiveClientRequest, Types
    <2>. QED BY <1>18, <2>1, <2>2, <2>3 DEF OnReceiveClientRequest, Types
  <1>19. ASSUME NEW r \in Routine, Range(r) PROVE Types'
    BY <1>19, RoutineMoves DEF Range, Types
  <1>20. ASSUME NEW r \in Routine, RangeEnds(r) PROVE Types'
    BY <1>20, ReturningTypes DEF RangeEnds, Types
  <1>21. ASSUME NEW r \in Routine, Commit(r) PROVE Types'
    <2>1. routine' \in [Routine -> RoutineType] /\ channel' \in [Routine -> SignalType]
      BY <1>21, ReturningTypes DEF Commit
    <2>2. commitIndex' \in Nat
      <3>1. routine[r].index \in Nat
        BY DEF Types, RoutineType
      <3>. QED BY <1>21, <3>1, LengthType DEF Commit, Types
    <2>3. channelAt' \in [1 .. MaxIndex -> Routine \cup {Nobody}]
      BY <1>21 DEF Commit, Unregister, Types
    <2>. QED BY <1>21, <2>1, <2>2, <2>3 DEF Commit, Types
  <1>. QED BY <1>1, <1>2, <1>3, <1>4, <1>5, <1>6, <1>7, <1>8, <1>9, <1>10, <1>11, <1>12,
              <1>13, <1>14, <1>15, <1>16, <1>17, <1>18, <1>19, <1>20, <1>21 DEF Next

-----------------------------------------------------------------------------
\* the loop

LEMMA StepLoop == Types /\ LoopInv /\ Next => LoopInv'
  <1>. SUFFICES ASSUME Types, LoopInv, Next PROVE LoopInv'
    OBVIOUS
  <1>. USE DEF LoopInv
  <1>1. loop = [pc |-> loop.pc, armed |-> loop.armed]
    BY DEF Types
  <1>2. CASE Start
    BY <1>1, <1>2 DEF Start
  <1>3. CASE ShutDown
    BY <1>3 DEF ShutDown, ResetTimeout
  <1>4. CASE LoopArms
    BY <1>4 DEF LoopArms
  <1>5. CASE LoopWakes
    BY <1>1, <1>5 DEF LoopWakes
  <1>6. CASE LoopRound
    <2>1. CASE LoopIgnores
      BY <2>1 DEF LoopIgnores, LoopRepeats, Drain
    <2>2. CASE LoopFollower
      BY <2>2 DEF LoopFollower, LoopActs, LoopRepeats, Drain, DrainThenReset, ResetTimeout
    <2>3. CASE LoopCandidate
      BY <2>3 DEF LoopCandidate, LoopActs, LoopRepeats, Drain
    <2>4. CASE LoopLeader
      BY <2>4 DEF LoopLeader, LoopActs, LoopRepeats, Drain
    <2>. QED BY <1>6, <2>1, <2>2, <2>3, <2>4 DEF LoopRound
  <1>7. ASSUME NEW term \in HeardOf, NEW grant \in BOOLEAN, HandleRequestVote(term, grant)
        PROVE LoopInv'
    BY <1>7 DEF HandleRequestVote, Resets, ResetTimeout, Types
  <1>8. ASSUME NEW term \in HeardOf, HandleAppendEntries(term) PROVE LoopInv'
    BY <1>8 DEF HandleAppendEntries, Resets, ResetTimeout, Types
  <1>9. ASSUME NEW term \in HeardOf, VotesLost(term) PROVE LoopInv'
    BY <1>9 DEF VotesLost, StepDown, Resets, ResetTimeout
  <1>10. CASE VotesWon
    BY <1>10 DEF VotesWon, ResetTimeout
  <1>11. ASSUME NEW q \in Peer,
                CallBegins(q) \/ CallLoops(q) \/ CallLeaves(q) \/ CallFails(q)
                \/ CallSucceeds(q) \/ CallDisagrees(q)
         PROVE  LoopInv'
    <2>1. UNCHANGED <<state, shutdown, startBefore, loop, slot, skip>>
      BY <1>11 DEF CallBegins, CallLoops, CallLeaves, CallFails, CallSucceeds, CallDisagrees
    <2>. QED BY <2>1
  <1>12. ASSUME NEW q \in Peer, NEW term \in HeardOf, CallRefused(q, term) PROVE LoopInv'
    BY <1>12 DEF CallRefused, StepDown, Resets, ResetTimeout
  <1>13. ASSUME NEW r \in Request, HandleClientRequest(r) PROVE LoopInv'
    BY <1>13 DEF HandleClientRequest
  <1>14. ASSUME NEW r \in Routine, OnReceiveClientRequest(r) PROVE LoopInv'
    BY <1>14 DEF OnReceiveClientRequest, TriggerTimeout
  <1>15. ASSUME NEW r \in Routine, Range(r) \/ RangeEnds(r) \/ Commit(r) PROVE LoopInv'
    <2>1. UNCHANGED <<state, shutdown, startBefore, loop, slot, skip>>
      BY <1>15 DEF Range, RangeEnds, Commit
    <2>. QED BY <2>1
  <1>. HIDE DEF LoopInv
  <1>. QED BY <1>2, <1>3, <1>4, <1>5, <1>6, <1>7, <1>8, <1>9, <1>10, <1>11, <1>12, <1>13,
              <1>14, <1>15 DEF Next

LEMMA LoopAlways == Spec => [](Types /\ LoopInv)
  <1>1. Types /\ LoopInv /\ [Next]_vars => (Types /\ LoopInv)'
    <2>. SUFFICES ASSUME Types, LoopInv, [Next]_vars PROVE Types' /\ LoopInv'
      OBVIOUS
    <2>1. CASE Next
      BY <2>1, StepTypes, StepLoop, Zenon
    <2>2. CASE UNCHANGED vars
      <3>1. Types'
        BY <2>2 DEF vars, Types
      <3>2. LoopInv'
        BY <2>2 DEF vars, LoopInv, Stopped
      <3>. QED BY <3>1, <3>2
    <2>. QED BY <2>1, <2>2
  <1>. QED BY <1>1, InitHolds, PTL DEF Spec

\* timeoutLoop: a skip flag never outlives the message that came with it, so that no
\* later timeout is swallowed (peer.go:163)
THEOREM SkipsAreForTheirRound == Spec => []SkipIsForThisRound
  <1>1. Types /\ LoopInv => SkipIsForThisRound
    BY DEF LoopInv, SkipIsForThisRound
  <1>. QED BY <1>1, LoopAlways, PTL

\* once shut down, the peer's timeout loop starts no election
THEOREM NoCampaignAfterShutdown == Spec => StoppedPeerDoesNotCampaign
  <1>1. Types /\ LoopInv /\ [Next]_vars =>
          [shutdown /\ loop'.pc # loop.pc => currentTerm' = currentTerm]_vars
    <2>. SUFFICES ASSUME Types, LoopInv, Next, shutdown, loop'.pc # loop.pc
                  PROVE  currentTerm' = currentTerm
      OBVIOUS
    <2>1. CASE Start \/ ShutDown \/ LoopArms \/ LoopWakes
      BY <2>1 DEF Start, ShutDown, LoopArms, LoopWakes
    <2>2. CASE LoopRound
      BY <2>2 DEF LoopRound, LoopIgnores, LoopFollower, LoopCandidate, LoopLeader, LoopActs,
                  LoopInv
    <2>3. ASSUME NEW term \in HeardOf,
                 \/ \E grant \in BOOLEAN : HandleRequestVote(term, grant)
                 \/ HandleAppendEntries(term) \/ VotesLost(term)
                 \/ \E q \in Peer : CallRefused(q, term)
          PROVE  UNCHANGED loop
      BY <2>3 DEF HandleRequestVote, HandleAppendEntries, VotesLost, CallRefused
    <2>4. CASE VotesWon
      BY <2>4 DEF VotesWon
    <2>5. ASSUME NEW q \in Peer,
                 CallBegins(q) \/ CallLoops(q) \/ CallLeaves(q) \/ CallFails(q)
                 \/ CallSucceeds(q) \/ CallDisagrees(q)
          PROVE  UNCHANGED loop
      BY <2>5 DEF CallBegins, CallLoops, CallLeaves, CallFails, CallSucceeds, CallDisagrees
    <2>6. ASSUME NEW r \in Routine,
                 (r \in Request /\ HandleClientRequest(r)) \/ OnReceiveClientRequest(r)
                 \/ Range(r) \/ RangeEnds(r) \/ Commit(r)
          PROVE  UNCHANGED loop
      BY <2>6 DEF HandleClientRequest, OnReceiveClientRequest, Range, RangeEnds, Commit
    <2>. QED BY <2>1, <2>2, <2>3, <2>4, <2>5, <2>6 DEF Next, Routine
  <1>. QED BY <1>1, LoopAlways, PTL DEF Spec, StoppedPeerDoesNotCampaign

-----------------------------------------------------------------------------
\* what goroutines that wait remember

\* the log, the leadership and what waits are what they were
LEMMA HistoryKept ==
  ASSUME HistoryInv, UNCHANGED <<state, currentTerm, log, nextIndex>>,
         \A r \in Routine : routine'[r].pc \in Waiting =>
           /\ routine[r].pc \in Waiting
           /\ routine'[r].index = routine[r].index /\ routine'[r].term = routine[r].term,
         \A q \in Peer : call'[q].pc = "calling" => call'[q] = call[q]
  PROVE  HistoryInv'
  <1>1. OwnEntries'
    BY DEF HistoryInv, OwnEntries
  <1>2. CallsFit'
    BY DEF HistoryInv, CallsFit
  <1>3. IndicesFit'
    BY DEF HistoryInv, IndicesFit
  <1>. QED BY <1>1, <1>2, <1>3 DEF HistoryInv

\* the peer does not lead, and what waits is of earlier terms
LEMMA HistoryEnds ==
  ASSUME Types, HistoryInv, state' # "Leader", currentTerm' \in Nat,
         currentTerm' > currentTerm \/ (currentTerm' = currentTerm /\ state # "Leader"),
         \A r \in Routine : routine'[r].pc \in Waiting => routine'[r] = routine[r],
         \A q \in Peer : call'[q].pc = "calling" => call'[q] = call[q]
  PROVE  HistoryInv'
  <1>1. OwnEntries'
    <2>. SUFFICES ASSUME NEW r \in Routine, routine'[r].pc \in Waiting
                  PROVE  routine'[r].term <= currentTerm' /\ routine'[r].term # currentTerm'
      BY DEF OwnEntries
    <2>1. routine'[r] = routine[r] /\ routine[r].term \in Nat /\ currentTerm \in Nat
      BY DEF Types, RoutineType
    <2>. QED BY <2>1 DEF HistoryInv, OwnEntries
  <1>2. CallsFit'
    <2>. SUFFICES ASSUME NEW q \in Peer, call'[q].pc = "calling"
                  PROVE  call'[q].term <= currentTerm' /\ call'[q].term # currentTerm'
      BY DEF CallsFit
    <2>1. call'[q] = call[q] /\ call[q].term \in Nat /\ currentTerm \in Nat
      BY DEF Types, CallType
    <2>. QED BY <2>1 DEF HistoryInv, CallsFit
  <1>3. IndicesFit'
    BY DEF IndicesFit
  <1>. QED BY <1>1, <1>2, <1>3 DEF HistoryInv

\* one call moves, and does not begin
LEMMA OtherCallsStay ==
  ASSUME Types, NEW q \in Peer, CallRepeats(q)
  PROVE  \A x \in Peer : call'[x].pc = "calling" => call'[x] = call[x]
  BY DEF Types, CallRepeats, CallType

LEMMA StepHistory == Types /\ HistoryInv /\ Next => HistoryInv'
  <1>. SUFFICES ASSUME Types, HistoryInv, Next PROVE HistoryInv'
    OBVIOUS
  <1>. USE TermsAreNumbers
  <1>. DEFINE CallsStay == \A x \in Peer : call'[x].pc = "calling" => call'[x] = call[x]
              ContextStays == UNCHANGED <<state, currentTerm, log, nextIndex>>
  <1>1. currentTerm \in Nat /\ state \in {"Follower", "Candidate", "Leader"}
        /\ routine \in [Routine -> RoutineType] /\ call \in [Peer -> CallType]
        /\ log \in LogType /\ Len(log) \in Nat
    BY LengthType DEF Types
  <1>2. CASE Start \/ ShutDown \/ LoopArms \/ LoopWakes
    <2>1. ContextStays /\ UNCHANGED <<routine, call>>
      BY <1>2 DEF Start, ShutDown, LoopArms, LoopWakes
    <2>. QED BY <2>1, HistoryKept
  <1>3. CASE LoopRound
    <2>1. CASE LoopIgnores \/ LoopLeader
      <3>1. ContextStays /\ UNCHANGED <<routine, call>>
        BY <2>1 DEF LoopIgnores, LoopLeader
      <3>. QED BY <3>1, HistoryKept
    <2>2. CASE LoopFollower \/ LoopCandidate
      <3>1. state # "Leader" /\ state' # "Leader" /\ UNCHANGED <<routine, call>>
            /\ (currentTerm' = currentTerm \/ currentTerm' = currentTerm + 1)
        BY <2>2 DEF LoopFollower, LoopCandidate, LoopActs, StartElection
      <3>. QED BY <1>1, <3>1, HistoryEnds
    <2>. QED BY <1>3, <2>1, <2>2 DEF LoopRound
  <1>4. ASSUME NEW term \in HeardOf, NEW grant \in BOOLEAN, HandleRequestVote(term, grant)
        PROVE  HistoryInv'
    <2>1. UNCHANGED <<routine, call>> /\ currentTerm' = term /\ term \in Nat
      BY <1>4 DEF HandleRequestVote
    <2>2. CASE term > currentTerm
      <3>1. state' # "Leader"
        BY <1>4, <2>2 DEF HandleRequestVote, BecomeFollower
      <3>. QED BY <2>1, <2>2, <3>1, HistoryEnds
    <2>3. CASE ~(term > currentTerm)
      <3>1. state # "Leader" /\ state' # "Leader" /\ term = currentTerm
        BY <1>4, <2>3 DEF HandleRequestVote
      <3>. QED BY <2>1, <3>1, HistoryEnds
    <2>. QED BY <2>2, <2>3
  <1>5. ASSUME NEW term \in HeardOf, HandleAppendEntries(term) PROVE HistoryInv'
    <2>1. /\ UNCHANGED <<routine, call>> /\ currentTerm' = term /\ term \in Nat
          /\ state' # "Leader"
          /\ term > currentTerm \/ (term = currentTerm /\ state # "Leader")
      BY <1>5 DEF HandleAppendEntries, BecomeFollower
    <2>. QED BY <2>1, HistoryEnds
  <1>6. ASSUME NEW term \in HeardOf, VotesLost(term) PROVE HistoryInv'
    <2>1. /\ UNCHANGED <<routine, call>> /\ currentTerm' = term /\ term \in Nat
          /\ state' # "Leader" /\ term > currentTerm
      BY <1>6 DEF VotesLost, StepDown, BecomeFollower
    <2>. QED BY <2>1, HistoryEnds
  <1>7. CASE VotesWon
    <2>1. /\ state = "Candidate" /\ UNCHANGED <<currentTerm, log, call>>
          /\ currentTerm \in Routine
          /\ routine' = [routine EXCEPT ![currentTerm].pc = "new"]
          /\ nextIndex' = [q \in Peer |-> Len(log) + 1]
      BY <1>7 DEF VotesWon, Routine
    <2>2. OwnEntries'
      <3>. SUFFICES ASSUME NEW r \in Routine, routine'[r].pc \in Waiting
                    PROVE  routine'[r].term <= currentTerm' /\ routine'[r].term # currentTerm'
        BY DEF OwnEntries
      <3>1. routine'[r] = routine[r]
        BY <1>1, <2>1 DEF RoutineType
      <3>. QED BY <2>1, <3>1 DEF HistoryInv, OwnEntries
    <2>3. CallsFit'
      <3>. SUFFICES ASSUME NEW q \in Peer, call'[q].pc = "calling"
                    PROVE  call'[q].term <= currentTerm' /\ call'[q].term # currentTerm'
        BY DEF CallsFit
      <3>. QED BY <2>1 DEF HistoryInv, CallsFit
    <2>4. IndicesFit'
      BY <1>1, <2>1 DEF IndicesFit
    <2>. QED BY <2>2, <2>3, <2>4 DEF HistoryInv
  <1>8. ASSUME NEW q \in Peer, CallBegins(q) \/ CallLeaves(q) \/ CallFails(q)
        PROVE  HistoryInv'
    <2>1. ContextStays /\ UNCHANGED routine
      BY <1>8 DEF CallBegins, CallLeaves, CallFails
    <2>2. CallsStay
      <3>1. CASE CallBegins(q)
        <4>1. call' = call \/ call' = [call EXCEPT ![q].pc = "top", ![q].first = TRUE]
          BY <3>1 DEF CallBegins
        <4>. QED BY <1>1, <4>1 DEF CallType
      <3>2. CASE CallLeaves(q)
        BY <1>1, <3>2 DEF CallLeaves, CallType
      <3>3. CASE CallFails(q)
        BY <3>3, OtherCallsStay DEF CallFails
      <3>. QED BY <1>8, <3>1, <3>2, <3>3
    <2>. QED BY <2>1, <2>2, HistoryKept
  <1>9. ASSUME NEW q \in Peer, CallLoops(q) PROVE HistoryInv'
    <2>1. ContextStays /\ UNCHANGED routine
      BY <1>9 DEF CallLoops
    <2>2. OwnEntries' /\ IndicesFit'
      BY <2>1 DEF HistoryInv, OwnEntries, IndicesFit
    <2>3. CallsFit'
      <3>. SUFFICES ASSUME NEW x \in Peer, call'[x].pc = "calling"
                    PROVE  /\ call'[x].term <= currentTerm
                           /\ call'[x].term = currentTerm =>
                                state = "Leader" /\ call'[x].last <= Len(log)
        BY <2>1 DEF CallsFit
      <3>1. CASE x # q
        <4>1. call'[x] = call[x]
          BY <1>1, <1>9, <3>1 DEF CallLoops
        <4>. QED BY <4>1 DEF HistoryInv, CallsFit
      <3>2. CASE x = q
        <4>1. MayGoOn
          BY <1>1, <1>9, <3>2 DEF CallLoops
        <4>2. call'[x] = [pc |-> "calling", first |-> FALSE, last |-> Len(log),
                          term |-> currentTerm]
          BY <1>1, <1>9, <3>2 DEF CallLoops
        <4>. QED BY <1>1, <4>1, <4>2 DEF MayGoOn
      <3>. QED BY <3>1, <3>2
    <2>. QED BY <2>2, <2>3 DEF HistoryInv
  <1>10. ASSUME NEW q \in Peer, CallSucceeds(q) PROVE HistoryInv'
    <2>1. UNCHANGED <<state, currentTerm, log, routine>>
      BY <1>10 DEF CallSucceeds
    <2>2. CallsStay
      BY <1>10, OtherCallsStay DEF CallSucceeds
    <2>3. OwnEntries' /\ CallsFit'
      BY <2>1, <2>2 DEF HistoryInv, OwnEntries, CallsFit
    <2>4. IndicesFit'
      <3>. SUFFICES ASSUME state = "Leader", NEW x \in Peer PROVE nextIndex'[x] <= Len(log) + 1
        BY <2>1 DEF IndicesFit
      <3>1. call[q].last \in Nat /\ call[q].last <= Len(log)
        BY <1>1, <1>10 DEF CallSucceeds, InTime, HistoryInv, CallsFit, CallType
      <3>2. nextIndex \in [Peer -> Nat] /\ nextIndex[x] <= Len(log) + 1
        BY DEF Types, HistoryInv, IndicesFit
      <3>3. nextIndex' = [nextIndex EXCEPT ![q] = call[q].last + 1]
        BY <1>10 DEF CallSucceeds
      <3>. QED BY <1>1, <3>1, <3>2, <3>3
    <2>. QED BY <2>3, <2>4 DEF HistoryInv
  <1>11. ASSUME NEW q \in Peer, CallDisagrees(q) PROVE HistoryInv'
    <2>1. UNCHANGED <<state, currentTerm, log, routine>> /\ state = "Leader"
          /\ nextIndex' = [nextIndex EXCEPT ![q] = @ - 1]
      BY <1>11 DEF CallDisagrees
    <2>2. CallsStay
      BY <1>11, OtherCallsStay DEF CallDisagrees
    <2>3. OwnEntries' /\ CallsFit'
      BY <2>1, <2>2 DEF HistoryInv, OwnEntries, CallsFit
    <2>4. IndicesFit'
      <3>. SUFFICES ASSUME NEW x \in Peer PROVE nextIndex'[x] <= Len(log) + 1
        BY <2>1 DEF IndicesFit
      <3>1. nextIndex \in [Peer -> Nat] /\ nextIndex[x] <= Len(log) + 1
        BY <2>1 DEF Types, HistoryInv, IndicesFit
      <3>. QED BY <1>1, <2>1, <3>1
    <2>. QED BY <2>3, <2>4 DEF HistoryInv
  <1>12. ASSUME NEW q \in Peer, NEW term \in HeardOf, CallRefused(q, term) PROVE HistoryInv'
    <2>1. /\ UNCHANGED routine /\ currentTerm' = term /\ term \in Nat
          /\ state' # "Leader" /\ term > currentTerm
      BY <1>12 DEF CallRefused, StepDown, BecomeFollower
    <2>2. CallsStay
      BY <1>12, OtherCallsStay DEF CallRefused
    <2>. QED BY <2>1, <2>2, HistoryEnds
  <1>13. ASSUME NEW r \in Request, HandleClientRequest(r) PROVE HistoryInv'
    <2>1. ContextStays /\ UNCHANGED call /\ routine' = [routine EXCEPT ![r].pc = "new"]
      BY <1>13 DEF HandleClientRequest
    <2>2. \A x \in Routine : routine'[x].pc \in Waiting => routine'[x] = routine[x]
      BY <1>1, <2>1 DEF RoutineType, Routine
    <2>. QED BY <2>1, <2>2, HistoryKept
  <1>14. ASSUME NEW r \in Routine, OnReceiveClientRequest(r) PROVE HistoryInv'
    <2>1. CASE state = "Leader"
      <3>1. /\ UNCHANGED <<state, currentTerm, nextIndex, call>>
            /\ log' = Append(log, r)
            /\ routine' = [routine EXCEPT ![r] = [pc |-> "ranging", index |-> Len(log) + 1,
                                                  term |-> currentTerm]]
        BY <1>14, <2>1 DEF OnReceiveClientRequest
      <3>2. /\ Len(log') = Len(log) + 1
            /\ \A i \in 1 .. Len(log) : log'[i] = log[i]
            /\ log'[Len(log) + 1] = r
        BY <1>1, <3>1 DEF LogType
      <3>3. OwnEntries'
        <4>. SUFFICES ASSUME NEW x \in Routine, routine'[x].pc \in Waiting
                      PROVE  /\ routine'[x].term <= currentTerm
                             /\ routine'[x].term = currentTerm =>
                                  /\ routine'[x].index \in 1 .. Len(log')
                                  /\ log'[routine'[x].index] = x
          BY <2>1, <3>1 DEF OwnEntries
        <4>1. CASE x = r
          <5>1. routine'[x] = [pc |-> "ranging", index |-> Len(log) + 1, term |-> currentTerm]
            BY <1>1, <3>1, <4>1
          <5>. QED BY <1>1, <3>2, <4>1, <5>1
        <4>2. CASE x # r
          <5>1. routine'[x] = routine[x]
            BY <1>1, <3>1, <4>2
          <5>2. /\ routine[x].term <= currentTerm
                /\ routine[x].term = currentTerm =>
                     routine[x].index \in 1 .. Len(log) /\ log[routine[x].index] = x
            BY <5>1 DEF HistoryInv, OwnEntries
          <5>. QED BY <1>1, <3>2, <5>1, <5>2
        <4>. QED BY <4>1, <4>2
      <3>4. CallsFit'
        <4>. SUFFICES ASSUME NEW q \in Peer, call[q].pc = "calling"
                      PROVE  /\ call[q].term <= currentTerm
                             /\ call[q].term = currentTerm => call[q].last <= Len(log')
          BY <2>1, <3>1 DEF CallsFit
        <4>1. call[q].last \in Nat
          BY <1>1 DEF CallType
        <4>. QED BY <1>1, <3>2, <4>1 DEF HistoryInv, CallsFit
      <3>5. IndicesFit'
        <4>. SUFFICES ASSUME NEW q \in Peer PROVE nextIndex[q] <= Len(log') + 1
          BY <3>1 DEF IndicesFit
        <4>1. nextIndex[q] \in Nat /\ nextIndex[q] <= Len(log) + 1
          BY <2>1 DEF Types, HistoryInv, IndicesFit
        <4>. QED BY <1>1, <3>2, <4>1
      <3>. QED BY <3>3, <3>4, <3>5 DEF HistoryInv
    <2>2. CASE state # "Leader"
      <3>1. ContextStays /\ UNCHANGED call /\ routine' = [routine EXCEPT ![r] = Idle]
        BY <1>14, <2>2 DEF OnReceiveClientRequest
      <3>2. \A x \in Routine : routine'[x].pc \in Waiting => routine'[x] = routine[x]
        BY <1>1, <3>1
      <3>. QED BY <3>1, <3>2, HistoryKept
    <2>. QED BY <2>1, <2>2
  <1>15. ASSUME NEW r \in Routine, Range(r) PROVE HistoryInv'
    <2>1. ContextStays /\ UNCHANGED call /\ routine[r].pc = "ranging"
          /\ routine' = [routine EXCEPT ![r].pc = "counted"]
      BY <1>15 DEF Range
    <2>2. \A x \in Routine : routine'[x].pc \in Waiting =>
            /\ routine[x].pc \in Waiting
            /\ routine'[x].index = routine[x].index /\ routine'[x].term = routine[x].term
      BY <1>1, <2>1 DEF RoutineType
    <2>. QED BY <2>1, <2>2, HistoryKept
  <1>16. ASSUME NEW r \in Routine, RangeEnds(r) \/ Commit(r) PROVE HistoryInv'
    <2>1. ContextStays /\ UNCHANGED call /\ routine' = [routine EXCEPT ![r] = Idle]
      BY <1>16 DEF RangeEnds, Commit, Returns
    <2>2. \A x \in Routine : routine'[x].pc \in Waiting => routine'[x] = routine[x]
      BY <1>1, <2>1
    <2>. QED BY <2>1, <2>2, HistoryKept
  <1>. QED BY <1>2, <1>3, <1>4, <1>5, <1>6, <1>7, <1>8, <1>9, <1>10, <1>11, <1>12, <1>13,
              <1>14, <1>15, <1>16 DEF Next

LEMMA HistoryAlways == Spec => [](Types /\ HistoryInv)
  <1>1. HistoryInv /\ UNCHANGED vars => HistoryInv'
    BY DEF HistoryInv, OwnEntries, CallsFit, IndicesFit
  <1>2. Types /\ UNCHANGED vars => Types'
    BY DEF Types
  <1>3. Types /\ HistoryInv /\ [Next]_vars => (Types /\ HistoryInv)'
    BY <1>1, <1>2, StepTypes, StepHistory
  <1>. QED BY <1>3, InitHolds, PTL DEF Spec

\* onReceiveClientRequest commits the entry that it appended, however leaderships and
\* goroutines interleave (append_entry.go:238)
THEOREM OwnEntryIsCommitted == Spec => CommitsItsOwnEntry
  <1>1. ASSUME Types, HistoryInv, Next,
               NEW r \in Routine, routine[r].pc = "counted", routine'[r].pc = "idle",
               commitIndex' > commitIndex
        PROVE  log[routine[r].index] = r /\ commitIndex' = routine[r].index
    <2>1. routine \in [Routine -> RoutineType] /\ Len(log) \in Nat /\ commitIndex \in Nat
      BY <1>1, LengthType DEF Types
    <2>2. ASSUME NEW s \in Routine, Commit(s)
          PROVE  log[routine[r].index] = r /\ commitIndex' = routine[r].index
      <3>1. s = r
        BY <1>1, <2>1, <2>2 DEF Commit, Returns
      <3>2. StillLeads(r)
        BY <1>1, <2>1, <2>2, <3>1 DEF Commit
      <3>3. routine[r].index \in 1 .. Len(log) /\ log[routine[r].index] = r
        BY <1>1, <3>2 DEF StillLeads, HistoryInv, OwnEntries
      <3>. QED BY <1>1, <2>1, <2>2, <3>1, <3>2, <3>3 DEF Commit
    <2>3. ASSUME UNCHANGED routine \/ UNCHANGED commitIndex PROVE FALSE
      BY <1>1, <2>3 DEF Types
    <2>4. CASE Start \/ ShutDown \/ LoopArms \/ LoopWakes \/ LoopRound
      BY <2>3, <2>4 DEF Start, ShutDown, LoopArms, LoopWakes, LoopRound, LoopIgnores,
                        LoopFollower, LoopCandidate, LoopLeader
    <2>5. ASSUME NEW term \in HeardOf,
                 \/ \E grant \in BOOLEAN : HandleRequestVote(term, grant)
                 \/ HandleAppendEntries(term) \/ VotesLost(term)
                 \/ \E q \in Peer : CallRefused(q, term)
          PROVE  FALSE
      BY <2>3, <2>5 DEF HandleRequestVote, HandleAppendEntries, VotesLost, CallRefused
    <2>6. CASE VotesWon
      BY <2>3, <2>6 DEF VotesWon
    <2>7. ASSUME NEW q \in Peer,
                 CallBegins(q) \/ CallLoops(q) \/ CallLeaves(q) \/ CallFails(q)
                 \/ CallSucceeds(q) \/ CallDisagrees(q)
          PROVE  FALSE
      <3>1. UNCHANGED routine
        BY <2>7 DEF CallBegins, CallLoops, CallLeaves, CallFails, CallSucceeds, CallDisagrees
      <3>. QED BY <2>3, <3>1
    <2>8. ASSUME NEW s \in Routine,
                 (s \in Request /\ HandleClientRequest(s)) \/ OnReceiveClientRequest(s)
                 \/ Range(s) \/ RangeEnds(s)
          PROVE  FALSE
      <3>1. UNCHANGED commitIndex
        BY <2>8 DEF HandleClientRequest, OnReceiveClientRequest, Range, RangeEnds
      <3>. QED BY <2>3, <3>1
    <2>. QED BY <1>1, <2>2, <2>4, <2>5, <2>6, <2>7, <2>8 DEF Next, Routine
  <1>2. Types /\ HistoryInv /\ [Next]_vars =>
          [\A r \in Routine :
             routine[r].pc = "counted" /\ routine'[r].pc = "idle" /\ commitIndex' > commitIndex =>
             /\ log[routine[r].index] = r
             /\ commitIndex' = routine[r].index]_vars
    BY <1>1
  <1>. QED BY <1>2, HistoryAlways, PTL DEF Spec, CommitsItsOwnEntry

-----------------------------------------------------------------------------
\* the channels

\* the map is empty afterwards, and no goroutine waits for the present term
LEMMA ChannelsForgotten ==
  ASSUME ~panicked',
         \A i \in 1 .. MaxIndex : channelAt'[i] = Nobody,
         \A r \in Routine : routine'[r].pc \in Waiting => routine'[r].term # currentTerm'
  PROVE  ChannelsInv'
  BY DEF ChannelsInv

\* the map is what it was, and so are the goroutines in it, and open channels
LEMMA ChannelsKept ==
  ASSUME Types, ChannelsInv, ~panicked', UNCHANGED <<state, currentTerm, channelAt>>,
         Stopped => Stopped',
         \A r \in Registered :
           /\ routine'[r].pc \in Waiting
           /\ routine'[r].index = routine[r].index /\ routine'[r].term = routine[r].term,
         \A r \in Routine : routine'[r].pc \in Waiting =>
           routine[r].pc \in Waiting /\ routine'[r].term = routine[r].term,
         \A r \in Routine : routine'[r].pc \in Waiting => channel'[r].closed = channel[r].closed
  PROVE  ChannelsInv'
  <1>. SUFFICES ASSUME ~Stopped' PROVE ChannelsInv'
    BY DEF ChannelsInv
  <1>1. ASSUME NEW i \in 1 .. MaxIndex, channelAt[i] # Nobody
        PROVE  /\ ~channel'[channelAt[i]].closed
               /\ state = "Leader"
               /\ routine'[channelAt[i]].pc \in Waiting
               /\ routine'[channelAt[i]].index = i
               /\ routine'[channelAt[i]].term = currentTerm
    <2>1. channelAt[i] \in Routine /\ channelAt[i] \in Registered
      BY <1>1 DEF Types, Registered
    <2>. QED BY <1>1, <2>1 DEF ChannelsInv
  <1>2. ASSUME NEW r \in Routine, routine'[r].pc \in Waiting, routine'[r].term = currentTerm
        PROVE  ~channel'[r].closed
    BY <1>2 DEF ChannelsInv
  <1>. QED BY <1>1, <1>2 DEF ChannelsInv

\* a goroutine whose channel is in the map
LEMMA RegisteredWaits ==
  ASSUME Types, ChannelsInv, ~Stopped, NEW r \in Registered
  PROVE  /\ r \in Routine /\ ~channel[r].closed /\ state = "Leader"
         /\ routine[r].pc \in Waiting /\ routine[r].term = currentTerm
  BY DEF Types, ChannelsInv, Registered

\* changeState(Follower) closes no channel twice
LEMMA ClosingIsSafe ==
  ASSUME Types, ChannelsInv, ~Stopped, CloseRegistered
  PROVE  ~panicked'
  BY RegisteredWaits DEF CloseRegistered

LEMMA SteppingDown ==
  ASSUME Types, HistoryInv, ChannelsInv, ~Stopped, NEW heard, BecomeFollower(heard),
         UNCHANGED routine, currentTerm' \in Nat,
         currentTerm' > currentTerm \/ (currentTerm' = currentTerm /\ state # "Leader")
  PROVE  ChannelsInv'
  <1>1. ~panicked'
    BY ClosingIsSafe DEF BecomeFollower
  <1>2. \A i \in 1 .. MaxIndex : channelAt'[i] = Nobody
    BY DEF BecomeFollower
  <1>3. ASSUME NEW r \in Routine, routine'[r].pc \in Waiting
        PROVE  routine'[r].term # currentTerm'
    <2>1. routine[r].term \in Nat /\ currentTerm \in Nat
      BY DEF Types, RoutineType
    <2>. QED BY <1>3, <2>1 DEF HistoryInv, OwnEntries
  <1>. QED BY <1>1, <1>2, <1>3, ChannelsForgotten

LEMMA StepChannels == Types /\ LoopInv /\ HistoryInv /\ ChannelsInv /\ Next => ChannelsInv'
  <1>. SUFFICES ASSUME Types, LoopInv, HistoryInv, ChannelsInv, Next, ~Stopped
                PROVE  ChannelsInv'
    <2>1. ASSUME Stopped, Next PROVE Stopped'
      <3>1. ASSUME NEW q \in Peer,
                   CallBegins(q) \/ CallLoops(q) \/ CallLeaves(q) \/ CallFails(q)
                   \/ CallSucceeds(q) \/ CallDisagrees(q)
            PROVE  UNCHANGED <<shutdown, startBefore>>
        BY <3>1 DEF CallBegins, CallLoops, CallLeaves, CallFails, CallSucceeds, CallDisagrees
      <3>2. ASSUME NEW r \in Routine,
                   (r \in Request /\ HandleClientRequest(r)) \/ OnReceiveClientRequest(r)
                   \/ Range(r) \/ RangeEnds(r) \/ Commit(r)
            PROVE  UNCHANGED <<shutdown, startBefore>>
        BY <3>2 DEF HandleClientRequest, OnReceiveClientRequest, Range, RangeEnds, Commit
      <3>3. CASE Start \/ ShutDown \/ LoopArms \/ LoopWakes \/ LoopRound \/ VotesWon
        BY <2>1, <3>3 DEF Start, ShutDown, LoopArms, LoopWakes, LoopRound, LoopIgnores,
                          LoopFollower, LoopCandidate, LoopLeader, VotesWon
      <3>4. ASSUME NEW term \in HeardOf,
                   \/ \E grant \in BOOLEAN : HandleRequestVote(term, grant)
                   \/ HandleAppendEntries(term) \/ VotesLost(term)
                   \/ \E q \in Peer : CallRefused(q, term)
            PROVE  UNCHANGED <<shutdown, startBefore>>
        BY <3>4 DEF HandleRequestVote, HandleAppendEntries, VotesLost, CallRefused
      <3>. QED BY <2>1, <3>1, <3>2, <3>3, <3>4 DEF Next, Routine
    <2>. QED BY <2>1 DEF ChannelsInv
  <1>. USE TermsAreNumbers
  <1>1. /\ currentTerm \in Nat /\ Len(log) \in Nat /\ Len(log) <= MaxIndex
        /\ state \in {"Follower", "Candidate", "Leader"}
        /\ routine \in [Routine -> RoutineType] /\ channel \in [Routine -> SignalType]
        /\ channelAt \in [1 .. MaxIndex -> Routine \cup {Nobody}]
        /\ ~panicked
    BY LengthType DEF Types, Next
  <1>2. CASE Start \/ LoopArms \/ LoopWakes \/ LoopIgnores \/ LoopLeader
    <2>1. UNCHANGED <<panicked, state, currentTerm, channelAt, routine, channel>>
      BY <1>2 DEF Start, LoopArms, LoopWakes, LoopIgnores, LoopLeader
    <2>. QED BY <1>1, <2>1, RegisteredWaits, ChannelsKept
  <1>3. CASE ShutDown
    BY <1>3, ClosingIsSafe DEF ShutDown, LoopInv, ChannelsInv
  <1>4. CASE LoopFollower \/ LoopCandidate
    <2>1. /\ state # "Leader" /\ UNCHANGED <<panicked, channelAt, routine, channel>>
          /\ (currentTerm' = currentTerm \/ currentTerm' = currentTerm + 1)
      BY <1>4 DEF LoopFollower, LoopCandidate, LoopActs, StartElection
    <2>2. \A i \in 1 .. MaxIndex : channelAt'[i] = Nobody
      BY <2>1 DEF ChannelsInv
    <2>3. ASSUME NEW r \in Routine, routine'[r].pc \in Waiting
          PROVE  routine'[r].term # currentTerm'
      <3>1. routine[r].term \in Nat
        BY <1>1 DEF RoutineType
      <3>. QED BY <1>1, <2>1, <2>3, <3>1 DEF HistoryInv, OwnEntries
    <2>. QED BY <1>1, <2>1, <2>2, <2>3, ChannelsForgotten
  <1>5. ASSUME NEW term \in HeardOf, NEW grant \in BOOLEAN, HandleRequestVote(term, grant)
        PROVE  ChannelsInv'
    <2>1. CASE term > currentTerm
      <3>1. /\ BecomeFollower(heardFromLeader) /\ UNCHANGED routine
            /\ currentTerm' = term /\ term \in Nat
        BY <1>5, <2>1 DEF HandleRequestVote
      <3>. QED BY <2>1, <3>1, SteppingDown
    <2>2. CASE ~(term > currentTerm)
      <3>1. UNCHANGED <<panicked, state, currentTerm, channelAt, routine, channel>>
        BY <1>5, <2>2 DEF HandleRequestVote
      <3>. QED BY <1>1, <3>1, RegisteredWaits, ChannelsKept
    <2>. QED BY <2>1, <2>2
  <1>6. ASSUME NEW term \in HeardOf, HandleAppendEntries(term) PROVE ChannelsInv'
    <2>1. /\ BecomeFollower(TRUE) /\ UNCHANGED routine
          /\ currentTerm' = term /\ term \in Nat
          /\ term > currentTerm \/ (term = currentTerm /\ state # "Leader")
      BY <1>6 DEF HandleAppendEntries
    <2>. QED BY <2>1, SteppingDown
  <1>7. ASSUME NEW term \in HeardOf,
               VotesLost(term) \/ \E q \in Peer : CallRefused(q, term)
        PROVE  ChannelsInv'
    <2>1. /\ BecomeFollower(heardFromLeader) /\ UNCHANGED routine
          /\ currentTerm' = term /\ term \in Nat /\ term > currentTerm
      BY <1>7 DEF VotesLost, CallRefused, StepDown
    <2>. QED BY <2>1, SteppingDown
  <1>8. CASE VotesWon
    <2>1. /\ state = "Candidate" /\ UNCHANGED <<panicked, currentTerm>>
          /\ channelAt' = NoChannels /\ currentTerm \in Routine
          /\ routine' = [routine EXCEPT ![currentTerm].pc = "new"]
      BY <1>8 DEF VotesWon, Routine
    <2>2. ASSUME NEW r \in Routine, routine'[r].pc \in Waiting
          PROVE  routine'[r].term # currentTerm'
      <3>1. routine'[r] = routine[r]
        BY <1>1, <2>1, <2>2 DEF RoutineType
      <3>. QED BY <2>1, <2>2, <3>1 DEF HistoryInv, OwnEntries
    <2>. QED BY <1>1, <2>1, <2>2, ChannelsForgotten
  <1>9. ASSUME NEW q \in Peer,
               CallBegins(q) \/ CallLeaves(q) \/ CallFails(q) \/ CallDisagrees(q)
        PROVE  ChannelsInv'
    <2>1. UNCHANGED <<panicked, state, currentTerm, channelAt, routine, channel>>
      BY <1>9 DEF CallBegins, CallLeaves, CallFails, CallDisagrees
    <2>. QED BY <1>1, <2>1, RegisteredWaits, ChannelsKept
  <1>10. ASSUME NEW q \in Peer, CallLoops(q) PROVE ChannelsInv'
    <2>1. UNCHANGED <<state, currentTerm, channelAt, routine, channel>>
          /\ panicked' = (MayGoOn /\ nextIndex[q] > Len(log) + 1)
      BY <1>10 DEF CallLoops
    <2>2. ~panicked'
      <3>. SUFFICES ASSUME state = "Leader" PROVE ~(nextIndex[q] > Len(log) + 1)
        BY <2>1 DEF MayGoOn
      <3>1. nextIndex[q] \in Nat /\ nextIndex[q] <= Len(log) + 1
        BY DEF Types, HistoryInv, IndicesFit
      <3>. QED BY <1>1, <3>1
    <2>. QED BY <2>1, <2>2, RegisteredWaits, ChannelsKept
  <1>11. ASSUME NEW q \in Peer, CallSucceeds(q) PROVE ChannelsInv'
    <2>1. UNCHANGED <<state, currentTerm, channelAt, routine>>
      BY <1>11 DEF CallSucceeds
    <2>2. CASE state # "Leader"
      <3>1. UNCHANGED <<panicked, channel>>
        BY <1>11, <2>2 DEF CallSucceeds
      <3>. QED BY <1>1, <2>1, <3>1, RegisteredWaits, ChannelsKept
    <2>3. CASE state = "Leader"
      <3>. DEFINE signalled == {channelAt[i] : i \in FirstToSignal(q) .. call[q].last} \ {Nobody}
      <3>1. /\ channel' = [r \in Routine |->
                 IF r \in signalled THEN [channel[r] EXCEPT !.sent = @ + 1] ELSE channel[r]]
            /\ panicked' = \E r \in signalled : channel[r].closed
        BY <1>11, <2>3 DEF CallSucceeds
      <3>2. FirstToSignal(q) .. call[q].last \subseteq 1 .. MaxIndex
        <4>1. call[q].last \in Nat /\ call[q].last <= Len(log)
          BY <1>11, <2>3 DEF CallSucceeds, InTime, HistoryInv, CallsFit, Types, CallType
        <4>2. matchIndex[q] \in Nat /\ commitIndex \in Nat
          BY DEF Types
        <4>3. FirstToSignal(q) \in Nat /\ FirstToSignal(q) >= 1
          BY <4>2 DEF FirstToSignal
        <4>. QED BY <1>1, <4>1, <4>3
      <3>3. signalled \subseteq Registered
        BY <3>2 DEF Registered
      <3>4. ~panicked'
        BY <3>1, <3>3, RegisteredWaits
      <3>5. \A r \in Routine : channel'[r].closed = channel[r].closed
        <4>. SUFFICES ASSUME NEW r \in Routine PROVE channel'[r].closed = channel[r].closed
          OBVIOUS
        <4>1. [channel[r] EXCEPT !.sent = @ + 1].closed = channel[r].closed
          BY <1>1 DEF SignalType
        <4>. QED BY <3>1, <4>1
      <3>. QED BY <2>1, <3>4, <3>5, RegisteredWaits, ChannelsKept
    <2>. QED BY <2>2, <2>3
  <1>12. ASSUME NEW r \in Request, HandleClientRequest(r) PROVE ChannelsInv'
    <2>1. /\ UNCHANGED <<panicked, state, currentTerm, channelAt, channel>>
          /\ routine' = [routine EXCEPT ![r].pc = "new"] /\ r \in Routine
          /\ r \notin Registered
      BY <1>12 DEF HandleClientRequest, Routine
    <2>2. \A x \in Routine : x # r => routine'[x] = routine[x]
      BY <1>1, <2>1
    <2>3. routine'[r].pc = "new"
      BY <1>1, <2>1 DEF RoutineType
    <2>. QED BY <1>1, <2>1, <2>2, <2>3, RegisteredWaits, ChannelsKept
  <1>13. ASSUME NEW r \in Routine, OnReceiveClientRequest(r) PROVE ChannelsInv'
    <2>1. CASE state # "Leader"
      <3>1. /\ UNCHANGED <<panicked, state, currentTerm, channelAt, channel>>
            /\ routine' = [routine EXCEPT ![r] = Idle]
        BY <1>13, <2>1 DEF OnReceiveClientRequest
      <3>2. \A x \in Routine : x # r => routine'[x] = routine[x]
        BY <1>1, <3>1
      <3>3. routine'[r].pc = "idle"
        BY <1>1, <3>1
      <3>4. Registered = {}
        BY <2>1, RegisteredWaits
      <3>. QED BY <1>1, <3>1, <3>2, <3>3, <3>4, ChannelsKept
    <2>2. CASE state = "Leader"
      <3>. DEFINE n == Len(log) + 1
      <3>1. /\ UNCHANGED <<panicked, state, currentTerm>> /\ n \in 1 .. MaxIndex
            /\ routine[r].pc = "new"
            /\ channel' = [channel EXCEPT ![r] = [sent |-> 1, closed |-> FALSE]]
            /\ channelAt' = [channelAt EXCEPT ![n] = r]
            /\ routine' = [routine EXCEPT ![r] = [pc |-> "ranging", index |-> n,
                                                  term |-> currentTerm]]
        BY <1>1, <1>13, <2>2 DEF OnReceiveClientRequest
      <3>2. \A x \in Routine : x # r => routine'[x] = routine[x] /\ channel'[x] = channel[x]
        BY <1>1, <3>1
      <3>3. /\ routine'[r] = [pc |-> "ranging", index |-> n, term |-> currentTerm]
            /\ ~channel'[r].closed
        BY <1>1, <3>1
      <3>4. ASSUME NEW i \in 1 .. MaxIndex, channelAt'[i] # Nobody
            PROVE  /\ ~channel'[channelAt'[i]].closed
                   /\ routine'[channelAt'[i]].pc \in Waiting
                   /\ routine'[channelAt'[i]].index = i
                   /\ routine'[channelAt'[i]].term = currentTerm
        <4>1. CASE i = n
          <5>1. channelAt'[i] = r
            BY <1>1, <3>1, <4>1
          <5>. QED BY <3>3, <4>1, <5>1
        <4>2. CASE i # n
          <5>1. channelAt'[i] = channelAt[i] /\ channelAt[i] \in Routine
            BY <1>1, <3>1, <3>4, <4>2
          <5>2. /\ ~channel[channelAt[i]].closed
                /\ routine[channelAt[i]].pc \in Waiting
                /\ routine[channelAt[i]].index = i
                /\ routine[channelAt[i]].term = currentTerm
            BY <3>4, <5>1 DEF ChannelsInv
          <5>3. channelAt[i] # r
            BY <3>1, <5>2
          <5>. QED BY <3>2, <5>1, <5>2, <5>3
        <4>. QED BY <4>1, <4>2
      <3>5. ASSUME NEW x \in Routine, routine'[x].pc \in Waiting,
                   routine'[x].term = currentTerm
            PROVE  ~channel'[x].closed
        BY <3>2, <3>3, <3>5 DEF ChannelsInv
      <3>. QED BY <1>1, <2>2, <3>1, <3>4, <3>5 DEF ChannelsInv
    <2>. QED BY <2>1, <2>2
  <1>14. ASSUME NEW r \in Routine, Range(r) PROVE ChannelsInv'
    <2>1. /\ UNCHANGED <<panicked, state, currentTerm, channelAt, channel>>
          /\ routine' = [routine EXCEPT ![r].pc = "counted"]
          /\ routine[r].pc = "ranging"
      BY <1>14 DEF Range
    <2>2. \A x \in Routine : x # r => routine'[x] = routine[x]
      BY <1>1, <2>1
    <2>3. /\ routine'[r].pc = "counted"
          /\ routine'[r].index = routine[r].index /\ routine'[r].term = routine[r].term
      BY <1>1, <2>1 DEF RoutineType
    <2>. QED BY <1>1, <2>1, <2>2, <2>3, RegisteredWaits, ChannelsKept
  <1>15. ASSUME NEW r \in Routine, RangeEnds(r) PROVE ChannelsInv'
    <2>1. /\ UNCHANGED <<panicked, state, currentTerm, channelAt>>
          /\ routine' = [routine EXCEPT ![r] = Idle]
          /\ channel[r].closed
      BY <1>15 DEF RangeEnds, Returns
    <2>2. \A x \in Routine : x # r => routine'[x] = routine[x] /\ channel'[x] = channel[x]
      BY <1>1, <1>15, <2>1 DEF RangeEnds, Returns
    <2>3. routine'[r].pc = "idle" /\ r \notin Registered
      BY <1>1, <2>1, RegisteredWaits
    <2>. QED BY <1>1, <2>1, <2>2, <2>3, RegisteredWaits, ChannelsKept
  <1>16. ASSUME NEW r \in Routine, Commit(r) PROVE ChannelsInv'
    <2>1. /\ UNCHANGED <<state, currentTerm>> /\ routine[r].pc = "counted"
          /\ routine' = [routine EXCEPT ![r] = Idle]
      BY <1>16 DEF Commit, Returns
    <2>2. /\ \A x \in Routine : x # r => routine'[x] = routine[x] /\ channel'[x] = channel[x]
          /\ routine'[r].pc = "idle"
      BY <1>1, <1>16, <2>1 DEF Commit, Returns
    <2>3. CASE StillLeads(r)
      <3>1. /\ channelAt' = [channelAt EXCEPT ![routine[r].index] = Nobody]
            /\ panicked' = channel[r].closed
            /\ state = "Leader" /\ routine[r].term = currentTerm
        BY <1>16, <2>3 DEF Commit, Unregister, StillLeads
      <3>2. ~panicked'
        BY <2>1, <3>1 DEF ChannelsInv
      <3>3. ASSUME NEW i \in 1 .. MaxIndex, channelAt'[i] # Nobody
            PROVE  /\ ~channel'[channelAt'[i]].closed
                   /\ routine'[channelAt'[i]].pc \in Waiting
                   /\ routine'[channelAt'[i]].index = i
                   /\ routine'[channelAt'[i]].term = currentTerm
        <4>1. i # routine[r].index /\ channelAt'[i] = channelAt[i] /\ channelAt[i] \in Routine
          BY <1>1, <3>1, <3>3
        <4>2. /\ ~channel[channelAt[i]].closed
              /\ routine[channelAt[i]].pc \in Waiting
              /\ routine[channelAt[i]].index = i
              /\ routine[channelAt[i]].term = currentTerm
          BY <3>3, <4>1 DEF ChannelsInv
        <4>3. channelAt[i] # r
          BY <4>1, <4>2
        <4>. QED BY <2>2, <4>1, <4>2, <4>3
      <3>4. ASSUME NEW x \in Routine, routine'[x].pc \in Waiting,
                   routine'[x].term = currentTerm
            PROVE  ~channel'[x].closed
        BY <2>2, <3>4 DEF ChannelsInv
      <3>. QED BY <2>1, <3>1, <3>2, <3>3, <3>4 DEF ChannelsInv
    <2>4. CASE ~StillLeads(r)
      <3>1. UNCHANGED <<channelAt, panicked>>
        BY <1>16, <2>4 DEF Commit
      <3>2. r \notin Registered
        BY <2>4, RegisteredWaits DEF StillLeads
      <3>. QED BY <1>1, <2>1, <2>2, <3>1, <3>2, RegisteredWaits, ChannelsKept
    <2>. QED BY <2>3, <2>4
  <1>. QED BY <1>2, <1>3, <1>4, <1>5, <1>6, <1>7, <1>8, <1>9, <1>10, <1>11, <1>12, <1>13,
              <1>14, <1>15, <1>16 DEF Next, LoopRound

\* no send on a closed channel, no second close, no read past the log, until ShutDown
\* (append_entry.go:198, 246, peer.go:222)
THEOREM NoPanicBeforeShutdown == Spec => []PanicsOnlyAfterShutdown
  <1>. DEFINE IInv == Types /\ LoopInv /\ HistoryInv /\ ChannelsInv
  <1>1. IInv /\ Next => IInv'
    BY StepTypes, StepLoop, StepHistory, StepChannels
  <1>2. IInv /\ UNCHANGED vars => IInv'
    BY DEF Types, LoopInv, HistoryInv, OwnEntries, CallsFit, IndicesFit, ChannelsInv
  <1>3. IInv => PanicsOnlyAfterShutdown
    BY DEF ChannelsInv, PanicsOnlyAfterShutdown
  <1>4. Init => IInv
    BY InitHolds
  <1>. HIDE DEF IInv
  <1>. QED BY <1>1, <1>2, <1>3, <1>4, PTL DEF Spec

=============================================================================

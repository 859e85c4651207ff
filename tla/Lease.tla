------------------------------- MODULE Lease -------------------------------
(***************************************************************************)
(* Time: the rounds of timeoutLoop, the calls that a leader and a          *)
(* candidate make over ChannelNetwork, and the lease of isValidLeader,     *)
(* which lets a leader answer reads.                                       *)
(*                                                                         *)
(* One leader is established when the model starts, and no client has      *)
(* anything appended: heartbeats are empty, but for the nil entry of a new *)
(* leader, and logs are equal, so that a vote depends on terms alone.      *)
(* What a peer does when it is due, it does at once; the goroutines of     *)
(* timeoutLoop and of calls that are due together run in any order.        *)
(***************************************************************************)
EXTENDS ChannelNetwork

CONSTANTS
  FirstLeader,      \* it leads the first term
  Timed,            \* the peers other than leaders whose rounds end
  HeartbeatTimeout, \* the length of a leader's round
  ElectionTimeout,  \* the lengths of a follower's or candidate's round
  LeaseTime,
  \* bounds of a finite instance:
  MaxTerm,
  MaxSince          \* how long it goes on after an election is won, with the first leader
                    \*   still in office

LongestOf(T) == CHOOSE t \in T : \A u \in T : u <= t
Longest == LongestOf(ElectionTimeout)

ASSUME LeaseAssumption ==
  /\ FirstLeader \in Node /\ Timed \subseteq Node
  /\ {HeartbeatTimeout, MaxTerm, MaxSince} \subseteq Nat /\ LeaseTime \in Nat \ {0}
  /\ ElectionTimeout # {} /\ ElectionTimeout \subseteq Nat \ {0}
  /\ IsFiniteSet(ElectionTimeout)

VARIABLES
  state, currentTerm, heardFromLeader,
  votedIn,    \* the last term in which p voted
  voteCount,
  round,      \* how long the round of timeoutLoop has lasted
  lastHeard,  \* how long ago p heard from each, up to LeaseTime (lastHeardFromFollower)
  behind,     \* the followers that lack the nil entry of the leader p
  since       \* how long ago an election was won, up to MaxSince

peerVars == <<state, currentTerm, heardFromLeader, votedIn, voteCount, round, lastHeard, behind>>
vars == <<peerVars, since, networkVars>>

N == Cardinality(Node)
Others(p) == Node \ {p}

Init ==
  /\ NetworkInit
  /\ state = [p \in Node |-> IF p = FirstLeader THEN "Leader" ELSE "Follower"]
  /\ currentTerm = [p \in Node |-> 1]
  /\ heardFromLeader = [p \in Node |-> FALSE]
  /\ votedIn = [p \in Node |-> 1]
  /\ voteCount = [p \in Node |-> 0]
  /\ round = [p \in Node |-> IF p = FirstLeader THEN HeartbeatTimeout ELSE 0]
  /\ lastHeard = [p \in Node |->
       [q \in Node |-> IF p = FirstLeader /\ q # p THEN 0 ELSE LeaseTime]]
  /\ behind = [p \in Node |-> {}]
  /\ since = 0

-----------------------------------------------------------------------------
\* Mutant: the leader does not count itself.
IsValidLeader_FollowersOnly(p) ==
  /\ state[p] = "Leader"
  /\ 2 * Cardinality({q \in Others(p) : lastHeard[p][q] < LeaseTime}) > N

\* isValidLeader
IsValidLeader(p) ==
  /\ state[p] = "Leader"
  /\ 2 * (1 + Cardinality({q \in Others(p) : lastHeard[p][q] < LeaseTime})) > N

NotHeard == [q \in Node |-> LeaseTime]

\* changeState(Follower), for a term that may be later
StepDown(p, term) ==
  /\ currentTerm' = [currentTerm EXCEPT ![p] = term]
  /\ state' = [state EXCEPT ![p] = "Follower"]
  /\ lastHeard' = [lastHeard EXCEPT ![p] = NotHeard]
  /\ behind' = [behind EXCEPT ![p] = {}]

\* appendingEntries: the followers that no goroutine replicates to
NotAppending(p, others) ==
  {q \in Others(p) : \A c \in others : ~(c.source = p /\ c.target = q
                                         /\ c.method = "appendEntries" /\ c.waits)}

\* the end of a round of a follower that has heard from the leader in it
Quiet(p) ==
  /\ state[p] = "Follower" /\ heardFromLeader[p]
  /\ heardFromLeader' = [heardFromLeader EXCEPT ![p] = FALSE]
  /\ round' = [round EXCEPT ![p] = 0]
  /\ UNCHANGED <<state, currentTerm, votedIn, voteCount, lastHeard, behind, networkVars>>

\* Mutant: a follower does not look at what it heard.
Campaigns_AtOnce(p) == state[p] \in {"Follower", "Candidate"}

Campaigns(p) == \/ state[p] = "Follower" /\ ~heardFromLeader[p]
                \/ state[p] = "Candidate"

StartElection(p) ==
  /\ Campaigns(p)
  /\ currentTerm[p] < MaxTerm
  /\ state' = [state EXCEPT ![p] = "Candidate"]
  /\ currentTerm' = [currentTerm EXCEPT ![p] = @ + 1]
  /\ votedIn' = [votedIn EXCEPT ![p] = currentTerm[p] + 1]
  /\ voteCount' = [voteCount EXCEPT ![p] = 1]
  /\ round' = [round EXCEPT ![p] = 0]
  /\ SendRawRequest(p, Others(p), "requestVote", currentTerm[p] + 1, calls)
  /\ UNCHANGED <<heardFromLeader, lastHeard, behind, offline, changes>>

TriggerLeaderHeartbeat(p) ==
  /\ state[p] = "Leader"
  /\ round' = [round EXCEPT ![p] = 0]
  /\ SendRawRequest(p, NotAppending(p, calls), "appendEntries", currentTerm[p], calls)
  /\ UNCHANGED <<state, currentTerm, heardFromLeader, votedIn, voteCount, lastHeard, behind,
                 offline, changes>>

RoundMayEnd(p) ==
  IF state[p] = "Leader"
    THEN round[p] = HeartbeatTimeout
    ELSE p \in Timed /\ round[p] \in ElectionTimeout

RoundMustEnd(p) ==
  IF state[p] = "Leader"
    THEN round[p] = HeartbeatTimeout
    ELSE p \in Timed /\ round[p] = Longest /\ (Campaigns(p) => currentTerm[p] < MaxTerm)

TimeoutLoop(p) ==
  /\ RoundMayEnd(p)
  /\ Quiet(p) \/ StartElection(p) \/ TriggerLeaderHeartbeat(p)
  /\ UNCHANGED since

-----------------------------------------------------------------------------
\* handlers

\* one that has to wait for the mutex
HandlerWaits(c) == WaitForMutex(c) /\ UNCHANGED <<peerVars, since>>

HandleRequestVote(c) ==
  LET q == c.target
      later == c.term > currentTerm[q]
      granted == c.term >= currentTerm[q] /\ votedIn[q] < c.term
  IN
  /\ c.method = "requestVote" /\ MayRun(c)
  /\ IF later
       THEN StepDown(q, c.term)
       ELSE UNCHANGED <<state, currentTerm, lastHeard, behind>>
  /\ heardFromLeader' = [heardFromLeader EXCEPT ![q] =
       @ /\ (later => state[q] = "Follower")]
  /\ round' = [round EXCEPT ![q] =
       IF granted \/ (later /\ state[q] # "Follower") THEN 0 ELSE @]
  /\ votedIn' = [votedIn EXCEPT ![q] = IF granted THEN c.term ELSE @]
  /\ RunCallback(c, currentTerm'[q], granted)
  /\ UNCHANGED <<voteCount, since>>

HandleAppendEntries(c) ==
  LET q == c.target
      accepted == c.term >= currentTerm[q]
  IN
  /\ c.method = "appendEntries" /\ MayRun(c)
  /\ IF accepted
       THEN StepDown(q, c.term)
       ELSE UNCHANGED <<state, currentTerm, lastHeard, behind>>
  /\ heardFromLeader' = [heardFromLeader EXCEPT ![q] =
       IF accepted THEN state[q] = "Follower" ELSE @]
  /\ round' = [round EXCEPT ![q] = IF accepted /\ state[q] # "Follower" THEN 0 ELSE @]
  /\ RunCallback(c, currentTerm'[q], accepted)
  /\ UNCHANGED <<votedIn, voteCount, since>>

-----------------------------------------------------------------------------
\* the goroutines that call

Ends(c) == calls' = calls \ {c} /\ UNCHANGED <<offline, lost, changes>>

\* the candidate has a majority: changeState(Leader) and the nil entry
BecomeLeader(p, c) ==
  /\ state' = [state EXCEPT ![p] = "Leader"]
  /\ lastHeard' = [lastHeard EXCEPT ![p] = [q \in Node |-> IF q = p THEN LeaseTime ELSE 0]]
  /\ behind' = [behind EXCEPT ![p] = Others(p)]
  /\ round' = [round EXCEPT ![p] = 0]
  /\ since' = 0
  /\ SendRawRequest(p, NotAppending(p, calls \ {c}), "appendEntries", currentTerm[p], calls \ {c})
  /\ UNCHANGED <<currentTerm, heardFromLeader, offline, changes>>

HandleRequestVoteRespond(c) ==
  LET p == c.source
      counts == c.resTerm = currentTerm[p] /\ state[p] = "Candidate" /\ c.ok
  IN
  /\ c.method = "requestVote" /\ Answered(c)
  /\ voteCount' = [voteCount EXCEPT ![p] = IF counts THEN @ + 1 ELSE @]
  /\ \/ /\ c.resTerm > currentTerm[p]
        /\ StepDown(p, c.resTerm)
        /\ heardFromLeader' = [heardFromLeader EXCEPT ![p] = @ /\ state[p] = "Follower"]
        /\ round' = [round EXCEPT ![p] = IF state[p] # "Follower" THEN 0 ELSE @]
        /\ Ends(c) /\ UNCHANGED since
     \/ counts /\ 2 * voteCount'[p] > N /\ BecomeLeader(p, c)
     \/ /\ ~(c.resTerm > currentTerm[p]) /\ ~(counts /\ 2 * voteCount'[p] > N)
        /\ Ends(c)
        /\ UNCHANGED <<state, currentTerm, heardFromLeader, lastHeard, behind, round, since>>
  /\ UNCHANGED votedIn

\* no reply: the candidate asks again, while it is one in that term
RequestVoteFails(c) ==
  LET p == c.source IN
  /\ c.method = "requestVote" /\ Fails(c)
  /\ IF state[p] = "Candidate" /\ currentTerm[p] = c.term
       THEN SendRawRequest(p, {c.target}, "requestVote", c.term, (calls \ {c}) \cup Abandoned(c))
       ELSE lost' = lost /\ calls' = (calls \ {c}) \cup Abandoned(c)
  /\ UNCHANGED <<peerVars, since, offline, changes>>

\* updateLastHeard
UpdateLastHeard(p, q) == lastHeard' = [lastHeard EXCEPT ![p][q] = 0]

\* a reply that a leader gets
HandleAppendEntriesRes(c) ==
  LET p == c.source IN
  /\ c.method = "appendEntries" /\ Answered(c) /\ Ends(c)
  /\ IF state[p] # "Leader"
       THEN UNCHANGED <<state, currentTerm, round, lastHeard, behind>>
       ELSE IF c.resTerm > currentTerm[p]
       THEN StepDown(p, c.resTerm) /\ round' = [round EXCEPT ![p] = 0]
       ELSE /\ UpdateLastHeard(p, c.target)
            /\ behind' = [behind EXCEPT ![p] = @ \ {c.target}]
            /\ UNCHANGED <<state, currentTerm, round>>
  /\ UNCHANGED <<heardFromLeader, votedIn, voteCount, since>>

\* Mutant: the follower counts as heard from.
HeardAfterFailure_Updated(p, q) == UpdateLastHeard(p, q)

HeardAfterFailure(p, q) == UNCHANGED lastHeard

\* No reply: an empty heartbeat is not sent again before the leader's round ends,
\* entries are, at once.
AppendEntriesFails(c) ==
  LET p == c.source
      left == (calls \ {c}) \cup Abandoned(c)
  IN
  /\ c.method = "appendEntries" /\ Fails(c)
  /\ IF state[p] = "Leader" /\ c.target \in behind[p]
       THEN SendRawRequest(p, {c.target}, "appendEntries", currentTerm[p], left)
       ELSE lost' = lost /\ calls' = left
  /\ HeardAfterFailure(p, c.target)
  /\ UNCHANGED <<state, currentTerm, heardFromLeader, votedIn, voteCount, round, behind, since,
                 offline, changes>>

-----------------------------------------------------------------------------
Later(n, most) == IF n < most THEN n + 1 ELSE most

\* the rounds that are counted
Counted(p) == state[p] = "Leader" \/ p \in Timed

Elected == \E p \in Node : state[p] = "Leader" /\ p # FirstLeader

Tick ==
  /\ state[FirstLeader] = "Leader" /\ since < MaxSince
  /\ \A p \in Node : ~RoundMustEnd(p)
  /\ TimePasses
  /\ round' = [p \in Node |-> IF Counted(p) THEN Later(round[p], Longest) ELSE 0]
  /\ lastHeard' = [p \in Node |-> [q \in Node |-> Later(lastHeard[p][q], LeaseTime)]]
  /\ since' = IF Elected THEN since + 1 ELSE 0
  /\ UNCHANGED <<state, currentTerm, heardFromLeader, votedIn, voteCount, behind, offline, lost,
                 changes>>

Next ==
  \/ Tick
  \/ SetNetworkStatus /\ UNCHANGED <<peerVars, since>>
  \/ \E p \in Node : TimeoutLoop(p)
  \/ \E c \in calls : \/ HandlerWaits(c) \/ HandleRequestVote(c) \/ HandleAppendEntries(c)
                      \/ HandleRequestVoteRespond(c) \/ RequestVoteFails(c)
                      \/ HandleAppendEntriesRes(c) \/ AppendEntriesFails(c)

Spec == Init /\ [][Next]_vars

-----------------------------------------------------------------------------
\* Once another peer has won an election, a leader that does not know answers reads
\* no longer than a lease and the way of one reply take, however the network is
\* cut: the lease runs from the reply, not from the request it answers (peer.go:255).
StaleReadsAreBounded ==
  \A p, w \in Node :
    /\ state[w] = "Leader" /\ currentTerm[w] > currentTerm[p]
    /\ since >= LeaseTime + LongestOf(Latency)
    => ~IsValidLeader(p)

\* The leader of the first term does not count a peer that has begun to campaign, or
\* has won: its lease is over before a follower that answered it can time out.  (A
\* leader that is elected counts all peers for a lease, whatever they do.)
InFirstTerm == state[FirstLeader] = "Leader" /\ currentTerm[FirstLeader] = 1

LeaseExcludesCampaigners ==
  InFirstTerm => \A q \in Others(FirstLeader) :
                   lastHeard[FirstLeader][q] < LeaseTime => state[q] = "Follower"

\* While the network is whole and loses no more than MaxLost messages, the leader
\* stays the leader: a follower waits a whole round in which it hears nothing.
NoNeedlessElection == changes = 0 => \A p \in Node : state[p] # "Candidate"

\* And its reads are not refused.
LeaderStaysValid == changes = 0 => IsValidLeader(FirstLeader)

-----------------------------------------------------------------------------
\* What makes the first two of them inductive, along with CallsKeepTime.

TypeOK ==
  /\ state \in [Node -> {"Follower", "Candidate", "Leader"}]
  /\ currentTerm \in [Node -> Nat \ {0}] /\ votedIn \in [Node -> Nat]
  /\ heardFromLeader \in [Node -> BOOLEAN]
  /\ voteCount \in [Node -> Nat] /\ round \in [Node -> Nat]
  /\ lastHeard \in [Node -> [Node -> 0 .. LeaseTime]]
  /\ behind \in [Node -> SUBSET Node]
  /\ since \in Nat
  /\ NetworkTypeOK

\* A call is made in a term of its caller, and asks for a vote once at a time.
CallsFollowTerms ==
  /\ \A c \in calls : c.term <= currentTerm[c.source] /\ c.term > 0 /\ c.source # c.target
  /\ \A c, d \in calls :
       /\ c.method = "requestVote" /\ d.method = "requestVote" /\ c.waits /\ d.waits
       /\ c.source = d.source /\ c.target = d.target /\ c.term = d.term
       => c = d

\* what an answer says of its sender
AnswersAreTrue ==
  \A c \in calls : c.stage = "reply" =>
    /\ c.ok => c.resTerm = c.term /\ currentTerm[c.target] >= c.term
    /\ c.method = "appendEntries" /\ ~c.ok => c.resTerm > c.term

\* those that have reached the term of p and that p does not wait for any more
Granting(p) ==
  {q \in Node : /\ currentTerm[q] >= currentTerm[p]
                /\ \A c \in calls : ~(/\ c.method = "requestVote" /\ c.waits
                                      /\ c.source = p /\ c.target = q
                                      /\ c.term = currentTerm[p])}

Reached(term) == {q \in Node : currentTerm[q] >= term}

\* a candidate has counted no more than those, and a leader's term was reached by a majority
CountsAreHonest ==
  \A p \in Node : /\ state[p] = "Candidate" => voteCount[p] <= Cardinality(Granting(p))
                  /\ state[p] = "Leader" => 2 * Cardinality(Reached(currentTerm[p])) > N

\* q follows, and has not waited for longer than n
Fresh(q, n) == state[q] = "Follower" /\ (heardFromLeader[q] \/ round[q] <= n)

FollowersAreFresh ==
  /\ currentTerm[FirstLeader] = 1 => state[FirstLeader] # "Candidate"
  /\ InFirstTerm => \A q \in Others(FirstLeader) :
       /\ lastHeard[FirstLeader][q] < LeaseTime =>
            Fresh(q, lastHeard[FirstLeader][q] + Timeout)
       /\ \A c \in calls :
            /\ c.source = FirstLeader /\ c.target = q /\ c.method = "appendEntries"
            /\ c.stage = "reply" /\ c.ok /\ c.waits
            => Fresh(q, Timeout - c.left)

\* q has told p of a later term, or has not been heard of since the last election but
\* by what it said before it
Deaf(p, q) ==
  /\ currentTerm[q] > currentTerm[p]
  /\ lastHeard[p][q] < LeaseTime => since <= lastHeard[p][q] + LongestOf(Latency)
  /\ \A c \in calls :
       /\ c.source = p /\ c.target = q /\ c.method = "appendEntries"
       /\ c.stage = "reply" /\ c.resTerm <= currentTerm[p]
       => c.delay + since <= LongestOf(Latency)

\* a leader that another has overtaken is deaf to a majority
OvertakenAreDeaf ==
  \A p, w \in Node :
    state[p] = "Leader" /\ state[w] = "Leader" /\ currentTerm[w] > currentTerm[p] =>
      2 * Cardinality({q \in Node : Deaf(p, q)}) > N

LeaseInv == /\ CallsKeepTime /\ CallsFollowTerms /\ AnswersAreTrue /\ CountsAreHonest
            /\ FollowersAreFresh /\ OvertakenAreDeaf

=============================================================================

----------------------------- MODULE LeaseProofs -----------------------------
(***************************************************************************)
(* Time, for any number of peers, losses, cuts and terms, and any timers:  *)
(* an answer that finds its caller gone was held up by the mutex, a        *)
(* deposed leader soon answers no reads, and whom a leader counts for its  *)
(* lease is not campaigning.                                               *)
(***************************************************************************)
EXTENDS Lease, FiniteSetTheorems, TLAPS

LEMMA Constants ==
  /\ IsFiniteSet(Node) /\ FirstLeader \in Node /\ Timed \subseteq Node
  /\ Timeout \in Nat /\ Timeout > 0 /\ HeartbeatTimeout \in Nat
  /\ LeaseTime \in Nat /\ LeaseTime > 0 /\ MutexWaits \subseteq Nat
  /\ Latency \subseteq 0 .. Timeout - 1 /\ Latency # {}
  /\ \A t \in Latency : t \in Nat /\ t < Timeout
  /\ ElectionTimeout \subseteq Nat /\ ElectionTimeout # {} /\ IsFiniteSet(ElectionTimeout)
  BY NetworkAssumption, LeaseAssumption

\* A finite set of natural numbers has a greatest one.
LEMMA LongestIsGreatest ==
  ASSUME NEW T \in SUBSET Nat, T # {}, IsFiniteSet(T)
  PROVE  LongestOf(T) \in T /\ \A t \in T : t <= LongestOf(T)
  <1>. DEFINE Above(t) == {u \in T : t < u}
              U == {Above(t) : t \in T}
  <1>. SUFFICES ASSUME \A t \in T : Above(t) # {} PROVE FALSE
    <2>1. SUFFICES \E t \in T : \A u \in T : u <= t
      BY DEF LongestOf
    <2>2. PICK t \in T : Above(t) = {}
      OBVIOUS
    <2>3. \A u \in T : u <= t
      BY <2>2
    <2>. QED BY <2>3
  <1>1. U \subseteq FiniteSubsetsOf(T) /\ U # {}
    <2>1. \A t \in T : Above(t) \subseteq T
      OBVIOUS
    <2>2. \A t \in T : IsFiniteSet(Above(t))
      <3>. HIDE DEF Above
      <3>. QED BY <2>1, FS_Subset
    <2>3. \A t \in T : Above(t) \in FiniteSubsetsOf(T)
      <3>. HIDE DEF Above
      <3>. QED BY <2>1, <2>2 DEF FiniteSubsetsOf
    <2>. HIDE DEF Above
    <2>. QED BY <2>3
  <1>2. IsWellFoundedOn(StrictSubsetOrdering(T), FiniteSubsetsOf(T))
    BY FS_StrictSubsetOrderingWellFounded
  <1>3. PICK m \in U : \A k \in U : ~(<<k, m>> \in StrictSubsetOrdering(T))
    <2>. HIDE DEF U
    <2>. QED BY <1>1, <1>2, WFMin, Zenon
  <1>4. PICK t \in T : m = Above(t)
    OBVIOUS
  <1>5. PICK u \in T : t < u
    OBVIOUS
  <1>6. Above(u) \subseteq Above(t) /\ u \in Above(t) /\ u \notin Above(u)
    <2>1. \A v \in T : u < v => t < v
      BY <1>5
    <2>2. ~(u < u)
      OBVIOUS
    <2>. QED BY <1>5, <2>1, <2>2
  <1>7. <<Above(u), m>> \in StrictSubsetOrdering(T)
    BY <1>4, <1>6 DEF StrictSubsetOrdering
  <1>. QED BY <1>3, <1>7

LEMMA Timers ==
  /\ Longest \in Nat
  /\ LongestOf(Latency) \in Nat /\ \A t \in Latency : t <= LongestOf(Latency)
  <1>1. Longest \in ElectionTimeout
    BY Constants, LongestIsGreatest DEF Longest
  <1>2. IsFiniteSet(Latency)
    <2>1. IsFiniteSet(0 .. Timeout - 1)
      BY Constants, FS_Interval
    <2>. QED BY <2>1, Constants, FS_Subset
  <1>3. Latency \in SUBSET Nat /\ Latency # {}
    BY Constants
  <1>4. LongestOf(Latency) \in Latency /\ \A t \in Latency : t <= LongestOf(Latency)
    BY <1>2, <1>3, LongestIsGreatest
  <1>. QED BY <1>1, <1>3, <1>4, Constants

-----------------------------------------------------------------------------
\* where calls come from

Methods == {"requestVote", "appendEntries"}

LEMMA NewCall ==
  ASSUME NEW p \in Node, NEW q \in Node, NEW method \in Methods, NEW term \in Nat,
         NEW delay \in 0 .. Timeout
  PROVE  LET d == Call(p, q, method, term, delay) IN
         /\ d \in CallType
         /\ d.source = p /\ d.target = q /\ d.method = method /\ d.term = term
         /\ d.left = Timeout /\ d.took = 0 /\ d.stage = "request" /\ d.waits
  BY Constants DEF Call, CallType, Methods

Ages(c) == [c EXCEPT !.left = @ - 1, !.delay = Earlier(@)]

LEMMA AgesFields ==
  ASSUME NEW c \in CallType
  PROVE  LET d == Ages(c) IN
         /\ d \in CallType
         /\ d.source = c.source /\ d.target = c.target /\ d.method = c.method /\ d.term = c.term
         /\ d.left = c.left - 1 /\ d.delay = Earlier(c.delay) /\ d.took = c.took
         /\ d.stage = c.stage /\ d.waits = c.waits /\ d.ok = c.ok /\ d.resTerm = c.resTerm
  <1>1. c.left - 1 \in Int /\ Earlier(c.delay) \in Nat
    BY DEF CallType, Earlier
  <1>. QED BY <1>1 DEF Ages, CallType

LEMMA AnsweringFields ==
  ASSUME NEW c \in CallType, NEW term \in Nat, NEW ok \in BOOLEAN, NEW delay \in 0 .. Timeout
  PROVE  LET d == Answering(c, delay, term, ok) IN
         /\ d \in CallType
         /\ d.source = c.source /\ d.target = c.target /\ d.method = c.method /\ d.term = c.term
         /\ d.left = c.left /\ d.took = c.took /\ d.waits = c.waits
         /\ d.stage \in {"reply", "done"}
         /\ d.stage = "reply" => /\ delay < RemainingTime(c) /\ d.delay = delay
                                /\ d.resTerm = term /\ d.ok = ok
  <1>1. delay \in Nat
    BY Constants
  <1>. QED BY <1>1 DEF Answering, CallType

LEMMA HeldUpFields ==
  ASSUME NEW c \in CallType, NEW t \in Nat
  PROVE  LET d == HeldUp(c, t) IN
         /\ d \in CallType
         /\ d.source = c.source /\ d.target = c.target /\ d.method = c.method /\ d.term = c.term
         /\ d.left = c.left /\ d.waits = c.waits
         /\ d.stage = "callback" /\ d.delay = t /\ d.took = t
  BY DEF HeldUp, CallType

LEMMA LostIsNat ==
  ASSUME NetworkTypeOK, NEW S \in SUBSET Node, lost' = lost + Cardinality(S)
  PROVE  lost' \in Nat
  <1>1. Cardinality(S) \in Nat
    BY Constants, FS_Subset, FS_CardinalityType
  <1>. QED BY <1>1 DEF NetworkTypeOK

LEMMA Sending ==
  ASSUME NetworkTypeOK, NEW p \in Node, NEW targets \in SUBSET Node,
         NEW method \in Methods, NEW term \in Nat, NEW others \in SUBSET CallType,
         SendRawRequest(p, targets, method, term, others)
  PROVE  /\ calls' \subseteq CallType /\ lost' \in Nat /\ others \subseteq calls'
         /\ \A d \in calls' : \/ d \in others
                              \/ \E q \in targets : \E delay \in 0 .. Timeout :
                                   d = Call(p, q, method, term, delay)
  <1>1. PICK delay \in [targets -> Latency \cup {Timeout}] :
          /\ lost' = lost + Cardinality(UNION {Loses(p, q, delay[q]) : q \in targets})
          /\ calls' = others \cup {Call(p, q, method, term, delay[q]) : q \in targets}
    BY DEF SendRawRequest
  <1>2. \A q \in targets : delay[q] \in 0 .. Timeout
    <2>1. Latency \cup {Timeout} \subseteq 0 .. Timeout
      BY Constants
    <2>2. \A q \in targets : delay[q] \in Latency \cup {Timeout}
      OBVIOUS
    <2>. QED BY <2>1, <2>2, Zenon
  <1>3. UNION {Loses(p, q, delay[q]) : q \in targets} \in SUBSET Node
    <2>1. \A q \in targets : Loses(p, q, delay[q]) \subseteq Node
      BY DEF Loses
    <2>. QED BY <2>1
  <1>4. lost' \in Nat
    BY <1>1, <1>3, LostIsNat
  <1>5. ASSUME NEW q \in targets PROVE Call(p, q, method, term, delay[q]) \in CallType
    <2>1. q \in Node /\ delay[q] \in 0 .. Timeout
      BY <1>2
    <2>. QED BY <2>1, NewCall
  <1>6. \A d \in calls' : d \in others \/ \E q \in targets : d = Call(p, q, method, term, delay[q])
    BY <1>1
  <1>. QED BY <1>1, <1>2, <1>4, <1>5, <1>6

\* A handler's answer, or its silence, takes the place of the call.
LEMMA RunningCallback ==
  ASSUME NetworkTypeOK, NEW c \in calls, NEW term \in Nat, NEW ok \in BOOLEAN,
         RunCallback(c, term, ok)
  PROVE  /\ NetworkTypeOK'
         /\ \E delay \in 0 .. Timeout :
              /\ delay \in Latency \cup {Timeout}
              /\ calls' = (calls \ {c}) \cup {Answering(c, delay, term, ok)}
  <1>1. PICK delay \in Latency \cup {Timeout} :
          /\ lost' = lost + Cardinality(Loses(c.target, c.source, delay))
          /\ calls' = (calls \ {c}) \cup {Answering(c, delay, term, ok)}
    BY DEF RunCallback, DelayGenerator
  <1>2. delay \in 0 .. Timeout
    <2>1. Latency \cup {Timeout} \subseteq 0 .. Timeout
      BY Constants
    <2>. QED BY <2>1, Zenon
  <1>3. c \in CallType /\ c.source \in Node
    BY DEF NetworkTypeOK, CallType
  <1>4. Answering(c, delay, term, ok) \in CallType
    BY <1>2, <1>3, AnsweringFields, Zenon
  <1>5. lost' \in Nat
    <2>1. Loses(c.target, c.source, delay) \in SUBSET Node
      BY <1>3 DEF Loses
    <2>. QED BY <1>1, <2>1, LostIsNat
  <1>6. NetworkTypeOK'
    BY <1>1, <1>4, <1>5 DEF NetworkTypeOK, RunCallback
  <1>. QED BY <1>1, <1>2, <1>6

\* A callback that has to wait takes the place of the request.
LEMMA Waiting ==
  ASSUME NetworkTypeOK, NEW c \in calls, WaitForMutex(c)
  PROVE  /\ NetworkTypeOK' /\ c.stage = "request"
         /\ \E t \in MutexWaits : t \in Nat /\ calls' = (calls \ {c}) \cup {HeldUp(c, t)}
  <1>1. PICK t \in MutexWaits : calls' = (calls \ {c}) \cup {HeldUp(c, t)}
    BY DEF WaitForMutex
  <1>2. t \in Nat /\ c \in CallType
    BY Constants DEF NetworkTypeOK
  <1>3. HeldUp(c, t) \in CallType
    BY <1>2, HeldUpFields
  <1>4. NetworkTypeOK'
    BY <1>1, <1>3 DEF NetworkTypeOK, WaitForMutex
  <1>. QED BY <1>1, <1>2, <1>4 DEF WaitForMutex

\* The caller goes, and leaves at most the handler.
LEMMA Leaving ==
  ASSUME NetworkTypeOK, NEW c \in calls
  PROVE  /\ (calls \ {c}) \cup Abandoned(c) \in SUBSET CallType
         /\ calls \ {c} \in SUBSET CallType
         /\ \A d \in Abandoned(c) : d = [c EXCEPT !.waits = FALSE] /\ d.waits = FALSE
  <1>1. c \in CallType /\ calls \subseteq CallType
    BY DEF NetworkTypeOK
  <1>2. [c EXCEPT !.waits = FALSE] \in CallType /\ [c EXCEPT !.waits = FALSE].waits = FALSE
    BY <1>1 DEF CallType
  <1>. QED BY <1>1, <1>2 DEF Abandoned

-----------------------------------------------------------------------------
\* types

LEMMA StepDownTypes ==
  ASSUME TypeOK, NEW p \in Node, NEW term \in Nat \ {0}, StepDown(p, term)
  PROVE  /\ state' \in [Node -> {"Follower", "Candidate", "Leader"}]
         /\ currentTerm' \in [Node -> Nat \ {0}]
         /\ lastHeard' \in [Node -> [Node -> 0 .. LeaseTime]]
         /\ behind' \in [Node -> SUBSET Node]
  <1>1. NotHeard \in [Node -> 0 .. LeaseTime]
    BY Constants DEF NotHeard
  <1>. QED BY <1>1 DEF TypeOK, StepDown

LEMMA RoundTypes ==
  ASSUME TypeOK, NEW p \in Node, TimeoutLoop(p)
  PROVE  TypeOK'
  <1>1. NetworkTypeOK /\ Others(p) \in SUBSET Node /\ currentTerm[p] \in Nat \ {0}
    BY DEF TypeOK, Others
  <1>2. ASSUME Quiet(p) PROVE TypeOK'
    BY <1>2 DEF TypeOK, Quiet, TimeoutLoop, networkVars, NetworkTypeOK
  <1>3. ASSUME StartElection(p) PROVE TypeOK'
    <2>1. calls' \subseteq CallType /\ lost' \in Nat
      <3>1. SendRawRequest(p, Others(p), "requestVote", currentTerm[p] + 1, calls)
        BY <1>3 DEF StartElection
      <3>2. currentTerm[p] + 1 \in Nat /\ "requestVote" \in Methods /\ calls \in SUBSET CallType
        BY <1>1 DEF Methods, NetworkTypeOK
      <3>. QED BY <1>1, <3>1, <3>2, Sending
    <2>2. NetworkTypeOK'
      BY <1>1, <1>3, <2>1 DEF NetworkTypeOK, StartElection
    <2>3. currentTerm[p] + 1 \in Nat \ {0}
      BY <1>1
    <2>. QED BY <1>3, <2>2, <2>3 DEF TypeOK, StartElection, TimeoutLoop
  <1>4. ASSUME TriggerLeaderHeartbeat(p) PROVE TypeOK'
    <2>1. calls' \subseteq CallType /\ lost' \in Nat
      <3>1. SendRawRequest(p, NotAppending(p, calls), "appendEntries", currentTerm[p], calls)
        BY <1>4 DEF TriggerLeaderHeartbeat
      <3>2. NotAppending(p, calls) \in SUBSET Node /\ "appendEntries" \in Methods
            /\ calls \in SUBSET CallType
        BY <1>1 DEF Methods, NetworkTypeOK, NotAppending
      <3>. QED BY <1>1, <3>1, <3>2, Sending
    <2>2. NetworkTypeOK'
      BY <1>1, <1>4, <2>1 DEF NetworkTypeOK, TriggerLeaderHeartbeat
    <2>. QED BY <1>4, <2>2 DEF TypeOK, TriggerLeaderHeartbeat, TimeoutLoop
  <1>. QED BY <1>2, <1>3, <1>4 DEF TimeoutLoop

\* what a handler answers
Grants(c) == c.term >= currentTerm[c.target] /\ votedIn[c.target] < c.term
Accepts(c) == c.term >= currentTerm[c.target]

LEMMA HandlerTypes ==
  ASSUME TypeOK, CallsFollowTerms, NEW c \in calls, HandleRequestVote(c) \/ HandleAppendEntries(c)
  PROVE  /\ TypeOK'
         /\ \E ok \in BOOLEAN : \E delay \in 0 .. Timeout :
              /\ delay \in Latency \cup {Timeout}
              /\ calls' = (calls \ {c}) \cup {Answering(c, delay, currentTerm'[c.target], ok)}
              /\ ok = IF c.method = "requestVote" THEN Grants(c) ELSE Accepts(c)
  <1>1. /\ NetworkTypeOK /\ c \in CallType /\ c.target \in Node /\ c.term \in Nat \ {0}
        /\ currentTerm[c.target] \in Nat \ {0}
    BY DEF TypeOK, NetworkTypeOK, CallType, CallsFollowTerms
  <1>2. ASSUME HandleRequestVote(c)
        PROVE  /\ state' \in [Node -> {"Follower", "Candidate", "Leader"}]
               /\ currentTerm' \in [Node -> Nat \ {0}]
               /\ lastHeard' \in [Node -> [Node -> 0 .. LeaseTime]]
               /\ behind' \in [Node -> SUBSET Node]
               /\ votedIn' \in [Node -> Nat] /\ heardFromLeader' \in [Node -> BOOLEAN]
               /\ round' \in [Node -> Nat]
               /\ RunCallback(c, currentTerm'[c.target], Grants(c)) /\ Grants(c) \in BOOLEAN
    <2>1. /\ state' \in [Node -> {"Follower", "Candidate", "Leader"}]
          /\ currentTerm' \in [Node -> Nat \ {0}]
          /\ lastHeard' \in [Node -> [Node -> 0 .. LeaseTime]]
          /\ behind' \in [Node -> SUBSET Node]
      BY <1>1, <1>2, StepDownTypes DEF HandleRequestVote, TypeOK
    <2>2. heardFromLeader' \in [Node -> BOOLEAN]
      BY <1>1, <1>2 DEF HandleRequestVote, TypeOK
    <2>3. round' \in [Node -> Nat] /\ votedIn' \in [Node -> Nat]
      BY <1>1, <1>2 DEF HandleRequestVote, TypeOK
    <2>4. RunCallback(c, currentTerm'[c.target], Grants(c)) /\ Grants(c) \in BOOLEAN
      BY <1>2 DEF HandleRequestVote, Grants
    <2>. QED BY <2>1, <2>2, <2>3, <2>4
  <1>3. ASSUME HandleAppendEntries(c)
        PROVE  /\ state' \in [Node -> {"Follower", "Candidate", "Leader"}]
               /\ currentTerm' \in [Node -> Nat \ {0}]
               /\ lastHeard' \in [Node -> [Node -> 0 .. LeaseTime]]
               /\ behind' \in [Node -> SUBSET Node]
               /\ heardFromLeader' \in [Node -> BOOLEAN]
               /\ round' \in [Node -> Nat]
               /\ RunCallback(c, currentTerm'[c.target], Accepts(c)) /\ Accepts(c) \in BOOLEAN
    <2>1. /\ state' \in [Node -> {"Follower", "Candidate", "Leader"}]
          /\ currentTerm' \in [Node -> Nat \ {0}]
          /\ lastHeard' \in [Node -> [Node -> 0 .. LeaseTime]]
          /\ behind' \in [Node -> SUBSET Node]
      BY <1>1, <1>3, StepDownTypes DEF HandleAppendEntries, TypeOK
    <2>2. heardFromLeader' \in [Node -> BOOLEAN]
      BY <1>1, <1>3 DEF HandleAppendEntries, TypeOK
    <2>3. round' \in [Node -> Nat]
      BY <1>1, <1>3 DEF HandleAppendEntries, TypeOK
    <2>4. RunCallback(c, currentTerm'[c.target], Accepts(c)) /\ Accepts(c) \in BOOLEAN
      BY <1>3 DEF HandleAppendEntries, Accepts
    <2>. QED BY <2>1, <2>2, <2>3, <2>4
  <1>4. CASE HandleRequestVote(c)
    <2>1. currentTerm'[c.target] \in Nat /\ RunCallback(c, currentTerm'[c.target], Grants(c))
          /\ Grants(c) \in BOOLEAN
      BY <1>1, <1>2, <1>4
    <2>2. NetworkTypeOK' /\ \E delay \in 0 .. Timeout :
              /\ delay \in Latency \cup {Timeout}
              /\ calls' = (calls \ {c}) \cup {Answering(c, delay, currentTerm'[c.target], Grants(c))}
      BY <1>1, <2>1, RunningCallback
    <2>3. TypeOK'
      BY <1>2, <1>4, <2>2 DEF TypeOK, HandleRequestVote
    <2>4. c.method = "requestVote"
      BY <1>4 DEF HandleRequestVote
    <2>. QED BY <2>1, <2>2, <2>3, <2>4
  <1>5. CASE HandleAppendEntries(c)
    <2>1. currentTerm'[c.target] \in Nat /\ RunCallback(c, currentTerm'[c.target], Accepts(c))
          /\ Accepts(c) \in BOOLEAN
      BY <1>1, <1>3, <1>5
    <2>2. NetworkTypeOK' /\ \E delay \in 0 .. Timeout :
              /\ delay \in Latency \cup {Timeout}
              /\ calls' = (calls \ {c}) \cup {Answering(c, delay, currentTerm'[c.target], Accepts(c))}
      BY <1>1, <2>1, RunningCallback
    <2>3. TypeOK'
      BY <1>3, <1>5, <2>2 DEF TypeOK, HandleAppendEntries
    <2>4. c.method # "requestVote"
      BY <1>5 DEF HandleAppendEntries
    <2>. QED BY <2>1, <2>2, <2>3, <2>4
  <1>. QED BY <1>4, <1>5

\* What a step of a caller leaves of the calls: it asks anew, or not.
Continues(c, left) ==
  \/ calls' = left /\ lost' = lost
  \/ \E targets \in SUBSET Others(c.source) : \E method \in Methods :
       /\ SendRawRequest(c.source, targets, method, currentTerm[c.source], left)
       /\ method = "requestVote" => /\ targets = {c.target} /\ c.method = "requestVote"
                                    /\ currentTerm[c.source] = c.term
       /\ currentTerm'[c.source] = currentTerm[c.source]

LEMMA ContinuesTypes ==
  ASSUME TypeOK, NEW c \in calls, NEW left \in SUBSET CallType, Continues(c, left),
         UNCHANGED <<offline, changes>>
  PROVE  NetworkTypeOK'
  <1>1. NetworkTypeOK /\ c.source \in Node /\ currentTerm[c.source] \in Nat
    BY DEF TypeOK, NetworkTypeOK, CallType
  <1>2. calls' \subseteq CallType /\ lost' \in Nat
    <2>1. CASE calls' = left /\ lost' = lost
      BY <1>1, <2>1 DEF NetworkTypeOK
    <2>2. ASSUME NEW targets \in SUBSET Node, NEW method \in Methods,
                 SendRawRequest(c.source, targets, method, currentTerm[c.source], left)
          PROVE  calls' \subseteq CallType /\ lost' \in Nat
      BY <1>1, <2>2, Sending
    <2>. QED BY <2>1, <2>2 DEF Continues, Others
  <1>. QED BY <1>1, <1>2 DEF NetworkTypeOK

CallerStep(c) == \/ HandleRequestVoteRespond(c) \/ RequestVoteFails(c)
                 \/ HandleAppendEntriesRes(c) \/ AppendEntriesFails(c)

LEMMA CallerContinues ==
  ASSUME TypeOK, CallsFollowTerms, NEW c \in calls, CallerStep(c)
  PROVE  /\ UNCHANGED <<offline, changes, votedIn>>
         /\ \/ Answered(c) /\ Continues(c, calls \ {c})
            \/ Fails(c) /\ Continues(c, (calls \ {c}) \cup Abandoned(c))
  <1>1. c.source \in Node /\ c.target \in Others(c.source)
    BY DEF TypeOK, NetworkTypeOK, CallType, CallsFollowTerms, Others
  <1>2. ASSUME HandleRequestVoteRespond(c)
        PROVE  UNCHANGED <<offline, changes, votedIn>> /\ Answered(c) /\ Continues(c, calls \ {c})
    <2>1. CASE Ends(c)
      BY <1>2, <2>1 DEF HandleRequestVoteRespond, Ends, Continues
    <2>2. CASE BecomeLeader(c.source, c)
      <3>1. NotAppending(c.source, calls \ {c}) \in SUBSET Others(c.source)
        BY DEF NotAppending
      <3>. QED BY <1>2, <2>2, <3>1 DEF HandleRequestVoteRespond, BecomeLeader, Continues, Methods
    <2>. QED BY <1>2, <2>1, <2>2 DEF HandleRequestVoteRespond
  <1>3. ASSUME RequestVoteFails(c)
        PROVE  /\ UNCHANGED <<offline, changes, votedIn>>
               /\ Fails(c) /\ Continues(c, (calls \ {c}) \cup Abandoned(c))
    BY <1>1, <1>3 DEF RequestVoteFails, Continues, Methods, peerVars
  <1>4. ASSUME HandleAppendEntriesRes(c)
        PROVE  UNCHANGED <<offline, changes, votedIn>> /\ Answered(c) /\ Continues(c, calls \ {c})
    BY <1>4 DEF HandleAppendEntriesRes, Ends, Continues
  <1>5. ASSUME AppendEntriesFails(c)
        PROVE  /\ UNCHANGED <<offline, changes, votedIn>>
               /\ Fails(c) /\ Continues(c, (calls \ {c}) \cup Abandoned(c))
    BY <1>1, <1>5 DEF AppendEntriesFails, Continues, Methods
  <1>. QED BY <1>2, <1>3, <1>4, <1>5 DEF CallerStep

LEMMA CallerTypes ==
  ASSUME TypeOK, CallsFollowTerms, NEW c \in calls, CallerStep(c)
  PROVE  TypeOK'
  <1>1. /\ NetworkTypeOK /\ c \in CallType /\ c.source \in Node /\ c.target \in Node
        /\ c.resTerm \in Nat /\ currentTerm[c.source] \in Nat \ {0}
    BY DEF TypeOK, NetworkTypeOK, CallType
  <1>2. NetworkTypeOK'
    BY <1>1, CallerContinues, ContinuesTypes, Leaving
  <1>3. votedIn' \in [Node -> Nat]
    BY CallerContinues DEF TypeOK
  <1>4. c.resTerm > currentTerm[c.source] => c.resTerm \in Nat \ {0}
    BY <1>1
  <1>5. 0 \in 0 .. LeaseTime /\ LeaseTime \in 0 .. LeaseTime
    BY Constants
  <1>6. ASSUME HandleRequestVoteRespond(c) PROVE TypeOK'
    <2>0. voteCount' \in [Node -> Nat]
      BY <1>1, <1>6 DEF HandleRequestVoteRespond, TypeOK
    <2>1. CASE c.resTerm > currentTerm[c.source] /\ StepDown(c.source, c.resTerm)
               /\ heardFromLeader' = [heardFromLeader EXCEPT
                                        ![c.source] = @ /\ state[c.source] = "Follower"]
               /\ round' = [round EXCEPT ![c.source] = IF state[c.source] # "Follower" THEN 0 ELSE @]
               /\ UNCHANGED since
      <3>1. /\ state' \in [Node -> {"Follower", "Candidate", "Leader"}]
            /\ currentTerm' \in [Node -> Nat \ {0}]
            /\ lastHeard' \in [Node -> [Node -> 0 .. LeaseTime]]
            /\ behind' \in [Node -> SUBSET Node]
        BY <1>1, <1>4, <2>1, StepDownTypes
      <3>2. heardFromLeader' \in [Node -> BOOLEAN] /\ round' \in [Node -> Nat] /\ since' \in Nat
        BY <2>1 DEF TypeOK
      <3>. QED BY <1>2, <1>3, <2>0, <3>1, <3>2 DEF TypeOK
    <2>2. CASE BecomeLeader(c.source, c)
      <3>1. [q \in Node |-> IF q = c.source THEN LeaseTime ELSE 0] \in [Node -> 0 .. LeaseTime]
        BY <1>5
      <3>2. Others(c.source) \in SUBSET Node
        BY DEF Others
      <3>3. /\ state' \in [Node -> {"Follower", "Candidate", "Leader"}]
            /\ currentTerm' \in [Node -> Nat \ {0}]
            /\ lastHeard' \in [Node -> [Node -> 0 .. LeaseTime]]
            /\ behind' \in [Node -> SUBSET Node]
        BY <1>1, <2>2, <3>1, <3>2 DEF BecomeLeader, TypeOK
      <3>4. heardFromLeader' \in [Node -> BOOLEAN] /\ round' \in [Node -> Nat] /\ since' \in Nat
        BY <2>2 DEF TypeOK, BecomeLeader
      <3>. QED BY <1>2, <1>3, <2>0, <3>3, <3>4 DEF TypeOK
    <2>3. CASE UNCHANGED <<state, currentTerm, heardFromLeader, lastHeard, behind, round, since>>
      BY <1>2, <1>3, <2>0, <2>3 DEF TypeOK
    <2>. QED BY <1>6, <2>1, <2>2, <2>3 DEF HandleRequestVoteRespond
  <1>7. ASSUME RequestVoteFails(c) PROVE TypeOK'
    BY <1>2, <1>7 DEF RequestVoteFails, TypeOK, peerVars
  <1>8. ASSUME HandleAppendEntriesRes(c) PROVE TypeOK'
    <2>1. /\ state' \in [Node -> {"Follower", "Candidate", "Leader"}]
          /\ currentTerm' \in [Node -> Nat \ {0}]
          /\ lastHeard' \in [Node -> [Node -> 0 .. LeaseTime]]
          /\ behind' \in [Node -> SUBSET Node]
          /\ round' \in [Node -> Nat]
      <3>1. CASE state[c.source] # "Leader"
        BY <1>8, <3>1 DEF HandleAppendEntriesRes, TypeOK
      <3>2. CASE state[c.source] = "Leader" /\ c.resTerm > currentTerm[c.source]
        <4>1. StepDown(c.source, c.resTerm) /\ round' = [round EXCEPT ![c.source] = 0]
          BY <1>8, <3>2 DEF HandleAppendEntriesRes
        <4>2. round' \in [Node -> Nat]
          BY <4>1 DEF TypeOK
        <4>. QED BY <1>1, <1>4, <3>2, <4>1, <4>2, StepDownTypes
      <3>3. CASE state[c.source] = "Leader" /\ ~(c.resTerm > currentTerm[c.source])
        <4>1. /\ UpdateLastHeard(c.source, c.target)
              /\ behind' = [behind EXCEPT ![c.source] = @ \ {c.target}]
              /\ UNCHANGED <<state, currentTerm, round>>
          BY <1>8, <3>3 DEF HandleAppendEntriesRes
        <4>. QED BY <1>1, <1>5, <4>1 DEF UpdateLastHeard, TypeOK
      <3>. QED BY <3>1, <3>2, <3>3
    <2>. QED BY <1>2, <1>3, <1>8, <2>1 DEF HandleAppendEntriesRes, TypeOK
  <1>9. ASSUME AppendEntriesFails(c) PROVE TypeOK'
    BY <1>2, <1>3, <1>9 DEF AppendEntriesFails, HeardAfterFailure, TypeOK
  <1>. QED BY <1>6, <1>7, <1>8, <1>9 DEF CallerStep

LEMMA TickTypes ==
  ASSUME TypeOK, Tick
  PROVE  TypeOK'
  <1>1. NetworkTypeOK'
    <2>1. calls' = {Ages(c) : c \in {d \in calls : Runs(d)}} /\ UNCHANGED <<offline, lost, changes>>
      BY DEF Tick, TimePasses, Ages
    <2>2. \A c \in calls : Ages(c) \in CallType
      BY AgesFields DEF TypeOK, NetworkTypeOK
    <2>. QED BY <2>1, <2>2 DEF TypeOK, NetworkTypeOK
  <1>2. round' \in [Node -> Nat]
    <2>1. \A n \in Nat : Later(n, Longest) \in Nat
      BY Timers DEF Later
    <2>2. round' = [p \in Node |-> IF Counted(p) THEN Later(round[p], Longest) ELSE 0]
      BY DEF Tick
    <2>. QED BY <2>1, <2>2 DEF TypeOK
  <1>3. lastHeard' \in [Node -> [Node -> 0 .. LeaseTime]]
    <2>1. \A n \in 0 .. LeaseTime : Later(n, LeaseTime) \in 0 .. LeaseTime
      BY Constants DEF Later
    <2>2. \A p, q \in Node : lastHeard[p][q] \in 0 .. LeaseTime
      BY DEF TypeOK
    <2>3. lastHeard' = [p \in Node |-> [q \in Node |-> Later(lastHeard[p][q], LeaseTime)]]
      BY DEF Tick
    <2>. QED BY <2>1, <2>2, <2>3
  <1>. QED BY <1>1, <1>2, <1>3 DEF TypeOK, Tick

LEMMA InitTypes == Init => TypeOK
  <1>. SUFFICES ASSUME Init PROVE TypeOK
    OBVIOUS
  <1>1. 0 \in 0 .. LeaseTime /\ LeaseTime \in 0 .. LeaseTime /\ HeartbeatTimeout \in Nat
    BY Constants
  <1>2. NetworkTypeOK
    BY DEF Init, NetworkInit, NetworkTypeOK
  <1>3. round \in [Node -> Nat]
    BY <1>1 DEF Init
  <1>4. lastHeard \in [Node -> [Node -> 0 .. LeaseTime]]
    BY <1>1 DEF Init
  <1>. QED BY <1>2, <1>3, <1>4 DEF Init, TypeOK

LEMMA NextTypes == TypeOK /\ CallsFollowTerms /\ [Next]_vars => TypeOK'
  <1>. SUFFICES ASSUME TypeOK, CallsFollowTerms, [Next]_vars PROVE TypeOK'
    OBVIOUS
  <1>1. CASE Tick
    BY <1>1, TickTypes
  <1>2. CASE SetNetworkStatus /\ UNCHANGED <<peerVars, since>>
    <2>1. offline' \subseteq Node
      BY <1>2, NetworkAssumption DEF SetNetworkStatus
    <2>. QED BY <1>2, <2>1 DEF SetNetworkStatus, TypeOK, peerVars, NetworkTypeOK
  <1>3. ASSUME NEW p \in Node, TimeoutLoop(p) PROVE TypeOK'
    BY <1>3, RoundTypes
  <1>4. ASSUME NEW c \in calls, HandleRequestVote(c) \/ HandleAppendEntries(c) PROVE TypeOK'
    BY <1>4, HandlerTypes
  <1>5. ASSUME NEW c \in calls, CallerStep(c) PROVE TypeOK'
    BY <1>5, CallerTypes
  <1>6. ASSUME NEW c \in calls, HandlerWaits(c) PROVE TypeOK'
    <2>1. NetworkTypeOK'
      BY <1>6, Waiting DEF HandlerWaits, TypeOK
    <2>. QED BY <1>6, <2>1 DEF HandlerWaits, peerVars, TypeOK
  <1>7. CASE UNCHANGED vars
    BY <1>7 DEF vars, peerVars, networkVars, TypeOK, NetworkTypeOK
  <1>. QED BY <1>1, <1>2, <1>3, <1>4, <1>5, <1>6, <1>7 DEF Next, CallerStep

-----------------------------------------------------------------------------
\* calls

IsNew(d) == /\ d \in CallType /\ d.stage = "request" /\ d.waits
            /\ d.left = Timeout /\ d.took = 0
            /\ d.term = currentTerm'[d.source] /\ d.source # d.target

IsLeft(d) == \E c \in calls : Fails(c) /\ d \in Abandoned(c)

IsAged(d) == Tick /\ \E c \in calls : Runs(c) /\ ~Due(c) /\ d = Ages(c)

IsHeldUp(d) ==
  \E c \in calls : \E t \in MutexWaits : HandlerWaits(c) /\ MayRun(c) /\ d = HeldUp(c, t)

IsAnswer(d) ==
  \E c \in calls : \E ok \in BOOLEAN : \E delay \in 0 .. Timeout :
    /\ HandleRequestVote(c) \/ HandleAppendEntries(c)
    /\ delay \in Latency \cup {Timeout}
    /\ d = Answering(c, delay, currentTerm'[c.target], ok)
    /\ ok = IF c.method = "requestVote" THEN Grants(c) ELSE Accepts(c)

LEMMA SentAreNew ==
  ASSUME NetworkTypeOK, NEW p \in Node, NEW targets \in SUBSET Others(p), NEW method \in Methods,
         currentTerm'[p] \in Nat, NEW left \in SUBSET CallType,
         SendRawRequest(p, targets, method, currentTerm'[p], left),
         NEW d \in calls', d \notin left
  PROVE  IsNew(d)
  <1>1. PICK q \in targets : \E delay \in 0 .. Timeout : d = Call(p, q, method, currentTerm'[p], delay)
    BY Sending DEF Others
  <1>2. q \in Node /\ q # p
    BY DEF Others
  <1>. QED BY <1>1, <1>2, NewCall DEF IsNew

LEMMA WhereCallsComeFrom ==
  ASSUME TypeOK, CallsFollowTerms, Next, NEW d \in calls'
  PROVE  \/ d \in calls \/ IsNew(d) \/ IsLeft(d) \/ IsAged(d) \/ IsHeldUp(d) \/ IsAnswer(d)
  <1>0. NetworkTypeOK /\ calls \in SUBSET CallType /\ TypeOK'
    BY NextTypes DEF TypeOK, NetworkTypeOK
  <1>1. CASE Tick
    <2>1. \A c \in calls : ~Due(c)
      BY <1>1 DEF Tick, TimePasses
    <2>2. PICK c \in calls : Runs(c) /\ d = Ages(c)
      BY <1>1 DEF Tick, TimePasses, Ages
    <2>. QED BY <1>1, <2>1, <2>2 DEF IsAged
  <1>2. CASE SetNetworkStatus /\ UNCHANGED <<peerVars, since>>
    BY <1>2 DEF SetNetworkStatus
  <1>3. ASSUME NEW p \in Node, TimeoutLoop(p) PROVE d \in calls \/ IsNew(d)
    <2>0. currentTerm[p] \in Nat /\ currentTerm'[p] \in Nat
      BY <1>0 DEF TypeOK
    <2>1. CASE Quiet(p)
      BY <2>1 DEF Quiet, networkVars
    <2>2. CASE StartElection(p)
      <3>1. currentTerm'[p] = currentTerm[p] + 1
        BY <2>2 DEF StartElection, TypeOK
      <3>2. SendRawRequest(p, Others(p), "requestVote", currentTerm'[p], calls)
        BY <2>2, <3>1 DEF StartElection
      <3>3. "requestVote" \in Methods
        BY DEF Methods
      <3>. QED BY <1>0, <2>0, <3>2, <3>3, SentAreNew
    <2>3. CASE TriggerLeaderHeartbeat(p)
      <3>1. SendRawRequest(p, NotAppending(p, calls), "appendEntries", currentTerm'[p], calls)
        BY <2>3 DEF TriggerLeaderHeartbeat
      <3>2. "appendEntries" \in Methods /\ NotAppending(p, calls) \in SUBSET Others(p)
        BY DEF Methods, NotAppending
      <3>. QED BY <1>0, <2>0, <3>1, <3>2, SentAreNew
    <2>. QED BY <1>3, <2>1, <2>2, <2>3 DEF TimeoutLoop
  <1>4. ASSUME NEW c \in calls, HandleRequestVote(c) \/ HandleAppendEntries(c)
        PROVE  d \in calls \/ IsAnswer(d)
    BY <1>4, HandlerTypes DEF IsAnswer
  <1>5. ASSUME NEW c \in calls, CallerStep(c) PROVE d \in calls \/ IsNew(d) \/ IsLeft(d)
    <2>1. PICK left : /\ left = calls \ {c} \/ (Fails(c) /\ left = (calls \ {c}) \cup Abandoned(c))
                      /\ Continues(c, left)
      BY <1>5, CallerContinues
    <2>2. left \in SUBSET CallType
      BY <1>0, <2>1, Leaving
    <2>3. c.source \in Node /\ currentTerm'[c.source] \in Nat
      BY <1>0 DEF TypeOK, CallType
    <2>4. d \in left \/ IsNew(d)
      BY <1>0, <2>1, <2>2, <2>3, SentAreNew DEF Continues
    <2>. QED BY <2>1, <2>4 DEF IsLeft
  <1>6. ASSUME NEW c \in calls, HandlerWaits(c) PROVE d \in calls \/ IsHeldUp(d)
    <2>1. WaitForMutex(c) /\ MayRun(c)
      BY <1>6 DEF HandlerWaits, WaitForMutex
    <2>. QED BY <1>0, <1>6, <2>1, Waiting DEF IsHeldUp
  <1>. QED BY <1>1, <1>2, <1>3, <1>4, <1>5, <1>6 DEF Next, CallerStep

\* A caller goes when its time is up, and the time that was left when a callback started
\* bounds how late its answer can be.
LEMMA CallsStayInTime ==
  ASSUME TypeOK, CallsFollowTerms, CallsKeepTime, Next
  PROVE  CallsKeepTime'
  <1>. DEFINE KeepsTime(d) ==
                /\ d.left <= Timeout
                /\ d.waits => d.left >= 0
                /\ ~d.waits => d.left <= 0 /\ d.stage # "request"
                /\ d.stage = "request" => d.took = 0
                /\ d.stage = "callback" => (d.left + d.took) - d.delay <= Timeout
                /\ d.stage = "reply" => /\ d.delay < d.left + d.took
                                       /\ \E t \in Latency : d.delay <= t
  <1>. SUFFICES ASSUME NEW d \in calls' PROVE KeepsTime(d)
    BY DEF CallsKeepTime, RemainingTime
  <1>0. ASSUME NEW c \in calls
        PROVE  /\ KeepsTime(c) /\ c \in CallType
               /\ c.left \in Int /\ c.delay \in Nat /\ c.took \in Nat
    <2>1. c \in CallType
      BY DEF TypeOK, NetworkTypeOK
    <2>2. c.left \in Int /\ c.delay \in Nat /\ c.took \in Nat
      BY <2>1 DEF CallType
    <2>. QED BY <2>1, <2>2 DEF CallsKeepTime, RemainingTime
  <1>1. CASE d \in calls
    BY <1>0, <1>1
  <1>2. CASE IsNew(d)
    BY <1>2, Constants DEF IsNew
  <1>3. CASE IsLeft(d)
    <2>1. PICK c \in calls : Fails(c) /\ d \in Abandoned(c)
      BY <1>3 DEF IsLeft
    <2>2. c.left = 0 /\ c.stage # "request" /\ d = [c EXCEPT !.waits = FALSE]
      BY <2>1 DEF Fails, Abandoned
    <2>3. /\ d.left = c.left /\ d.stage = c.stage /\ d.took = c.took /\ d.delay = c.delay
          /\ ~d.waits
      BY <1>0, <2>2 DEF CallType
    <2>. QED BY <1>0, <2>2, <2>3
  <1>4. CASE IsAged(d)
    <2>1. PICK c \in calls : Runs(c) /\ ~Due(c) /\ d = Ages(c)
      BY <1>4 DEF IsAged
    <2>2. /\ d.left = c.left - 1 /\ d.delay = Earlier(c.delay) /\ d.took = c.took
          /\ d.stage = c.stage /\ d.waits = c.waits
      BY <1>0, <2>1, AgesFields
    <2>3. c.waits => c.left # 0
      BY <2>1 DEF Due
    <2>4. c.stage \in {"callback", "reply"} => c.delay # 0
      BY <1>0, <2>1 DEF Due, Runs
    <2>5. c.stage \in {"callback", "reply"} => d.delay = c.delay - 1
      BY <2>2, <2>4 DEF Earlier
    <2>6. \A t \in Latency : t \in Nat
      BY Constants
    <2>7. d.stage = "reply" => \E t \in Latency : d.delay <= t
      <3>. SUFFICES ASSUME d.stage = "reply" PROVE \E t \in Latency : d.delay <= t
        OBVIOUS
      <3>1. PICK t \in Latency : c.delay <= t
        BY <1>0, <2>2
      <3>2. d.delay <= t
        BY <1>0, <2>2, <2>5, <2>6, <3>1
      <3>. QED BY <3>2
    <2>. QED BY <1>0, <2>2, <2>3, <2>5, <2>7, Constants
  <1>5. CASE IsAnswer(d)
    <2>1. PICK c \in calls, ok \in BOOLEAN, delay \in 0 .. Timeout :
             /\ MayRun(c) /\ delay \in Latency \cup {Timeout}
             /\ d = Answering(c, delay, currentTerm'[c.target], ok)
      BY <1>5 DEF IsAnswer, HandleRequestVote, HandleAppendEntries
    <2>2. c \in CallType /\ currentTerm'[c.target] \in Nat
      BY <1>0, NextTypes DEF TypeOK, CallType
    <2>3. /\ d.left = c.left /\ d.took = c.took /\ d.waits = c.waits
          /\ d.stage \in {"reply", "done"}
          /\ d.stage = "reply" => delay < c.left + c.took /\ d.delay = delay
      BY <2>1, <2>2, AnsweringFields DEF RemainingTime
    <2>4. c.left + c.took <= Timeout
      BY <1>0, <2>1, Constants DEF MayRun
    <2>5. d.stage = "reply" => delay \in Latency
      BY <1>0, <2>1, <2>3, <2>4, Constants
    <2>6. \A t \in Latency : t <= t
      BY Constants
    <2>. QED BY <1>0, <2>3, <2>5, <2>6
  <1>6. CASE IsHeldUp(d)
    <2>1. PICK c \in calls, t \in MutexWaits : HandlerWaits(c) /\ d = HeldUp(c, t)
      BY <1>6 DEF IsHeldUp
    <2>2. c.stage = "request" /\ t \in Nat
      BY <2>1, Constants DEF HandlerWaits, WaitForMutex
    <2>3. /\ d.left = c.left /\ d.waits = c.waits
          /\ d.stage = "callback" /\ d.delay = t /\ d.took = t
      BY <1>0, <2>1, <2>2, HeldUpFields
    <2>4. (d.left + d.took) - d.delay = c.left
      BY <1>0, <2>2, <2>3
    <2>. QED BY <1>0, <2>2, <2>3, <2>4
  <1>. QED BY <1>1, <1>2, <1>3, <1>4, <1>5, <1>6, WhereCallsComeFrom

-----------------------------------------------------------------------------
\* terms, leaders and candidates

\* a step either keeps the role and the term of a peer, or makes it a follower of a
\* later term or the same, or a candidate of the next term, or a leader
Keeps(q) == state'[q] = state[q] /\ currentTerm'[q] = currentTerm[q]
Follows(q) == state'[q] = "Follower" /\ currentTerm'[q] >= currentTerm[q]
Starts(q) == RoundMayEnd(q) /\ StartElection(q)
Wins(q) == \E c \in calls : /\ HandleRequestVoteRespond(c) /\ BecomeLeader(q, c) /\ c.source = q
                            /\ currentTerm'[q] = currentTerm[q]

LEMMA StepDownRole ==
  ASSUME TypeOK, NEW p \in Node, NEW term \in Nat, term >= currentTerm[p], StepDown(p, term),
         NEW q \in Node
  PROVE  Keeps(q) \/ Follows(q)
  BY DEF TypeOK, StepDown, Keeps, Follows

LEMMA Roles ==
  ASSUME TypeOK, Next, NEW q \in Node
  PROVE  Keeps(q) \/ Follows(q) \/ Starts(q) \/ Wins(q)
  <1>0. \A c \in calls : /\ c.source \in Node /\ c.target \in Node /\ c.term \in Nat
                         /\ c.resTerm \in Nat
    BY DEF TypeOK, NetworkTypeOK, CallType
  <1>1. CASE Tick
    BY <1>1 DEF Tick, Keeps
  <1>2. CASE SetNetworkStatus /\ UNCHANGED <<peerVars, since>>
    BY <1>2 DEF Keeps, peerVars
  <1>3. ASSUME NEW p \in Node, TimeoutLoop(p) PROVE Keeps(q) \/ Starts(q)
    <2>1. CASE Quiet(p)
      BY <2>1 DEF Quiet, Keeps
    <2>2. CASE StartElection(p)
      BY <1>3, <2>2 DEF TimeoutLoop, StartElection, Keeps, Starts, TypeOK
    <2>3. CASE TriggerLeaderHeartbeat(p)
      BY <2>3 DEF TriggerLeaderHeartbeat, Keeps
    <2>. QED BY <1>3, <2>1, <2>2, <2>3 DEF TimeoutLoop
  <1>4. ASSUME NEW c \in calls, HandleRequestVote(c) PROVE Keeps(q) \/ Follows(q)
    <2>1. CASE c.term > currentTerm[c.target] /\ StepDown(c.target, c.term)
      <3>1. c.term >= currentTerm[c.target]
        BY <1>0, <2>1 DEF TypeOK
      <3>. QED BY <1>0, <2>1, <3>1, StepDownRole
    <2>2. CASE UNCHANGED <<state, currentTerm>>
      BY <2>2 DEF Keeps
    <2>. QED BY <1>4, <2>1, <2>2 DEF HandleRequestVote
  <1>5. ASSUME NEW c \in calls, HandleAppendEntries(c) PROVE Keeps(q) \/ Follows(q)
    <2>1. CASE c.term >= currentTerm[c.target] /\ StepDown(c.target, c.term)
      BY <1>0, <2>1, StepDownRole
    <2>2. CASE UNCHANGED <<state, currentTerm>>
      BY <2>2 DEF Keeps
    <2>. QED BY <1>5, <2>1, <2>2 DEF HandleAppendEntries
  <1>6. ASSUME NEW c \in calls, HandleRequestVoteRespond(c)
        PROVE  Keeps(q) \/ Follows(q) \/ Wins(q)
    <2>1. CASE c.resTerm > currentTerm[c.source] /\ StepDown(c.source, c.resTerm)
      <3>1. c.resTerm >= currentTerm[c.source]
        BY <1>0, <2>1 DEF TypeOK
      <3>. QED BY <1>0, <2>1, <3>1, StepDownRole
    <2>2. CASE BecomeLeader(c.source, c)
      <3>1. CASE q = c.source
        BY <1>6, <2>2, <3>1 DEF Wins, BecomeLeader
      <3>2. CASE q # c.source
        BY <2>2, <3>2 DEF Keeps, BecomeLeader, TypeOK
      <3>. QED BY <3>1, <3>2
    <2>3. CASE UNCHANGED <<state, currentTerm>>
      BY <2>3 DEF Keeps
    <2>. QED BY <1>6, <2>1, <2>2, <2>3 DEF HandleRequestVoteRespond
  <1>7. ASSUME NEW c \in calls, RequestVoteFails(c) \/ AppendEntriesFails(c) PROVE Keeps(q)
    BY <1>7 DEF RequestVoteFails, AppendEntriesFails, Keeps, peerVars
  <1>8. ASSUME NEW c \in calls, HandleAppendEntriesRes(c) PROVE Keeps(q) \/ Follows(q)
    <2>1. CASE c.resTerm > currentTerm[c.source] /\ StepDown(c.source, c.resTerm)
      <3>1. c.resTerm >= currentTerm[c.source]
        BY <1>0, <2>1 DEF TypeOK
      <3>. QED BY <1>0, <2>1, <3>1, StepDownRole
    <2>2. CASE UNCHANGED <<state, currentTerm>>
      BY <2>2 DEF Keeps
    <2>. QED BY <1>8, <2>1, <2>2 DEF HandleAppendEntriesRes
  <1>9. ASSUME NEW c \in calls, HandlerWaits(c) PROVE Keeps(q)
    BY <1>9 DEF HandlerWaits, Keeps, peerVars
  <1>. QED BY <1>1, <1>2, <1>3, <1>4, <1>5, <1>6, <1>7, <1>8, <1>9 DEF Next

LEMMA TermsRise ==
  ASSUME TypeOK, Next, NEW q \in Node
  PROVE  currentTerm'[q] >= currentTerm[q]
  <1>1. CASE Starts(q)
    BY <1>1 DEF Starts, StartElection, TypeOK
  <1>. QED BY <1>1, Roles DEF Keeps, Follows, Wins, TypeOK

\* d asks for the same vote as c, and its caller waits
SameVote(c, d) == /\ c.method = "requestVote" /\ d.method = "requestVote" /\ c.waits /\ d.waits
                  /\ c.source = d.source /\ c.target = d.target /\ c.term = d.term

AskedOnce == \A c, d \in calls : SameVote(c, d) => c = d

LEMMA CallsFollow ==
  CallsFollowTerms <=> /\ \A c \in calls : c.term <= currentTerm[c.source] /\ c.term > 0
                                           /\ c.source # c.target
                       /\ AskedOnce
  BY DEF CallsFollowTerms, AskedOnce, SameVote

LEMMA SentCalls ==
  ASSUME NetworkTypeOK, NEW p \in Node, NEW targets \in SUBSET Node,
         NEW method \in Methods, NEW term \in Nat, NEW left \in SUBSET CallType,
         SendRawRequest(p, targets, method, term, left)
  PROVE  /\ \A e \in calls' \ left : /\ e.source = p /\ e.target \in targets
                                     /\ e.method = method /\ e.term = term
         /\ \A d, e \in calls' \ left : d.target = e.target => d = e
  <1>1. ASSUME NEW e \in calls' \ left
        PROVE  e.source = p /\ e.target \in targets /\ e.method = method /\ e.term = term
    <2>1. PICK q \in targets : \E delay \in 0 .. Timeout : e = Call(p, q, method, term, delay)
      BY Sending
    <2>2. PICK delay \in 0 .. Timeout : e = Call(p, q, method, term, delay)
      BY <2>1
    <2>3. q \in Node
      OBVIOUS
    <2>. QED BY <2>2, <2>3, NewCall
  <1>2. ASSUME NEW d \in calls' \ left, NEW e \in calls' \ left, d.target = e.target
        PROVE  d = e
    <2>1. PICK delay \in [targets -> Latency \cup {Timeout}] :
            calls' = left \cup {Call(p, q, method, term, delay[q]) : q \in targets}
      BY DEF SendRawRequest
    <2>2. PICK q \in targets : d = Call(p, q, method, term, delay[q])
      BY <1>2, <2>1
    <2>3. PICK r \in targets : e = Call(p, r, method, term, delay[r])
      BY <1>2, <2>1
    <2>4. q = r
      BY <1>2, <2>2, <2>3 DEF Call
    <2>. QED BY <2>2, <2>3, <2>4
  <1>. QED BY <1>1, <1>2

\* What is sent anew asks for no vote that is asked for.
LEMMA SentOnce ==
  ASSUME NetworkTypeOK, NEW p \in Node, NEW targets \in SUBSET Node, NEW method \in Methods,
         NEW term \in Nat, NEW left \in SUBSET CallType,
         SendRawRequest(p, targets, method, term, left),
         \A c, d \in left : SameVote(c, d) => c = d,
         method = "requestVote" =>
           \A d \in left : ~(/\ d.method = "requestVote" /\ d.waits /\ d.source = p
                             /\ d.target \in targets /\ d.term = term)
  PROVE  AskedOnce'
  <1>. SUFFICES ASSUME NEW c \in calls', NEW d \in calls', SameVote(c, d) PROVE c = d
    BY DEF AskedOnce, SameVote
  <1>1. /\ \A e \in calls' \ left : /\ e.source = p /\ e.target \in targets
                                    /\ e.method = method /\ e.term = term
        /\ \A b, e \in calls' \ left : b.target = e.target => b = e
    BY SentCalls
  <1>2. \A e \in calls' \ left : method # "requestVote" \/ \A b \in left : ~SameVote(b, e)
    BY <1>1 DEF SameVote
  <1>3. CASE c \in left /\ d \in left
    BY <1>3
  <1>4. CASE c \in left /\ d \notin left
    BY <1>1, <1>2, <1>4 DEF SameVote
  <1>5. CASE c \notin left /\ d \in left
    BY <1>1, <1>2, <1>5 DEF SameVote
  <1>6. CASE c \notin left /\ d \notin left
    BY <1>1, <1>6 DEF SameVote
  <1>. QED BY <1>3, <1>4, <1>5, <1>6

LEMMA VotesAreAskedOnce ==
  ASSUME TypeOK, CallsFollowTerms, Next
  PROVE  AskedOnce'
  <1>0. NetworkTypeOK /\ calls \in SUBSET CallType /\ TypeOK' /\ AskedOnce
    BY NextTypes, CallsFollow DEF TypeOK, NetworkTypeOK
  <1>1. CASE Tick
    <2>1. calls' = {Ages(c) : c \in {b \in calls : Runs(b)}}
      BY <1>1 DEF Tick, TimePasses, Ages
    <2>2. ASSUME NEW c \in CallType
          PROVE  /\ Ages(c).source = c.source /\ Ages(c).target = c.target
                 /\ Ages(c).method = c.method /\ Ages(c).term = c.term /\ Ages(c).waits = c.waits
      BY AgesFields
    <2>3. \A c, d \in calls : SameVote(Ages(c), Ages(d)) => SameVote(c, d)
      BY <1>0, <2>2 DEF SameVote
    <2>. QED BY <1>0, <2>1, <2>3 DEF AskedOnce, SameVote
  <1>2. CASE calls' = calls
    BY <1>0, <1>2 DEF AskedOnce, SameVote
  <1>3. ASSUME NEW p \in Node, StartElection(p) PROVE AskedOnce'
    <2>1. SendRawRequest(p, Others(p), "requestVote", currentTerm[p] + 1, calls)
          /\ Others(p) \in SUBSET Node /\ "requestVote" \in Methods /\ currentTerm[p] + 1 \in Nat
      BY <1>3 DEF StartElection, Others, Methods, TypeOK
    <2>2. \A d \in calls : d.source = p => d.term # currentTerm[p] + 1
      <3>1. \A d \in calls : d.term \in Nat /\ currentTerm[p] \in Nat
        BY <1>0 DEF CallType, TypeOK
      <3>. QED BY <3>1 DEF CallsFollowTerms
    <2>. QED BY <1>0, <2>1, <2>2, SentOnce DEF AskedOnce
  <1>4. ASSUME NEW p \in Node, TriggerLeaderHeartbeat(p) PROVE AskedOnce'
    <2>1. /\ SendRawRequest(p, NotAppending(p, calls), "appendEntries", currentTerm[p], calls)
          /\ NotAppending(p, calls) \in SUBSET Node /\ "appendEntries" \in Methods
          /\ currentTerm[p] \in Nat
      BY <1>4 DEF TriggerLeaderHeartbeat, NotAppending, Others, Methods, TypeOK
    <2>. QED BY <1>0, <2>1, SentOnce DEF AskedOnce
  <1>5. ASSUME NEW c \in calls,
               HandlerWaits(c) \/ HandleRequestVote(c) \/ HandleAppendEntries(c)
        PROVE  AskedOnce'
    <2>0. c \in CallType /\ currentTerm'[c.target] \in Nat
      BY <1>0 DEF TypeOK, CallType
    <2>1. PICK a \in CallType :
            /\ a.source = c.source /\ a.target = c.target /\ a.method = c.method
            /\ a.term = c.term /\ a.waits = c.waits
            /\ calls' = (calls \ {c}) \cup {a}
      <3>1. CASE HandlerWaits(c)
        BY <1>0, <2>0, <3>1, Waiting, HeldUpFields DEF HandlerWaits
      <3>2. CASE HandleRequestVote(c) \/ HandleAppendEntries(c)
        <4>1. PICK ok \in BOOLEAN, delay \in 0 .. Timeout :
                calls' = (calls \ {c}) \cup {Answering(c, delay, currentTerm'[c.target], ok)}
          BY <3>2, HandlerTypes
        <4>. QED BY <2>0, <4>1, AnsweringFields
      <3>. QED BY <1>5, <3>1, <3>2
    <2>2. \A d \in calls : SameVote(a, d) \/ SameVote(d, a) => d = c
      BY <1>0, <2>1 DEF SameVote, AskedOnce
    <2>3. \A d, e \in (calls \ {c}) \cup {a} : SameVote(d, e) => d = e
      BY <1>0, <2>2 DEF AskedOnce
    <2>. QED BY <2>1, <2>3 DEF AskedOnce, SameVote
  <1>6. ASSUME NEW c \in calls, CallerStep(c) PROVE AskedOnce'
    <2>1. PICK left : /\ left = calls \ {c} \/ left = (calls \ {c}) \cup Abandoned(c)
                      /\ Continues(c, left)
      BY <1>6, CallerContinues
    <2>2. left \in SUBSET CallType /\ \A d \in left : d \in calls \ {c} \/ d.waits = FALSE
      BY <1>0, <2>1, Leaving
    <2>3. \A d, e \in left : SameVote(d, e) => d = e
      BY <1>0, <2>2 DEF AskedOnce, SameVote
    <2>4. CASE calls' = left
      BY <2>3, <2>4 DEF AskedOnce, SameVote
    <2>5. ASSUME NEW targets \in SUBSET Others(c.source), NEW method \in Methods,
                 SendRawRequest(c.source, targets, method, currentTerm[c.source], left),
                 method = "requestVote" => /\ targets = {c.target} /\ c.method = "requestVote"
                                           /\ currentTerm[c.source] = c.term
          PROVE  AskedOnce'
      <3>1. targets \in SUBSET Node /\ c.source \in Node /\ currentTerm[c.source] \in Nat
        BY <1>0 DEF Others, CallType, TypeOK
      <3>2. c.waits
        BY <1>6, CallerContinues DEF Answered, Fails
      <3>3. method = "requestVote" =>
              \A d \in left : ~(/\ d.method = "requestVote" /\ d.waits /\ d.source = c.source
                                /\ d.target \in targets /\ d.term = currentTerm[c.source])
        BY <1>0, <2>2, <2>5, <3>2 DEF AskedOnce, SameVote
      <3>. QED BY <1>0, <2>2, <2>3, <2>5, <3>1, <3>3, SentOnce
    <2>. QED BY <2>1, <2>4, <2>5 DEF Continues
  <1>7. ASSUME NEW p \in Node, Quiet(p) PROVE calls' = calls
    BY <1>7 DEF Quiet, networkVars
  <1>8. SetNetworkStatus => calls' = calls
    BY DEF SetNetworkStatus
  <1>. QED BY <1>1, <1>2, <1>3, <1>4, <1>5, <1>6, <1>7, <1>8 DEF Next, CallerStep, TimeoutLoop

LEMMA CallsKeepToTerms ==
  ASSUME TypeOK, CallsFollowTerms, Next
  PROVE  CallsFollowTerms'
  <1>0. TypeOK'
    BY NextTypes
  <1>1. ASSUME NEW d \in calls'
        PROVE  d.term <= currentTerm'[d.source] /\ d.term > 0 /\ d.source # d.target
    <2>1. ASSUME NEW c \in calls, d.source = c.source, d.target = c.target, d.term = c.term
          PROVE  d.term <= currentTerm'[d.source] /\ d.term > 0 /\ d.source # d.target
      <3>1. /\ c.source \in Node /\ c.term \in Nat /\ currentTerm[c.source] \in Nat
            /\ currentTerm'[c.source] \in Nat
        BY <1>0 DEF TypeOK, NetworkTypeOK, CallType
      <3>2. c.term <= currentTerm[c.source] /\ currentTerm'[c.source] >= currentTerm[c.source]
        BY <3>1, TermsRise DEF CallsFollowTerms
      <3>. QED BY <2>1, <3>1, <3>2 DEF CallsFollowTerms
    <2>2. CASE d \in calls
      BY <2>1, <2>2
    <2>3. CASE IsNew(d)
      <3>1. d.source \in Node /\ currentTerm'[d.source] \in Nat \ {0}
        BY <1>0, <2>3 DEF TypeOK, IsNew, CallType
      <3>. QED BY <2>3, <3>1 DEF IsNew
    <2>4. CASE IsLeft(d)
      <3>1. PICK c \in calls : d = [c EXCEPT !.waits = FALSE]
        BY <2>4, Leaving DEF IsLeft, TypeOK
      <3>2. d.source = c.source /\ d.target = c.target /\ d.term = c.term
        BY <3>1 DEF TypeOK, NetworkTypeOK, CallType
      <3>. QED BY <2>1, <3>2
    <2>5. CASE IsAged(d)
      <3>1. PICK c \in calls : d = Ages(c)
        BY <2>5 DEF IsAged
      <3>2. d.source = c.source /\ d.target = c.target /\ d.term = c.term
        BY <3>1, AgesFields DEF TypeOK, NetworkTypeOK
      <3>. QED BY <2>1, <3>2
    <2>6. CASE IsAnswer(d)
      <3>1. PICK c \in calls, ok \in BOOLEAN, delay \in 0 .. Timeout :
               d = Answering(c, delay, currentTerm'[c.target], ok)
        BY <2>6 DEF IsAnswer
      <3>2. c \in CallType /\ currentTerm'[c.target] \in Nat
        BY <1>0 DEF TypeOK, NetworkTypeOK, CallType
      <3>3. d.source = c.source /\ d.target = c.target /\ d.term = c.term
        BY <3>1, <3>2, AnsweringFields
      <3>. QED BY <2>1, <3>3
    <2>7. CASE IsHeldUp(d)
      <3>1. PICK c \in calls, t \in MutexWaits : d = HeldUp(c, t)
        BY <2>7 DEF IsHeldUp
      <3>2. c \in CallType /\ t \in Nat
        BY Constants DEF TypeOK, NetworkTypeOK
      <3>3. d.source = c.source /\ d.target = c.target /\ d.term = c.term
        BY <3>1, <3>2, HeldUpFields
      <3>. QED BY <2>1, <3>3
    <2>. QED BY <2>2, <2>3, <2>4, <2>5, <2>6, <2>7, WhereCallsComeFrom
  <1>2. AskedOnce'
    BY VotesAreAskedOnce
  <1>. QED BY <1>1, <1>2 DEF CallsFollowTerms, AskedOnce, SameVote

-----------------------------------------------------------------------------
\* answers

Same(c, d) == c.source = d.source /\ c.target = d.target /\ c.method = d.method /\ c.term = d.term

\* A call that is not new, and that no handler just answered or begins to wait for, says
\* what it said.
LEMMA OlderCalls ==
  ASSUME TypeOK, CallsFollowTerms, Next, NEW d \in calls'
  PROVE  \/ IsNew(d) \/ IsAnswer(d)
         \/ \E c \in calls : /\ Same(c, d) /\ (d.stage = c.stage \/ d.stage = "callback")
                             /\ d.ok = c.ok /\ d.resTerm = c.resTerm /\ (d.waits => c.waits)
  <1>0. calls \subseteq CallType
    BY DEF TypeOK, NetworkTypeOK
  <1>1. CASE d \in calls
    BY <1>1 DEF Same
  <1>2. CASE IsLeft(d)
    <2>1. PICK c \in calls : d = [c EXCEPT !.waits = FALSE]
      BY <1>2, Leaving DEF IsLeft, TypeOK
    <2>. QED BY <1>0, <2>1 DEF Same, CallType
  <1>3. CASE IsAged(d)
    <2>1. PICK c \in calls : d = Ages(c)
      BY <1>3 DEF IsAged
    <2>. QED BY <1>0, <2>1, AgesFields DEF Same
  <1>4. CASE IsHeldUp(d)
    <2>1. PICK c \in calls, t \in MutexWaits : d = HeldUp(c, t)
      BY <1>4 DEF IsHeldUp
    <2>2. c \in CallType /\ t \in Nat
      BY <1>0, Constants
    <2>3. d.ok = c.ok /\ d.resTerm = c.resTerm
      BY <2>1, <2>2 DEF HeldUp, CallType
    <2>. QED BY <2>1, <2>2, <2>3, HeldUpFields DEF Same
  <1>. QED BY <1>1, <1>2, <1>3, <1>4, WhereCallsComeFrom

\* A handler adopts a later term, and answers with its own.
LEMMA HandlersTerm ==
  ASSUME TypeOK, NEW c \in calls, HandleRequestVote(c) \/ HandleAppendEntries(c)
  PROVE  currentTerm'[c.target] = IF c.term > currentTerm[c.target] THEN c.term
                                                                    ELSE currentTerm[c.target]
  <1>1. c.target \in Node /\ c.term \in Nat /\ currentTerm[c.target] \in Nat
    BY DEF TypeOK, NetworkTypeOK, CallType
  <1>2. CASE HandleRequestVote(c)
    <2>1. IF c.term > currentTerm[c.target] THEN StepDown(c.target, c.term)
                                            ELSE currentTerm' = currentTerm
      BY <1>2 DEF HandleRequestVote
    <2>. QED BY <1>1, <2>1 DEF StepDown, TypeOK
  <1>3. CASE HandleAppendEntries(c)
    <2>1. IF c.term >= currentTerm[c.target] THEN StepDown(c.target, c.term)
                                             ELSE currentTerm' = currentTerm
      BY <1>3 DEF HandleAppendEntries
    <2>2. currentTerm \in [Node -> Nat \ {0}]
      BY DEF TypeOK
    <2>3. currentTerm'[c.target] = IF c.term >= currentTerm[c.target] THEN c.term
                                                                      ELSE currentTerm[c.target]
      BY <1>1, <2>1, <2>2 DEF StepDown
    <2>. QED BY <1>1, <2>3
  <1>. QED BY <1>2, <1>3

LEMMA AnswersStayTrue ==
  ASSUME TypeOK, CallsFollowTerms, AnswersAreTrue, Next
  PROVE  AnswersAreTrue'
  <1>. SUFFICES ASSUME NEW d \in calls', d.stage = "reply"
                PROVE  /\ d.ok => d.resTerm = d.term /\ currentTerm'[d.target] >= d.term
                       /\ d.method = "appendEntries" /\ ~d.ok => d.resTerm > d.term
    BY DEF AnswersAreTrue
  <1>0. calls \subseteq CallType
    BY DEF TypeOK, NetworkTypeOK
  <1>1. ASSUME NEW c \in calls, Same(c, d), d.stage = c.stage, d.ok = c.ok, d.resTerm = c.resTerm
        PROVE  /\ d.ok => d.resTerm = d.term /\ currentTerm'[d.target] >= d.term
               /\ d.method = "appendEntries" /\ ~d.ok => d.resTerm > d.term
    <2>1. /\ c.target \in Node /\ c.term \in Nat /\ currentTerm[c.target] \in Nat
          /\ currentTerm'[c.target] \in Nat /\ currentTerm'[c.target] >= currentTerm[c.target]
      BY <1>0, NextTypes, TermsRise DEF TypeOK, CallType
    <2>2. /\ c.ok => c.resTerm = c.term /\ currentTerm[c.target] >= c.term
          /\ c.method = "appendEntries" /\ ~c.ok => c.resTerm > c.term
      BY <1>1 DEF AnswersAreTrue
    <2>. QED BY <1>1, <2>1, <2>2 DEF Same
  <1>2. CASE IsAnswer(d)
    <2>1. PICK c \in calls, ok \in BOOLEAN, delay \in 0 .. Timeout :
            /\ HandleRequestVote(c) \/ HandleAppendEntries(c)
            /\ d = Answering(c, delay, currentTerm'[c.target], ok)
            /\ ok = IF c.method = "requestVote" THEN Grants(c) ELSE Accepts(c)
      BY <1>2 DEF IsAnswer
    <2>2. c \in CallType /\ currentTerm'[c.target] \in Nat /\ c.term \in Nat
          /\ currentTerm[c.target] \in Nat
      BY <1>0, NextTypes DEF TypeOK, CallType
    <2>3. /\ d.target = c.target /\ d.method = c.method /\ d.term = c.term
          /\ d.resTerm = currentTerm'[c.target] /\ d.ok = ok
      BY <2>1, <2>2, AnsweringFields
    <2>4. currentTerm'[c.target] = IF c.term > currentTerm[c.target] THEN c.term
                                                                     ELSE currentTerm[c.target]
      BY <2>1, HandlersTerm
    <2>5. ok => c.term >= currentTerm[c.target]
      BY <2>1 DEF Grants, Accepts
    <2>6. c.method = "appendEntries" /\ ~ok => ~(c.term >= currentTerm[c.target])
      BY <2>1 DEF Accepts
    <2>. QED BY <2>2, <2>3, <2>4, <2>5, <2>6
  <1>3. CASE IsNew(d)
    BY <1>3 DEF IsNew
  <1>. QED BY <1>1, <1>2, <1>3, OlderCalls

-----------------------------------------------------------------------------
\* votes

\* A vote that is waited for was asked for before, or the candidate just starts.
LEMMA VotesWereAsked ==
  ASSUME TypeOK, CallsFollowTerms, Next, NEW d \in calls', d.method = "requestVote", d.waits
  PROVE  StartElection(d.source) \/ \E c \in calls : SameVote(c, d)
  <1>0. NetworkTypeOK /\ calls \in SUBSET CallType
    BY DEF TypeOK, NetworkTypeOK
  <1>1. CASE \E c \in calls : Same(c, d) /\ c.waits
    BY <1>1 DEF Same, SameVote
  <1>2. CASE IsAnswer(d)
    <2>1. PICK c \in calls, ok \in BOOLEAN, delay \in 0 .. Timeout :
            d = Answering(c, delay, currentTerm'[c.target], ok)
      BY <1>2 DEF IsAnswer
    <2>2. c \in CallType /\ currentTerm'[c.target] \in Nat
      BY <1>0, NextTypes DEF TypeOK, CallType
    <2>. QED BY <2>1, <2>2, AnsweringFields DEF SameVote
  <1>3. CASE d \notin calls /\ IsNew(d)
    <2>1. ASSUME NEW p \in Node, TimeoutLoop(p) PROVE StartElection(d.source)
      <3>1. CASE Quiet(p)
        BY <1>3, <3>1 DEF Quiet, networkVars
      <3>2. CASE StartElection(p)
        <4>1. /\ SendRawRequest(p, Others(p), "requestVote", currentTerm[p] + 1, calls)
              /\ Others(p) \in SUBSET Node /\ "requestVote" \in Methods /\ currentTerm[p] + 1 \in Nat
          BY <3>2 DEF StartElection, Others, Methods, TypeOK
        <4>2. d.source = p
          BY <1>0, <1>3, <4>1, SentCalls
        <4>. QED BY <3>2, <4>2
      <3>3. CASE TriggerLeaderHeartbeat(p)
        <4>1. /\ SendRawRequest(p, NotAppending(p, calls), "appendEntries", currentTerm[p], calls)
              /\ NotAppending(p, calls) \in SUBSET Node /\ "appendEntries" \in Methods
              /\ currentTerm[p] \in Nat
          BY <3>3 DEF TriggerLeaderHeartbeat, NotAppending, Others, Methods, TypeOK
        <4>. QED BY <1>0, <1>3, <4>1, SentCalls
      <3>. QED BY <2>1, <3>1, <3>2, <3>3 DEF TimeoutLoop
    <2>2. ASSUME NEW c \in calls, CallerStep(c) PROVE SameVote(c, d)
      <3>1. PICK left : /\ left = calls \ {c} \/ left = (calls \ {c}) \cup Abandoned(c)
                        /\ Continues(c, left)
        BY <2>2, CallerContinues
      <3>2. left \in SUBSET CallType /\ d \notin left
        BY <1>0, <1>3, <3>1, Leaving
      <3>3. PICK targets \in SUBSET Others(c.source), method \in Methods :
              /\ SendRawRequest(c.source, targets, method, currentTerm[c.source], left)
              /\ method = "requestVote" => /\ targets = {c.target} /\ c.method = "requestVote"
                                           /\ currentTerm[c.source] = c.term
        BY <3>1, <3>2 DEF Continues
      <3>4. targets \in SUBSET Node /\ c.source \in Node /\ currentTerm[c.source] \in Nat
        BY <1>0 DEF Others, CallType, TypeOK
      <3>5. /\ d.source = c.source /\ d.target \in targets /\ d.method = method
            /\ d.term = currentTerm[c.source]
        BY <1>0, <3>2, <3>3, <3>4, SentCalls
      <3>6. c.waits
        BY <2>2, CallerContinues DEF Answered, Fails
      <3>. QED BY <3>3, <3>5, <3>6 DEF SameVote
    <2>3. ASSUME NEW c \in calls, HandleRequestVote(c) \/ HandleAppendEntries(c)
          PROVE  StartElection(d.source) \/ \E b \in calls : SameVote(b, d)
      <3>1. IsAnswer(d)
        BY <1>3, <2>3, HandlerTypes DEF IsAnswer
      <3>. QED BY <1>2, <3>1
    <2>4. Tick => \E b \in calls : SameVote(b, d)
      <3>1. Tick => calls' = {Ages(b) : b \in {e \in calls : Runs(e)}}
        BY DEF Tick, TimePasses, Ages
      <3>2. Tick => \E b \in calls : d = Ages(b)
        BY <3>1
      <3>. QED BY <1>0, <3>2, AgesFields DEF SameVote
    <2>5. ~SetNetworkStatus
      BY <1>3 DEF SetNetworkStatus
    <2>6. ASSUME NEW c \in calls, HandlerWaits(c) PROVE FALSE
      <3>1. PICK t \in Nat : calls' = (calls \ {c}) \cup {HeldUp(c, t)}
        BY <1>0, <2>6, Waiting DEF HandlerWaits
      <3>2. d = HeldUp(c, t) /\ c \in CallType
        BY <1>0, <1>3, <3>1
      <3>. QED BY <1>3, <3>2, HeldUpFields DEF IsNew
    <2>. QED BY <2>1, <2>2, <2>3, <2>4, <2>5, <2>6 DEF Next, CallerStep
  <1>. QED BY <1>1, <1>2, <1>3, OlderCalls DEF Same, SameVote

LEMMA Sizes ==
  ASSUME NEW S \in SUBSET Node, NEW T \in SUBSET Node, S \subseteq T
  PROVE  /\ Cardinality(S) \in Nat /\ Cardinality(T) \in Nat /\ Cardinality(S) <= Cardinality(T)
         /\ \A q \in T \ S : Cardinality(S) + 1 <= Cardinality(T)
         /\ S # {} => Cardinality(S) > 0
         /\ N \in Nat /\ N > 0
  <1>1. IsFiniteSet(S) /\ IsFiniteSet(T) /\ IsFiniteSet(Node) /\ Node # {}
    BY Constants, FS_Subset
  <1>2. Cardinality(S) \in Nat /\ Cardinality(T) \in Nat /\ N \in Nat
    BY <1>1, FS_CardinalityType DEF N
  <1>3. Cardinality(S) <= Cardinality(T)
    BY <1>1, FS_Subset
  <1>4. ASSUME NEW q \in T \ S PROVE Cardinality(S) + 1 <= Cardinality(T)
    <2>1. IsFiniteSet(S \cup {q}) /\ Cardinality(S \cup {q}) = Cardinality(S) + 1
      BY <1>1, FS_AddElement
    <2>2. S \cup {q} \subseteq T
      OBVIOUS
    <2>3. Cardinality(S \cup {q}) <= Cardinality(T)
      BY <1>1, <2>2, FS_Subset
    <2>. QED BY <2>1, <2>3
  <1>5. (S # {} => Cardinality(S) # 0) /\ N # 0
    BY <1>1, FS_EmptySet DEF N
  <1>. QED BY <1>2, <1>3, <1>4, <1>5

ReachNext(n) == {q \in Node : currentTerm'[q] >= n}

LEMMA ReachedGrows ==
  ASSUME TypeOK, TypeOK', Next, NEW n \in Nat
  PROVE  /\ Reached(n) \in SUBSET Node /\ ReachNext(n) \in SUBSET Node
         /\ Cardinality(Reached(n)) \in Nat /\ Cardinality(ReachNext(n)) \in Nat
         /\ Cardinality(Reached(n)) <= Cardinality(ReachNext(n))
  <1>1. Reached(n) \subseteq ReachNext(n) /\ ReachNext(n) \subseteq Node
    <2>1. ASSUME NEW q \in Node, currentTerm[q] >= n PROVE currentTerm'[q] >= n
      <3>1. currentTerm[q] \in Nat /\ currentTerm'[q] \in Nat /\ currentTerm'[q] >= currentTerm[q]
        BY TermsRise DEF TypeOK
      <3>. QED BY <2>1, <3>1
    <2>. QED BY <2>1 DEF Reached, ReachNext
  <1>. QED BY <1>1, Sizes

\* p wins with c, the reply that completes its majority
LEMMA WinnersHaveAMajority ==
  ASSUME TypeOK, CallsFollowTerms, AnswersAreTrue, CountsAreHonest,
         NEW c \in calls, HandleRequestVoteRespond(c), state[c.source] = "Candidate",
         c.resTerm = currentTerm[c.source], c.ok
  PROVE  /\ c.target \in Reached(currentTerm[c.source]) /\ c.term = currentTerm[c.source]
         /\ c.target \notin Granting(c.source)
         /\ voteCount[c.source] + 1 <= Cardinality(Reached(currentTerm[c.source]))
  <1>. DEFINE p == c.source
              t == currentTerm[c.source]
  <1>1. c \in CallType /\ p \in Node /\ c.target \in Node /\ t \in Nat /\ voteCount[p] \in Nat
    BY DEF TypeOK, NetworkTypeOK, CallType
  <1>2. c.method = "requestVote" /\ c.stage = "reply" /\ c.waits
    BY DEF HandleRequestVoteRespond, Answered
  <1>3. c.term = t /\ currentTerm[c.target] >= t
    BY <1>2 DEF AnswersAreTrue
  <1>4. c.target \in Reached(t) /\ c.target \notin Granting(p)
    BY <1>1, <1>2, <1>3 DEF Reached, Granting
  <1>5. Granting(p) \subseteq Reached(t) /\ Reached(t) \subseteq Node
    BY DEF Granting, Reached
  <1>6. voteCount[p] <= Cardinality(Granting(p))
    BY <1>1 DEF CountsAreHonest
  <1>7. /\ Cardinality(Granting(p)) \in Nat /\ Cardinality(Reached(t)) \in Nat
        /\ Cardinality(Granting(p)) + 1 <= Cardinality(Reached(t))
    BY <1>4, <1>5, Sizes
  <1>8. voteCount[p] + 1 <= Cardinality(Reached(t))
    <2>. HIDE DEF p, t
    <2>. QED BY <1>1, <1>6, <1>7
  <1>. QED BY <1>3, <1>4, <1>8

LEMMA LeadersStayElected ==
  ASSUME TypeOK, CallsFollowTerms, AnswersAreTrue, CountsAreHonest, Next,
         NEW p \in Node, state'[p] = "Leader"
  PROVE  2 * Cardinality(ReachNext(currentTerm'[p])) > N
  <1>. DEFINE t == currentTerm[p]
              had == Cardinality(Reached(t))
              has == Cardinality(ReachNext(t))
  <1>0. TypeOK' /\ t \in Nat /\ N \in Nat
    BY NextTypes, Sizes DEF TypeOK
  <1>1. had \in Nat /\ has \in Nat /\ had <= has
    <2>. HIDE DEF t
    <2>. QED BY <1>0, ReachedGrows
  <1>2. currentTerm'[p] = t /\ 2 * had > N
    <2>1. CASE Keeps(p)
      BY <2>1 DEF Keeps, CountsAreHonest
    <2>2. CASE Wins(p)
      <3>1. PICK c \in calls : /\ HandleRequestVoteRespond(c) /\ BecomeLeader(p, c) /\ c.source = p
                               /\ currentTerm'[p] = currentTerm[p]
        BY <2>2 DEF Wins
      <3>2. CASE c.resTerm > currentTerm[p] /\ StepDown(p, c.resTerm)
        BY <3>1, <3>2 DEF StepDown, BecomeLeader, TypeOK
      <3>3. CASE /\ c.resTerm = currentTerm[p] /\ state[p] = "Candidate" /\ c.ok
                 /\ 2 * voteCount'[p] > N
                 /\ voteCount' = [voteCount EXCEPT ![p] = @ + 1]
        <4>1. voteCount'[p] = voteCount[p] + 1 /\ voteCount[p] \in Nat
          BY <3>3 DEF TypeOK
        <4>2. voteCount[p] + 1 <= Cardinality(Reached(currentTerm[p]))
          BY <3>1, <3>3, WinnersHaveAMajority
        <4>3. voteCount[p] + 1 <= had
          BY <4>2
        <4>. HIDE DEF had
        <4>4. 2 * had > N
          BY <1>0, <1>1, <3>3, <4>1, <4>3
        <4>. QED BY <3>1, <4>4
      <3>4. CASE UNCHANGED state
        BY <3>1, <3>4 DEF BecomeLeader, TypeOK, CountsAreHonest
      <3>. QED BY <3>1, <3>2, <3>3, <3>4 DEF HandleRequestVoteRespond
    <2>3. ~Follows(p) /\ ~Starts(p)
      BY DEF Follows, Starts, StartElection, TypeOK
    <2>. QED BY <2>1, <2>2, <2>3, Roles
  <1>. HIDE DEF had, has
  <1>3. 2 * has > N
    BY <1>0, <1>1, <1>2
  <1>. QED BY <1>2, <1>3 DEF has

\* the reply c gives p one more vote
Counts(c, p) == /\ HandleRequestVoteRespond(c) /\ c.source = p
                /\ c.resTerm = currentTerm[p] /\ state[p] = "Candidate" /\ c.ok
                /\ voteCount'[p] = voteCount[p] + 1

LEMMA VotesAreCounted ==
  ASSUME TypeOK, Next, NEW p \in Node
  PROVE  voteCount'[p] = voteCount[p] \/ StartElection(p) \/ \E c \in calls : Counts(c, p)
  <1>1. ASSUME NEW q \in Node, TimeoutLoop(q) PROVE voteCount'[p] = voteCount[p] \/ StartElection(p)
    <2>1. CASE StartElection(q)
      BY <2>1 DEF StartElection, TypeOK
    <2>2. CASE ~StartElection(q)
      BY <1>1, <2>2 DEF TimeoutLoop, Quiet, TriggerLeaderHeartbeat
    <2>. QED BY <2>1, <2>2
  <1>2. ASSUME NEW c \in calls, HandleRequestVoteRespond(c)
        PROVE  voteCount'[p] = voteCount[p] \/ Counts(c, p)
    <2>1. voteCount' = [voteCount EXCEPT ![c.source] =
             IF c.resTerm = currentTerm[c.source] /\ state[c.source] = "Candidate" /\ c.ok
               THEN @ + 1 ELSE @]
      BY <1>2 DEF HandleRequestVoteRespond
    <2>. QED BY <1>2, <2>1 DEF Counts, TypeOK
  <1>3. ASSUME NEW c \in calls, \/ HandlerWaits(c) \/ HandleRequestVote(c)
                                \/ HandleAppendEntries(c) \/ RequestVoteFails(c)
                                \/ HandleAppendEntriesRes(c) \/ AppendEntriesFails(c)
        PROVE  voteCount' = voteCount
    BY <1>3 DEF HandlerWaits, HandleRequestVote, HandleAppendEntries, RequestVoteFails,
                HandleAppendEntriesRes, AppendEntriesFails, peerVars
  <1>4. Tick \/ (SetNetworkStatus /\ UNCHANGED <<peerVars, since>>) => voteCount' = voteCount
    BY DEF Tick, peerVars
  <1>. QED BY <1>1, <1>2, <1>3, <1>4 DEF Next

LEMMA CandidatesStayHonest ==
  ASSUME TypeOK, CallsFollowTerms, AnswersAreTrue, CountsAreHonest, Next,
         NEW p \in Node, state'[p] = "Candidate"
  PROVE  voteCount'[p] <= Cardinality(Granting(p)')
  <1>1. Keeps(p) \/ Starts(p)
    <2>1. ~Follows(p)
      BY DEF Follows
    <2>2. ASSUME Wins(p) PROVE FALSE
      <3>1. state' = [state EXCEPT ![p] = "Leader"]
        BY <2>2 DEF Wins, BecomeLeader
      <3>. QED BY <3>1 DEF TypeOK
    <2>. QED BY <2>1, <2>2, Roles
  <1>. DEFINE G == Granting(p)
              H == Granting(p)'
  <1>0. TypeOK' /\ CallsFollowTerms' /\ G \in SUBSET Node /\ H \in SUBSET Node
    BY NextTypes, CallsKeepToTerms DEF Granting
  <1>2. CASE Starts(p)
    <2>1. voteCount'[p] = 1
      BY <1>2 DEF Starts, StartElection, TypeOK
    <2>2. p \in H
      <3>1. currentTerm'[p] \in Nat /\ currentTerm'[p] >= currentTerm'[p]
        BY <1>0 DEF TypeOK
      <3>. QED BY <1>0, <3>1 DEF Granting, CallsFollowTerms
    <2>. HIDE DEF H
    <2>3. Cardinality(H) \in Nat /\ Cardinality(H) > 0
      BY <1>0, <2>2, Sizes
    <2>4. voteCount'[p] <= Cardinality(H)
      BY <2>1, <2>3
    <2>. QED BY <2>4 DEF H
  <1>3. CASE Keeps(p)
    <2>1. currentTerm'[p] = currentTerm[p] /\ state[p] = "Candidate" /\ currentTerm[p] \in Nat
      BY <1>3 DEF Keeps, TypeOK
    <2>2. G \subseteq H
      <3>. SUFFICES ASSUME NEW q \in G PROVE q \in H
        OBVIOUS
      <3>1. q \in Node /\ currentTerm[q] >= currentTerm[p]
        BY DEF Granting
      <3>2. currentTerm'[q] >= currentTerm'[p]
        <4>1. currentTerm[q] \in Nat /\ currentTerm'[q] \in Nat /\ currentTerm'[q] >= currentTerm[q]
          BY <1>0, <3>1, TermsRise DEF TypeOK
        <4>. QED BY <2>1, <3>1, <4>1
      <3>3. ASSUME NEW d \in calls', d.method = "requestVote", d.waits, d.source = p, d.target = q,
                   d.term = currentTerm'[p]
            PROVE  FALSE
        <4>1. ~StartElection(p)
          BY <2>1 DEF StartElection, TypeOK
        <4>2. PICK c \in calls : SameVote(c, d)
          BY <3>3, <4>1, VotesWereAsked
        <4>. QED BY <2>1, <3>3, <4>2 DEF Granting, SameVote
      <3>. QED BY <3>1, <3>2, <3>3 DEF Granting
    <2>3. Cardinality(G) \in Nat /\ Cardinality(H) \in Nat /\ Cardinality(G) <= Cardinality(H)
          /\ voteCount[p] \in Nat
      <3>. HIDE DEF G, H
      <3>. QED BY <1>0, <2>2, Sizes DEF TypeOK
    <2>4. voteCount[p] <= Cardinality(G)
      BY <2>1 DEF CountsAreHonest
    <2>5. CASE voteCount'[p] = voteCount[p]
      <3>. HIDE DEF G, H
      <3>1. voteCount'[p] <= Cardinality(H)
        BY <2>3, <2>4, <2>5
      <3>. QED BY <3>1 DEF H
    <2>6. ASSUME NEW c \in calls, Counts(c, p) PROVE voteCount'[p] <= Cardinality(Granting(p)')
      <3>1. /\ c.target \in Reached(currentTerm[p]) /\ c.term = currentTerm[p] /\ c.target \notin G
        BY <2>6, WinnersHaveAMajority DEF Counts
      <3>2. calls' = calls \ {c}
        <4>1. ~(c.resTerm > currentTerm[p])
          BY <2>1, <2>6 DEF Counts
        <4>2. ~BecomeLeader(p, c)
          BY DEF BecomeLeader, TypeOK
        <4>. QED BY <2>6, <4>1, <4>2 DEF Counts, HandleRequestVoteRespond, Ends
      <3>3. c.method = "requestVote" /\ c.waits /\ c.source = p
        BY <2>6 DEF Counts, HandleRequestVoteRespond, Answered
      <3>4. c.target \in H
        <4>1. c.target \in Node /\ currentTerm[c.target] >= currentTerm[p]
          BY <3>1 DEF Reached
        <4>2. currentTerm'[c.target] >= currentTerm'[p]
          <5>1. /\ currentTerm[c.target] \in Nat /\ currentTerm'[c.target] \in Nat
                /\ currentTerm'[c.target] >= currentTerm[c.target]
            BY <1>0, <4>1, TermsRise DEF TypeOK
          <5>. QED BY <2>1, <4>1, <5>1
        <4>3. ASSUME NEW d \in calls', d.method = "requestVote", d.waits, d.source = p,
                     d.target = c.target, d.term = currentTerm'[p]
              PROVE  FALSE
          <5>1. d \in calls /\ d # c /\ SameVote(c, d)
            BY <2>1, <3>1, <3>2, <3>3, <4>3 DEF SameVote
          <5>. QED BY <5>1, CallsFollow DEF AskedOnce
        <4>. QED BY <4>1, <4>2, <4>3 DEF Granting
      <3>. HIDE DEF G, H
      <3>5. Cardinality(G) + 1 <= Cardinality(H)
        BY <1>0, <2>2, <3>1, <3>4, Sizes
      <3>6. voteCount'[p] = voteCount[p] + 1
        BY <2>6 DEF Counts
      <3>7. voteCount'[p] <= Cardinality(H)
        BY <2>3, <2>4, <3>5, <3>6
      <3>. QED BY <3>7 DEF H
    <2>7. ~StartElection(p)
      BY <2>1 DEF StartElection, TypeOK
    <2>. QED BY <2>5, <2>6, <2>7, VotesAreCounted
  <1>. QED BY <1>1, <1>2, <1>3

LEMMA CountsStayHonest ==
  ASSUME TypeOK, CallsFollowTerms, AnswersAreTrue, CountsAreHonest, Next
  PROVE  CountsAreHonest'
  <1>1. ASSUME NEW p \in Node, state'[p] = "Leader"
        PROVE  2 * Cardinality(Reached(currentTerm[p])') > N
    BY <1>1, LeadersStayElected DEF Reached, ReachNext
  <1>. QED BY <1>1, CandidatesStayHonest DEF CountsAreHonest

-----------------------------------------------------------------------------
\* whom an overtaken leader has not heard of since

LongestLatency == LongestOf(Latency)

\* how the time since the last election goes on
LEMMA SinceGoesOn ==
  ASSUME TypeOK, Next
  PROVE  \/ since' = 0
         \/ Tick /\ since' = since + 1
         \/ /\ since' = since /\ ~Tick
            /\ \A p \in Node : \A c \in calls : ~BecomeLeader(p, c)
  <1>1. Tick => since' = 0 \/ since' = since + 1
    BY DEF Tick
  <1>2. ASSUME ~Tick PROVE since' = 0 \/ since' = since
    <2>1. ASSUME NEW p \in Node, TimeoutLoop(p) PROVE since' = since
      BY <2>1 DEF TimeoutLoop
    <2>2. ASSUME NEW c \in calls, HandleRequestVoteRespond(c) PROVE since' = since \/ since' = 0
      BY <2>2 DEF HandleRequestVoteRespond, BecomeLeader
    <2>3. ASSUME NEW c \in calls, \/ HandlerWaits(c) \/ HandleRequestVote(c)
                                  \/ HandleAppendEntries(c) \/ RequestVoteFails(c)
                                  \/ HandleAppendEntriesRes(c) \/ AppendEntriesFails(c)
          PROVE  since' = since
      BY <2>3 DEF HandlerWaits, HandleRequestVote, HandleAppendEntries, RequestVoteFails,
                  HandleAppendEntriesRes, AppendEntriesFails
    <2>. QED BY <1>2, <2>1, <2>2, <2>3 DEF Next
  <1>3. ASSUME NEW p \in Node, NEW c \in calls, BecomeLeader(p, c) PROVE since' = 0
    BY <1>3 DEF BecomeLeader
  <1>. QED BY <1>1, <1>2, <1>3

\* p gets a reply of q in its term
Hears(p, q) == \E c \in calls : /\ HandleAppendEntriesRes(c) /\ c.source = p /\ c.target = q
                                /\ ~(c.resTerm > currentTerm[p]) /\ UpdateLastHeard(p, q)

\* A leader that stays one counts the time since it heard from another, until it does.
LEMMA LastHeardGoesOn ==
  ASSUME TypeOK, Next, NEW p \in Node, NEW q \in Node, state[p] = "Leader", state'[p] = "Leader"
  PROVE  \/ Tick /\ lastHeard'[p][q] = Later(lastHeard[p][q], LeaseTime)
         \/ ~Tick /\ lastHeard'[p][q] = lastHeard[p][q]
         \/ ~Tick /\ lastHeard'[p][q] = 0 /\ Hears(p, q)
  <1>0. calls \subseteq CallType /\ Node = DOMAIN state
    BY DEF TypeOK, NetworkTypeOK
  <1>1. CASE Tick
    BY <1>1 DEF Tick
  <1>2. ASSUME NEW r \in Node, NEW term \in Nat, StepDown(r, term)
        PROVE  lastHeard'[p][q] = lastHeard[p][q]
    <2>1. r # p
      BY <1>2 DEF StepDown, TypeOK
    <2>. QED BY <1>2, <2>1 DEF StepDown, TypeOK
  <1>3. SetNetworkStatus /\ UNCHANGED <<peerVars, since>> => lastHeard' = lastHeard
    BY DEF peerVars
  <1>4. ASSUME NEW r \in Node, TimeoutLoop(r) PROVE lastHeard' = lastHeard
    BY <1>4 DEF TimeoutLoop, Quiet, StartElection, TriggerLeaderHeartbeat
  <1>5. ASSUME NEW c \in calls, HandleRequestVote(c) PROVE lastHeard'[p][q] = lastHeard[p][q]
    <2>1. c.target \in Node /\ c.term \in Nat
      BY <1>0 DEF CallType
    <2>2. StepDown(c.target, c.term) \/ lastHeard' = lastHeard
      BY <1>5 DEF HandleRequestVote
    <2>. QED BY <1>2, <2>1, <2>2
  <1>6. ASSUME NEW c \in calls, HandleAppendEntries(c) PROVE lastHeard'[p][q] = lastHeard[p][q]
    <2>1. c.target \in Node /\ c.term \in Nat
      BY <1>0 DEF CallType
    <2>2. StepDown(c.target, c.term) \/ lastHeard' = lastHeard
      BY <1>6 DEF HandleAppendEntries
    <2>. QED BY <1>2, <2>1, <2>2
  <1>7. ASSUME NEW c \in calls, HandleRequestVoteRespond(c)
        PROVE  lastHeard'[p][q] = lastHeard[p][q]
    <2>1. c.source \in Node /\ c.resTerm \in Nat
      BY <1>0 DEF CallType
    <2>2. \/ StepDown(c.source, c.resTerm) \/ lastHeard' = lastHeard
          \/ state[c.source] = "Candidate" /\ BecomeLeader(c.source, c)
      BY <1>7 DEF HandleRequestVoteRespond
    <2>3. ASSUME state[c.source] = "Candidate", BecomeLeader(c.source, c)
          PROVE  lastHeard'[p][q] = lastHeard[p][q]
      <3>1. c.source # p
        BY <2>3
      <3>. QED BY <2>3, <3>1 DEF BecomeLeader, TypeOK
    <2>. QED BY <1>2, <2>1, <2>2, <2>3
  <1>8. ASSUME NEW c \in calls, HandlerWaits(c) \/ RequestVoteFails(c) \/ AppendEntriesFails(c)
        PROVE  lastHeard' = lastHeard
    BY <1>8 DEF HandlerWaits, RequestVoteFails, AppendEntriesFails, HeardAfterFailure, peerVars
  <1>9. ASSUME NEW c \in calls, HandleAppendEntriesRes(c)
        PROVE  lastHeard'[p][q] = lastHeard[p][q] \/ (lastHeard'[p][q] = 0 /\ Hears(p, q))
    <2>1. c.source \in Node /\ c.target \in Node /\ c.resTerm \in Nat
      BY <1>0 DEF CallType
    <2>2. \/ StepDown(c.source, c.resTerm) \/ lastHeard' = lastHeard
          \/ ~(c.resTerm > currentTerm[c.source]) /\ UpdateLastHeard(c.source, c.target)
      BY <1>9 DEF HandleAppendEntriesRes
    <2>3. ASSUME ~(c.resTerm > currentTerm[c.source]), UpdateLastHeard(c.source, c.target)
          PROVE  lastHeard'[p][q] = lastHeard[p][q] \/ (lastHeard'[p][q] = 0 /\ Hears(p, q))
      <3>1. CASE c.source = p /\ c.target = q
        <4>1. lastHeard'[p][q] = 0
          BY <2>1, <2>3, <3>1 DEF UpdateLastHeard, TypeOK
        <4>. QED BY <1>9, <2>3, <3>1, <4>1 DEF Hears
      <3>2. CASE c.source # p \/ c.target # q
        BY <2>1, <2>3, <3>2 DEF UpdateLastHeard, TypeOK
      <3>. QED BY <3>1, <3>2
    <2>. QED BY <1>2, <2>1, <2>2, <2>3
  <1>. QED BY <1>1, <1>3, <1>4, <1>5, <1>6, <1>7, <1>8, <1>9 DEF Next

LEMMA DeafStays ==
  ASSUME TypeOK, CallsFollowTerms, CallsKeepTime, Next,
         NEW p \in Node, NEW q \in Node, state[p] = "Leader", Keeps(p), since' # 0, Deaf(p, q)
  PROVE  Deaf(p, q)'
  <1>0. /\ TypeOK' /\ calls \subseteq CallType /\ state'[p] = "Leader"
        /\ currentTerm'[p] = currentTerm[p] /\ LongestLatency \in Nat /\ LeaseTime \in Nat
        /\ lastHeard[p][q] \in Nat /\ lastHeard'[p][q] \in Nat /\ since \in Nat /\ since' \in Nat
        /\ currentTerm[p] \in Nat /\ currentTerm[q] \in Nat /\ currentTerm'[q] \in Nat
    BY NextTypes, Timers, Constants DEF TypeOK, NetworkTypeOK, Keeps, LongestLatency
  <1>1. currentTerm'[q] > currentTerm'[p]
    <2>1. currentTerm[q] > currentTerm[p] /\ currentTerm'[q] >= currentTerm[q]
      BY TermsRise DEF Deaf
    <2>. QED BY <1>0, <2>1
  <1>2. /\ lastHeard[p][q] < LeaseTime => since <= lastHeard[p][q] + LongestLatency
        /\ \A c \in calls :
             /\ c.source = p /\ c.target = q /\ c.method = "appendEntries"
             /\ c.stage = "reply" /\ c.resTerm <= currentTerm[p]
             => c.delay + since <= LongestLatency
    BY DEF Deaf, LongestLatency
  <1>3. (Tick /\ since' = since + 1) \/ (~Tick /\ since' = since)
    BY SinceGoesOn
  <1>4. ASSUME lastHeard'[p][q] < LeaseTime PROVE since' <= lastHeard'[p][q] + LongestLatency
    <2>1. CASE Tick /\ lastHeard'[p][q] = Later(lastHeard[p][q], LeaseTime)
      <3>1. lastHeard[p][q] < LeaseTime /\ lastHeard'[p][q] = lastHeard[p][q] + 1
        BY <1>0, <1>4, <2>1 DEF Later
      <3>2. since <= lastHeard[p][q] + LongestLatency /\ since' = since + 1
        BY <1>2, <1>3, <2>1, <3>1
      <3>. QED BY <1>0, <3>1, <3>2
    <2>2. CASE ~Tick /\ lastHeard'[p][q] = lastHeard[p][q]
      BY <1>2, <1>3, <1>4, <2>2
    <2>3. CASE ~Tick /\ lastHeard'[p][q] = 0 /\ Hears(p, q)
      <3>1. PICK c \in calls : /\ HandleAppendEntriesRes(c) /\ c.source = p /\ c.target = q
                               /\ ~(c.resTerm > currentTerm[p])
        BY <2>3 DEF Hears
      <3>2. c.method = "appendEntries" /\ c.stage = "reply" /\ c.delay = 0
        BY <3>1 DEF HandleAppendEntriesRes, Answered
      <3>3. c.resTerm <= currentTerm[p]
        BY <1>0, <3>1 DEF CallType
      <3>4. 0 + since <= LongestLatency
        BY <1>2, <3>1, <3>2, <3>3
      <3>. QED BY <1>0, <1>3, <2>3, <3>4
    <2>. QED BY <1>0, <2>1, <2>2, <2>3, LastHeardGoesOn
  <1>5. ASSUME NEW d \in calls', d.source = p, d.target = q, d.method = "appendEntries",
               d.stage = "reply", d.resTerm <= currentTerm'[p]
        PROVE  d.delay + since' <= LongestLatency
    <2>1. CASE Tick
      <3>1. PICK c \in calls : d = Ages(c) /\ ~Due(c) /\ Runs(c)
        BY <2>1 DEF Tick, TimePasses, Ages
      <3>2. /\ c.source = p /\ c.target = q /\ c.method = "appendEntries" /\ c.stage = "reply"
            /\ c.resTerm <= currentTerm[p] /\ c.delay \in Nat /\ d.delay = Earlier(c.delay)
        BY <1>0, <1>5, <3>1, AgesFields DEF CallType
      <3>3. c.delay # 0
        BY <3>1, <3>2 DEF Due, Runs
      <3>4. c.delay + since <= LongestLatency /\ since' = since + 1 /\ d.delay = c.delay - 1
        BY <1>2, <1>3, <2>1, <3>2, <3>3 DEF Earlier
      <3>. QED BY <1>0, <3>2, <3>3, <3>4
    <2>2. CASE ~Tick /\ d \in calls
      BY <1>0, <1>2, <1>3, <1>5, <2>2
    <2>3. ~IsNew(d) /\ (Tick \/ ~IsAged(d)) /\ ~IsHeldUp(d)
      <3>1. \A c \in calls : \A t \in MutexWaits : HeldUp(c, t).stage # "reply"
        BY <1>0, Constants, HeldUpFields
      <3>. QED BY <1>5, <3>1 DEF IsNew, IsAged, IsHeldUp
    <2>4. CASE ~Tick /\ IsLeft(d)
      <3>1. PICK c \in calls : d = [c EXCEPT !.waits = FALSE]
        BY <2>4, Leaving DEF IsLeft, TypeOK
      <3>2. /\ c.source = p /\ c.target = q /\ c.method = "appendEntries" /\ c.stage = "reply"
            /\ c.resTerm <= currentTerm[p] /\ d.delay = c.delay
        BY <1>0, <1>5, <3>1 DEF CallType
      <3>. QED BY <1>2, <1>3, <2>4, <3>2
    <2>5. ASSUME IsAnswer(d) PROVE FALSE
      <3>1. PICK c \in calls, ok \in BOOLEAN, delay \in 0 .. Timeout :
              d = Answering(c, delay, currentTerm'[c.target], ok)
        BY <2>5 DEF IsAnswer
      <3>2. c \in CallType /\ currentTerm'[c.target] \in Nat
        BY <1>0 DEF TypeOK, CallType
      <3>3. d.target = c.target /\ d.resTerm = currentTerm'[c.target]
        BY <1>5, <3>1, <3>2, AnsweringFields
      <3>4. currentTerm'[q] <= currentTerm'[p]
        BY <1>5, <3>3
      <3>. QED BY <1>0, <1>1, <3>4
    <2>. QED BY <2>1, <2>2, <2>3, <2>4, <2>5, WhereCallsComeFrom
  <1>. QED BY <1>1, <1>4, <1>5 DEF Deaf, LongestLatency

LEMMA OvertakenStayDeaf ==
  ASSUME TypeOK, CallsFollowTerms, CallsKeepTime, AnswersAreTrue, CountsAreHonest,
         OvertakenAreDeaf, Next
  PROVE  OvertakenAreDeaf'
  <1>. SUFFICES ASSUME NEW p \in Node, NEW w \in Node, state'[p] = "Leader",
                       state'[w] = "Leader", currentTerm'[w] > currentTerm'[p]
                PROVE  2 * Cardinality({q \in Node : Deaf(p, q)'}) > N
    BY DEF OvertakenAreDeaf
  <1>. DEFINE deafNow == {q \in Node : Deaf(p, q)'}
  <1>0. /\ TypeOK' /\ CallsKeepTime' /\ CountsAreHonest' /\ LongestLatency \in Nat
        /\ \A t \in Latency : t \in Nat /\ t <= LongestLatency
    BY NextTypes, CallsStayInTime, CountsStayHonest, Timers, Constants DEF LongestLatency
  <1>1. \A S \in SUBSET deafNow : 2 * Cardinality(S) > N => 2 * Cardinality(deafNow) > N
    <2>. SUFFICES ASSUME NEW S \in SUBSET deafNow, 2 * Cardinality(S) > N
                  PROVE  2 * Cardinality(deafNow) > N
      OBVIOUS
    <2>1. deafNow \in SUBSET Node /\ S \in SUBSET Node
      OBVIOUS
    <2>. HIDE DEF deafNow
    <2>2. Cardinality(S) \in Nat /\ Cardinality(deafNow) \in Nat /\ N \in Nat
          /\ Cardinality(S) <= Cardinality(deafNow)
      BY <2>1, Sizes
    <2>. QED BY <2>2
  <1>2. CASE since' = 0
    <2>1. ASSUME NEW q \in Node, currentTerm'[q] >= currentTerm'[w] PROVE Deaf(p, q)'
      <3>1. currentTerm'[q] > currentTerm'[p]
        <4>1. /\ currentTerm'[q] \in Nat /\ currentTerm'[w] \in Nat /\ currentTerm'[p] \in Nat
          BY <1>0 DEF TypeOK
        <4>. QED BY <2>1, <4>1
      <3>2. lastHeard'[p][q] \in Nat
        BY <1>0, Constants DEF TypeOK
      <3>3. since' <= lastHeard'[p][q] + LongestLatency
        BY <1>0, <1>2, <3>2
      <3>4. ASSUME NEW d \in calls', d.stage = "reply" PROVE d.delay + since' <= LongestLatency
        <4>1. d.delay \in Nat /\ \E t \in Latency : d.delay <= t
          BY <1>0, <3>4 DEF TypeOK, NetworkTypeOK, CallType, CallsKeepTime
        <4>. QED BY <1>0, <1>2, <4>1
      <3>. QED BY <3>1, <3>3, <3>4 DEF Deaf, LongestLatency
    <2>2. Reached(currentTerm[w])' \in SUBSET deafNow
      BY <2>1 DEF Reached
    <2>3. 2 * Cardinality(Reached(currentTerm[w])') > N
      BY <1>0 DEF CountsAreHonest
    <2>. HIDE DEF deafNow
    <2>4. 2 * Cardinality(deafNow) > N
      BY <1>1, <2>2, <2>3
    <2>. QED BY <2>4 DEF deafNow
  <1>3. CASE since' # 0
    <2>1. ASSUME NEW r \in Node, state'[r] = "Leader" PROVE Keeps(r)
      <3>1. ~Follows(r) /\ ~Starts(r)
        BY <2>1 DEF Follows, Starts, StartElection, TypeOK
      <3>2. ~Wins(r)
        BY <1>3 DEF Wins, BecomeLeader
      <3>. QED BY <3>1, <3>2, Roles
    <2>2. /\ Keeps(p) /\ state[p] = "Leader" /\ state[w] = "Leader"
          /\ currentTerm[w] > currentTerm[p]
      BY <2>1 DEF Keeps
    <2>3. {q \in Node : Deaf(p, q)} \in SUBSET deafNow
      BY <1>3, <2>2, DeafStays
    <2>4. 2 * Cardinality({q \in Node : Deaf(p, q)}) > N
      BY <2>2 DEF OvertakenAreDeaf
    <2>. HIDE DEF deafNow
    <2>5. 2 * Cardinality(deafNow) > N
      BY <1>1, <2>3, <2>4
    <2>. QED BY <2>5 DEF deafNow
  <1>. QED BY <1>2, <1>3

-----------------------------------------------------------------------------
\* whom the first leader counts

LEMMA WinnersWereCandidates ==
  ASSUME TypeOK, NEW q \in Node, Wins(q)
  PROVE  state[q] = "Candidate" \/ Keeps(q)
  <1>1. PICK c \in calls : /\ HandleRequestVoteRespond(c) /\ BecomeLeader(q, c) /\ c.source = q
                           /\ currentTerm'[q] = currentTerm[q]
    BY DEF Wins
  <1>2. state' = [state EXCEPT ![q] = "Leader"]
    BY <1>1 DEF BecomeLeader
  <1>3. CASE StepDown(q, c.resTerm)
    BY <1>2, <1>3 DEF StepDown, TypeOK
  <1>4. CASE UNCHANGED state
    BY <1>1, <1>4 DEF Keeps
  <1>. QED BY <1>1, <1>3, <1>4 DEF HandleRequestVoteRespond

\* A follower goes on as one, with what it heard and how long it has waited, or its
\* round ends and it campaigns.
LEMMA FollowersGoOn ==
  ASSUME TypeOK, Next, NEW q \in Node, state[q] = "Follower", ~Starts(q)
  PROVE  /\ state'[q] = "Follower"
         /\ \/ heardFromLeader'[q]
            \/ round'[q] = 0
            \/ heardFromLeader'[q] = heardFromLeader[q] /\ round'[q] = round[q]
            \/ /\ Tick /\ heardFromLeader'[q] = heardFromLeader[q]
               /\ round'[q] = Later(round[q], Longest)
  <1>0. \A c \in calls : c.source \in Node /\ c.target \in Node
    BY DEF TypeOK, NetworkTypeOK, CallType
  <1>. DEFINE Stays == heardFromLeader'[q] = heardFromLeader[q] /\ round'[q] = round[q]
              Goes == \/ heardFromLeader'[q] \/ round'[q] = 0 \/ Stays
                      \/ /\ Tick /\ heardFromLeader'[q] = heardFromLeader[q]
                         /\ round'[q] = Later(round[q], Longest)
  <1>1. state'[q] = "Follower"
    BY Roles, WinnersWereCandidates DEF Keeps, Follows
  <1>2. CASE Tick
    BY <1>2 DEF Tick, TypeOK
  <1>3. CASE SetNetworkStatus /\ UNCHANGED <<peerVars, since>>
    BY <1>3 DEF peerVars
  <1>4. ASSUME NEW p \in Node, TimeoutLoop(p) PROVE Goes
    <2>1. CASE Quiet(p)
      BY <2>1 DEF Quiet, TypeOK
    <2>2. CASE StartElection(p)
      <3>1. p # q
        BY <1>4, <2>2 DEF TimeoutLoop, Starts
      <3>. QED BY <2>2, <3>1 DEF StartElection, TypeOK
    <2>3. CASE TriggerLeaderHeartbeat(p)
      BY <2>3 DEF TriggerLeaderHeartbeat, TypeOK
    <2>. QED BY <1>4, <2>1, <2>2, <2>3 DEF TimeoutLoop
  <1>5. ASSUME NEW c \in calls, HandleRequestVote(c) PROVE Goes
    <2>1. PICK granted \in BOOLEAN : \E later \in BOOLEAN :
            /\ heardFromLeader' = [heardFromLeader EXCEPT ![c.target] =
                 @ /\ (later => state[c.target] = "Follower")]
            /\ round' = [round EXCEPT ![c.target] =
                 IF granted \/ (later /\ state[c.target] # "Follower") THEN 0 ELSE @]
      BY <1>5 DEF HandleRequestVote
    <2>. QED BY <1>0, <2>1 DEF TypeOK
  <1>6. ASSUME NEW c \in calls, HandleAppendEntries(c) PROVE Goes
    <2>1. PICK accepted \in BOOLEAN :
            /\ heardFromLeader' = [heardFromLeader EXCEPT ![c.target] =
                 IF accepted THEN state[c.target] = "Follower" ELSE @]
            /\ round' = [round EXCEPT ![c.target] =
                 IF accepted /\ state[c.target] # "Follower" THEN 0 ELSE @]
      BY <1>6 DEF HandleAppendEntries
    <2>. QED BY <1>0, <2>1 DEF TypeOK
  <1>7. ASSUME NEW c \in calls, HandleRequestVoteRespond(c) PROVE Goes
    <2>1. CASE /\ heardFromLeader' = [heardFromLeader EXCEPT
                                        ![c.source] = @ /\ state[c.source] = "Follower"]
               /\ round' = [round EXCEPT
                              ![c.source] = IF state[c.source] # "Follower" THEN 0 ELSE @]
      BY <1>0, <2>1 DEF TypeOK
    <2>2. CASE BecomeLeader(c.source, c)
      BY <1>0, <2>2 DEF BecomeLeader, TypeOK
    <2>3. CASE UNCHANGED <<heardFromLeader, round>>
      BY <2>3
    <2>. QED BY <1>7, <2>1, <2>2, <2>3 DEF HandleRequestVoteRespond
  <1>8. ASSUME NEW c \in calls, HandlerWaits(c) \/ RequestVoteFails(c) \/ AppendEntriesFails(c)
        PROVE  Goes
    BY <1>8 DEF HandlerWaits, RequestVoteFails, AppendEntriesFails, peerVars
  <1>9. ASSUME NEW c \in calls, HandleAppendEntriesRes(c) PROVE Goes
    <2>1. heardFromLeader' = heardFromLeader
      BY <1>9 DEF HandleAppendEntriesRes
    <2>2. round' = round \/ round' = [round EXCEPT ![c.source] = 0]
      BY <1>9 DEF HandleAppendEntriesRes
    <2>. QED BY <1>0, <2>1, <2>2 DEF TypeOK
  <1>. QED BY <1>1, <1>2, <1>3, <1>4, <1>5, <1>6, <1>7, <1>8, <1>9 DEF Next

\* No round of a follower is shorter than the lease and the time of a call together.
LeaseFits == \A t \in ElectionTimeout : LeaseTime + Timeout <= t

LEMMA FreshStays ==
  ASSUME TypeOK, TypeOK', Next, NEW q \in Node, NEW n \in Nat, Fresh(q, n),
         \A t \in ElectionTimeout : n < t
  PROVE  /\ state'[q] = "Follower"
         /\ ~Tick => heardFromLeader'[q] \/ round'[q] <= n
         /\ heardFromLeader'[q] \/ round'[q] <= n + 1
  <1>0. round[q] \in Nat /\ round'[q] \in Nat /\ Longest \in Nat /\ ElectionTimeout \subseteq Nat
    BY Timers, Constants DEF TypeOK
  <1>1. state[q] = "Follower" /\ (heardFromLeader[q] \/ round[q] <= n)
    BY DEF Fresh
  <1>2. ~Starts(q)
    <2>1. SUFFICES ASSUME ~heardFromLeader[q], round[q] \in ElectionTimeout PROVE FALSE
      BY <1>1 DEF Starts, RoundMayEnd, StartElection, Campaigns
    <2>2. round[q] <= n /\ n < round[q]
      BY <1>1, <2>1
    <2>. QED BY <1>0, <2>2
  <1>3. round[q] <= n => Later(round[q], Longest) <= n + 1
    BY <1>0 DEF Later
  <1>. QED BY <1>0, <1>1, <1>2, <1>3, FollowersGoOn

LEMMA FirstTermGoesOn ==
  ASSUME TypeOK, Next, FollowersAreFresh
  PROVE  /\ currentTerm'[FirstLeader] = 1 => state'[FirstLeader] # "Candidate"
         /\ InFirstTerm' => InFirstTerm
  <1>. SUFFICES ASSUME currentTerm'[FirstLeader] = 1
                PROVE  /\ state'[FirstLeader] # "Candidate"
                       /\ state'[FirstLeader] = "Leader" => InFirstTerm
    BY DEF InFirstTerm
  <1>1. FirstLeader \in Node /\ currentTerm[FirstLeader] \in Nat \ {0}
    BY Constants DEF TypeOK
  <1>2. currentTerm[FirstLeader] = 1 /\ state[FirstLeader] # "Candidate"
    <2>1. 1 >= currentTerm[FirstLeader]
      BY <1>1, TermsRise
    <2>. QED BY <1>1, <2>1 DEF FollowersAreFresh
  <1>3. ~Starts(FirstLeader)
    BY <1>1, <1>2 DEF Starts, StartElection, TypeOK
  <1>4. Keeps(FirstLeader) \/ Follows(FirstLeader)
    BY <1>1, <1>2, <1>3, Roles, WinnersWereCandidates
  <1>. QED BY <1>2, <1>4 DEF Keeps, Follows, InFirstTerm

LEMMA FollowersStayFresh ==
  ASSUME LeaseFits, TypeOK, CallsFollowTerms, CallsKeepTime, AnswersAreTrue,
         FollowersAreFresh, Next
  PROVE  FollowersAreFresh'
  <1>. DEFINE p == FirstLeader
  <1>. SUFFICES ASSUME InFirstTerm', NEW q \in Others(p)
                PROVE  /\ lastHeard'[p][q] < LeaseTime => Fresh(q, lastHeard[p][q] + Timeout)'
                       /\ \A d \in calls' :
                            /\ d.source = p /\ d.target = q /\ d.method = "appendEntries"
                            /\ d.stage = "reply" /\ d.ok /\ d.waits
                            => Fresh(q, Timeout - d.left)'
    BY FirstTermGoesOn DEF FollowersAreFresh
  <1>0. /\ p \in Node /\ q \in Node /\ TypeOK' /\ InFirstTerm /\ calls \subseteq CallType
        /\ state[p] = "Leader" /\ state'[p] = "Leader" /\ currentTerm[p] = 1
    BY Constants, NextTypes, FirstTermGoesOn DEF Others, TypeOK, NetworkTypeOK, InFirstTerm
  <1>1. /\ lastHeard[p][q] \in Nat /\ lastHeard'[p][q] \in Nat /\ LeaseTime \in Nat \ {0}
        /\ Timeout \in Nat \ {0} /\ round'[q] \in Nat /\ ElectionTimeout \subseteq Nat
    BY <1>0, Constants DEF TypeOK
  \* how fresh whoever answered is, and will be
  <1>2. ASSUME NEW c \in calls, c.source = p, c.target = q, c.method = "appendEntries",
               c.stage = "reply", c.ok, c.waits
        PROVE  /\ c.left \in 0 .. Timeout /\ Timeout - c.left \in Nat
               /\ state'[q] = "Follower"
               /\ ~Tick => heardFromLeader'[q] \/ round'[q] <= Timeout - c.left
               /\ heardFromLeader'[q] \/ round'[q] <= (Timeout - c.left) + 1
    <2>1. c.left \in Int /\ c.left >= 0 /\ c.left <= Timeout
      BY <1>0, <1>2 DEF CallType, CallsKeepTime
    <2>2. c.left \in 0 .. Timeout /\ Timeout - c.left \in Nat
      BY <1>1, <2>1
    <2>3. \A t \in ElectionTimeout : Timeout - c.left < t
      <3>1. \A t \in ElectionTimeout : LeaseTime + Timeout <= t
        BY DEF LeaseFits
      <3>. QED BY <1>1, <2>2, <3>1
    <2>4. Fresh(q, Timeout - c.left)
      BY <1>0, <1>2 DEF FollowersAreFresh
    <2>. QED BY <1>0, <2>1, <2>2, <2>3, <2>4, FreshStays
  <1>3. ASSUME lastHeard'[p][q] < LeaseTime PROVE Fresh(q, lastHeard[p][q] + Timeout)'
    <2>1. ASSUME lastHeard[p][q] < LeaseTime
          PROVE  /\ state'[q] = "Follower"
                 /\ ~Tick => heardFromLeader'[q] \/ round'[q] <= lastHeard[p][q] + Timeout
                 /\ heardFromLeader'[q] \/ round'[q] <= (lastHeard[p][q] + Timeout) + 1
      <3>1. \A t \in ElectionTimeout : lastHeard[p][q] + Timeout < t
        <4>1. \A t \in ElectionTimeout : LeaseTime + Timeout <= t
          BY DEF LeaseFits
        <4>. QED BY <1>1, <2>1, <4>1
      <3>2. Fresh(q, lastHeard[p][q] + Timeout) /\ lastHeard[p][q] + Timeout \in Nat
        BY <1>0, <1>1, <2>1 DEF FollowersAreFresh
      <3>. QED BY <1>0, <3>1, <3>2, FreshStays
    <2>2. CASE Tick /\ lastHeard'[p][q] = Later(lastHeard[p][q], LeaseTime)
      <3>1. lastHeard[p][q] < LeaseTime /\ lastHeard'[p][q] = lastHeard[p][q] + 1
        BY <1>1, <1>3, <2>2 DEF Later
      <3>2. (lastHeard[p][q] + Timeout) + 1 = lastHeard'[p][q] + Timeout
        BY <1>1, <3>1
      <3>. QED BY <2>1, <3>1, <3>2 DEF Fresh
    <2>3. CASE ~Tick /\ lastHeard'[p][q] = lastHeard[p][q]
      BY <1>3, <2>1, <2>3 DEF Fresh
    <2>4. CASE ~Tick /\ lastHeard'[p][q] = 0 /\ Hears(p, q)
      <3>1. PICK c \in calls : /\ HandleAppendEntriesRes(c) /\ c.source = p /\ c.target = q
                               /\ ~(c.resTerm > currentTerm[p])
        BY <2>4 DEF Hears
      <3>2. c.method = "appendEntries" /\ c.stage = "reply" /\ c.waits
        BY <3>1 DEF HandleAppendEntriesRes, Answered
      <3>3. c.ok
        <4>1. c.term > 0 /\ c.term \in Nat /\ c.resTerm \in Nat
          BY <1>0 DEF CallsFollowTerms, CallType
        <4>2. ~c.ok => c.resTerm > c.term
          BY <3>2 DEF AnswersAreTrue
        <4>3. c.ok \in BOOLEAN
          BY <1>0 DEF CallType
        <4>. QED BY <1>0, <3>1, <4>1, <4>2, <4>3
      <3>4. /\ c.left \in 0 .. Timeout /\ state'[q] = "Follower"
            /\ heardFromLeader'[q] \/ round'[q] <= Timeout - c.left
        BY <1>2, <2>4, <3>1, <3>2, <3>3
      <3>5. heardFromLeader'[q] \/ round'[q] <= lastHeard'[p][q] + Timeout
        BY <1>1, <2>4, <3>4
      <3>. QED BY <3>4, <3>5 DEF Fresh
    <2>. QED BY <1>0, <2>2, <2>3, <2>4, LastHeardGoesOn
  <1>4. ASSUME NEW d \in calls', d.source = p, d.target = q, d.method = "appendEntries",
               d.stage = "reply", d.ok, d.waits
        PROVE  Fresh(q, Timeout - d.left)'
    <2>1. CASE Tick
      <3>1. PICK c \in calls : d = Ages(c)
        BY <2>1 DEF Tick, TimePasses, Ages
      <3>2. /\ c.source = p /\ c.target = q /\ c.method = "appendEntries" /\ c.stage = "reply"
            /\ c.ok /\ c.waits /\ d.left = c.left - 1
        BY <1>0, <1>4, <3>1, AgesFields
      <3>3. /\ c.left \in 0 .. Timeout /\ state'[q] = "Follower"
            /\ heardFromLeader'[q] \/ round'[q] <= (Timeout - c.left) + 1
        BY <1>2, <3>2
      <3>4. (Timeout - c.left) + 1 = Timeout - d.left
        BY <1>1, <3>2, <3>3
      <3>. QED BY <3>3, <3>4 DEF Fresh
    <2>2. CASE ~Tick /\ d \in calls
      BY <1>2, <1>4, <2>2 DEF Fresh
    <2>3. ~IsNew(d) /\ (Tick \/ ~IsAged(d)) /\ ~IsHeldUp(d)
      <3>1. \A c \in calls : \A t \in MutexWaits : HeldUp(c, t).stage # "reply"
        BY <1>0, Constants, HeldUpFields
      <3>. QED BY <1>4, <3>1 DEF IsNew, IsAged, IsHeldUp
    <2>4. ~IsLeft(d)
      BY <1>4, Leaving DEF IsLeft, TypeOK
    <2>5. CASE IsAnswer(d)
      <3>1. PICK c \in calls, ok \in BOOLEAN, delay \in 0 .. Timeout :
              /\ HandleRequestVote(c) \/ HandleAppendEntries(c)
              /\ d = Answering(c, delay, currentTerm'[c.target], ok)
              /\ ok = IF c.method = "requestVote" THEN Grants(c) ELSE Accepts(c)
        BY <2>5 DEF IsAnswer
      <3>2. c \in CallType /\ currentTerm'[c.target] \in Nat
        BY <1>0 DEF TypeOK, CallType
      <3>3. d.target = c.target /\ d.method = c.method /\ d.left = c.left /\ d.ok = ok
        <4>1. d.stage = "reply"
          BY <1>4
        <4>. QED BY <3>1, <3>2, <4>1, AnsweringFields
      <3>4. /\ HandleAppendEntries(c) /\ Accepts(c) /\ c.target = q
            /\ d.left \in Int /\ d.left <= Timeout
        BY <1>4, <3>1, <3>2, <3>3 DEF HandleRequestVote, CallType, CallsKeepTime
      <3>5. /\ StepDown(q, c.term)
            /\ heardFromLeader' = [heardFromLeader EXCEPT ![q] = state[q] = "Follower"]
            /\ round' = [round EXCEPT ![q] = IF state[q] # "Follower" THEN 0 ELSE @]
        BY <3>4 DEF HandleAppendEntries, Accepts
      <3>6. state'[q] = "Follower"
        BY <1>0, <3>5 DEF StepDown, TypeOK
      <3>7. heardFromLeader'[q] \/ round'[q] = 0
        BY <1>0, <3>5 DEF TypeOK
      <3>8. 0 <= Timeout - d.left
        BY <1>1, <3>4
      <3>. QED BY <3>6, <3>7, <3>8 DEF Fresh
    <2>. QED BY <2>1, <2>2, <2>3, <2>4, <2>5, WhereCallsComeFrom
  <1>. QED BY <1>3, <1>4

-----------------------------------------------------------------------------

\* An overtaken leader does not count those that are deaf to it, once a lease and the
\* way of one reply have passed.
LEMMA OvertakenAreNotValid == TypeOK /\ OvertakenAreDeaf => StaleReadsAreBounded
  <1>. SUFFICES ASSUME TypeOK, OvertakenAreDeaf, NEW p \in Node, NEW w \in Node,
                       state[w] = "Leader", currentTerm[w] > currentTerm[p],
                       since >= LeaseTime + LongestLatency, IsValidLeader(p)
                PROVE  FALSE
    BY DEF StaleReadsAreBounded, LongestLatency
  <1>. DEFINE deaf == {q \in Node : Deaf(p, q)}
              counted == {q \in Others(p) : lastHeard[p][q] < LeaseTime}
  <1>1. 2 * Cardinality(deaf) > N /\ 2 * (1 + Cardinality(counted)) > N
    BY DEF OvertakenAreDeaf, IsValidLeader
  <1>2. p \notin counted /\ counted \cup {p} \in SUBSET Node /\ deaf \in SUBSET Node
    BY DEF Others
  <1>3. (counted \cup {p}) \cap deaf = {}
    <2>1. ASSUME NEW q \in counted, q \in deaf PROVE FALSE
      <3>1. q \in Node /\ lastHeard[p][q] < LeaseTime /\ since <= lastHeard[p][q] + LongestLatency
        BY <2>1 DEF Deaf, Others, LongestLatency
      <3>2. /\ lastHeard[p][q] \in Nat /\ LeaseTime \in Nat /\ since \in Nat
            /\ LongestLatency \in Nat
        BY <3>1, Timers, Constants DEF TypeOK, LongestLatency
      <3>. QED BY <3>1, <3>2
    <2>2. p \notin deaf
      <3>1. currentTerm[p] \in Nat
        BY DEF TypeOK
      <3>. QED BY <3>1 DEF Deaf
    <2>. QED BY <2>1, <2>2
  <1>4. /\ IsFiniteSet(counted) /\ IsFiniteSet(Node)
        /\ Cardinality(counted) \in Nat /\ Cardinality(deaf) \in Nat /\ N \in Nat
    <2>. HIDE DEF deaf, counted
    <2>1. counted \in SUBSET Node
      BY <1>2
    <2>. QED BY <1>2, <2>1, Constants, FS_Subset, FS_CardinalityType DEF N
  <1>. HIDE DEF deaf, counted
  <1>5. Cardinality(counted \cup {p}) = Cardinality(counted) + 1
    BY <1>2, <1>4, FS_AddElement
  <1>6. Cardinality(counted \cup {p}) + Cardinality(deaf) > Cardinality(Node)
    <2>1. Cardinality(Node) = N
      BY DEF N
    <2>. QED BY <1>1, <1>4, <1>5, <2>1
  <1>7. (counted \cup {p}) \cap deaf # {}
    BY <1>2, <1>4, <1>6, FS_MajoritiesIntersect
  <1>. QED BY <1>3, <1>7

LEMMA InitHolds ==
  Init => /\ TypeOK /\ CallsKeepTime /\ CallsFollowTerms /\ AnswersAreTrue
          /\ CountsAreHonest /\ OvertakenAreDeaf /\ FollowersAreFresh
  <1>. SUFFICES ASSUME Init
                PROVE  /\ TypeOK /\ CallsKeepTime /\ CallsFollowTerms /\ AnswersAreTrue
                       /\ CountsAreHonest /\ OvertakenAreDeaf /\ FollowersAreFresh
    OBVIOUS
  <1>0. TypeOK /\ calls = {} /\ \A p \in Node : currentTerm[p] = 1 /\ state[p] # "Candidate"
    BY InitTypes DEF Init, NetworkInit
  <1>1. CallsKeepTime /\ CallsFollowTerms /\ AnswersAreTrue /\ OvertakenAreDeaf
    BY <1>0 DEF CallsKeepTime, CallsFollowTerms, AnswersAreTrue, OvertakenAreDeaf
  <1>2. CountsAreHonest
    <2>1. Reached(1) = Node /\ N \in Nat /\ N > 0
      BY <1>0, Sizes DEF Reached
    <2>2. \A p \in Node : 2 * Cardinality(Reached(currentTerm[p])) > N
      BY <1>0, <2>1 DEF N
    <2>. QED BY <1>0, <2>2 DEF CountsAreHonest
  <1>3. FollowersAreFresh
    <2>1. ASSUME NEW q \in Others(FirstLeader), NEW n \in Nat PROVE Fresh(q, n)
      BY DEF Init, Fresh, Others
    <2>2. \A q \in Others(FirstLeader) :
            lastHeard[FirstLeader][q] + Timeout \in Nat /\ FirstLeader \in Node
      BY <1>0, Constants DEF TypeOK, Others
    <2>. QED BY <1>0, <2>1, <2>2, Constants DEF FollowersAreFresh
  <1>. QED BY <1>0, <1>1, <1>2, <1>3

\* what holds of the network, of votes and of overtaken leaders, whatever the timers are
Timeless == /\ TypeOK /\ CallsKeepTime /\ CallsFollowTerms /\ AnswersAreTrue
            /\ CountsAreHonest /\ OvertakenAreDeaf

LEMMA TimelessHolds == Spec => []Timeless
  <1>1. Init => Timeless
    BY InitHolds DEF Timeless
  <1>2. Timeless /\ [Next]_vars => Timeless'
    <2>. SUFFICES ASSUME Timeless, [Next]_vars PROVE Timeless'
      OBVIOUS
    <2>1. CASE Next
      BY <2>1, NextTypes, CallsStayInTime, CallsKeepToTerms, AnswersStayTrue,
         CountsStayHonest, OvertakenStayDeaf DEF Timeless
    <2>2. CASE UNCHANGED vars
      <3>1. UNCHANGED <<state, currentTerm, voteCount, lastHeard, since, calls>>
        BY <2>2 DEF vars, peerVars, networkVars
      <3>2. TypeOK' /\ CallsKeepTime' /\ CallsFollowTerms' /\ AnswersAreTrue'
        BY <2>2, <3>1, NextTypes
           DEF Timeless, CallsKeepTime, CallsFollowTerms, AnswersAreTrue
      <3>3. CountsAreHonest'
        BY <3>1 DEF Timeless, CountsAreHonest, Granting, Reached
      <3>4. OvertakenAreDeaf'
        BY <3>1 DEF Timeless, OvertakenAreDeaf, Deaf
      <3>. QED BY <3>2, <3>3, <3>4 DEF Timeless
    <2>. QED BY <2>1, <2>2
  <1>. QED BY <1>1, <1>2, PTL DEF Spec

\* However long callbacks wait, an answer that finds its caller gone (channel.go:152) is
\* late by less than its own callback waited: remainingTime is as stale as that, and no
\* staler, when the delay is compared with it (:150).
THEOREM LateAnswersWaited == Spec => []LateAnswersWereHeldUp
  <1>1. Timeless => LateAnswersWereHeldUp
    <2>. SUFFICES ASSUME Timeless, NEW c \in calls, c.stage = "reply"
                  PROVE  c.delay - c.left < c.took
      BY DEF LateAnswersWereHeldUp
    <2>1. c.left \in Int /\ c.delay \in Nat /\ c.took \in Nat
      BY DEF Timeless, TypeOK, NetworkTypeOK, CallType
    <2>2. c.delay < c.left + c.took
      BY DEF Timeless, CallsKeepTime, RemainingTime
    <2>. QED BY <2>1, <2>2
  <1>. QED BY <1>1, TimelessHolds, PTL

\* A lease and the way of one reply after it was overtaken, a leader answers no reads,
\* whatever was lost and whoever was cut off (peer.go:255).
THEOREM StaleReadsEnd == Spec => []StaleReadsAreBounded
  <1>1. Timeless => StaleReadsAreBounded
    BY OvertakenAreNotValid DEF Timeless
  <1>. QED BY <1>1, TimelessHolds, PTL

\* If no round of a follower is shorter than a lease and a call, the whole of the
\* invariant holds: whoever may be counted by the first leader follows it, and has not
\* waited for longer than its answer is old.
THEOREM LeaseInvHolds == LeaseFits /\ Spec => []LeaseInv
  <1>. SUFFICES ASSUME LeaseFits PROVE Spec => []LeaseInv
    OBVIOUS
  <1>1. Init => FollowersAreFresh
    BY InitHolds
  <1>2. Timeless /\ FollowersAreFresh /\ [Next]_vars => FollowersAreFresh'
    <2>1. CASE Next
      BY <2>1, FollowersStayFresh DEF Timeless
    <2>2. CASE UNCHANGED vars
      BY <2>2 DEF vars, peerVars, networkVars, FollowersAreFresh, InFirstTerm, Fresh
    <2>. QED BY <2>1, <2>2
  <1>3. Timeless /\ FollowersAreFresh => LeaseInv
    BY DEF Timeless, LeaseInv
  <1>. QED BY <1>1, <1>2, <1>3, TimelessHolds, PTL DEF Spec

\* The first leader then counts none that campaigns, or has won.
THEOREM CampaignersAreNotCounted == LeaseFits /\ Spec => []LeaseExcludesCampaigners
  <1>1. LeaseInv => LeaseExcludesCampaigners
    BY DEF LeaseInv, FollowersAreFresh, LeaseExcludesCampaigners, Fresh
  <1>. QED BY <1>1, LeaseInvHolds, PTL

=============================================================================

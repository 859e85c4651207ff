--------------------------- MODULE ChannelNetwork ---------------------------
(***************************************************************************)
(* The network of the simulation: calls over the channels of               *)
(* rpccore/channel.go, with the delays that simulation/local.go gives      *)
(* them.  Lease puts peers on it and lets time pass.                       *)
(*                                                                         *)
(* A call is a caller that waits and a goroutine that handles its request: *)
(* it sleeps, looks at the time that is left, runs the callback, sleeps    *)
(* again and sends the answer on a channel that nobody but that caller     *)
(* reads.  The callback waits for the mutex of its peer, if it must, and   *)
(* then takes no time; nor does receiving a request from the node's        *)
(* channel.                                                                *)
(***************************************************************************)
EXTENDS Integers, FiniteSets

CONSTANTS
  Node,
  Timeout,      \* ChanNetwork.timeout, and the delay of what is lost (rpcTimeout)
  Latency,      \* the delays of what is not (oneWayLatencyMin .. oneWayLatencyMax)
  MutexWaits,   \* how long a callback waits for its peer's mutex, if it has to
  \* bounds of a finite instance:
  Cuttable,     \* the nodes that may be cut off
  MaxLost,      \* how many messages are lost between nodes that are connected, or
                \*   callbacks held up
  MaxFaults     \* ... and how often a node is cut off or connected again, together

ASSUME NetworkAssumption ==
  /\ IsFiniteSet(Node)
  /\ Timeout \in Nat \ {0} /\ Latency # {} /\ Latency \subseteq 0 .. Timeout - 1
  /\ MutexWaits \subseteq Nat \ {0}
  /\ {MaxLost, MaxFaults} \subseteq Nat /\ Cuttable \subseteq Node

VARIABLES
  calls,    \* the calls somebody waits for or handles
  offline,  \* the nodes that are cut off
  lost,     \* the messages lost and callbacks held up
  changes

networkVars == <<calls, offline, lost, changes>>

\* chanReqMsg and what becomes of it: the time left to its deadline, what its
\* goroutine is about, how long that sleeps or waits, how long its callback waited,
\* what it answers, and does the caller still wait?
Call(source, target, method, term, delay) ==
  [source |-> source, target |-> target, method |-> method, term |-> term, left |-> Timeout,
   stage |-> "request", delay |-> delay, took |-> 0, resTerm |-> 0, ok |-> FALSE, waits |-> TRUE]

NetworkInit == calls = {} /\ offline = {} /\ lost = 0 /\ changes = 0

Connected(p, q) == {p, q} \cap offline = {}

\* delayGenerator: what is cut off or lost takes as long as a caller waits
DelayGenerator(p, q) == (IF Connected(p, q) THEN Latency ELSE {}) \cup {Timeout}

MayLose(n) == n > lost => n <= MaxLost /\ n + changes <= MaxFaults

Loses(p, q, delay) == IF Connected(p, q) /\ delay = Timeout THEN {q} ELSE {}

\* SendRawRequest to each of the targets, after others were ended
SendRawRequest(p, targets, method, term, others) ==
  \E delay \in [targets -> Latency \cup {Timeout}] :
    /\ \A q \in targets : delay[q] \in DelayGenerator(p, q)
    /\ lost' = lost + Cardinality(UNION {Loses(p, q, delay[q]) : q \in targets})
    /\ MayLose(lost')
    /\ calls' = others \cup {Call(p, q, method, term, delay[q]) : q \in targets}

\* There is time left when the request arrives: the callback runs, at once or when it
\* gets the mutex, by which time its caller may have gone.
MayRun(c) == /\ c.delay = 0
             /\ \/ c.stage = "request" /\ c.left > 0
                \/ c.stage = "callback"

HeldUp(c, t) == [c EXCEPT !.stage = "callback", !.delay = t, !.took = t]

WaitForMutex(c) ==
  /\ c.stage = "request" /\ MayRun(c)
  /\ \E t \in MutexWaits : calls' = (calls \ {c}) \cup {HeldUp(c, t)}
  /\ lost' = lost + 1 /\ MayLose(lost')
  /\ UNCHANGED <<offline, changes>>

\* remainingTime, which is computed before the callback runs
RemainingTime(c) == c.left + c.took

\* Mutant: an answer is sent, however long it will take.
Answering_AnyDelay(c, delay, term, ok) ==
  [c EXCEPT !.stage = "reply", !.delay = delay, !.resTerm = term, !.ok = ok]

\* It is answered, unless the answer takes longer than that.  The time left is a little
\* less than left ticks, since the deadline is set before anything is sent.
Answering(c, delay, term, ok) ==
  IF delay < RemainingTime(c)
    THEN [c EXCEPT !.stage = "reply", !.delay = delay, !.resTerm = term, !.ok = ok]
    ELSE [c EXCEPT !.stage = "done", !.delay = 0]

RunCallback(c, term, ok) ==
  /\ MayRun(c)
  /\ \E delay \in DelayGenerator(c.target, c.source) :
       /\ lost' = lost + Cardinality(Loses(c.target, c.source, delay))
       /\ MayLose(lost')
       /\ calls' = (calls \ {c}) \cup {Answering(c, delay, term, ok)}
  /\ UNCHANGED <<offline, changes>>

\* the caller gets the answer
Answered(c) == c \in calls /\ c.stage = "reply" /\ c.delay = 0 /\ c.waits

\* Without an answer the call fails: the time is up, or the goroutine finds that it
\* is and says so.
Fails(c) == c \in calls /\ c.waits /\ c.left = 0

\* what is left of a call whose caller has gone: a goroutine that has not ended, or
\* that will wait for the caller forever and do nothing else
Abandoned(c) ==
  IF c.stage \in {"request", "done"} THEN {} ELSE {[c EXCEPT !.waits = FALSE]}

\* SetNodeNetworkStatus, SetNetworkPartition: one node is cut off, or none
SetNetworkStatus ==
  /\ lost + changes < MaxFaults /\ changes' = changes + 1
  /\ offline' \in {{}} \cup {{p} : p \in Cuttable}
  /\ offline' # offline
  /\ UNCHANGED <<calls, lost>>

\* something that happens now and takes no time
Due(c) == \/ c.waits /\ (c.left = 0 \/ (c.stage # "done" /\ c.delay = 0))
          \/ c.stage = "callback" /\ c.delay = 0

\* what goes on: somebody waits for it, or its goroutine has something to do
Runs(c) == c.waits \/ c.delay > 0

Earlier(n) == IF n = 0 THEN 0 ELSE n - 1

TimePasses ==
  /\ \A c \in calls : ~Due(c)
  /\ calls' = {[c EXCEPT !.left = @ - 1, !.delay = Earlier(@)] : c \in {d \in calls : Runs(d)}}

-----------------------------------------------------------------------------
\* An answer that finds its caller gone is late by less than its callback waited for
\* the mutex: the goroutine of a request that was handled at once never sends on a
\* channel that nobody reads (channel.go:152), where it would be stuck forever.
\* remainingTime is stale when it is used (:150), so that more cannot be said.
LateAnswersWereHeldUp ==
  \A c \in calls : c.stage = "reply" /\ ~c.waits => c.delay - c.left < c.took

CallType ==
  [source : Node, target : Node, method : {"requestVote", "appendEntries"}, term : Nat,
   left : Int, stage : {"request", "callback", "reply", "done"}, delay : Nat, took : Nat,
   resTerm : Nat, ok : BOOLEAN, waits : BOOLEAN]

NetworkTypeOK == /\ calls \subseteq CallType
                 /\ offline \subseteq Node /\ lost \in Nat /\ changes \in Nat

\* What makes it inductive: a caller goes when its time is up, and not before; no
\* callback started with more time than that; and an answer was sent in what its
\* goroutine took to be time.  It is on its way for a latency at most.
CallsKeepTime ==
  \A c \in calls :
    /\ c.left <= Timeout
    /\ c.waits => c.left >= 0
    /\ ~c.waits => c.left <= 0 /\ c.stage # "request"
    /\ c.stage = "request" => c.took = 0
    /\ c.stage = "callback" => RemainingTime(c) - c.delay <= Timeout
    /\ c.stage = "reply" => /\ c.delay < RemainingTime(c)
                            /\ \E t \in Latency : c.delay <= t

=============================================================================

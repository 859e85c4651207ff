# raft-lite: specification, model checking and proofs

This directory holds TLA+ specifications of raft-lite, a Raft implementation in Go with a
transaction system on top. TLC checks them on small instances and TLAPS proves part of
them for all. Paths below are relative to the repository.

- [The system](#the-system): components, state, interactions, hard behaviour
- [Modules](#modules): which module models what, and how
- [Runs](#runs): what each shows, and its bounds
- [Findings](#findings): where the code and its documentation disagree
- [Fairness](#fairness)
- [Proofs](#proofs)
- [Not modelled](#not-modelled) and the [plan](#plan)

To check: `tlc -workers 2 -config <run>.cfg <module>.tla`; to prove: `tlapm <module>.tla`.

## The system

| Component | Source | State it keeps | Operations | What makes it correct |
|---|---|---|---|---|
| leader election | `raft/request_vote.go`, `raft/peer.go` | state, currentTerm, votedFor, voteCount | timeouts, startElection, handleRequestVote, handleRequestVoteRespond | one leader and one vote per term, the winner holds what is committed |
| log replication | `raft/append_entry.go` | log, commitIndex, nextIndex, matchIndex, a channel per uncommitted entry | onReceiveClientRequest, callAppendEntryRPC, handleAppendEntries, updateCommitIndex | logs match, state machines agree, only what a majority holds is committed |
| log compaction | `raft/snapshot.go` | snapshot, base of the log | saveToSnapshot, handleInstallSnapshot | index arithmetic across a moving base, nothing applied is lost |
| peer persistence | `raft/pstorage.go` | what was saved | save after a change, load at start | a restarted peer takes nothing back |
| persistent storage | `pstorage/` | file, or a buffer that is flushed (hybrid) | Save, Load, Flush, Stop | a save survives a crash |
| RPC layer | `raft/rpc.go`, `rpccore/` | calls on their way | call with a time limit, answer | a call is answered at most once; a late one does no harm |
| client handlers | `raft/client_request.go` | | leader, action and query requests | an answer reflects what is committed |
| leader lease | `isValidLeader` in `raft/peer.go` | lastHeardFromFollower | a reply updates it, a query reads it | a deposed leader soon stops answering; a sound one never refuses |
| timeout loop | `timeoutLoop`, Start, ShutDown in `raft/peer.go` | a channel of one slot, the skip flag, the round's timer | reset and trigger a timeout, act on one | a signal is never lost nor kept for a later round; no election after ShutDown |
| client library | `client/actions.go` | cached leader, back-off, request IDs | look for a leader, send, check, retry, query | each action executed once and reported truly, in the end |
| transaction state machine | `sm/transaction.go` | balances, each client's latest request | ApplyAction, Query, snapshots | no overdraft, transfers conserve money, duplicates ignored |
| peer command | `peer.go` | | start on hybrid storage, stop in order | nothing is lost at a stop |
| in-process network | `rpccore/channel.go` | a channel per node, the delay generator | send with a deadline, callback in a goroutine, answer | an answer that finds its caller gone is late by less than its callback waited |
| test bed | `simulation/`, `functests/` | delays, losses and cuts; a cluster of peers | isolate and connect nodes, reset a peer, compare logs and snapshots | its agreement checks hold at any time |

**Interaction.** A peer has one mutex. RPC handlers run in goroutines of the network and
take it; so do `timeoutLoop`, one goroutine per peer asked for a vote, one per follower a
leader replicates to, and one per client request, which waits for signals on the channel of
its entry. All but the handlers give the mutex up in the middle, around a call or a wait,
and look again at the state afterwards. The goroutines of one peer also talk over Go
channels: a slot that wakes `timeoutLoop` before its timer, and one channel per entry that
replication goroutines send to and its client's goroutine ranges over, until a commit, a
step-down or ShutDown closes it. A client's action is answered "started" before it is
appended; the client then asks whether the state machine has seen its request.

**Hard behaviour.** Replies that arrive in a later term or leadership; calls whose sender
gave up and which are executed all the same (the TCP server runs every request it reads);
crashes between a change and its save; saves that reach the disk seconds later; snapshots
that move the base of the log under an index read earlier; leaders that do not know yet
that they are deposed; requests sent twice; a timer that fires while its reset is under way;
a goroutine that is triggered while it is about to leave; a reply after ShutDown.
`PROJECT.json` lists each hazard at its line, with the properties that watch it.

## Modules

```
RaftLog ── Raft ── RaftProperties ─┬─ LogInvariants ──┬─ MCRaft
   │                               └─ SimulationChecks ┘    elections, replication,
   │                                      │ (refinement)    snapshots, stop,
   │                                   ReplicatedLog        hybrid_crash, late_snapshot
   └─ ReplicaLoops                                       replica_loops
PeerRoutines                                             routines
ChannelNetwork ── Lease                                  lease
Accounts ── Transactions ── MCTransactions               transactions, answers, stale_read
   └─ Bank ─┘ (refinement)

Proofs; a module extends the one to its left or above it, and what it is of:

RaftLogProofs      ── RaftProofs ── LogMatchingProofs ── ReplicationProofs
   of RaftLog            of Raft        of LogInvariants     of Raft and ReplicatedLog
   └─ ReplicaLoopsProofs of ReplicaLoops
PeerRoutinesProofs of PeerRoutines    LeaseProofs of Lease    TransactionsProofs of Transactions
```

Raft, PeerRoutines and Lease look at the same peers from three sides. Raft has all peers and
their logs, with no time and no steps inside a goroutine's stretches; PeerRoutines has one peer
with every goroutine and Go channel it runs, and lets the others answer anything one leader
per term allows; Lease has the clock.

**RaftLog**: the data of one replica (log, snapshot, commitIndex, and the commands its state
machine was fed, `applied`) and what updateCommitIndex, the merge of handleAppendEntries,
handleInstallSnapshot and loadFromPersistentStorage make of it. The code's loops are given
in closed form, without recursion, so that they can be proved about. The nil command of a
new leader is kept in `applied`, which makes positions there equal to log indices.

**ReplicaLoops** has the same loops one iteration at a time, as recursive functions, over a
system that appends, merges, commits and compacts. It checks the closed forms against them, and
ReplicaLoopsProofs proves them equal for all replicas.

**Raft** has one action per handler, and one per stretch of a goroutine between two places
where it holds the mutex:

| Code | Action |
|---|---|
| timeoutLoop | FollowerTimeout, FollowerRearm, CandidateTimeout |
| startElection and its goroutines | StartElection, `awaiting`, HandleRequestVoteRespond |
| handleRequestVote | HandleRequestVote |
| onReceiveClientRequest, before its wait and after it | ClientRequest, AppendNoop; CommitRequest |
| callAppendEntryRPC, before its call and after it | SendAppendEntries, SendInstallSnapshot; HandleAppendEntriesRes, HandleInstallSnapshotRes, CallFails |
| handleAppendEntries, handleInstallSnapshot | ReceiveAppendEntries, ReceiveInstallSnapshot, ReceiveLate |
| Hybrid.Flush, process death, ordered stop | Flush, Crash, Stop |

Notes on the correspondence:

- `request[p][q]` is the call the one replication goroutine of p for q waits for
  (`appendingEntries` makes it one). The rounds of its loop are separate steps; `isFirstTime`
  only decides whether an empty round is sent and is left free.
- A goroutine that asks for votes repeats its call until it is answered, so the request stays
  deliverable; there is no exit step, since a reply to a candidacy that is over is ignored.
- The channel of an entry is the number of signals it was sent (`acks`). The goroutine that
  drains it after a step-down finds that the term has changed and does nothing; PeerRoutines
  has that goroutine and shows it.
- A timer may fire at any time: its loop is in PeerRoutines, its length in Lease.
- A handler that indexes its log out of range, or meets `Fatalf`, takes its process down
  (`up`).
- The voter's test `p.votedFor == &req.CandidateID` compares pointers and is never true.
- Stop is ShutDown, the wait, and the flush in one step. What still runs after ShutDown is
  in PeerRoutines.

**RaftProperties** states the invariants, with three that proofs turn on: `ElectionInv` for
elections, `SignalInv` for channels, `SavedInv` for what is saved. `OverridesNothing` says that no
call that may yet be handled would have its target cut off what it committed. The code does not
prevent that; it logs "overriding committed log" (`raft/append_entry.go:36`) and goes on.
**LogInvariants** says why replication is safe: which election
every entry of a log or of a call comes from (`LogInv`), which entries can no longer be lost
(`Safe`, `Locked`, `Chosen`), what that means for a leader's counts and for every commit index
(`ReplicationInv`), and why no handler panics (`PanicInv`). **MCRaft** gives them an initial state, `AfterElection`, in which a
leader has just won term 1 (all votes given, its nil entry appended), a state that Raft
reaches, so that bounds are spent on what comes after.

**ReplicatedLog** is the abstract specification of all peers: one sequence of decided commands
that only grows, and state machines that are fed prefixes of it. Its two actions say when it
grows (`Decide`) and when a peer follows (`Learn`); a crash, a lost message and a change of
leader are stutters. **SimulationChecks** holds the refinement mapping and the agreement checks
of `simulation/local.go`. AgreeOnLogEntries compares two raw logs from their first entries on;
once logs were compacted at different indices it would reject legal states, so only the check
that the tests make in that case, AgreeOnLogEntriesIfSnapshotEqual, is stated, with
AgreeOnSnapshot. The tests wait for a cluster at rest; here both hold at every instant.

**PeerRoutines**: a step is what a goroutine does while it holds the mutex, or a channel
operation between two such stretches.

| Code | Action |
|---|---|
| NewPeer, Start, ShutDown | Init, Start, ShutDown |
| timeoutLoop: arm, wake or time out, act under the mutex, empty the slot | LoopArms, LoopWakes, LoopRound (LoopFollower, LoopCandidate, LoopLeader, LoopIgnores) |
| rpc.go: test shutdown, then run the handler | `entered`, HandlerRuns (HandleRequestVote, HandleAppendEntries) |
| the end of an election | VotesWon, VotesLost |
| callAppendEntryRPC: begin, decide to go on, call, reply, leave | CallBegins, CallLoops, CallRepeats, CallFails, CallSucceeds, CallDisagrees, CallRefused, CallLeaves |
| HandleClientRequest, onReceiveClientRequest: append, range over the channel, commit | HandleClientRequest, OnReceiveClientRequest, Returns, Range, RangeEnds, Commit |

- An entry of the log is the goroutine that appended it, which makes "its own entry" a matter of
  identity. `votedFor`, the state machine and compaction are left out.
- Peers answer as any cluster with one leader per term might (`Winnable` are the terms p may win).
- `InTime`: a reply to a call is handled before p can lose its leadership and be elected again.
  The code relies on it and nothing enforces it: a call ends within the network's time limit, a
  leader of a later term must first wait out an election timeout of 400 units or more. The TCP
  network's `TimeoutInMS` is configurable beyond that. Without it, a peer of a cluster of five
  may count an acknowledgement given to its earlier leadership, or take nextIndex past its log
  (`raft/append_entry.go:179` tests the state but not the term of the request).
- After ShutDown the panics are real: a reply on its way sends on a channel ShutDown has closed
  (`raft/append_entry.go:198`), a step-down or a commit closes it again. `panicked` records it.
- Other behaviour the module reproduces and that no property forbids: a client's request that
  passed the test of `shutdown` before ShutDown appends and saves after it, and then waits forever; a
  candidate's goroutines go on asking for votes after ShutDown; the trigger that sends a new
  leader's nil entry at once may be swallowed by a round that was armed as a candidate, and the
  entry then waits for the next heartbeat. HandleClientRequest's own goroutine blocks forever
  on its unbuffered channel once its caller has given up (two seconds).

**ChannelNetwork** is the in-process network with the delays that the simulation injects: a call
is on its way, handled, answered or abandoned. The time that is left is computed before the
callback runs and compared with the answer's delay after it (`rpccore/channel.go:139`, `:150`); in
between, the callback may wait for the peer's mutex (`WaitForMutex`, `MutexWaits`), and run when its
caller has gone. An answer that seems to be in time is then sent to nobody, and its goroutine
blocks forever, as does that of a lost request (`:141`). `LateAnswersWereHeldUp` says what the comparison
is still worth: the answer of a callback that did not wait finds its caller. Who holds
the mutex is not modelled: while one callback waits, other goroutines of its peer may go on. Time
advances by Lease's `Tick`, which waits for whatever is due.

**Lease** puts three peers on it, with leaders' and followers' rounds, heartbeats, votes and
`lastHeardFromFollower`. A tick is 25 ms times the code's timing factor: an RPC's limit and the
heartbeat are 4 ticks, the lease 10, election timeouts 16 to 32. Logs are reduced to
`behind`, the followers that lack the entry of a leader's nil command: only a call that carries
entries is repeated at once after a failure, an empty heartbeat waits for the next round.
`LeaseExcludesCampaigners` rests on no election timeout being shorter than a lease and a call together
(250 and 100 against 400 to 800 ms, `raft/peer.go:149`, `:270`, `simulation/local.go:35`), which a larger
`TimeoutInMS` of the TCP network would not give. It is about the leader of the first term: a leader
that is elected counts every peer for a lease, whatever they do (`raft/peer.go:248`).

**Accounts** is the transaction state machine: `ApplyAction` with every rejection, on ints
that wrap around at `MaxInt`. An error is the fact that there is one.

**Bank** is the abstract specification: each request of a client is executed once, at one
instant between its submission and its answer, and the answer is that execution's outcome.

**Transactions** puts clients, handlers and state machines over an abstraction of the peers:
one sequence `committed`, a `tail` per log (what it holds past it), leaders of which all but
the latest may be deposed without knowing it, and `applied`, how much a state machine was
fed. What Raft guarantees is built in: an elected log holds every committed entry, a majority
of voters lead no more, and logs that conflict with committed entries drop theirs. ClientCore
is modelled step by step; `pending` holds requests that were received, or are on their way,
and not yet appended. `LateClients` says for whose requests this may take longer than the
client's patience. `executed` is a history: the state machine of all committed entries and
the first outcome of each request; it carries the refinement to Bank. `resends` counts
re-sent requests that the leader holds already, and is only a bound.

## Runs

| Run | Instance | States | Shows |
|---|---|---|---|
| routines | 1 peer, 1 follower, a client's request, 3 terms of which p may win the first and the last, ShutDown in the first | 421 k | a skip flag belongs to its round; nothing panics before ShutDown; a request's goroutine commits its own entry and ends; after ShutDown no election starts and goroutines end |
| replica_loops | one replica, terms to 2, indices to 5, threshold 2 | 2 k | closed forms equal loops; a merge yields the leader's log; compaction loses nothing |
| elections | 3 peers, 2 campaign, terms to 2, a crash | 417 k | one leader and one vote a term; `ElectionInv`, the proof's invariant |
| replication | 3 peers, a leader and a challenger, 2 entries, a crash | 212 k | a commit never outruns the entries it travels with; `LogInv` and `ReplicationInv`, the proofs' invariants, from which log matching, leader completeness and honest counts follow; `ImplementsReplicatedLog`, hence state machine safety |
| snapshots | the same, a threshold of 1, so that every commit compacts, two failed calls, no crash | 407 k | types and shape, log matching, leader completeness, `ImplementsReplicatedLog`, the simulation's agreement checks, honest acknowledgements, channels that never block, commits within the log, storage equal to memory, no panic |
| stop | 2 peers on hybrid storage, one stop, one late call | 440 k | an ordered stop takes back no vote and no commit; a late call cuts nothing off that is committed |
| lease | 3 peers, 2 terms, at most one lost message or callback that waits for the mutex and, with it, two faults (a loss or wait, a cut, a repair), a clock | 2.2 M | a stale leader answers reads for a lease and a reply's way at most; the first leader counts no peer that campaigns or has won; the invariant of the proofs holds; on a whole network that loses one message no election starts and no read is refused; a late answer was held up by its callback |
| transactions | 2 clients, 3 requests that fail or succeed by their order, 2 peers, a change of leader, a re-sent request, late copies of c2's only request | 0.7 M | `ImplementsBank`: exactly once, true answers; balances in range |
| answers | 1 client, 3 peers, a deposed leader, a query | 129 k | requests in submission order in every log; the client is answered |
| hybrid_crash, late_snapshot, stale_read | | | the findings below |

**Bounds.** Two terms suffice for two leaders with conflicting logs, the shape of every
classical Raft error; three peers for majorities that differ; two entries for a prefix, a
conflict and (with a threshold of one) a snapshot while another is on its way. `MaxInFlight`
limits outstanding calls, `Timers` the peers that campaign, `MaxFailures` the calls that
fail; each interesting case happens in some run, which the mutants confirm: each property is
violated by a small plausible bug under the very bounds of its run. A third term, and the
stale acknowledgement of an earlier leadership of the same peer, are beyond Raft's; `routines`
has three terms, and a second leadership of the same peer, under `InTime`.
No script of a client has a `move`: Bank executes requests with the same ApplyAction, so the run
could not tell a wrong one, and `MoveConserves` says what it does.
`transactions` has two peers, which makes room for two clients; `answers` has the third
peer, without which no leader can be deposed unknowingly. `MaxInt` is 2, so that a sum can
wrap. Symmetry is used only in `elections`, where no formula tells one campaigning peer from
another. Deadlock is not checked where bounds make the system stop.

`routines` has one follower: what the goroutines of two followers share is the map of channels and
the mutex, and the proofs are for any number. `Reachable` is the follower, so that requests can be
committed; `MaxStarting` two goroutines may be waiting to start when a third is triggered. In `lease`
every delivery takes 0 or 1 ticks; p2 is the one follower that may time out (`Timed`), after any of
three lengths between the shortest and the longest; time ends (`MaxSince`) once a lease and a
reply's way have passed since the election, or the first leader has stepped down. Cuts isolate
one of three peers, the only kind of partition three have. `MaxLost` is 1 because the
properties are true of one lost message and false of two: a lost empty heartbeat may cost
two periods, since the next one can find the call still waiting. A callback that waits for the
mutex counts as one: `MutexWaits` is {3, 6}, of which 3 makes an answer just late and with 6 the
handler runs after its caller left.

`stop` lets panicking handlers happen: with late calls handleAppendEntries can index below
the base of a compacted log or past the entries of the request (and handleInstallSnapshot
below the base, with three peers). `NoPanic` is therefore claimed, in `snapshots`, only where a
call is not executed after its sender gave up. Late calls have a run of two peers because they
multiply the states; with three, a threshold of 2 and one failed call
there are 1.2 million, too many for a run of every day; `TypeInv`,
`AcksAreHonest`, `SignalsFitChannel` and `CrashKeepsReplica` hold in them. With two peers no
leader sends a snapshot, so that `CommitMonotone` meets installSnapshot in `late_snapshot` alone.

The threshold of 1 in `snapshots` lets a leader take a second snapshot before the follower has
answered the first (`raft/append_entry.go:140`), but leaves no committed entry in a log. The
properties of the run were also checked with a threshold of 2, under the same bounds (376 k states) and
with `MaxIndex` 3 and one failed call (1.83 million, over five minutes); `OverridesNothing`
and `SavedInv` with either threshold. The `stop` run has a threshold of 2.

## Findings

1. **hybrid_crash**: the storage of the peer command is up to two seconds behind; a crash
   forgets a vote, and a term gets two leaders. `README.md:24` promises consistency when
   machines shut down unexpectedly.
2. **late_snapshot**: an installSnapshot that arrives late takes commitIndex back
   (`raft/snapshot.go:64`), which `raft/peer.go:56` calls monotone.
3. **stale_read**: a leader accepted by isValidLeader answers from whatever its state machine
   was fed: a deposed one inside its lease, or a new one whose nil entry is not committed yet.
   A client may not see its own finished action, where `README.md:25` has the algorithm ensure
   the system's consistency. `StaleReadsAreBounded` (run `lease`) says how long the first can last.

Seen on the way, with no run of their own:

- A term learned from a vote reply (`raft/request_vote.go:106`, which returns before the save)
  or from a vote request that is refused is not saved, though the comment at `:131` says it is. A
  crash takes it back. `elections` shows that no vote is repeated for it.
- Only a client's latest request is recognised as a duplicate (`sm/transaction.go:59`). A copy
  appended after the client's next request would be executed again. Where copies are not that
  late, `ImplementsBank` and `LogsInOrder` show that remembering one request is enough.
- The panics after ShutDown, described under PeerRoutines.
- A goroutine of the in-process network may block forever although its request was handled: the
  test of `rpccore/channel.go:150` uses the time that was left before the callback, which may wait for
  the mutex. At a stopped peer the callback sleeps for a second (`raft/rpc.go:137`), ten times
  the limit of a call, so that each such goroutine blocks whose error is not delayed past that
  limit. No state but the goroutine's own is affected.

## Fairness

Raft and Lease state safety only; elections with random timeouts have no fairness worth assuming
that the code justifies, and Lease's clock stops at a bound.

PeerRoutines assumes, for `RequestsEnd` and `StoppedPeerWindsDown`, weak fairness of timeoutLoop, of
the goroutines of each follower's calls and of the requests' goroutines (Go runs what can run,
timers fire, calls have a time limit), and strong fairness of the calls to `Reachable` followers
succeeding: the code repeats them for ever, and a network that answers none of them
rightly keeps a request waiting. Which handlers run, elections, ShutDown and new requests are not
fair.

Transactions assumes, for `EveryActionEnds`:

- weak fairness of elections, of followers hearing from the leader, of commits, of a client's
  calls ending one way or another: goroutines run, timers fire, every call has a time limit;
- strong fairness, of a client that forever retries, of the calls that reach the latest leader
  and return: lookForLeader asks a random node each time, and the back-off is bounded. A
  network that loses every such call would refute it, and the client then rightly waits.

Leaders change at most `MaxTerm` times, so "once leaders stop changing" is part of the
instance.

## Proofs

All for every value of the constants, from the ASSUMEs of the modules (finite set of servers,
Nil no server and no reply, bounds natural numbers, thresholds positive).

- **RaftLogProofs**: what each operation on a replica returns and preserves. `UpdateCommitIndexSound`,
  `MergeEntriesSound`, `InstallSnapshotSound`, `ReloadSound`: a sound replica stays
  one. Sound: base ≤ commitIndex, the log reaches at least index 0, a snapshot's state machine
  has as many commands as its index says, and the state machine as many as commitIndex. That
  commitIndex is at most the log's last index is not part of it: it depends on what other peers
  hold. `LoadIsRebuilt`: a load gives the replica whose log, snapshot and commit index were saved.
- **ReplicaLoopsProofs**: the loops compute the closed forms, for any replica, threshold, batch and
  index: `CommitsMatchTheLoop`, `MergesMatchTheLoop`. A loop is a recursive function of the number of iterations; it
  equals a closed form if the closed form satisfies the same equation, which is one iteration's
  work, and the rest is induction. `MergesYieldTheLeadersLog` and `NothingIsLost` are about
  what the two do to a log and its commands. So whatever is proved of Raft, in closed forms, is
  about the loops of the source.
- **RaftProofs**, types: `TypeCorrect`, `Spec => []TypeInv`, that is `TypeOK /\ ShapeInv`. Types alone are not
  inductive: that a suffix of a log is a log needs the index to lie in it, which is `ShapeInv`,
  and the same of every stored copy, since a crash makes it the replica. The proof has a lemma
  per group of actions and one step per action.
- **RaftProofs**, storage: `CommitsFitTheLog` and `CrashesLoseNothing`, with compaction, installed
  snapshots, late calls and crashes. Their only hypothesis is `[]OverridesNothing`: this part of the
  code is right as long as the peers never make it override, which is for the rest of the protocol
  to see to. `NothingIsOverridden` below proves it where logs are not compacted, and the run
  `stop` checks it where they are and calls come late. The invariant, `SavedInv` (`SavedInvHolds`), says that the storage has the log, snapshot
  and commit index of the replica, that its state machine is the one they rebuild, and that no file ends before
  its commit index. Each handler changes several of these and then saves; one that left out a save, or saved
  too early, would break it. TLC finds `SavedInv` and `OverridesNothing` true under the bounds of `snapshots`
  and of `stop`, which has late calls and the hybrid storage.
- **RaftProofs**, elections: `ElectionIsSafe` and `VotesAreFinal`, under `Durable` (the storage is
  written through, or no process crashes), without which `hybrid_crash` refutes them. The
  inductive invariant `ElectionInv` says that votes are remembered in memory and in what was
  saved, that a granting reply follows a vote, that a candidate has counted no more than the
  distinct voters it was given and whose reply it no longer awaits, and that a leader has a
  majority of votes. Two leaders of a term then share a voter, who voted twice. The counting
  part is needed because the code keeps a counter, not a set.
- **PeerRoutinesProofs**: `SkipsAreForTheirRound`, `NoPanicBeforeShutdown`, `OwnEntryIsCommitted`,
  `NoCampaignAfterShutdown`, for any number of followers, requests and terms, from the
  assumptions on constants (and `InTime`, a guard of the model). The inductive invariant has four
  parts. `LoopInv` relates where timeoutLoop is to the slot and the flag; the first and the last
  theorem need no more. `OwnEntries`: while a goroutine of the present term waits, p leads and the
  goroutine's entry is where it put it. `CallsFit` and `IndicesFit`: what a call of the present
  term has sent, and nextIndex, lie within the log. `ChannelsInv`: before ShutDown, a channel in
  the map is open and belongs to a waiting goroutine of the present term, and such a goroutine's
  channel is open. Neither `PanicsOnlyAfterShutdown` nor `CommitsItsOwnEntry` is inductive
  without them: both speak of a channel that a goroutine looked up several steps before.
- **LeaseProofs**: `LateAnswersWaited` and `StaleReadsEnd`, from the assumptions on constants alone, for any
  number of peers, terms and faults and any lengths of the timers; `CampaignersAreNotCounted`, if the
  timers fit (`LeaseFits`, the inequality above). For the first: a caller goes when its time is up and
  not before, a callback starts with no more time than a call has, and an answer takes less than what was left
  then (`CallsKeepTime`). For the stale
  leader: a candidate has counted no more votes than it was given by peers that were
  in its term then (`CountsAreHonest`: an answer is read once, and one is waited for at a time), so that a
  majority has reached the term of whoever won; each of these answers the old leader with a later
  term, so it can be counted only for what it answered before (`OvertakenAreDeaf`), which
  arrives within a latency and counts for a lease. The majority it needs would meet the deaf one. For the
  campaigners: a follower that answered has since waited no longer than the answer is old
  (`FollowersAreFresh`), which the code measures from its arrival, a call's time limit later at
  most.
- **LogMatchingProofs**: `LogsMatch`, under `Durable` and as long as no peer has to be sent a
  snapshot (`NoSnapshotIsSent`); `ShortLogsMatch` draws that from the constants alone, a threshold
  no log reaches. Logs may be compacted, calls late, peers overtaken. The second hypothesis is
  needed: handleInstallSnapshot does not adopt the request's term (`raft/snapshot.go:52`), so a
  peer may take a snapshot of a later term than its own; with five peers it can then lead a term
  older than its log's last one. The invariant, `LogInv`, quantifies over chunks, a log or the entries of a call
  alike: an index and a term identify an entry and the term before it, a term rises in a chunk
  only where its leader's log ended when it was elected, a leader's log ends with its own term.
  That candidates save their term before they ask for votes is part of it, since a crash would let
  one campaign twice in a term. But for an append no step makes an entry, and one lemma,
  `InheritStep`, covers every such step. `LogsAgreeAfterSnapshots` is the simulation's check.
  `SignalsFit` needs nothing but `Spec`: late calls, crashes and snapshots included, a channel has
  room for its signals. Its invariant, `SignalInv`, says that the signals sent and still to come are
  those of distinct servers.
- **ReplicationProofs**, about `Orderly` behaviours: `CountsAreOfHolders`, `LeadersHaveWhatIsApplied`,
  `CommitsTravelWithEntries`, `NothingIsOverridden` (with it `CommitsAreInLogs` and
  `WhatIsSavedIsWhole`), `CommitsOnlyGrow`, and the refinement, `PeersImplementLog`. From that follow
  `StateMachinesAgree` and `WhatIsAppliedStays`: state machine safety, of Raft itself. `Orderly` is
  - `Durable`, as above;
  - `SnapshotThreshold > MaxIndex + 1`: no log is compacted (`MaxIndex` is any number);
  - `CallsInTime` at all times: no leader handles the successful reply to a call of an earlier leadership of its
    own. handleAppendEntriesRes does not compare terms (`raft/append_entry.go:179`), so such a
    reply is counted for an entry its sender may since have cut off, and the entry is committed by fewer than
    a majority. An election timeout being longer than a call's time limit is what the code relies on.

  The argument: an entry is *locked* by a server that holds it and has voted for no candidate
  of a later term that lacks it, *chosen* when a majority locked it, and *safe* while no such
  candidate has won. Chosen entries are safe, since two majorities meet. A leader counts servers
  that locked the entry, unless the entry is lost already (`CountedAreLocked`); and then a majority has gone on
  to later terms uncounted and will never be counted (`LostAreNotCounted`), so that the counter of
  the code, which nobody resets when an entry is lost, cannot reach a majority. Hence every commit index is that of
  a chosen entry or below one. `KeepsPromises` says what all steps keep of this (votes are cast
  by logs that lack nothing locked, no one lets go of a safe entry, commits grow), and
  `PromisesSuffice` that it is enough. A step of Raft maps to `Decide` when it takes a
  commit index past all others, to `Learn` when it follows, and to a stutter otherwise. The
  refinement also takes a server to exist, since the abstract log has to be some server's.
- **ReplicationProofs**, last part: `NothingPanics`, `NoPanic` for uncompacted logs. The merge loop reads past the
  request when the follower holds all its entries and more (`raft/append_entry.go:34`). In the
  term of its leader a follower never holds more than the leader ends with, so this needs a call whose entries
  stop short of what the follower was sent already. `CallsFit` excludes that; it depends on what the
  leader will send next (`NextFits`), hence on `nextIndex`, which a refusal takes back
  (`FailuresFit`). Two hypotheses are needed beyond `Durable` and the threshold. `~LateDelivery`: an
  old call that is executed late is such a call. `RepliesInTime`, at all times: no
  leader handles a reply, successful or not, to a call of an earlier term of its own; a failed one
  would take nextIndex back for no reason, and the next call would be such a call. That the last term of a
  candidate's log was won with a shorter log (`CandidatesLogsAreWon`) is why a new leader's
  first entries fit. `PanicInv` was checked by TLC under the bounds of `replication`.
- **TransactionsProofs**: `ApplyActionType` (no balance leaves 0 .. MaxInt although sums wrap),
  `MoveConserves`, `RepeatIsIgnored`, `OthersKeepTheirAnswers` are about one action.
  `BalancesStayInRange` is about every history, for any clients, scripts, peers and late requests.
  `LogsStayInOrder` and the refinement, `ClientsSeeABank`, hold if only clients with a single command may have
  requests that come late (`OneLateRequest`): otherwise a copy may fall behind the client's next
  request and be executed again (see Findings). The invariant: logs are *good*, that is, a client's
  commands stand in them in the order of its script with none left out, and nobody asks for more than the command it
  waits for; what was answered is committed; every state machine is the fold of the
  entries it was fed. A state machine that is fed a good log remembers the latest command of each
  client, so all other copies are duplicates. A commit is a run of first copies of different
  clients, since each waits for its answer, and maps to Bank's execution of these requests. Facts
  about folds need induction, which goes through a lemma made from facts about finite sets
  (`Induction`) that is instantiated with a set of numbers, not a predicate.

**Only model-checked**: the safety of replication where logs are compacted and snapshots sent
(runs `snapshots` and `stop`), `OverridesNothing` and `NoPanic` there included: a peer
may hold a snapshot of a later term than its own (see `LogsMatch`), which the invariants would have to
follow, and what was cut off at one peer exists only in calls and logs of others. `AgreeOnSnapshot`,
for the same reason. `NoNeedlessElection` and `LeaderStaysValid` depend on how heartbeats fall into
rounds, and on the one fault that the instance allows. Liveness (`EveryActionEnds`,
`RequestsEnd`, `StoppedPeerWindsDown`) is out of TLAPS's reach.

## Not modelled

- `rpccore/channel.go`: the sleep of a stopped peer's callback, since no peer of Lease is stopped;
  Node.Shutdown, which closes a node's channel, and the panic of a send that
  races it (`:47`). `rpccore/tcp.go` only as far as its server executes every request it reads.
- A peer that is made anew on the storage of one that was shut down (`simulation/local.go:321`).
- Timer lengths outside Lease; the length of the client's back-off.
- The answer that HandleClientRequest gives, which only tests read.
- Errors of storage operations; encoding (gob) and configuration; command lines; the scripts of
  `functests/`; `EmptyStateMachine`.

## Plan

In order of importance; what precedes this point is done.

1. The proofs of ReplicationProofs with compaction, as long as no snapshot is sent. Beyond the
   present invariants that takes a history of committed entries, since what a compacted log
   no longer shows still has to agree with the others.
2. ResetPeer: two generations of a peer on one storage; Node.Shutdown of the in-process network.
3. Storage whose saves may fail.
4. Five peers and a peer that leads twice, for the stale acknowledgement of
   `append_entry.go:179`.

---------------------------- MODULE Transactions ----------------------------
(***************************************************************************)
(* The transaction system: the clients of src/client, the handlers of      *)
(* src/raft/client_request.go, and the state machines of Accounts, over    *)
(* the log that the peers of src/raft keep.                                *)
(*                                                                         *)
(* Of the peers only what their clients can tell is modelled.  There is    *)
(* one sequence of committed entries, of which each state machine is fed a *)
(* prefix; what a log holds past it may yet be lost.  A leader that was    *)
(* deposed goes on until it hears of it, and answers reads until its lease *)
(* runs out.                                                               *)
(***************************************************************************)
EXTENDS Accounts, FiniteSets, Sequences, SequencesExt

CONSTANTS
  Server,       \* the node IDs of the peers
  Nil,          \* a nil pointer
  NoOp,         \* the nil command of a new leader
  Script,       \* Script[c]: the actions c executes, one after the other
  Checks,       \* maxCheckCountBeforeRetry
  LateClients,  \* whose requests may be appended after they gave up on them
  \* bounds of a finite instance:
  MaxTerm,      \* how many leaders are elected
  MaxTail,      \* how many entries a log holds past the committed ones
  MaxResends,   \* how often clients send again a request the leader has
  MaxQueries    \* how often a client queries a balance

ASSUME TransactionsAssumption ==
  /\ Nil \notin Server /\ NoOp \notin Action
  /\ LateClients \subseteq Client /\ Checks \in Nat \ {0}
  /\ \A c \in Client : Script[c] \in Seq(Action)
  /\ \A c \in Client : \A i, j \in DOMAIN Script[c] :
       /\ Script[c][i].client = c
       /\ Script[c][i].id = Script[c][j].id => i = j
  /\ {MaxTerm, MaxTail, MaxResends, MaxQueries} \subseteq Nat

VARIABLES
  committed,  \* the committed entries
  tail,       \* tail[s]: what the log of s holds past them
  term,       \* the term of the latest leader
  leads,      \* leads[s]: the term s is the leader of, 0 for none
  hint,       \* hint[s]: p.leaderID of s
  applied,    \* applied[s]: how many committed entries s has applied
  machine,    \* machine[s]: its state machine
  pending,    \* requests received, or still on their way, and not yet appended
  core,       \* core[c]: the ClientCore of c and where c is
  resends,    \* such resends so far (a bound, nothing in the code)
  answers,    \* answers[c]: whether each action that is over failed
  \* history, read by no action:
  executed,   \* the state machine of all the committed entries, and for each
              \*   client which of its requests failed when first executed
  saw,        \* saw[c]: how many entries the state that answered c had applied,
  sawLeast    \*   and sawLeast[c]: how many the answer to its last action had;
              \*   kept where there are queries to compare

serverVars == <<committed, tail, term, leads, hint, applied, machine,
                executed>>
clientVars == <<core, resends, answers, saw, sawLeast>>
vars == <<serverVars, pending, clientVars>>

-----------------------------------------------------------------------------
\* what a state machine makes of an entry

Feed(t, e) == IF e.cmd = NoOp THEN t ELSE ApplyAction(t, e.cmd)

FeedAll(t, es) == FoldLeft(Feed, t, es)

\* for the history: what became of it, when it was not a copy
Note(h, e) ==
  [machine  |-> Feed(h.machine, e),
   outcomes |-> IF e.cmd = NoOp \/ IsDuplicate(h.machine, e.cmd) THEN h.outcomes
                ELSE [h.outcomes EXCEPT ![e.cmd.client] =
                        Append(@, Rejects(h.machine.data, e.cmd))]]

NoteAll(h, es) == FoldLeft(Note, h, es)

-----------------------------------------------------------------------------
\* clients

Busy(c) == Len(answers[c]) < Len(Script[c])
Current(c) == Script[c][Len(answers[c]) + 1]

Idle == [pc |-> "send", leader |-> Nil, checks |-> 0, queries |-> 0]

\* The peers have elected a first leader, whichever, and follow it.
FirstLeader == CHOOSE s \in Server : TRUE

Init ==
  /\ committed = <<[term |-> 1, cmd |-> NoOp]>>
  /\ tail = [s \in Server |-> <<>>]
  /\ term = 1
  /\ leads = [s \in Server |-> IF s = FirstLeader THEN 1 ELSE 0]
  /\ hint = [s \in Server |-> FirstLeader]
  /\ applied = [s \in Server |-> 1]
  /\ machine = [s \in Server |-> EmptyTSM]
  /\ executed = [machine |-> EmptyTSM, outcomes |-> [c \in Client |-> <<>>]]
  /\ pending = {}
  /\ core = [c \in Client |-> Idle]
  /\ resends = 0
  /\ answers = [c \in Client |-> <<>>]
  /\ saw = [c \in Client |-> 0]
  /\ sawLeast = [c \in Client |-> 0]

IsLatest(s) == leads[s] = term

-----------------------------------------------------------------------------
\* the peers

(***************************************************************************)
(* The majority voters elects s, whose log holds every committed entry,    *)
(* and none of them leads any more.  Its nil entry is appended.            *)
(***************************************************************************)
Elect(s) ==
  /\ term < MaxTerm
  /\ term' = term + 1
  /\ \E voters \in SUBSET Server :
       /\ s \in voters /\ 2 * Cardinality(voters) > Cardinality(Server)
       /\ leads' = [q \in Server |-> IF q = s THEN term + 1
                                    ELSE IF q \in voters THEN 0 ELSE leads[q]]
  /\ hint' = [hint EXCEPT ![s] = Nil]
  /\ tail' = [tail EXCEPT ![s] = Append(@, [term |-> term + 1, cmd |-> NoOp])]
  /\ UNCHANGED <<committed, applied, machine, executed, pending, clientVars>>

\* s hears from the latest leader: it receives entries, and learns of commits
Follow(s) ==
  \E l \in Server \ {s} :
    /\ IsLatest(l)
    /\ leads' = [leads EXCEPT ![s] = 0]
    /\ hint' = [hint EXCEPT ![s] = l]
    /\ \E n \in 0 .. Len(tail[l]) :
         tail' = [tail EXCEPT ![s] = IF IsPrefix(SubSeq(tail[l], 1, n), @) THEN @
                                     ELSE SubSeq(tail[l], 1, n)]
    /\ applied' = [applied EXCEPT ![s] = IF applied[l] > @ THEN applied[l] ELSE @]
    /\ machine' = [machine EXCEPT ![s] = IF applied[l] > applied[s] THEN machine[l] ELSE @]
    /\ UNCHANGED <<committed, term, executed, pending, clientVars>>

\* Mutant: a log keeps what it holds in the place of committed entries.
TailAfter_KeepsConflicts(first, log) ==
  IF IsPrefix(first, log) THEN SubSeq(log, Len(first) + 1, Len(log)) ELSE log

\* what the tail of a log becomes when the entries first are committed: a log that
\* differs in them loses what it holds
TailAfter(first, log) ==
  IF IsPrefix(first, log) THEN SubSeq(log, Len(first) + 1, Len(log)) ELSE <<>>

\* onReceiveClientRequest of s has counted a majority that holds the first n
\* entries of its tail, the last of them of its term
UpdateCommitIndex(s) ==
  /\ IsLatest(s)
  /\ \E n \in 1 .. Len(tail[s]) :
       LET first == SubSeq(tail[s], 1, n)
       IN /\ tail[s][n].term = term
          /\ committed' = committed \o first
          /\ tail' = [q \in Server |-> TailAfter(first, tail[q])]
          /\ applied' = [applied EXCEPT ![s] = Len(committed) + n]
          /\ machine' = [machine EXCEPT ![s] =
                FeedAll(@, SubSeq(committed \o first, applied[s] + 1,
                                  Len(committed) + n))]
          /\ executed' = NoteAll(executed, first)
  /\ UNCHANGED <<term, leads, hint, pending, clientVars>>

\* onReceiveClientRequest appends a command
AppendEntry(s, cmd) ==
  /\ Len(tail[s]) < MaxTail
  /\ tail' = [tail EXCEPT ![s] = Append(@, [term |-> leads[s], cmd |-> cmd])]
  /\ UNCHANGED <<committed, term, leads, hint, applied, machine, executed>>

\* the goroutine that handleClientActionRequest started gets to run, or a
\* request reaches s late
RunPending(m) ==
  /\ pending' = pending \ {m}
  /\ IF leads[m.server] > 0
       THEN AppendEntry(m.server, m.cmd)
       ELSE UNCHANGED serverVars
  /\ UNCHANGED clientVars

-----------------------------------------------------------------------------
\* ClientCore

\* Mutant: the leader that did not answer is asked again.
LogErrAndBackoff_KeepsLeader(c, next) == core' = [core EXCEPT ![c] = next]

\* the leader is forgotten, and next is where c goes on
LogErrAndBackoff(c, next) == core' = [core EXCEPT ![c] = [next EXCEPT !.leader = Nil]]

\* isValidLeader: a leader, deposed or not, may have heard from a majority lately;
\* any leader may find that it has not, and then declines.
MayAnswer(s) == leads[s] > 0

\* the leaders that s may name
HandleClientLeaderRequest(s) ==
  {l \in Server : (l = s /\ MayAnswer(s)) \/ l = hint[s]}

\* the state machine that s answers a query from, or none
HandleClientQueryRequest(s) == IF MayAnswer(s) THEN {machine[s]} ELSE {}

\* lookForLeader asks s, and s answers
LookForLeader(c, s) ==
  /\ Busy(c) \/ core[c].pc = "query"
  /\ core[c].leader = Nil
  /\ \E l \in HandleClientLeaderRequest(s) : core' = [core EXCEPT ![c].leader = l]
  /\ UNCHANGED <<resends, serverVars, pending, answers, saw, sawLeast>>

\* does the latest leader have the request c waits for?
InFlight(c) ==
  LET Has(es) == \E i \in DOMAIN es : es[i].cmd = Current(c)
  IN Has(committed) \/ \E s \in Server : IsLatest(s) /\ Has(tail[s])

\* c would send again; it may always do so when it has to
MayResend(c) == InFlight(c) => resends < MaxResends
SpendResend(c) == resends' = IF InFlight(c) THEN resends + 1 ELSE resends

\* the leader s is sent the action of c, and starts to work on it
StartRequest(c, s) ==
  IF c \in LateClients
    THEN /\ pending' = pending \cup {[server |-> s, cmd |-> Current(c)]}
         /\ UNCHANGED serverVars
    ELSE AppendEntry(s, Current(c)) /\ UNCHANGED pending

\* sendActionRequest, answered that the action was started
SendActionRequest(c) ==
  LET s == core[c].leader
  IN /\ Busy(c) /\ core[c].pc = "send" /\ s # Nil
     /\ MayAnswer(s)
     /\ StartRequest(c, s)
     /\ core' = [core EXCEPT ![c].pc = "check", ![c].checks = 0]
     /\ UNCHANGED <<resends, answers, saw, sawLeast>>

\* sendActionRequest fails: declined, or the reply lost, or the request late
SendActionRequestFails(c) ==
  LET s == core[c].leader
  IN /\ Busy(c) /\ core[c].pc = "send" /\ s # Nil
     /\ \/ LogErrAndBackoff(c, core[c]) /\ UNCHANGED <<serverVars, pending, resends>>
        \/ /\ resends < MaxResends /\ resends' = resends + 1
           /\ LogErrAndBackoff(c, core[c])
           /\ MayAnswer(s) \/ c \in LateClients
           /\ StartRequest(c, s)
     /\ UNCHANGED <<answers, saw, sawLeast>>

\* checkActionRequest finds that the action was executed
CheckSucceeds(c) ==
  LET s == core[c].leader
  IN /\ Busy(c) /\ core[c].pc = "check" /\ s # Nil
     /\ \E t \in HandleClientQueryRequest(s) : \E info \in QueryLatestRequest(t, c) :
          /\ info.id = Current(c).id
          /\ answers' = [answers EXCEPT ![c] = Append(@, info.failed)]
     /\ core' = [core EXCEPT ![c] = [Idle EXCEPT !.leader = s,
                                                !.queries = core[c].queries]]
     /\ IF MaxQueries = 0
          THEN UNCHANGED <<saw, sawLeast>>
          ELSE /\ saw' = [saw EXCEPT ![c] = applied[s]]
               /\ sawLeast' = [sawLeast EXCEPT ![c] = applied[s]]
     /\ UNCHANGED <<resends, serverVars, pending>>

\* checkActionRequest fails, or finds no such request; after maxCheckCount-
\* BeforeRetry checks the action is sent again
CheckFails(c) ==
  LET s == core[c].leader
  IN /\ Busy(c) /\ core[c].pc = "check" /\ s # Nil
     /\ \/ /\ core[c].checks + 1 < Checks
           /\ LogErrAndBackoff(c, [core[c] EXCEPT !.checks = @ + 1])
           /\ UNCHANGED resends
        \/ /\ core[c].checks + 1 = Checks /\ MayResend(c)
           /\ LogErrAndBackoff(c, [core[c] EXCEPT !.pc = "send", !.checks = 0])
           /\ SpendResend(c)
        \/ /\ core[c].checks + 1 = Checks /\ ~MayResend(c)
           /\ LogErrAndBackoff(c, core[c])
           /\ UNCHANGED resends
     /\ UNCHANGED <<serverVars, pending, answers, saw, sawLeast>>

\* after an action, a client may look at a balance
StartQuery(c) ==
  /\ core[c].pc = "send" /\ core[c].queries < MaxQueries /\ answers[c] # <<>>
  /\ core' = [core EXCEPT ![c].pc = "query", ![c].queries = @ + 1]
  /\ UNCHANGED <<resends, serverVars, pending, answers, saw, sawLeast>>

\* ExecuteQueryRequest: a valid leader answers from its own state machine,
\* whatever that was fed.  The action before it was answered from sawLeast entries.
ExecuteQueryRequest(c) ==
  LET s == core[c].leader
  IN /\ core[c].pc = "query" /\ s # Nil
     /\ HandleClientQueryRequest(s) # {}
     /\ core' = [core EXCEPT ![c].pc = "send"]
     /\ saw' = [saw EXCEPT ![c] = applied[s]]
     /\ UNCHANGED <<resends, serverVars, pending, answers, sawLeast>>

ExecuteQueryRequestFails(c) ==
  /\ core[c].pc = "query" /\ core[c].leader # Nil
  /\ LogErrAndBackoff(c, core[c])
  /\ UNCHANGED <<resends, serverVars, pending, answers, saw, sawLeast>>

Next ==
  \/ \E s \in Server : \/ Elect(s)
                       \/ Follow(s)
                       \/ UpdateCommitIndex(s)
  \/ \E m \in pending : RunPending(m)
  \/ \E c \in Client : \/ SendActionRequest(c)
                       \/ SendActionRequestFails(c)
                       \/ CheckSucceeds(c)
                       \/ CheckFails(c)
                       \/ StartQuery(c)
                       \/ ExecuteQueryRequest(c)
                       \/ ExecuteQueryRequestFails(c)
  \/ \E c \in Client, s \in Server : LookForLeader(c, s)

(***************************************************************************)
(* Goroutines run and messages arrive.  Of a client that keeps asking, some *)
(* calls reach the latest leader and come back.                            *)
(***************************************************************************)
ToLatest(c) == core[c].leader # Nil /\ IsLatest(core[c].leader)

Fairness ==
  /\ WF_vars(\E s \in Server : Elect(s))
  /\ \A s \in Server : /\ WF_vars(Follow(s))
                       /\ WF_vars(UpdateCommitIndex(s))
  /\ \A c \in Client :
       /\ WF_vars(\E s \in Server : LookForLeader(c, s))
       /\ SF_vars(\E s \in Server : IsLatest(s) /\ LookForLeader(c, s))
       /\ SF_vars(ToLatest(c) /\ SendActionRequest(c))
       /\ SF_vars(ToLatest(c) /\ CheckSucceeds(c))
       /\ SF_vars(ToLatest(c) /\ ExecuteQueryRequest(c))
       /\ WF_vars(SendActionRequestFails(c))
       /\ WF_vars(CheckFails(c))
       /\ WF_vars(ExecuteQueryRequestFails(c))

Spec == Init /\ [][Next]_vars /\ Fairness

-----------------------------------------------------------------------------
\* which of its client's actions is it?
Turn(cmd) ==
  CHOOSE n \in DOMAIN Script[cmd.client] : Script[cmd.client][n] = cmd

\* In every log, the copies of a client's requests stand in the order the client
\* submitted them, whichever leaders it sent them to: so the one request that
\* a state machine remembers of a client is enough to tell a copy.
LogsInOrder ==
  \A s \in Server :
    LET log == committed \o tail[s]
    IN \A i, j \in DOMAIN log :
         /\ i < j /\ log[i].cmd # NoOp /\ log[j].cmd # NoOp
         /\ log[i].cmd.client = log[j].cmd.client
         => Turn(log[i].cmd) <= Turn(log[j].cmd)

\* No balance is ever negative, nor larger than an int, on any state machine.
BalancesInRange ==
  \A s \in Server : \A k \in DOMAIN machine[s].data : machine[s].data[k] \in Balance

TheBank == INSTANCE Bank WITH balances <- executed.machine.data, outcomes <- executed.outcomes

\* A request is executed once, at one instant between its submission and its
\* answer, and the client is told what came of it: whatever is lost, sent
\* again, or handled by a leader that is none any more.
ImplementsBank == TheBank!Spec

\* A client that keeps trying is answered, once leaders stop changing.
EveryActionEnds == \A c \in Client : <>[](~Busy(c))

\* A balance that a valid leader answers with reflects the actions that client
\* has been told are done: isValidLeader "checks if the peer is still a valid
\* leader when received read request" (peer.go:261).
ReadsOwnWrites == \A c \in Client : saw[c] >= sawLeast[c]

=============================================================================

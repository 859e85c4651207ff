-------------------------------- MODULE Bank --------------------------------
(***************************************************************************)
(* What the transaction system promises its clients: each request of a     *)
(* client is executed once, at one instant between its submission and its  *)
(* answer, and the answer is the outcome of that execution.                *)
(***************************************************************************)
EXTENDS Accounts, Sequences, SequencesExt

CONSTANT Script   \* Script[c]: the requests c submits, one after the other

VARIABLES
  balances,  \* the balances
  outcomes,  \* outcomes[c]: did they fail, for the requests of c executed so far?
  answers    \* answers[c]: what c was told of the requests that are over

vars == <<balances, outcomes, answers>>

Init ==
  /\ balances = EmptyMap
  /\ outcomes = [c \in Client |-> <<>>]
  /\ answers = [c \in Client |-> <<>>]

\* c has a request that is submitted and not executed
Submitted(c) ==
  /\ Len(outcomes[c]) = Len(answers[c])
  /\ Len(answers[c]) < Len(Script[c])

\* the next request of c, on balances b
Result(b, c) ==
  LET a == Script[c][Len(outcomes[c]) + 1]
  IN [failed |-> Rejects(b, a), data |-> IF Rejects(b, a) THEN b ELSE Execute(b, a)]

\* one request each of some clients, in some order
ExecuteRequests(cs) ==
  LET before[i \in 1 .. Len(cs) + 1] ==
        IF i = 1 THEN balances ELSE Result(before[i - 1], cs[i - 1]).data
      of(c) == CHOOSE i \in 1 .. Len(cs) : cs[i] = c
  IN /\ \A i \in 1 .. Len(cs) : Submitted(cs[i])
     /\ balances' = before[Len(cs) + 1]
     /\ outcomes' = [c \in Client |->
                       IF c \in Range(cs)
                         THEN Append(outcomes[c], Result(before[of(c)], c).failed)
                         ELSE outcomes[c]]
     /\ UNCHANGED answers

\* c is told the outcome of its request
Reply(c) ==
  /\ Len(answers[c]) < Len(outcomes[c])
  /\ answers' = [answers EXCEPT ![c] = Append(@, outcomes[c][Len(@) + 1])]
  /\ UNCHANGED <<balances, outcomes>>

Next ==
  \/ \E C \in SUBSET Client : \E cs \in SetToSeqs(C) : ExecuteRequests(cs)
  \/ \E c \in Client : Reply(c)

Spec == Init /\ [][Next]_vars

=============================================================================

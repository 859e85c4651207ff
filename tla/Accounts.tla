------------------------------ MODULE Accounts ------------------------------
(***************************************************************************)
(* The transaction state machine of src/sm/transaction.go: a map of        *)
(* balances and, for each client, the request it was last fed.             *)
(*                                                                         *)
(* Balances are Go ints.  MaxInt is the largest one; a sum that leaves the *)
(* range wraps around.  An error message is kept as the fact that there is *)
(* one.                                                                    *)
(***************************************************************************)
EXTENDS Integers

CONSTANTS Account,  \* the keys of TSM.Data
          Client,   \* the client IDs
          MaxInt    \* the largest value of an int

ASSUME MaxIntAssumption == MaxInt \in Nat

Int_ == -MaxInt - 1 .. MaxInt
Balance == 0 .. MaxInt

\* a request ID only ever is compared with another
Action == [action : {"set", "incr", "move"}, target : Account, source : Account,
           value : Int_, client : Client, id : Nat]

\* the builders of TSMActionBuilder; only a move has a source
TSMActionSetValue(c, id, k, v) ==
  [action |-> "set", target |-> k, source |-> k, value |-> v, client |-> c, id |-> id]
TSMActionIncrValue(c, id, k, v) ==
  [TSMActionSetValue(c, id, k, v) EXCEPT !.action = "incr"]
TSMActionMoveValue(c, id, source, target, v) ==
  [TSMActionSetValue(c, id, target, v) EXCEPT !.action = "move", !.source = source]

\* a Go map: a function on the keys that are present
Map(K, V) == UNION {[D -> V] : D \in SUBSET K}

RequestInfo == [id : Nat, failed : BOOLEAN]

TSM == [data : Map(Account, Balance), latest : Map(Client, RequestInfo)]

EmptyMap == [k \in {} |-> 0]
EmptyTSM == [data |-> EmptyMap, latest |-> EmptyMap]

Put(m, k, v) == [x \in DOMAIN m \cup {k} |-> IF x = k THEN v ELSE m[x]]

\* the sum, or difference, of two ints
Wrap(n) == IF n > MaxInt THEN n - 2 * (MaxInt + 1)
           ELSE IF n < -MaxInt - 1 THEN n + 2 * (MaxInt + 1)
           ELSE n

\* Mutant: the test is made on the exact sum, which an int may not hold.
GoesNegative_Exact(n) == n < 0

\* the test that refuses an overdraft; a sum that overflows is refused with it
GoesNegative(n) == Wrap(n) < 0

-----------------------------------------------------------------------------
RejectsSet(a) == a.value < 0

RejectsIncr(data, a) ==
  \/ a.target \notin DOMAIN data
  \/ GoesNegative(data[a.target] + a.value)

RejectsMove(data, a) ==
  \/ a.source \notin DOMAIN data
  \/ a.target \notin DOMAIN data
  \/ a.source = a.target
  \/ GoesNegative(data[a.source] - a.value)
  \/ GoesNegative(data[a.target] + a.value)

Rejects(data, a) ==
  \/ a.action = "set"  /\ RejectsSet(a)
  \/ a.action = "incr" /\ RejectsIncr(data, a)
  \/ a.action = "move" /\ RejectsMove(data, a)

\* what an action that is not rejected does to the balances
Execute(data, a) ==
  IF a.action = "set"       THEN Put(data, a.target, a.value)
  ELSE IF a.action = "incr" THEN Put(data, a.target, Wrap(data[a.target] + a.value))
  ELSE Put(Put(data, a.source, Wrap(data[a.source] - a.value)),
           a.target, Wrap(data[a.target] + a.value))

\* Mutant: a request the client repeats is executed again.
IsDuplicate_Never(t, a) == FALSE

\* is a the request this client was last fed?
IsDuplicate(t, a) == a.client \in DOMAIN t.latest /\ t.latest[a.client].id = a.id

\* ApplyAction
ApplyAction(t, a) ==
  IF IsDuplicate(t, a) THEN t
  ELSE [data   |-> IF Rejects(t.data, a) THEN t.data ELSE Execute(t.data, a),
        latest |-> Put(t.latest, a.client,
                       [id |-> a.id, failed |-> Rejects(t.data, a)])]

\* Query for the latest request of c: its info, or none
QueryLatestRequest(t, c) == IF c \in DOMAIN t.latest THEN {t.latest[c]} ELSE {}

=============================================================================

--------------------------- MODULE MCTransactions ---------------------------
(***************************************************************************)
(* Finite instances of Transactions: two clients whose requests succeed or *)
(* fail by the order they are executed in, on balances of at most 2.       *)
(***************************************************************************)
EXTENDS Transactions

CONSTANTS c1, c2, x, y

\* what comes of each depends on which of the others came before it
TwoClients ==
  (c1 :> <<TSMActionSetValue(c1, 1, x, 2), TSMActionIncrValue(c1, 2, x, 1)>>)
  @@ (c2 :> <<TSMActionIncrValue(c2, 1, x, -1)>>)

\* the second fails
OneClient == c1 :> <<TSMActionSetValue(c1, 1, x, 1), TSMActionMoveValue(c1, 2, x, y, 1)>>

=============================================================================

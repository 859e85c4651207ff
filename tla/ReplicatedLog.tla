--------------------------- MODULE ReplicatedLog ---------------------------
(***************************************************************************)
(* What the peers of src/raft promise to the state machines on top of      *)
(* them: one sequence of commands that only grows, of which each state     *)
(* machine is fed a prefix that only grows, whatever crashes and whoever   *)
(* leads.  Transactions builds on it.                                      *)
(***************************************************************************)
EXTENDS Naturals, Sequences

CONSTANTS Server, Value

VARIABLES
  decided,   \* the commands that are committed
  applied    \* applied[p]: what the state machine of p was fed

vars == <<decided, applied>>

Init == decided = <<>> /\ applied = [p \in Server |-> <<>>]

Extends(s, t) == Len(s) >= Len(t) /\ SubSeq(s, 1, Len(t)) = t

\* commands are committed; p is the first to know
Decide(p) ==
  /\ decided' # decided /\ Extends(decided', decided)
  /\ decided' \in Seq(Value)
  /\ applied' = [applied EXCEPT ![p] = decided']

\* p is fed more of what is committed
Learn(p) ==
  /\ applied'[p] # applied[p] /\ applied'[p] \in Seq(Value)
  /\ Extends(applied'[p], applied[p]) /\ Extends(decided, applied'[p])
  /\ applied' = [applied EXCEPT ![p] = applied'[p]]
  /\ UNCHANGED decided

Next == \E p \in Server : Decide(p) \/ Learn(p)

Spec == Init /\ [][Next]_vars

-----------------------------------------------------------------------------
\* what it means for the state machines

\* No two of them are fed different commands at the same place.
Agreement ==
  \A p, q \in Server : Extends(applied[p], applied[q]) \/ Extends(applied[q], applied[p])

\* Nothing that one of them was fed, and nothing that is committed, is taken back.
TakesNothingBack == /\ Extends(decided', decided)
                    /\ \A p \in Server : Extends(applied'[p], applied[p])

NothingIsTakenBack == [][TakesNothingBack]_vars

=============================================================================

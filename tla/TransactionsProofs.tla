------------------------- MODULE TransactionsProofs -------------------------
(***************************************************************************)
(* What holds of the transaction system for any clients, scripts, peers    *)
(* and ints: a step of the state machine, the types and balances, the      *)
(* order of requests in logs, and that clients see a Bank.                 *)
(*                                                                         *)
(* Logs are good when every command in them is one its client has to       *)
(* submit, and the copies of its commands are in order with none left out. *)
(* They stay so, since a client waits for an answer before it goes on      *)
(* (LogInv).  A state machine that is fed a good log remembers of each     *)
(* client the latest command executed (Reflects), so that every other copy *)
(* is a duplicate; and a check that succeeds has found the command that    *)
(* its client waits for (CheckFinds).  State machines are folds of Feed,   *)
(* and the history of Note, over the entries they were fed (MachineInv);   *)
(* a commit is a run of commands of different clients (Runs).              *)
(***************************************************************************)
EXTENDS Transactions, TLAPS, FiniteSetTheorems, FunctionTheorems

USE MaxIntAssumption

\* A sum of two ints that is let through as it is not negative has not wrapped.
LEMMA NoWrap ==
  ASSUME NEW b \in Balance, NEW v \in Int_
  PROVE  /\ ~GoesNegative(b + v) => Wrap(b + v) = b + v /\ b + v \in Balance
         /\ ~GoesNegative(b - v) => Wrap(b - v) = b - v /\ b - v \in Balance
  BY DEF Balance, Int_, GoesNegative, Wrap

LEMMA PutType ==
  ASSUME NEW K, NEW V, NEW m \in Map(K, V), NEW k \in K, NEW v \in V
  PROVE  Put(m, k, v) \in Map(K, V)
<1>1. PICK D \in SUBSET K : m \in [D -> V]
  BY DEF Map
<1>2. DOMAIN m = D /\ D \cup {k} \in SUBSET K
  BY <1>1
<1>3. Put(m, k, v) \in [D \cup {k} -> V]
  BY <1>1, <1>2 DEF Put
<1> QED
  BY <1>2, <1>3 DEF Map

\* An action that is not rejected leaves balances that an int can hold, none of
\* them negative.
LEMMA ExecuteType ==
  ASSUME NEW data \in Map(Account, Balance), NEW a \in Action, ~Rejects(data, a)
  PROVE  Execute(data, a) \in Map(Account, Balance)
<1> a.target \in Account /\ a.source \in Account /\ a.value \in Int_
    /\ a.action \in {"set", "incr", "move"}
  BY DEF Action
<1>0. \A k \in DOMAIN data : data[k] \in Balance
  BY DEF Map
<1>1. CASE a.action = "set"
  <2>1. a.value \in Balance
    BY <1>1 DEF Rejects, RejectsSet, Int_, Balance
  <2>2. Put(data, a.target, a.value) \in Map(Account, Balance)
    BY <2>1, PutType
  <2> QED
    BY <2>2, <1>1 DEF Execute
<1>2. CASE a.action = "incr"
  <2>1. a.target \in DOMAIN data /\ ~GoesNegative(data[a.target] + a.value)
    BY <1>2 DEF Rejects, RejectsIncr
  <2>2. Wrap(data[a.target] + a.value) \in Balance
    BY <2>1, <1>0, NoWrap
  <2>3. Put(data, a.target, Wrap(data[a.target] + a.value)) \in Map(Account, Balance)
    BY <2>2, PutType
  <2> QED
    BY <2>3, <1>2 DEF Execute
<1>3. CASE a.action = "move"
  <2>1. /\ a.source \in DOMAIN data /\ ~GoesNegative(data[a.source] - a.value)
        /\ a.target \in DOMAIN data /\ ~GoesNegative(data[a.target] + a.value)
    BY <1>3 DEF Rejects, RejectsMove
  <2> DEFINE paid == Put(data, a.source, Wrap(data[a.source] - a.value))
  <2>2. /\ Wrap(data[a.source] - a.value) \in Balance
        /\ Wrap(data[a.target] + a.value) \in Balance
    BY <2>1, <1>0, NoWrap
  <2>3. paid \in Map(Account, Balance)
    BY <2>2, PutType
  <2> HIDE DEF paid
  <2>4. Put(paid, a.target, Wrap(data[a.target] + a.value)) \in Map(Account, Balance)
    BY <2>2, <2>3, PutType
  <2> QED
    BY <2>4, <1>3 DEF Execute, paid
<1> QED
  BY <1>1, <1>2, <1>3

\* A state machine stays one, whatever it is fed: no balance is ever negative or
\* too large for an int (the tests of transaction.go:71, 82, 103 and 108).
THEOREM ApplyActionType ==
  ASSUME NEW t \in TSM, NEW a \in Action
  PROVE  ApplyAction(t, a) \in TSM
<1>1. /\ t.data \in Map(Account, Balance) /\ t.latest \in Map(Client, RequestInfo)
      /\ a.client \in Client /\ a.id \in Nat
  BY DEF TSM, Action
<1>2. CASE IsDuplicate(t, a)
  BY <1>2 DEF ApplyAction
<1>3. CASE ~IsDuplicate(t, a)
  <2> DEFINE data2 == IF Rejects(t.data, a) THEN t.data ELSE Execute(t.data, a)
             info  == [id |-> a.id, failed |-> Rejects(t.data, a)]
  <2>1. data2 \in Map(Account, Balance)
    BY <1>1, ExecuteType
  <2>2. info \in RequestInfo
    BY <1>1, Zenon DEF RequestInfo, Rejects, RejectsSet, RejectsIncr, RejectsMove, GoesNegative
  <2>3. ApplyAction(t, a) = [data |-> data2, latest |-> Put(t.latest, a.client, info)]
    BY <1>3 DEF ApplyAction
  <2> HIDE DEF data2, info
  <2>4. Put(t.latest, a.client, info) \in Map(Client, RequestInfo)
    BY <2>2, <1>1, PutType
  <2> QED
    BY <2>1, <2>3, <2>4 DEF TSM
<1> QED
  BY <1>2, <1>3

\* A transfer takes from one account what it gives to another, touches no third
\* one, and makes no account.
THEOREM MoveConserves ==
  ASSUME NEW t \in TSM, NEW a \in Action, a.action = "move",
         ~IsDuplicate(t, a), ~Rejects(t.data, a)
  PROVE  LET data2 == ApplyAction(t, a).data
         IN /\ DOMAIN data2 = DOMAIN t.data
            /\ data2[a.source] + data2[a.target] = t.data[a.source] + t.data[a.target]
            /\ \A k \in DOMAIN t.data \ {a.source, a.target} : data2[k] = t.data[k]
<1> DEFINE data == t.data
           s == a.source
           g == a.target
<1>0. data \in Map(Account, Balance) /\ a.value \in Int_
  BY DEF TSM, Action
<1>1. /\ s \in DOMAIN data /\ g \in DOMAIN data /\ s # g
      /\ ~GoesNegative(data[s] - a.value) /\ ~GoesNegative(data[g] + a.value)
  BY DEF Rejects, RejectsMove
<1>2. data[s] \in Balance /\ data[g] \in Balance
  BY <1>0, <1>1 DEF Map
<1>3. /\ Wrap(data[s] - a.value) = data[s] - a.value
      /\ Wrap(data[g] + a.value) = data[g] + a.value
  BY <1>0, <1>1, <1>2, NoWrap
<1>4. ApplyAction(t, a).data = Put(Put(data, s, data[s] - a.value), g, data[g] + a.value)
  BY <1>3 DEF ApplyAction, Execute
<1>5. /\ DOMAIN ApplyAction(t, a).data = DOMAIN data
      /\ ApplyAction(t, a).data[s] = data[s] - a.value
      /\ ApplyAction(t, a).data[g] = data[g] + a.value
      /\ \A k \in DOMAIN data \ {s, g} : ApplyAction(t, a).data[k] = data[k]
  BY <1>1, <1>4 DEF Put
<1>6. (data[s] - a.value) + (data[g] + a.value) = data[s] + data[g]
  BY <1>0, <1>2 DEF Balance, Int_
<1> QED
  BY <1>5, <1>6

\* A request that a client repeats at once, executed or rejected, changes nothing:
\* not a balance, and not what the client is told of it.
THEOREM RepeatIsIgnored ==
  ASSUME NEW t \in TSM, NEW a \in Action
  PROVE  ApplyAction(ApplyAction(t, a), a) = ApplyAction(t, a)
<1>1. IsDuplicate(ApplyAction(t, a), a)
  <2>1. CASE IsDuplicate(t, a)
    BY <2>1 DEF ApplyAction
  <2>2. CASE ~IsDuplicate(t, a)
    BY <2>2 DEF ApplyAction, IsDuplicate, Put
  <2> QED
    BY <2>1, <2>2
<1> QED
  BY <1>1 DEF ApplyAction

\* What other clients are told of their last requests is not touched.
THEOREM OthersKeepTheirAnswers ==
  ASSUME NEW t \in TSM, NEW a \in Action, NEW c \in DOMAIN t.latest, c # a.client
  PROVE  LET latest2 == ApplyAction(t, a).latest
         IN c \in DOMAIN latest2 /\ latest2[c] = t.latest[c]
  BY DEF ApplyAction, Put

HIDE MaxIntAssumption

-----------------------------------------------------------------------------
\* induction and folds

LEMMA Induction ==
  ASSUME NEW S, 0 \in S, \A n \in Nat : n \in S => n + 1 \in S
  PROVE  Nat \subseteq S
<1> SUFFICES ASSUME NEW x \in Nat, x \notin S PROVE FALSE
  OBVIOUS
<1> DEFINE U == {y \in 0 .. x : y \notin S}
           f == [y \in U |-> y - 1]
<1>1. IsFiniteSet(U) /\ x \in U /\ x + 1 \notin U
  <2>1. U \in SUBSET Nat /\ \A s \in U : s <= x
    OBVIOUS
  <2>2. x \in U /\ x + 1 \notin U
    OBVIOUS
  <2> HIDE DEF U
  <2> QED
    BY <2>1, <2>2, FS_BoundedSetOfNaturals
<1>2. f \in [U -> U]
  <2> SUFFICES ASSUME NEW y \in U PROVE y - 1 \in U
    OBVIOUS
  <2>1. y \in Nat /\ y # 0 /\ y <= x /\ y \notin S
    OBVIOUS
  <2>2. y - 1 \in Nat /\ y = (y - 1) + 1
    BY <2>1
  <2> QED
    BY <2>1, <2>2
<1>3. f \in Injection(U, U)
  <2>1. \A a, b \in U : f[a] = f[b] => a = b
    OBVIOUS
  <2> HIDE DEF f, U
  <2> QED
    BY <1>2, <2>1, Fun_IsInj
<1>4. f \in Surjection(U, U)
  <2> HIDE DEF U, f
  <2> QED
    BY <1>1, <1>3, FS_Injection
<1>5. PICK y \in U : f[y] = x
  BY <1>1, <1>4, Fun_SurjectionProperties
<1>6. y = x + 1
  BY <1>5
<1> QED
  BY <1>1, <1>6

LEMMA MaxOfPrefix ==
  ASSUME NEW n \in Nat, NEW s \in SUBSET (1 .. n), s # {}
  PROVE  Max(s) \in s /\ \A y \in s : Max(s) >= y
<1> DEFINE S == {k \in Nat : \A t \in SUBSET (1 .. k) : t # {} => \E x \in t : \A y \in t : x >= y}
<1>1. 0 \in S
  <2>1. 1 .. 0 = {}
    OBVIOUS
  <2> QED
    BY <2>1
<1>2. ASSUME NEW k \in Nat, k \in S PROVE k + 1 \in S
  <2> SUFFICES ASSUME NEW t \in SUBSET (1 .. k + 1), t # {}
               PROVE  \E x \in t : \A y \in t : x >= y
    OBVIOUS
  <2>1. CASE k + 1 \in t
    BY <2>1
  <2>2. CASE k + 1 \notin t
    <3>1. t \in SUBSET (1 .. k)
      BY <2>2
    <3> QED
      BY <3>1, <1>2
  <2> QED
    BY <2>1, <2>2
<1> HIDE DEF S
<1>3. n \in S
  BY <1>1, <1>2, Induction
<1>4. \E x \in s : \A y \in s : x >= y
  BY <1>3 DEF S
<1> QED
  BY <1>4 DEF Max

LEMMA MaxOfInterval ==
  ASSUME NEW n \in Nat
  PROVE  1 .. n + 1 # {} /\ Max(1 .. n + 1) = n + 1 /\ (1 .. n + 1) \ {n + 1} = 1 .. n
<1>1. n + 1 \in 1 .. n + 1
  OBVIOUS
<1>2. Max(1 .. n + 1) \in 1 .. n + 1 /\ Max(1 .. n + 1) >= n + 1
  <2>1. n + 1 \in Nat /\ 1 .. n + 1 \in SUBSET (1 .. n + 1) /\ 1 .. n + 1 # {}
    BY <1>1
  <2> QED
    BY <1>1, <2>1, MaxOfPrefix
<1> QED
  BY <1>1, <1>2

\* h is what FoldLeft recurses on, over the indices 1 .. n
IsFold(h, n, a, G) ==
  \A s \in SUBSET (1 .. n) : h[s] = IF s = {} THEN a ELSE G[<<Max(s), h[s \ {Max(s)}]>>]

\* The function that a fold over the first n indices recurses on exists.
LEMMA FoldExists ==
  ASSUME NEW n \in Nat, NEW A, NEW a \in A, NEW G \in [(1 .. n) \X A -> A]
  PROVE  \E h \in [SUBSET (1 .. n) -> A] : IsFold(h, n, a, G)
<1> DEFINE Solves(h, k) == \A s \in SUBSET (1 .. k) :
             h[s] = IF s = {} THEN a ELSE G[<<Max(s), h[s \ {Max(s)}]>>]
           S == {k \in Nat : k <= n => \E h \in [SUBSET (1 .. k) -> A] : Solves(h, k)}
<1>1. 0 \in S
  <2> DEFINE h0 == [s \in SUBSET (1 .. 0) |-> a]
  <2>1. h0 \in [SUBSET (1 .. 0) -> A] /\ Solves(h0, 0)
    OBVIOUS
  <2> QED
    BY <2>1
<1> HIDE DEF S
<1>2. ASSUME NEW k \in Nat, k \in S PROVE k + 1 \in S
  <2> HIDE DEF Solves
  <2>a. k + 1 \in Nat
    OBVIOUS
  <2> SUFFICES ASSUME k + 1 <= n
               PROVE  \E h \in [SUBSET (1 .. k + 1) -> A] : Solves(h, k + 1)
    BY <2>a DEF S
  <2>0. k <= n
    OBVIOUS
  <2> USE DEF Solves
  <2>1. PICK g \in [SUBSET (1 .. k) -> A] : Solves(g, k)
    BY <1>2, <2>0 DEF S
  <2> DEFINE h == [s \in SUBSET (1 .. k + 1) |->
                     IF k + 1 \in s THEN G[<<k + 1, g[s \ {k + 1}]>>] ELSE g[s]]
  <2>2. ASSUME NEW s \in SUBSET (1 .. k + 1), k + 1 \in s
        PROVE  /\ s \ {k + 1} \in SUBSET (1 .. k) /\ Max(s) = k + 1
               /\ g[s \ {k + 1}] \in A
               /\ h[s] = G[<<k + 1, g[s \ {k + 1}]>>] /\ h[s] \in A
               /\ h[s \ {k + 1}] = g[s \ {k + 1}]
    <3>1. s \ {k + 1} \in SUBSET (1 .. k) /\ s \ {k + 1} \in SUBSET (1 .. k + 1)
      OBVIOUS
    <3>2. Max(s) = k + 1
      <4>1. k + 1 \in Nat /\ s # {}
        BY <2>2
      <4>2. Max(s) \in s /\ Max(s) >= k + 1
        BY <2>2, <4>1, MaxOfPrefix
      <4>3. Max(s) \in 1 .. k + 1
        BY <4>2
      <4> QED
        BY <4>2, <4>3
    <3>3. g[s \ {k + 1}] \in A /\ k + 1 \in 1 .. n
      BY <3>1
    <3> QED
      BY <3>1, <3>2, <3>3, <2>2
  <2>3. ASSUME NEW s \in SUBSET (1 .. k + 1), k + 1 \notin s
        PROVE  /\ s \in SUBSET (1 .. k) /\ h[s] = g[s] /\ h[s] \in A
               /\ s # {} => s \ {Max(s)} \in SUBSET (1 .. k) /\ h[s \ {Max(s)}] = g[s \ {Max(s)}]
    <3>1. s \in SUBSET (1 .. k)
      BY <2>3
    <3>2. s \ {Max(s)} \in SUBSET (1 .. k) /\ s \ {Max(s)} \in SUBSET (1 .. k + 1)
      BY <3>1
    <3> QED
      BY <3>1, <3>2
  <2> HIDE DEF h
  <2>4. h \in [SUBSET (1 .. k + 1) -> A]
    BY <2>2, <2>3 DEF h
  <2>5. Solves(h, k + 1)
    <3> SUFFICES ASSUME NEW s \in SUBSET (1 .. k + 1)
                 PROVE  h[s] = IF s = {} THEN a ELSE G[<<Max(s), h[s \ {Max(s)}]>>]
      OBVIOUS
    <3>1. CASE k + 1 \in s
      BY <3>1, <2>2
    <3>2. CASE k + 1 \notin s
      BY <3>2, <2>3, <2>1
    <3> QED
      BY <3>1, <3>2
  <2> QED
    BY <2>4, <2>5
<1>3. n \in S
  BY <1>1, <1>2, Induction
<1>4. n <= n
  OBVIOUS
<1> QED
  BY <1>3, <1>4 DEF S, IsFold

LEMMA ChainsAgree ==
  ASSUME NEW n \in Nat, NEW m1, NEW m2, m1[0] = m2[0],
         \A k \in 0 .. n - 1 : m1[k] = m2[k] => m1[k + 1] = m2[k + 1]
  PROVE  m1[n] = m2[n]
<1> DEFINE S == {k \in Nat : k <= n => m1[k] = m2[k]}
<1>1. 0 \in S
  OBVIOUS
<1>2. ASSUME NEW k \in Nat, k \in S PROVE k + 1 \in S
  BY <1>2
<1> HIDE DEF S
<1>3. n \in S
  BY <1>1, <1>2, Induction
<1> QED
  BY <1>3 DEF S

Entry == [term : Nat, cmd : Action \cup {NoOp}]

LEMMA FeedType ==
  ASSUME NEW t \in TSM, NEW e \in Entry
  PROVE  Feed(t, e) \in TSM
  BY ApplyActionType DEF Feed, Entry

LEMMA FeedChain ==
  ASSUME NEW t \in TSM, NEW es \in Seq(Entry)
  PROVE  \E m \in [0 .. Len(es) -> TSM] :
           /\ m[0] = t /\ m[Len(es)] = FeedAll(t, es)
           /\ \A k \in 0 .. Len(es) - 1 : m[k + 1] = Feed(m[k], es[k + 1])
<1> DEFINE n == Len(es)
           D == DOMAIN es
           Solves(f) == f = [s \in SUBSET D |-> IF s = {} THEN t
                                                ELSE Feed(f[s \ {Max(s)}], es[Max(s)])]
           G == [p \in (1 .. n) \X TSM |-> Feed(p[2], es[p[1]])]
<1>1. n \in Nat /\ D = 1 .. n
  OBVIOUS
<1>2. FeedAll(t, es) = (CHOOSE f : Solves(f))[D]
  BY DEF FeedAll, FoldLeft, MapThenFoldSet
<1> HIDE DEF n, D
<1>3. PICK h \in [SUBSET D -> TSM] : \A s \in SUBSET D :
        h[s] = IF s = {} THEN t ELSE G[<<Max(s), h[s \ {Max(s)}]>>]
  <2>1. G \in [(1 .. n) \X TSM -> TSM]
    <3> SUFFICES ASSUME NEW p \in (1 .. n) \X TSM PROVE Feed(p[2], es[p[1]]) \in TSM
      OBVIOUS
    <3>1. es[p[1]] \in Entry
      BY <1>1 DEF D
    <3> QED
      BY <3>1, FeedType
  <2> HIDE DEF G
  <2>2. \E h \in [SUBSET (1 .. n) -> TSM] : IsFold(h, n, t, G)
    BY <2>1, <1>1, FoldExists
  <2> QED
    BY <2>2, <1>1 DEF IsFold
<1>4. \A s \in SUBSET D : s # {} => /\ Max(s) \in 1 .. n
                                    /\ h[s \ {Max(s)}] \in TSM
                                    /\ h[s] = Feed(h[s \ {Max(s)}], es[Max(s)])
  <2> SUFFICES ASSUME NEW s \in SUBSET D, s # {}
               PROVE  /\ Max(s) \in 1 .. n /\ h[s \ {Max(s)}] \in TSM
                      /\ h[s] = Feed(h[s \ {Max(s)}], es[Max(s)])
    OBVIOUS
  <2>1. Max(s) \in 1 .. n
    BY <1>1, MaxOfPrefix
  <2>2. s \ {Max(s)} \in SUBSET D
    OBVIOUS
  <2> QED
    BY <1>3, <2>1, <2>2
<1>5. Solves(h)
  BY <1>3, <1>4
<1> DEFINE f == CHOOSE f : Solves(f)
<1>6. Solves(f)
  BY <1>5
<1> HIDE DEF f
<1>7. f[1 .. 0] = t /\ \A k \in 0 .. n - 1 : f[1 .. k + 1] = Feed(f[1 .. k], es[k + 1])
  <2>1. 1 .. 0 = {} /\ 1 .. 0 \in SUBSET D
    OBVIOUS
  <2>2. ASSUME NEW k \in 0 .. n - 1 PROVE f[1 .. k + 1] = Feed(f[1 .. k], es[k + 1])
    <3>1. k \in Nat /\ 1 .. k + 1 \in SUBSET D
      BY <1>1
    <3>2. 1 .. k + 1 # {} /\ Max(1 .. k + 1) = k + 1 /\ (1 .. k + 1) \ {k + 1} = 1 .. k
      BY <3>1, MaxOfInterval
    <3> QED
      BY <3>1, <3>2, <1>6
  <2> QED
    BY <2>1, <2>2, <1>6
<1> DEFINE m == [k \in 0 .. n |-> f[1 .. k]]
<1>8. \A k \in 0 .. n : m[k] \in TSM
  <2> DEFINE S == {k \in Nat : k <= n => m[k] \in TSM}
  <2>1. 0 \in S
    BY <1>1, <1>7
  <2>2. ASSUME NEW k \in Nat, k \in S PROVE k + 1 \in S
    <3> SUFFICES ASSUME k + 1 <= n PROVE m[k + 1] \in TSM
      OBVIOUS
    <3>1. k \in 0 .. n - 1 /\ k + 1 \in D /\ k \in 0 .. n /\ k + 1 \in 0 .. n
      BY <1>1
    <3>2. m[k] \in TSM /\ es[k + 1] \in Entry
      BY <2>2, <3>1 DEF D
    <3> QED
      BY <3>1, <3>2, <1>7, FeedType
  <2> HIDE DEF S
  <2>3. Nat \subseteq S
    BY <2>1, <2>2, Induction
  <2> SUFFICES ASSUME NEW k \in 0 .. n PROVE m[k] \in TSM
    OBVIOUS
  <2> HIDE DEF m
  <2>4. k \in Nat /\ k <= n
    BY <1>1
  <2> QED
    BY <2>3, <2>4 DEF S
<1>9. f[D] = FeedAll(t, es)
  BY <1>2 DEF f
<1>10. /\ m \in [0 .. n -> TSM] /\ m[0] = t /\ m[n] = f[D]
       /\ \A k \in 0 .. n - 1 : m[k + 1] = Feed(m[k], es[k + 1])
  <2>1. \A k \in 0 .. n - 1 : k \in 0 .. n /\ k + 1 \in 0 .. n
    BY <1>1
  <2> QED
    BY <1>1, <1>7, <1>8, <2>1
<1> QED
  BY <1>9, <1>10 DEF n

LEMMA FeedNone ==
  ASSUME NEW t \in TSM
  PROVE  FeedAll(t, <<>>) = t
<1> DEFINE none == <<>>
<1>1. none \in Seq(Entry) /\ Len(none) = 0
  OBVIOUS
<1> HIDE DEF none
<1>2. PICK m \in [0 .. Len(none) -> TSM] :
        /\ m[0] = t /\ m[Len(none)] = FeedAll(t, none)
        /\ \A k \in 0 .. Len(none) - 1 : m[k + 1] = Feed(m[k], none[k + 1])
  BY <1>1, FeedChain
<1> QED
  BY <1>1, <1>2 DEF none

LEMMA FeedMore ==
  ASSUME NEW t \in TSM, NEW es \in Seq(Entry), NEW e \in Entry
  PROVE  FeedAll(t, Append(es, e)) = Feed(FeedAll(t, es), e)
<1> DEFINE n == Len(es)
           more == Append(es, e)
<1>1. /\ n \in Nat /\ more \in Seq(Entry) /\ Len(more) = n + 1 /\ more[n + 1] = e
      /\ \A k \in 0 .. n - 1 : more[k + 1] = es[k + 1]
  OBVIOUS
<1>2. PICK m1 \in [0 .. n -> TSM] :
        /\ m1[0] = t /\ m1[n] = FeedAll(t, es)
        /\ \A k \in 0 .. n - 1 : m1[k + 1] = Feed(m1[k], es[k + 1])
  BY FeedChain
<1> HIDE DEF more
<1>3. PICK m2 \in [0 .. n + 1 -> TSM] :
        /\ m2[0] = t /\ m2[n + 1] = FeedAll(t, more)
        /\ \A k \in 0 .. n : m2[k + 1] = Feed(m2[k], more[k + 1])
  <2>1. n + 1 - 1 = n
    BY <1>1
  <2> QED
    BY <1>1, <2>1, FeedChain
<1> HIDE DEF n
<1>4. m1[n] = m2[n]
  <2>1. \A k \in 0 .. n - 1 : m1[k] = m2[k] => m1[k + 1] = m2[k + 1]
    <3> TAKE k \in 0 .. n - 1
    <3>1. k \in 0 .. n
      BY <1>1
    <3> QED
      BY <1>1, <1>2, <1>3, <3>1
  <2> QED
    BY <1>1, <1>2, <1>3, <2>1, ChainsAgree
<1>5. m2[n + 1] = Feed(m2[n], e)
  BY <1>1, <1>3
<1> QED
  BY <1>2, <1>3, <1>4, <1>5 DEF more

Hist == [machine : TSM, outcomes : [Client -> Seq(BOOLEAN)]]

LEMMA NoteType ==
  ASSUME NEW past \in Hist, NEW e \in Entry
  PROVE  Note(past, e) \in Hist
<1>1. CASE e.cmd = NoOp
  BY <1>1 DEF Note, Feed, Hist
<1>2. CASE e.cmd # NoOp
  <2>1. e.cmd \in Action /\ e.cmd.client \in Client
    BY <1>2 DEF Entry, Action
  <2>2. Feed(past.machine, e) \in TSM
    BY FeedType DEF Hist
  <2>3. Rejects(past.machine.data, e.cmd) \in BOOLEAN
    BY Zenon DEF Rejects, RejectsSet, RejectsIncr, RejectsMove, GoesNegative
  <2> DEFINE r == Rejects(past.machine.data, e.cmd)
  <2> HIDE DEF r
  <2>4. [past.outcomes EXCEPT ![e.cmd.client] = Append(@, r)] \in [Client -> Seq(BOOLEAN)]
    BY <2>1, <2>3 DEF Hist, r
  <2> QED
    BY <1>2, <2>2, <2>4 DEF Note, Hist, r
<1> QED
  BY <1>1, <1>2

LEMMA NoteChain ==
  ASSUME NEW past \in Hist, NEW es \in Seq(Entry)
  PROVE  \E m \in [0 .. Len(es) -> Hist] :
           /\ m[0] = past /\ m[Len(es)] = NoteAll(past, es)
           /\ \A k \in 0 .. Len(es) - 1 : m[k + 1] = Note(m[k], es[k + 1])
<1> DEFINE n == Len(es)
           D == DOMAIN es
           Solves(f) == f = [s \in SUBSET D |-> IF s = {} THEN past
                                                ELSE Note(f[s \ {Max(s)}], es[Max(s)])]
           G == [p \in (1 .. n) \X Hist |-> Note(p[2], es[p[1]])]
<1>1. n \in Nat /\ D = 1 .. n
  OBVIOUS
<1>2. NoteAll(past, es) = (CHOOSE f : Solves(f))[D]
  BY DEF NoteAll, FoldLeft, MapThenFoldSet
<1> HIDE DEF n, D
<1>3. PICK h \in [SUBSET D -> Hist] : \A s \in SUBSET D :
        h[s] = IF s = {} THEN past ELSE G[<<Max(s), h[s \ {Max(s)}]>>]
  <2>1. G \in [(1 .. n) \X Hist -> Hist]
    <3> SUFFICES ASSUME NEW p \in (1 .. n) \X Hist PROVE Note(p[2], es[p[1]]) \in Hist
      OBVIOUS
    <3>1. es[p[1]] \in Entry
      BY <1>1 DEF D
    <3> QED
      BY <3>1, NoteType
  <2> HIDE DEF G
  <2>2. \E h \in [SUBSET (1 .. n) -> Hist] : IsFold(h, n, past, G)
    BY <2>1, <1>1, FoldExists
  <2> QED
    BY <2>2, <1>1 DEF IsFold
<1>4. \A s \in SUBSET D : s # {} => /\ Max(s) \in 1 .. n
                                    /\ h[s \ {Max(s)}] \in Hist
                                    /\ h[s] = Note(h[s \ {Max(s)}], es[Max(s)])
  <2> SUFFICES ASSUME NEW s \in SUBSET D, s # {}
               PROVE  /\ Max(s) \in 1 .. n /\ h[s \ {Max(s)}] \in Hist
                      /\ h[s] = Note(h[s \ {Max(s)}], es[Max(s)])
    OBVIOUS
  <2>1. Max(s) \in 1 .. n
    BY <1>1, MaxOfPrefix
  <2>2. s \ {Max(s)} \in SUBSET D
    OBVIOUS
  <2> QED
    BY <1>3, <2>1, <2>2
<1>5. Solves(h)
  BY <1>3, <1>4
<1> DEFINE f == CHOOSE f : Solves(f)
<1>6. Solves(f)
  BY <1>5
<1> HIDE DEF f
<1>7. f[1 .. 0] = past /\ \A k \in 0 .. n - 1 : f[1 .. k + 1] = Note(f[1 .. k], es[k + 1])
  <2>1. 1 .. 0 = {} /\ 1 .. 0 \in SUBSET D
    OBVIOUS
  <2>2. ASSUME NEW k \in 0 .. n - 1 PROVE f[1 .. k + 1] = Note(f[1 .. k], es[k + 1])
    <3>1. k \in Nat /\ 1 .. k + 1 \in SUBSET D
      BY <1>1
    <3>2. 1 .. k + 1 # {} /\ Max(1 .. k + 1) = k + 1 /\ (1 .. k + 1) \ {k + 1} = 1 .. k
      BY <3>1, MaxOfInterval
    <3> QED
      BY <3>1, <3>2, <1>6
  <2> QED
    BY <2>1, <2>2, <1>6
<1> DEFINE m == [k \in 0 .. n |-> f[1 .. k]]
<1>8. \A k \in 0 .. n : m[k] \in Hist
  <2> DEFINE S == {k \in Nat : k <= n => m[k] \in Hist}
  <2>1. 0 \in S
    BY <1>1, <1>7
  <2>2. ASSUME NEW k \in Nat, k \in S PROVE k + 1 \in S
    <3> SUFFICES ASSUME k + 1 <= n PROVE m[k + 1] \in Hist
      OBVIOUS
    <3>1. k \in 0 .. n - 1 /\ k + 1 \in D /\ k \in 0 .. n /\ k + 1 \in 0 .. n
      BY <1>1
    <3>2. m[k] \in Hist /\ es[k + 1] \in Entry
      BY <2>2, <3>1 DEF D
    <3> QED
      BY <3>1, <3>2, <1>7, NoteType
  <2> HIDE DEF S
  <2>3. Nat \subseteq S
    BY <2>1, <2>2, Induction
  <2> SUFFICES ASSUME NEW k \in 0 .. n PROVE m[k] \in Hist
    OBVIOUS
  <2> HIDE DEF m
  <2>4. k \in Nat /\ k <= n
    BY <1>1
  <2> QED
    BY <2>3, <2>4 DEF S
<1>9. f[D] = NoteAll(past, es)
  BY <1>2 DEF f
<1>10. /\ m \in [0 .. n -> Hist] /\ m[0] = past /\ m[n] = f[D]
       /\ \A k \in 0 .. n - 1 : m[k + 1] = Note(m[k], es[k + 1])
  <2>1. \A k \in 0 .. n - 1 : k \in 0 .. n /\ k + 1 \in 0 .. n
    BY <1>1
  <2> QED
    BY <1>1, <1>7, <1>8, <2>1
<1> QED
  BY <1>9, <1>10 DEF n

LEMMA NoteNone ==
  ASSUME NEW past \in Hist
  PROVE  NoteAll(past, <<>>) = past
<1> DEFINE none == <<>>
<1>1. none \in Seq(Entry) /\ Len(none) = 0
  OBVIOUS
<1> HIDE DEF none
<1>2. PICK m \in [0 .. Len(none) -> Hist] :
        /\ m[0] = past /\ m[Len(none)] = NoteAll(past, none)
        /\ \A k \in 0 .. Len(none) - 1 : m[k + 1] = Note(m[k], none[k + 1])
  BY <1>1, NoteChain
<1> QED
  BY <1>1, <1>2 DEF none

LEMMA NoteMore ==
  ASSUME NEW past \in Hist, NEW es \in Seq(Entry), NEW e \in Entry
  PROVE  NoteAll(past, Append(es, e)) = Note(NoteAll(past, es), e)
<1> DEFINE n == Len(es)
           more == Append(es, e)
<1>1. /\ n \in Nat /\ more \in Seq(Entry) /\ Len(more) = n + 1 /\ more[n + 1] = e
      /\ \A k \in 0 .. n - 1 : more[k + 1] = es[k + 1]
  OBVIOUS
<1>2. PICK m1 \in [0 .. n -> Hist] :
        /\ m1[0] = past /\ m1[n] = NoteAll(past, es)
        /\ \A k \in 0 .. n - 1 : m1[k + 1] = Note(m1[k], es[k + 1])
  BY NoteChain
<1> HIDE DEF more
<1>3. PICK m2 \in [0 .. n + 1 -> Hist] :
        /\ m2[0] = past /\ m2[n + 1] = NoteAll(past, more)
        /\ \A k \in 0 .. n : m2[k + 1] = Note(m2[k], more[k + 1])
  <2>1. n + 1 - 1 = n
    BY <1>1
  <2> QED
    BY <1>1, <2>1, NoteChain
<1> HIDE DEF n
<1>4. m1[n] = m2[n]
  <2>1. \A k \in 0 .. n - 1 : m1[k] = m2[k] => m1[k + 1] = m2[k + 1]
    <3> TAKE k \in 0 .. n - 1
    <3>1. k \in 0 .. n
      BY <1>1
    <3> QED
      BY <1>1, <1>2, <1>3, <3>1
  <2> QED
    BY <1>1, <1>2, <1>3, <2>1, ChainsAgree
<1>5. m2[n + 1] = Note(m2[n], e)
  BY <1>1, <1>3
<1> QED
  BY <1>2, <1>3, <1>4, <1>5 DEF more

-----------------------------------------------------------------------------
\* what holds of all sequences of entries

LEMMA SeqInduction ==
  ASSUME NEW E, NEW S, <<>> \in S,
         \A es \in Seq(E), e \in E : es \in S => Append(es, e) \in S
  PROVE  Seq(E) \subseteq S
<1> DEFINE T == {n \in Nat : \A es \in Seq(E) : Len(es) = n => es \in S}
<1>1. 0 \in T
  <2>1. \A es \in Seq(E) : Len(es) = 0 => es = <<>>
    OBVIOUS
  <2> QED
    BY <2>1
<1>2. ASSUME NEW n \in Nat, n \in T PROVE n + 1 \in T
  <2> SUFFICES ASSUME NEW es \in Seq(E), Len(es) = n + 1 PROVE es \in S
    OBVIOUS
  <2> DEFINE front == [i \in 1 .. n |-> es[i]]
             e     == es[n + 1]
  <2>1. front \in Seq(E) /\ Len(front) = n /\ e \in E /\ es = Append(front, e)
    OBVIOUS
  <2> QED
    BY <1>2, <2>1
<1> HIDE DEF T
<1>3. Nat \subseteq T
  BY <1>1, <1>2, Induction
<1> QED
  <2> SUFFICES ASSUME NEW es \in Seq(E) PROVE es \in S
    OBVIOUS
  <2>1. Len(es) \in T
    BY <1>3
  <2> QED
    BY <2>1 DEF T

\* A state machine that is fed some entries, and then more, has been fed both.
LEMMA FeedConcat ==
  ASSUME NEW t \in TSM, NEW a \in Seq(Entry), NEW b \in Seq(Entry)
  PROVE  FeedAll(t, a \o b) = FeedAll(FeedAll(t, a), b) /\ FeedAll(t, a) \in TSM
<1>1. FeedAll(t, a) \in TSM
  <2> DEFINE U == {es \in Seq(Entry) : FeedAll(t, es) \in TSM}
  <2>1. <<>> \in U
    BY FeedNone
  <2>2. ASSUME NEW es \in Seq(Entry), NEW e \in Entry, es \in U PROVE Append(es, e) \in U
    BY <2>2, FeedMore, FeedType
  <2> HIDE DEF U
  <2>3. a \in U
    BY <2>1, <2>2, SeqInduction
  <2> QED
    BY <2>3 DEF U
<1> DEFINE W == {es \in Seq(Entry) : /\ FeedAll(FeedAll(t, a), es) \in TSM
                                   /\ FeedAll(t, a \o es) = FeedAll(FeedAll(t, a), es)}
<1>2. <<>> \in W
  <2>1. a \o <<>> = a
    OBVIOUS
  <2> QED
    BY <1>1, <2>1, FeedNone
<1>3. ASSUME NEW es \in Seq(Entry), NEW e \in Entry, es \in W PROVE Append(es, e) \in W
  <2>1. a \o Append(es, e) = Append(a \o es, e) /\ a \o es \in Seq(Entry)
    OBVIOUS
  <2>2. FeedAll(t, a \o Append(es, e)) = Feed(FeedAll(t, a \o es), e)
    BY <2>1, FeedMore
  <2>3. FeedAll(FeedAll(t, a), Append(es, e)) = Feed(FeedAll(FeedAll(t, a), es), e)
    BY <1>1, FeedMore
  <2> QED
    BY <1>3, <2>2, <2>3, FeedType
<1> HIDE DEF W
<1>4. b \in W
  BY <1>2, <1>3, SeqInduction
<1> QED
  BY <1>1, <1>4 DEF W

\* What becomes of entries is what becomes of the first ones, and then of the others.
LEMMA NoteConcat ==
  ASSUME NEW h \in Hist, NEW a \in Seq(Entry), NEW b \in Seq(Entry)
  PROVE  NoteAll(h, a \o b) = NoteAll(NoteAll(h, a), b) /\ NoteAll(h, a) \in Hist
<1>1. NoteAll(h, a) \in Hist
  <2> DEFINE U == {es \in Seq(Entry) : NoteAll(h, es) \in Hist}
  <2>1. <<>> \in U
    BY NoteNone
  <2>2. ASSUME NEW es \in Seq(Entry), NEW e \in Entry, es \in U PROVE Append(es, e) \in U
    BY <2>2, NoteMore, NoteType
  <2> HIDE DEF U
  <2>3. a \in U
    BY <2>1, <2>2, SeqInduction
  <2> QED
    BY <2>3 DEF U
<1> DEFINE W == {es \in Seq(Entry) : /\ NoteAll(NoteAll(h, a), es) \in Hist
                                   /\ NoteAll(h, a \o es) = NoteAll(NoteAll(h, a), es)}
<1>2. <<>> \in W
  <2>1. a \o <<>> = a
    OBVIOUS
  <2> QED
    BY <1>1, <2>1, NoteNone
<1>3. ASSUME NEW es \in Seq(Entry), NEW e \in Entry, es \in W PROVE Append(es, e) \in W
  <2>1. a \o Append(es, e) = Append(a \o es, e) /\ a \o es \in Seq(Entry)
    OBVIOUS
  <2>2. NoteAll(h, a \o Append(es, e)) = Note(NoteAll(h, a \o es), e)
    BY <2>1, NoteMore
  <2>3. NoteAll(NoteAll(h, a), Append(es, e)) = Note(NoteAll(NoteAll(h, a), es), e)
    BY <1>1, NoteMore
  <2> QED
    BY <1>3, <2>2, <2>3, NoteType
<1> HIDE DEF W
<1>4. b \in W
  BY <1>2, <1>3, SeqInduction
<1> QED
  BY <1>1, <1>4 DEF W

\* An entry adds at most one outcome to those of a client.
LEMMA NoteOutcome ==
  ASSUME NEW h \in Hist, NEW e \in Entry, NEW c \in Client
  PROVE  \/ Note(h, e).outcomes[c] = h.outcomes[c]
         \/ \E r \in BOOLEAN : Note(h, e).outcomes[c] = Append(h.outcomes[c], r)
<1>1. Rejects(h.machine.data, e.cmd) \in BOOLEAN
  BY Zenon DEF Rejects, RejectsSet, RejectsIncr, RejectsMove, GoesNegative
<1> DEFINE r == Rejects(h.machine.data, e.cmd)
<1> HIDE DEF r
<1>2. \/ Note(h, e).outcomes = h.outcomes
      \/ Note(h, e).outcomes = [h.outcomes EXCEPT ![e.cmd.client] = Append(@, r)]
  BY DEF Note, r
<1>3. DOMAIN h.outcomes = Client
  BY DEF Hist
<1> QED
  BY <1>1, <1>2, <1>3 DEF r

\* The history keeps the state machine of all the entries, and forgets no outcome.
LEMMA NoteFeeds ==
  ASSUME NEW h \in Hist, NEW es \in Seq(Entry)
  PROVE  /\ NoteAll(h, es).machine = FeedAll(h.machine, es)
         /\ \A c \in Client :
              /\ Len(h.outcomes[c]) <= Len(NoteAll(h, es).outcomes[c])
              /\ \A n \in 1 .. Len(h.outcomes[c]) :
                   NoteAll(h, es).outcomes[c][n] = h.outcomes[c][n]
<1> DEFINE Extends(h2) == \A c \in Client :
             /\ Len(h.outcomes[c]) <= Len(h2.outcomes[c])
             /\ \A n \in 1 .. Len(h.outcomes[c]) : h2.outcomes[c][n] = h.outcomes[c][n]
           W == {x \in Seq(Entry) : /\ NoteAll(h, x) \in Hist
                                    /\ NoteAll(h, x).machine = FeedAll(h.machine, x)
                                    /\ Extends(NoteAll(h, x))}
<1>0. h.machine \in TSM /\ \A c \in Client : h.outcomes[c] \in Seq(BOOLEAN)
  BY DEF Hist
<1>1. <<>> \in W
  <2>1. NoteAll(h, <<>>) = h /\ FeedAll(h.machine, <<>>) = h.machine
    BY <1>0, NoteNone, FeedNone
  <2> QED
    BY <1>0, <2>1
<1>2. ASSUME NEW x \in Seq(Entry), NEW e \in Entry, x \in W PROVE Append(x, e) \in W
  <2> DEFINE h2 == NoteAll(h, x)
             h3 == NoteAll(h, Append(x, e))
  <2>1. /\ h2 \in Hist /\ h2.machine = FeedAll(h.machine, x) /\ Extends(h2)
        /\ h3 = Note(h2, e) /\ h3 \in Hist
        /\ FeedAll(h.machine, Append(x, e)) = Feed(FeedAll(h.machine, x), e)
    BY <1>0, <1>2, NoteMore, NoteType, FeedMore
  <2> HIDE DEF h2, h3
  <2>2. h3.machine = Feed(h2.machine, e)
    BY <2>1 DEF Note
  <2>3. Extends(h3)
    <3> SUFFICES ASSUME NEW c \in Client
                 PROVE  /\ Len(h.outcomes[c]) <= Len(h3.outcomes[c])
                        /\ \A n \in 1 .. Len(h.outcomes[c]) : h3.outcomes[c][n] = h.outcomes[c][n]
      OBVIOUS
    <3>1. \/ h3.outcomes[c] = h2.outcomes[c]
          \/ \E r \in BOOLEAN : h3.outcomes[c] = Append(h2.outcomes[c], r)
      BY <2>1, NoteOutcome
    <3>2. h2.outcomes[c] \in Seq(BOOLEAN)
      BY <2>1 DEF Hist
    <3> QED
      BY <1>0, <2>1, <3>1, <3>2
  <2> QED
    BY <2>1, <2>2, <2>3 DEF h2, h3
<1> HIDE DEF W
<1>3. es \in W
  BY <1>1, <1>2, SeqInduction
<1> QED
  BY <1>3 DEF W

-----------------------------------------------------------------------------
\* logs of scripted commands

Scripted(cmd) ==
  cmd \in Action /\ \E n \in DOMAIN Script[cmd.client] : Script[cmd.client][n] = cmd

\* is the entry a command of c?
Asks(e, c) == e.cmd # NoOp /\ e.cmd.client = c

\* the copies of a client's commands are in order, and none is left out
InOrder(log) ==
  \A i, j \in 1 .. Len(log) : \A c \in Client :
    i < j /\ Asks(log[i], c) /\ Asks(log[j], c) => Turn(log[i].cmd) <= Turn(log[j].cmd)

NoGaps(log) ==
  \A i \in 1 .. Len(log) : \A c \in Client :
    Asks(log[i], c) /\ Turn(log[i].cmd) > 1
      => \E j \in 1 .. i - 1 : log[j].cmd = Script[c][Turn(log[i].cmd) - 1]

AllScripted(log) == \A i \in 1 .. Len(log) : log[i].cmd # NoOp => Scripted(log[i].cmd)

Good(log) == AllScripted(log) /\ InOrder(log) /\ NoGaps(log)

LEMMA TurnOf ==
  ASSUME NEW cmd, Scripted(cmd)
  PROVE  /\ cmd \in Action /\ cmd.client \in Client
         /\ Turn(cmd) \in 1 .. Len(Script[cmd.client])
         /\ Script[cmd.client][Turn(cmd)] = cmd
<1>1. cmd \in Action /\ cmd.client \in Client
  BY DEF Scripted, Action
<1>2. Script[cmd.client] \in Seq(Action)
  BY <1>1, TransactionsAssumption
<1>3. DOMAIN Script[cmd.client] = 1 .. Len(Script[cmd.client])
  BY <1>2
<1> QED
  BY <1>1, <1>3 DEF Scripted, Turn

LEMMA TurnIs ==
  ASSUME NEW c \in Client, NEW n \in 1 .. Len(Script[c])
  PROVE  LET cmd == Script[c][n]
         IN Scripted(cmd) /\ cmd \in Action /\ cmd # NoOp /\ cmd.client = c /\ Turn(cmd) = n
<1> DEFINE cmd == Script[c][n]
<1>1. Script[c] \in Seq(Action) /\ DOMAIN Script[c] = 1 .. Len(Script[c])
  BY TransactionsAssumption
<1>2. cmd \in Action /\ cmd # NoOp
  BY <1>1, TransactionsAssumption
<1>3. cmd.client = c
  BY <1>1, TransactionsAssumption
<1>4. Scripted(cmd)
  BY <1>1, <1>2, <1>3 DEF Scripted
<1>5. Turn(cmd) \in 1 .. Len(Script[c]) /\ Script[c][Turn(cmd)] = cmd
  BY <1>3, <1>4, TurnOf
<1>6. Turn(cmd) = n
  BY <1>1, <1>5, TransactionsAssumption
<1> QED
  BY <1>2, <1>3, <1>4, <1>6

LEMMA IdsDiffer ==
  ASSUME NEW c \in Client, NEW m \in 1 .. Len(Script[c]), NEW n \in 1 .. Len(Script[c]),
         Script[c][m].id = Script[c][n].id
  PROVE  m = n
<1>1. Script[c] \in Seq(Action) /\ DOMAIN Script[c] = 1 .. Len(Script[c])
  BY TransactionsAssumption
<1> QED
  BY <1>1, TransactionsAssumption

LEMMA GoodPrefix ==
  ASSUME NEW log \in Seq(Entry), NEW p \in Seq(Entry), Good(log), Len(p) <= Len(log),
         \A i \in 1 .. Len(p) : p[i] = log[i]
  PROVE  Good(p)
<1>1. \A i \in 1 .. Len(p) : i \in 1 .. Len(log)
  OBVIOUS
<1>2. AllScripted(p)
  BY <1>1 DEF Good, AllScripted
<1>3. InOrder(p)
  BY <1>1 DEF Good, InOrder
<1>4. NoGaps(p)
  <2> SUFFICES ASSUME NEW i \in 1 .. Len(p), NEW c \in Client,
                      Asks(p[i], c), Turn(p[i].cmd) > 1
               PROVE  \E j \in 1 .. i - 1 : p[j].cmd = Script[c][Turn(p[i].cmd) - 1]
    BY DEF NoGaps
  <2>1. PICK j \in 1 .. i - 1 : log[j].cmd = Script[c][Turn(p[i].cmd) - 1]
    BY <1>1 DEF Good, NoGaps
  <2>2. j \in 1 .. Len(p)
    OBVIOUS
  <2> QED
    BY <2>1, <2>2
<1> QED
  BY <1>2, <1>3, <1>4 DEF Good

LEMMA GoodAppend ==
  ASSUME NEW log \in Seq(Entry), Good(log), NEW e \in Entry,
         e.cmd # NoOp =>
           /\ Scripted(e.cmd)
           /\ \A i \in 1 .. Len(log) : Asks(log[i], e.cmd.client) => Turn(log[i].cmd) <= Turn(e.cmd)
           /\ Turn(e.cmd) > 1 => \E j \in 1 .. Len(log) :
                                   log[j].cmd = Script[e.cmd.client][Turn(e.cmd) - 1]
  PROVE  Good(Append(log, e))
<1> DEFINE n == Len(log)
           more == Append(log, e)
<1>1. /\ n \in Nat /\ Len(more) = n + 1 /\ more[n + 1] = e
      /\ \A i \in 1 .. n : more[i] = log[i]
      /\ \A i \in 1 .. n + 1 : i \in 1 .. n \/ i = n + 1
  OBVIOUS
<1> HIDE DEF more
<1>2. AllScripted(more)
  BY <1>1 DEF Good, AllScripted
<1>3. InOrder(more)
  <2> SUFFICES ASSUME NEW i \in 1 .. n + 1, NEW j \in 1 .. n + 1, NEW c \in Client,
                      i < j, Asks(more[i], c), Asks(more[j], c)
               PROVE  Turn(more[i].cmd) <= Turn(more[j].cmd)
    BY <1>1 DEF InOrder
  <2>1. i \in 1 .. n
    BY <1>1
  <2>2. CASE j \in 1 .. n
    BY <2>1, <2>2, <1>1 DEF Good, InOrder
  <2>3. CASE j = n + 1
    BY <2>1, <2>3, <1>1 DEF Asks
  <2> QED
    BY <2>2, <2>3, <1>1
<1>4. NoGaps(more)
  <2> SUFFICES ASSUME NEW i \in 1 .. n + 1, NEW c \in Client,
                      Asks(more[i], c), Turn(more[i].cmd) > 1
               PROVE  \E j \in 1 .. i - 1 : more[j].cmd = Script[c][Turn(more[i].cmd) - 1]
    BY <1>1 DEF NoGaps
  <2>1. CASE i \in 1 .. n
    <3>1. PICK j \in 1 .. i - 1 : log[j].cmd = Script[c][Turn(more[i].cmd) - 1]
      BY <2>1, <1>1 DEF Good, NoGaps
    <3>2. j \in 1 .. n
      BY <2>1
    <3> QED
      BY <3>1, <3>2, <1>1
  <2>2. CASE i = n + 1
    <3>1. PICK j \in 1 .. n : log[j].cmd = Script[c][Turn(more[i].cmd) - 1]
      BY <2>2, <1>1 DEF Asks
    <3>2. j \in 1 .. i - 1
      BY <2>2
    <3> QED
      BY <3>1, <3>2, <1>1
  <2> QED
    BY <2>1, <2>2, <1>1
<1> QED
  BY <1>2, <1>3, <1>4 DEF Good, more

-----------------------------------------------------------------------------
\* what the history makes of such a log

FirstHist == [machine |-> EmptyTSM, outcomes |-> [c \in Client |-> <<>>]]

Done(h, c) == Len(h.outcomes[c])

\* of each client the history remembers its latest command in the log
Reflects(h, log) ==
  \A c \in Client :
    /\ Done(h, c) <= Len(Script[c])
    /\ \A i \in 1 .. Len(log) : Asks(log[i], c) => Turn(log[i].cmd) <= Done(h, c)
    /\ c \in DOMAIN h.machine.latest <=> Done(h, c) > 0
    /\ Done(h, c) > 0 =>
         /\ \E i \in 1 .. Len(log) : log[i].cmd = Script[c][Done(h, c)]
         /\ h.machine.latest[c] = [id     |-> Script[c][Done(h, c)].id,
                                   failed |-> h.outcomes[c][Done(h, c)]]

LEMMA FirstHistType == FirstHist \in Hist
<1>1. EmptyMap \in [{} -> Balance] /\ EmptyMap \in [{} -> RequestInfo]
  BY DEF EmptyMap
<1>2. EmptyMap \in Map(Account, Balance) /\ EmptyMap \in Map(Client, RequestInfo)
  BY <1>1 DEF Map
<1>3. EmptyTSM \in TSM
  BY <1>2 DEF EmptyTSM, TSM
<1>4. [c \in Client |-> <<>>] \in [Client -> Seq(BOOLEAN)]
  OBVIOUS
<1> QED
  BY <1>3, <1>4 DEF FirstHist, Hist

LEMMA LatestIsDone ==
  ASSUME NEW log, NEW h \in Hist, Reflects(h, log), NEW c \in Client
  PROVE  /\ Done(h, c) \in Nat /\ Done(h, c) <= Len(Script[c])
         /\ c \in DOMAIN h.machine.latest <=> Done(h, c) > 0
         /\ Done(h, c) > 0 => h.machine.latest[c].id = Script[c][Done(h, c)].id
         /\ Done(h, c) > 0 => h.machine.latest[c].failed = h.outcomes[c][Done(h, c)]
<1>1. Done(h, c) \in Nat
  BY DEF Hist, Done
<1>2. Done(h, c) > 0 => h.machine.latest[c] = [id     |-> Script[c][Done(h, c)].id,
                                               failed |-> h.outcomes[c][Done(h, c)]]
  BY DEF Reflects
<1> QED
  BY <1>1, <1>2 DEF Reflects

\* The next entry is no command, or the one its client had executed last, and then
\* changes nothing; or it is the one after that.
LEMMA EntryKinds ==
  ASSUME NEW log \in Seq(Entry), NEW e \in Entry, NEW h \in Hist,
         Good(Append(log, e)), Reflects(h, log)
  PROVE  \/ /\ Note(h, e) = h
            /\ e.cmd = NoOp \/ (Scripted(e.cmd) /\ Turn(e.cmd) = Done(h, e.cmd.client))
         \/ /\ e.cmd # NoOp /\ Scripted(e.cmd) /\ ~IsDuplicate(h.machine, e.cmd)
            /\ Turn(e.cmd) = Done(h, e.cmd.client) + 1
<1> DEFINE n == Len(log)
           more == Append(log, e)
           c == e.cmd.client
           m == Done(h, c)
<1>1. /\ n \in Nat /\ Len(more) = n + 1 /\ more[n + 1] = e
      /\ \A i \in 1 .. n : more[i] = log[i]
  OBVIOUS
<1>a. \A d \in Client : Done(h, d) \in Nat /\ Done(h, d) <= Len(Script[d])
  BY LatestIsDone
<1>b. \A d \in Client : /\ d \in DOMAIN h.machine.latest <=> Done(h, d) > 0
                        /\ Done(h, d) > 0 =>
                             h.machine.latest[d].id = Script[d][Done(h, d)].id
  <2> TAKE d \in Client
  <2> QED
    BY LatestIsDone
<1>2. CASE e.cmd = NoOp
  <2>1. Note(h, e) = [machine |-> h.machine, outcomes |-> h.outcomes]
    BY <1>2 DEF Note, Feed
  <2>2. Note(h, e) = h
    BY <2>1 DEF Hist
  <2> QED
    BY <1>2, <2>2
<1>3. CASE e.cmd # NoOp
  <2>1. Scripted(e.cmd)
    BY <1>1, <1>3 DEF Good, AllScripted
  <2>2. c \in Client /\ Turn(e.cmd) \in 1 .. Len(Script[c]) /\ Script[c][Turn(e.cmd)] = e.cmd
        /\ Asks(e, c)
    BY <2>1, <1>3, TurnOf DEF Asks
  <2>3. m \in Nat /\ m <= Len(Script[c])
    BY <2>2, <1>a
  <2>4. m > 0 => m \in 1 .. Len(Script[c]) /\ m <= Turn(e.cmd)
    <3> SUFFICES ASSUME m > 0 PROVE m \in 1 .. Len(Script[c]) /\ m <= Turn(e.cmd)
      OBVIOUS
    <3>1. m \in 1 .. Len(Script[c])
      BY <2>2, <2>3
    <3>2. PICK i \in 1 .. n : log[i].cmd = Script[c][m]
      BY <2>2 DEF Reflects
    <3>3. Asks(more[i], c) /\ Turn(more[i].cmd) = m
      BY <3>1, <3>2, <1>1, <2>2, TurnIs DEF Asks
    <3>4. i \in 1 .. n + 1 /\ n + 1 \in 1 .. n + 1 /\ i < n + 1
      BY <1>1
    <3> QED
      BY <3>1, <3>3, <3>4, <1>1, <2>2 DEF Good, InOrder
  <2>5. Turn(e.cmd) <= m + 1
    <3> SUFFICES ASSUME Turn(e.cmd) > 1 PROVE Turn(e.cmd) <= m + 1
      BY <2>2, <2>3
    <3>1. PICK j \in 1 .. n : more[j].cmd = Script[c][Turn(e.cmd) - 1]
      BY <1>1, <2>2 DEF Good, NoGaps
    <3>2. Turn(e.cmd) - 1 \in 1 .. Len(Script[c])
      BY <2>2
    <3>3. Asks(log[j], c) /\ Turn(log[j].cmd) = Turn(e.cmd) - 1
      BY <3>1, <3>2, <1>1, <2>2, TurnIs DEF Asks
    <3>4. Turn(e.cmd) - 1 <= m
      BY <3>3, <2>2 DEF Reflects
    <3> QED
      BY <3>4, <2>2, <2>3
  <2>6. CASE Turn(e.cmd) = m
    <3>1. m > 0
      BY <2>6, <2>2
    <3>2. c \in DOMAIN h.machine.latest /\ h.machine.latest[c].id = Script[c][m].id
      BY <3>1, <2>2, <1>b
    <3>3. IsDuplicate(h.machine, e.cmd)
      BY <3>2, <2>2, <2>6 DEF IsDuplicate
    <3>4. Note(h, e) = [machine |-> h.machine, outcomes |-> h.outcomes]
      BY <3>3, <1>3 DEF Note, Feed, ApplyAction
    <3>5. Note(h, e) = h
      BY <3>4 DEF Hist
    <3> QED
      BY <3>5, <2>1, <2>6
  <2>7. CASE Turn(e.cmd) = m + 1
    <3>1. ~IsDuplicate(h.machine, e.cmd)
      <4> SUFFICES ASSUME IsDuplicate(h.machine, e.cmd) PROVE FALSE
        OBVIOUS
      <4>1. c \in DOMAIN h.machine.latest /\ h.machine.latest[c].id = e.cmd.id
        BY DEF IsDuplicate
      <4>2. m > 0 /\ h.machine.latest[c].id = Script[c][m].id
        BY <4>1, <2>2, <1>b
      <4>3. m = Turn(e.cmd)
        BY <4>1, <4>2, <2>2, <2>4, IdsDiffer
      <4> QED
        BY <4>3, <2>7, <2>3
    <3> QED
      BY <3>1, <2>1, <2>7, <1>3
  <2>8. Turn(e.cmd) = m \/ Turn(e.cmd) = m + 1
    BY <2>2, <2>3, <2>4, <2>5
  <2> QED
    BY <2>6, <2>7, <2>8
<1> QED
  BY <1>2, <1>3

\* A command that is no duplicate adds its outcome.
LEMMA NoteNew ==
  ASSUME NEW h \in Hist, NEW e \in Entry, e.cmd # NoOp, ~IsDuplicate(h.machine, e.cmd)
  PROVE  LET c == e.cmd.client
             a == e.cmd
             r == Rejects(h.machine.data, e.cmd)
             h2 == Note(h, e)
         IN /\ c \in Client /\ r \in BOOLEAN
            /\ h2.outcomes = [h.outcomes EXCEPT ![c] = Append(@, r)]
            /\ h2.machine.data = IF r THEN h.machine.data ELSE Execute(h.machine.data, a)
            /\ h2.machine.latest = Put(h.machine.latest, c, [id |-> a.id, failed |-> r])
            /\ h2.outcomes[c] = Append(h.outcomes[c], r)
            /\ Done(h2, c) = Done(h, c) + 1 /\ h2.outcomes[c][Done(h, c) + 1] = r
            /\ \A d \in Client : d # c => h2.outcomes[d] = h.outcomes[d]
<1> DEFINE c == e.cmd.client
           r == Rejects(h.machine.data, e.cmd)
           h2 == Note(h, e)
<1>1. c \in Client /\ h.outcomes \in [Client -> Seq(BOOLEAN)] /\ h.outcomes[c] \in Seq(BOOLEAN)
  BY DEF Entry, Action, Hist
<1>2. r \in BOOLEAN
  BY Zenon DEF Rejects, RejectsSet, RejectsIncr, RejectsMove, GoesNegative
<1>3. h2.outcomes = [h.outcomes EXCEPT ![c] = Append(@, r)]
  BY DEF Note
<1>4. h2.machine = ApplyAction(h.machine, e.cmd)
  BY DEF Note, Feed
<1>5. /\ h2.machine.data = IF r THEN h.machine.data ELSE Execute(h.machine.data, e.cmd)
      /\ h2.machine.latest = Put(h.machine.latest, c, [id |-> e.cmd.id, failed |-> r])
  BY <1>4 DEF ApplyAction
<1> HIDE DEF r, h2
<1>6. /\ h2.outcomes[c] = Append(h.outcomes[c], r)
      /\ \A d \in Client : d # c => h2.outcomes[d] = h.outcomes[d]
  BY <1>1, <1>3
<1>7. Done(h2, c) = Done(h, c) + 1 /\ h2.outcomes[c][Done(h, c) + 1] = r
  BY <1>1, <1>2, <1>6 DEF Done
<1> QED
  BY <1>1, <1>2, <1>3, <1>5, <1>6, <1>7 DEF r, h2

LEMMA ReflectsMore ==
  ASSUME NEW log \in Seq(Entry), NEW e \in Entry, NEW h \in Hist,
         Good(Append(log, e)), Reflects(h, log)
  PROVE  Reflects(Note(h, e), Append(log, e))
<1> DEFINE n == Len(log)
           more == Append(log, e)
           h2 == Note(h, e)
<1>1. /\ n \in Nat /\ Len(more) = n + 1 /\ more[n + 1] = e
      /\ \A i \in 1 .. n : more[i] = log[i]
      /\ \A i \in 1 .. n + 1 : i \in 1 .. n \/ i = n + 1
      /\ \A i \in 1 .. n : i \in 1 .. n + 1
      /\ n + 1 \in 1 .. n + 1
  OBVIOUS
<1> HIDE DEF more, n
<1> SUFFICES ASSUME NEW c \in Client
             PROVE
    /\ Done(h2, c) <= Len(Script[c])
    /\ \A i \in 1 .. n + 1 : Asks(more[i], c) => Turn(more[i].cmd) <= Done(h2, c)
    /\ c \in DOMAIN h2.machine.latest <=> Done(h2, c) > 0
    /\ Done(h2, c) > 0 =>
         /\ \E i \in 1 .. n + 1 : more[i].cmd = Script[c][Done(h2, c)]
         /\ h2.machine.latest[c] = [id     |-> Script[c][Done(h2, c)].id,
                                    failed |-> h2.outcomes[c][Done(h2, c)]]
  BY <1>1 DEF Reflects, more
<1>2. /\ Done(h, c) \in Nat /\ Done(h, c) <= Len(Script[c])
      /\ \A i \in 1 .. n : Asks(log[i], c) => Turn(log[i].cmd) <= Done(h, c)
      /\ c \in DOMAIN h.machine.latest <=> Done(h, c) > 0
      /\ Done(h, c) > 0 =>
         /\ \E i \in 1 .. n : log[i].cmd = Script[c][Done(h, c)]
         /\ h.machine.latest[c] = [id     |-> Script[c][Done(h, c)].id,
                                   failed |-> h.outcomes[c][Done(h, c)]]
  <2>1. Done(h, c) \in Nat
    BY DEF Done, Hist
  <2> QED
    BY <2>1 DEF Reflects, n
<1>3. CASE /\ h2 = h
           /\ e.cmd = NoOp \/ (Scripted(e.cmd) /\ Turn(e.cmd) = Done(h, e.cmd.client))
  <2>1. Asks(e, c) => Turn(e.cmd) <= Done(h, c)
    BY <1>2, <1>3 DEF Asks
  <2>2. \A i \in 1 .. n + 1 : Asks(more[i], c) => Turn(more[i].cmd) <= Done(h, c)
    BY <1>1, <1>2, <2>1
  <2>3. Done(h, c) > 0 => \E i \in 1 .. n + 1 : more[i].cmd = Script[c][Done(h, c)]
    BY <1>1, <1>2
  <2> HIDE DEF h2
  <2> QED
    BY <1>2, <1>3, <2>2, <2>3
<1>4. CASE /\ e.cmd # NoOp /\ Scripted(e.cmd) /\ ~IsDuplicate(h.machine, e.cmd)
           /\ Turn(e.cmd) = Done(h, e.cmd.client) + 1
  <2> DEFINE d == e.cmd.client
             r == Rejects(h.machine.data, e.cmd)
  <2>1. /\ d \in Client /\ r \in BOOLEAN
        /\ h2.machine.latest = Put(h.machine.latest, d, [id |-> e.cmd.id, failed |-> r])
        /\ Done(h2, d) = Done(h, d) + 1 /\ h2.outcomes[d][Done(h, d) + 1] = r
        /\ \A x \in Client : x # d => h2.outcomes[x] = h.outcomes[x]
    BY <1>4, NoteNew
  <2>2. Turn(e.cmd) \in 1 .. Len(Script[d]) /\ Script[d][Turn(e.cmd)] = e.cmd
    BY <1>4, TurnOf
  <2> HIDE DEF h2, r
  <2>3. CASE c = d
    <3>1. Done(h2, c) = Done(h, c) + 1 /\ Done(h2, c) = Turn(e.cmd)
      BY <2>1, <2>3, <1>4
    <3>2. \A i \in 1 .. n + 1 : Asks(more[i], c) => Turn(more[i].cmd) <= Done(h2, c)
      <4> SUFFICES ASSUME NEW i \in 1 .. n + 1, Asks(more[i], c)
                   PROVE  Turn(more[i].cmd) <= Done(h2, c)
        OBVIOUS
      <4>1. CASE i \in 1 .. n
        <5>1. Scripted(more[i].cmd)
          BY <1>1 DEF Good, AllScripted, more, Asks, n
        <5>2. Turn(more[i].cmd) \in Nat
          BY <5>1, TurnOf
        <5> QED
          BY <4>1, <5>2, <3>1, <1>1, <1>2
      <4>2. CASE i = n + 1
        BY <4>2, <3>1, <1>1, <2>2
      <4> QED
        BY <4>1, <4>2, <1>1
    <3>3. /\ c \in DOMAIN h2.machine.latest
          /\ h2.machine.latest[c] = [id |-> e.cmd.id, failed |-> r]
      BY <2>1, <2>3 DEF Put
    <3>4. more[n + 1].cmd = Script[c][Done(h2, c)]
      BY <3>1, <2>2, <2>3, <1>1
    <3>5. Script[c][Done(h2, c)].id = e.cmd.id /\ h2.outcomes[c][Done(h2, c)] = r
      BY <3>1, <2>1, <2>2, <2>3
    <3>6. Done(h2, c) <= Len(Script[c]) /\ Done(h2, c) > 0
      BY <3>1, <2>2, <2>3
    <3> QED
      BY <3>2, <3>3, <3>4, <3>5, <3>6, <1>1
  <2>4. CASE c # d
    <3>1. h2.outcomes[c] = h.outcomes[c] /\ Done(h2, c) = Done(h, c)
      BY <2>1, <2>4 DEF Done
    <3>2. /\ c \in DOMAIN h2.machine.latest <=> c \in DOMAIN h.machine.latest
          /\ c \in DOMAIN h.machine.latest => h2.machine.latest[c] = h.machine.latest[c]
      BY <2>1, <2>4 DEF Put
    <3>3. ~Asks(more[n + 1], c)
      BY <2>4, <1>1 DEF Asks
    <3>4. \A i \in 1 .. n + 1 : Asks(more[i], c) => Turn(more[i].cmd) <= Done(h2, c)
      BY <3>1, <3>3, <1>1, <1>2
    <3>5. Done(h2, c) > 0 => \E i \in 1 .. n + 1 : more[i].cmd = Script[c][Done(h2, c)]
      BY <3>1, <1>1, <1>2
    <3> QED
      BY <3>1, <3>2, <3>4, <3>5, <1>2
  <2> QED
    BY <2>3, <2>4
<1>5. \/ /\ h2 = h
         /\ e.cmd = NoOp \/ (Scripted(e.cmd) /\ Turn(e.cmd) = Done(h, e.cmd.client))
      \/ /\ e.cmd # NoOp /\ Scripted(e.cmd) /\ ~IsDuplicate(h.machine, e.cmd)
         /\ Turn(e.cmd) = Done(h, e.cmd.client) + 1
  BY EntryKinds
<1> HIDE DEF h2
<1> QED
  BY <1>3, <1>4, <1>5

LEMMA HistoryReflects ==
  ASSUME NEW log \in Seq(Entry), Good(log)
  PROVE  NoteAll(FirstHist, log) \in Hist /\ Reflects(NoteAll(FirstHist, log), log)
<1> DEFINE W == {x \in Seq(Entry) :
                   /\ NoteAll(FirstHist, x) \in Hist
                   /\ Good(x) => Reflects(NoteAll(FirstHist, x), x)}
<1>1. <<>> \in W
  <2>1. NoteAll(FirstHist, <<>>) = FirstHist
    BY FirstHistType, NoteNone
  <2>2. Reflects(FirstHist, <<>>)
    <3>1. \A c \in Client : Done(FirstHist, c) = 0 /\ Len(Script[c]) \in Nat
      BY TransactionsAssumption DEF FirstHist, Done
    <3>2. DOMAIN FirstHist.machine.latest = {}
      BY DEF FirstHist, EmptyTSM, EmptyMap
    <3>3. 1 .. Len(<<>>) = {}
      OBVIOUS
    <3> QED
      BY <3>1, <3>2, <3>3 DEF Reflects
  <2> QED
    BY <2>1, <2>2, FirstHistType
<1>2. ASSUME NEW x \in Seq(Entry), NEW e \in Entry, x \in W PROVE Append(x, e) \in W
  <2> DEFINE more == Append(x, e)
  <2>1. NoteAll(FirstHist, more) = Note(NoteAll(FirstHist, x), e)
    BY FirstHistType, NoteMore
  <2>2. NoteAll(FirstHist, more) \in Hist
    BY <1>2, <2>1, NoteType
  <2>3. ASSUME Good(more) PROVE Reflects(NoteAll(FirstHist, more), more)
    <3>1. Good(x)
      <4>1. more \in Seq(Entry) /\ Len(x) <= Len(more) /\ \A i \in 1 .. Len(x) : x[i] = more[i]
        OBVIOUS
      <4> HIDE DEF more
      <4> QED
        BY <2>3, <4>1, GoodPrefix
    <3>2. NoteAll(FirstHist, x) \in Hist /\ Reflects(NoteAll(FirstHist, x), x)
      BY <3>1, <1>2
    <3> QED
      BY <2>1, <2>3, <3>2, ReflectsMore
  <2> QED
    BY <2>2, <2>3
<1> HIDE DEF W
<1>3. log \in W
  BY <1>1, <1>2, SeqInduction
<1> QED
  BY <1>3 DEF W

-----------------------------------------------------------------------------
\* what the history makes of the entries that are committed at once

\* the command of c that is next to be executed
NextOf(h, c) == Script[c][Done(h, c) + 1]

DataAfter(data, a) == IF Rejects(data, a) THEN data ELSE Execute(data, a)

\* From h to h2 the clients cs had one command each executed, in this order, b being
\* the balances in between; none of them had been told of it, as N says.
Runs(h, h2, N, cs, b) ==
  /\ \A i, j \in 1 .. Len(cs) : cs[i] = cs[j] => i = j
  /\ b[1] = h.machine.data /\ b[Len(cs) + 1] = h2.machine.data
  /\ \A i \in 1 .. Len(cs) :
       /\ b[i + 1] = DataAfter(b[i], NextOf(h, cs[i]))
       /\ h2.outcomes[cs[i]] = Append(h.outcomes[cs[i]], Rejects(b[i], NextOf(h, cs[i])))
       /\ Done(h, cs[i]) = N[cs[i]] /\ N[cs[i]] < Len(Script[cs[i]])
  /\ \A c \in Client : (\A i \in 1 .. Len(cs) : cs[i] # c) => h2.outcomes[c] = h.outcomes[c]

Data == Map(Account, Balance)

LEMMA RunsOneMore ==
  ASSUME NEW log \in Seq(Entry), NEW e \in Entry, NEW h \in Hist, NEW h2 \in Hist,
         Good(Append(log, e)), Reflects(h2, log),
         NEW N \in [Client -> Nat], \A c \in Client : N[c] <= Done(h, c),
         e.cmd # NoOp => Turn(e.cmd) <= N[e.cmd.client] + 1,
         NEW cs \in Seq(Client), NEW b \in [1 .. Len(cs) + 1 -> Data], Runs(h, h2, N, cs, b)
  PROVE  \E cs2 \in Seq(Client) : \E b2 \in [1 .. Len(cs2) + 1 -> Data] :
           Runs(h, Note(h2, e), N, cs2, b2)
<1>1. CASE Note(h2, e) = h2
  BY <1>1
<1>2. CASE /\ e.cmd # NoOp /\ Scripted(e.cmd) /\ ~IsDuplicate(h2.machine, e.cmd)
           /\ Turn(e.cmd) = Done(h2, e.cmd.client) + 1
  <2> DEFINE c  == e.cmd.client
             n  == Len(cs)
             h3 == Note(h2, e)
             r  == Rejects(h2.machine.data, e.cmd)
             d3 == h3.machine.data
             cs2 == Append(cs, c)
             b2 == [i \in 1 .. n + 2 |-> IF i = n + 2 THEN d3 ELSE b[i]]
  <2>1. /\ c \in Client /\ d3 = DataAfter(h2.machine.data, e.cmd)
        /\ h3.outcomes[c] = Append(h2.outcomes[c], r)
        /\ \A d \in Client : d # c => h3.outcomes[d] = h2.outcomes[d]
    BY <1>2, NoteNew DEF DataAfter
  <2>2. d3 \in Data
    BY NoteType DEF Hist, TSM, Data
  <2>3. Turn(e.cmd) \in 1 .. Len(Script[c]) /\ Script[c][Turn(e.cmd)] = e.cmd
    BY <1>2, TurnOf
  <2>4. /\ n \in Nat /\ cs2 \in Seq(Client) /\ Len(cs2) = n + 1 /\ cs2[n + 1] = c
        /\ \A i \in 1 .. n : cs2[i] = cs[i] /\ cs[i] \in Client
        /\ \A i \in 1 .. n + 1 : i \in 1 .. n \/ i = n + 1
        /\ \A i \in 1 .. n : i + 1 \in 1 .. n + 1
    BY <2>1
  <2>5. /\ b2 \in [1 .. n + 2 -> Data] /\ b2[n + 2] = d3
        /\ \A i \in 1 .. n + 1 : b2[i] = b[i]
    <3>1. \A i \in 1 .. n + 2 : i # n + 2 => i \in 1 .. n + 1
      BY <2>4
    <3>2. \A i \in 1 .. n + 1 : i \in 1 .. n + 2 /\ i # n + 2
      BY <2>4
    <3>3. n + 2 \in 1 .. n + 2
      BY <2>4
    <3> HIDE DEF d3
    <3> QED
      BY <2>2, <3>1, <3>2, <3>3
  <2>6. /\ \A i, j \in 1 .. n : cs[i] = cs[j] => i = j
        /\ b[1] = h.machine.data /\ b[n + 1] = h2.machine.data
        /\ \A i \in 1 .. n :
             /\ b[i + 1] = DataAfter(b[i], NextOf(h, cs[i]))
             /\ h2.outcomes[cs[i]] = Append(h.outcomes[cs[i]], Rejects(b[i], NextOf(h, cs[i])))
             /\ Done(h, cs[i]) = N[cs[i]] /\ N[cs[i]] < Len(Script[cs[i]])
        /\ \A d \in Client : (\A i \in 1 .. n : cs[i] # d) => h2.outcomes[d] = h.outcomes[d]
    BY DEF Runs
  <2>7. \A i \in 1 .. n : cs[i] # c
    <3> SUFFICES ASSUME NEW i \in 1 .. n, cs[i] = c PROVE FALSE
      OBVIOUS
    <3>1. h.outcomes[c] \in Seq(BOOLEAN) /\ Done(h, c) \in Nat
      BY <2>1 DEF Hist, Done
    <3> DEFINE r0 == Rejects(b[i], NextOf(h, cs[i]))
    <3>2. h2.outcomes[c] = Append(h.outcomes[c], r0)
      BY <2>6
    <3> HIDE DEF r0
    <3>3. Done(h2, c) = Done(h, c) + 1
      BY <3>1, <3>2 DEF Done
    <3>4. N[c] \in Nat /\ Done(h, c) = N[c] /\ Turn(e.cmd) <= N[c] + 1
      BY <2>1, <2>6, <1>2
    <3> QED
      BY <3>1, <3>3, <3>4, <1>2
  <2>8. h2.outcomes[c] = h.outcomes[c] /\ Done(h2, c) = Done(h, c)
    BY <2>1, <2>6, <2>7 DEF Done
  <2>9. Done(h, c) = N[c] /\ N[c] < Len(Script[c]) /\ NextOf(h, c) = e.cmd
    <3>1. Done(h, c) \in Nat /\ N[c] \in Nat /\ N[c] <= Done(h, c) /\ Turn(e.cmd) <= N[c] + 1
      BY <2>1, <1>2 DEF Hist, Done
    <3>2. Done(h, c) = N[c] /\ Turn(e.cmd) = N[c] + 1
      BY <3>1, <2>3, <2>8, <1>2
    <3>3. N[c] < Len(Script[c])
      BY <3>1, <3>2, <2>3
    <3> QED
      BY <3>2, <3>3, <2>3 DEF NextOf
  <2> HIDE DEF c, h3, r, d3, cs2, b2
  <2>10. \A i, j \in 1 .. n + 1 : cs2[i] = cs2[j] => i = j
    <3> SUFFICES ASSUME NEW i \in 1 .. n + 1, NEW j \in 1 .. n + 1, cs2[i] = cs2[j]
                 PROVE  i = j
      OBVIOUS
    <3>1. CASE i \in 1 .. n /\ j \in 1 .. n
      BY <3>1, <2>4, <2>6
    <3>2. CASE i = n + 1 /\ j \in 1 .. n
      BY <3>2, <2>4, <2>7
    <3>3. CASE i \in 1 .. n /\ j = n + 1
      BY <3>3, <2>4, <2>7
    <3> QED
      BY <3>1, <3>2, <3>3, <2>4
  <2>11. b2[1] = h.machine.data /\ b2[n + 2] = d3
    BY <2>4, <2>5, <2>6
  <2>12. ASSUME NEW i \in 1 .. n + 1
         PROVE  /\ b2[i + 1] = DataAfter(b2[i], NextOf(h, cs2[i]))
                /\ h3.outcomes[cs2[i]] = Append(h.outcomes[cs2[i]],
                                                Rejects(b2[i], NextOf(h, cs2[i])))
                /\ Done(h, cs2[i]) = N[cs2[i]] /\ N[cs2[i]] < Len(Script[cs2[i]])
    <3>1. CASE i \in 1 .. n
      <4>1. b2[i + 1] = b[i + 1] /\ b2[i] = b[i] /\ cs2[i] = cs[i]
        BY <3>1, <2>4, <2>5
      <4>2. h3.outcomes[cs[i]] = h2.outcomes[cs[i]]
        BY <3>1, <2>1, <2>4, <2>7
      <4> QED
        BY <3>1, <4>1, <4>2, <2>6
    <3>2. CASE i = n + 1
      <4>1. b2[i] = h2.machine.data /\ cs2[i] = c /\ b2[i + 1] = d3
        BY <3>2, <2>4, <2>5, <2>6
      <4>2. h3.outcomes[c] = Append(h.outcomes[c], Rejects(b2[i], NextOf(h, c)))
        BY <4>1, <2>1, <2>8, <2>9 DEF r
      <4>3. b2[i + 1] = DataAfter(b2[i], NextOf(h, c))
        BY <4>1, <2>1, <2>9
      <4> QED
        BY <4>1, <4>2, <4>3, <2>9
    <3> QED
      BY <3>1, <3>2, <2>4
  <2>13. ASSUME NEW d \in Client, \A i \in 1 .. n + 1 : cs2[i] # d
         PROVE  h3.outcomes[d] = h.outcomes[d]
    <3>1. d # c
      BY <2>13, <2>4
    <3>2. \A i \in 1 .. n : cs[i] # d
      <4> TAKE i \in 1 .. n
      <4>1. i \in 1 .. n + 1
        BY <2>4
      <4> QED
        BY <4>1, <2>13, <2>4
    <3> QED
      BY <3>1, <3>2, <2>1, <2>6
  <2>14. Len(cs2) + 1 = n + 2
    BY <2>4
  <2>15. Runs(h, h3, N, cs2, b2)
    BY <2>4, <2>10, <2>11, <2>12, <2>13, <2>14 DEF Runs, d3
  <2>16. b2 \in [1 .. Len(cs2) + 1 -> Data]
    BY <2>5, <2>14
  <2> QED
    BY <2>4, <2>15, <2>16 DEF h3
<1> QED
  BY <1>1, <1>2, EntryKinds

LEMMA CommitRuns ==
  ASSUME NEW log \in Seq(Entry), NEW first \in Seq(Entry), Good(log \o first),
         NEW N \in [Client -> Nat], \A c \in Client : N[c] <= Done(NoteAll(FirstHist, log), c),
         \A i \in 1 .. Len(first) : \A c \in Client :
           Asks(first[i], c) => Turn(first[i].cmd) <= N[c] + 1
  PROVE  LET h == NoteAll(FirstHist, log)
         IN \E cs \in Seq(Client) : \E b \in [1 .. Len(cs) + 1 -> Data] :
              Runs(h, NoteAll(h, first), N, cs, b)
<1> DEFINE h == NoteAll(FirstHist, log)
           Within(x) == \A i \in 1 .. Len(x) : \A c \in Client :
                          Asks(x[i], c) => Turn(x[i].cmd) <= N[c] + 1
           Ran(h2) == \E cs \in Seq(Client) : \E b \in [1 .. Len(cs) + 1 -> Data] :
                        Runs(h, h2, N, cs, b)
           W == {x \in Seq(Entry) : Good(log \o x) /\ Within(x) => Ran(NoteAll(h, x))}
<1>0. h \in Hist
  BY FirstHistType, NoteConcat
<1>1. <<>> \in W
  <2> DEFINE none == <<>>
             b0 == [i \in 1 .. 1 |-> h.machine.data]
  <2>1. none \in Seq(Client) /\ Len(none) = 0 /\ none \in Seq(Entry) /\ 1 .. 0 = {}
    OBVIOUS
  <2>2. NoteAll(h, none) = h
    BY <1>0, NoteNone
  <2> HIDE DEF h
  <2>3. b0 \in [1 .. Len(none) + 1 -> Data] /\ b0[1] = h.machine.data
    BY <1>0, <2>1 DEF Hist, TSM, Data
  <2> HIDE DEF none, b0
  <2>4. Runs(h, h, N, none, b0)
    BY <2>1, <2>3 DEF Runs
  <2> QED
    BY <2>1, <2>2, <2>3, <2>4 DEF none
<1>2. ASSUME NEW x \in Seq(Entry), NEW e \in Entry, x \in W PROVE Append(x, e) \in W
  <2> DEFINE more == Append(x, e)
  <2>0. more \in Seq(Entry)
    OBVIOUS
  <2> HIDE DEF h, Within, Ran, more
  <2> SUFFICES ASSUME Good(log \o more), Within(more) PROVE Ran(NoteAll(h, more))
    BY <2>0 DEF W, more
  <2> USE DEF h, Within, Ran, more
  <2>1. /\ log \o x \in Seq(Entry) /\ log \o more = Append(log \o x, e)
        /\ log \o more \in Seq(Entry)
        /\ Len(log \o x) <= Len(log \o more)
        /\ \A i \in 1 .. Len(log \o x) : (log \o x)[i] = (log \o more)[i]
    OBVIOUS
  <2>2. Good(log \o x)
    BY <2>1, GoodPrefix
  <2>3. /\ Len(more) = Len(x) + 1 /\ more[Len(x) + 1] = e
        /\ \A i \in 1 .. Len(x) : more[i] = x[i] /\ i \in 1 .. Len(x) + 1
        /\ Len(x) + 1 \in 1 .. Len(x) + 1
    OBVIOUS
  <2> DEFINE h2 == NoteAll(h, x)
  <2>4. NoteAll(h, more) = Note(h2, e) /\ h2 \in Hist
    BY <1>0, NoteMore, NoteConcat
  <2>5. h2 = NoteAll(FirstHist, log \o x)
    BY FirstHistType, NoteConcat
  <2>6. Reflects(h2, log \o x)
    BY <2>1, <2>2, <2>5, HistoryReflects
  <2> HIDE DEF more, h2
  <2>7. Within(x)
    BY <2>3
  <2>a. PICK cs \in Seq(Client) : \E b \in [1 .. Len(cs) + 1 -> Data] : Runs(h, h2, N, cs, b)
    BY <1>2, <2>2, <2>7 DEF h2
  <2>8. PICK b \in [1 .. Len(cs) + 1 -> Data] : Runs(h, h2, N, cs, b)
    BY <2>a
  <2>9. e.cmd # NoOp => Turn(e.cmd) <= N[e.cmd.client] + 1
    <3> SUFFICES ASSUME e.cmd # NoOp PROVE Turn(e.cmd) <= N[e.cmd.client] + 1
      OBVIOUS
    <3>1. Asks(more[Len(x) + 1], e.cmd.client) /\ e.cmd.client \in Client
      BY <2>3 DEF Asks, Entry, Action
    <3> QED
      BY <2>3, <3>1
  <2>10. Good(Append(log \o x, e))
    BY <2>1
  <2>11. \A c \in Client : N[c] <= Done(h, c)
    OBVIOUS
  <2> HIDE DEF h
  <2>12. Ran(Note(h2, e))
    BY <1>0, <2>1, <2>4, <2>6, <2>8, <2>9, <2>10, <2>11, RunsOneMore
  <2> QED
    BY <2>4, <2>12
<1> HIDE DEF W
<1>3. first \in W
  BY <1>1, <1>2, SeqInduction
<1> QED
  BY <1>3 DEF W

-----------------------------------------------------------------------------
\* types

Core == [pc : {"send", "check", "query"}, leader : Server \cup {Nil}, checks : Nat, queries : Nat]

TypeInv ==
  /\ committed \in Seq(Entry)
  /\ tail \in [Server -> Seq(Entry)]
  /\ term \in Nat
  /\ leads \in [Server -> Nat]
  /\ hint \in [Server -> Server \cup {Nil}]
  /\ applied \in [Server -> Nat]
  /\ machine \in [Server -> TSM]
  /\ executed \in Hist
  /\ pending \subseteq [server : Server, cmd : Action]
  /\ core \in [Client -> Core]
  /\ answers \in [Client -> Seq(BOOLEAN)]

LEMMA CurrentType ==
  ASSUME TypeInv, NEW c \in Client, Busy(c)
  PROVE  /\ Len(answers[c]) + 1 \in 1 .. Len(Script[c]) /\ Current(c) = Script[c][Len(answers[c]) + 1]
         /\ Current(c) \in Action
<1>1. answers[c] \in Seq(BOOLEAN) /\ Script[c] \in Seq(Action)
  BY TransactionsAssumption DEF TypeInv
<1> QED
  BY <1>1 DEF Busy, Current

LEMMA CoreChanges ==
  ASSUME NEW x \in Core, NEW l \in Server \cup {Nil}
  PROVE  /\ [x EXCEPT !.leader = l] \in Core
         /\ [x EXCEPT !.checks = @ + 1] \in Core
         /\ [x EXCEPT !.pc = "send", !.checks = 0] \in Core
         /\ [x EXCEPT !.pc = "check", !.checks = 0] \in Core
         /\ [x EXCEPT !.pc = "query", !.queries = @ + 1] \in Core
<1>1. x.checks + 1 \in Nat /\ x.queries + 1 \in Nat /\ 0 \in Nat
  BY DEF Core
<1>2. ASSUME NEW k \in Nat, NEW m \in {"send", "check", "query"}
      PROVE  /\ [x EXCEPT !.leader = l] \in Core /\ [x EXCEPT !.checks = k] \in Core
             /\ [x EXCEPT !.pc = m] \in Core /\ [x EXCEPT !.queries = k] \in Core
  BY DEF Core
<1>3. ASSUME NEW k \in Nat, NEW m \in {"send", "check", "query"}
      PROVE  [x EXCEPT !.pc = m, !.checks = k] \in Core
  BY DEF Core
<1>4. ASSUME NEW k \in Nat
      PROVE  [x EXCEPT !.pc = "query", !.queries = k] \in Core
  BY DEF Core
<1> QED
  BY <1>1, <1>2, <1>3, <1>4

LEMMA InitType == Init => TypeInv
<1> SUFFICES ASSUME Init PROVE TypeInv
  OBVIOUS
<1>1. FirstHist \in Hist /\ executed = FirstHist /\ EmptyTSM \in TSM
  BY FirstHistType DEF Init, FirstHist, Hist
<1>2. [term |-> 1, cmd |-> NoOp] \in Entry
  BY DEF Entry
<1>3. committed \in Seq(Entry)
  BY <1>2 DEF Init
<1>4. \A s \in Server : FirstLeader \in Server
  BY DEF FirstLeader
<1>5. Idle \in Core
  BY DEF Idle, Core
<1>6. hint \in [Server -> Server \cup {Nil}]
  BY <1>4 DEF Init
<1>7. leads \in [Server -> Nat] /\ tail \in [Server -> Seq(Entry)] /\ term \in Nat
      /\ applied \in [Server -> Nat]
  BY DEF Init
<1>8. machine \in [Server -> TSM] /\ pending = {} /\ core \in [Client -> Core]
  BY <1>1, <1>5 DEF Init
<1>9. answers \in [Client -> Seq(BOOLEAN)]
  BY DEF Init
<1> QED
  BY <1>1, <1>3, <1>6, <1>7, <1>8, <1>9 DEF TypeInv

\* The entries that UpdateCommitIndex commits are a part of the leader's tail, and what it
\* feeds its state machine is part of the committed ones.
LEMMA CommitTypes ==
  ASSUME TypeInv, NEW s \in Server, NEW n \in 1 .. Len(tail[s])
  PROVE  LET first == SubSeq(tail[s], 1, n)
         IN /\ first \in Seq(Entry) /\ Len(first) = n
            /\ \A i \in 1 .. n : first[i] = tail[s][i]
            /\ committed \o first \in Seq(Entry)
            /\ Len(committed \o first) = Len(committed) + n
            /\ SubSeq(committed \o first, applied[s] + 1, Len(committed) + n) \in Seq(Entry)
<1> DEFINE first == SubSeq(tail[s], 1, n)
           all   == committed \o first
<1>1. tail[s] \in Seq(Entry) /\ committed \in Seq(Entry) /\ applied[s] \in Nat
  BY DEF TypeInv
<1>2. first \in Seq(Entry) /\ Len(first) = n /\ \A i \in 1 .. n : first[i] = tail[s][i]
  BY <1>1
<1> HIDE DEF first
<1>3. all \in Seq(Entry) /\ Len(all) = Len(committed) + n
  BY <1>1, <1>2
<1> HIDE DEF all
<1>4. SubSeq(all, applied[s] + 1, Len(committed) + n) \in Seq(Entry)
  BY <1>1, <1>3
<1> QED
  BY <1>2, <1>3, <1>4 DEF first, all

LEMMA ConcatIs ==
  ASSUME NEW a \in Seq(Entry), NEW b \in Seq(Entry), NEW log \in Seq(Entry),
         Len(log) = Len(a) + Len(b),
         \A i \in 1 .. Len(a) : a[i] = log[i],
         \A i \in 1 .. Len(b) : b[i] = log[Len(a) + i]
  PROVE  a \o b = log
<1> DEFINE whole == a \o b
<1>1. whole \in Seq(Entry) /\ Len(whole) = Len(log)
  OBVIOUS
<1>2. ASSUME NEW i \in 1 .. Len(log) PROVE whole[i] = log[i]
  <2>1. CASE i \in 1 .. Len(a)
    BY <2>1
  <2>2. CASE i \notin 1 .. Len(a)
    <3>1. i - Len(a) \in 1 .. Len(b) /\ Len(a) + (i - Len(a)) = i
      BY <2>2
    <3>2. whole[i] = b[i - Len(a)]
      BY <2>2, <3>1
    <3> QED
      BY <3>1, <3>2
  <2> QED
    BY <2>1, <2>2
<1> HIDE DEF whole
<1>3. whole = log
  BY <1>1, <1>2
<1> QED
  BY <1>3 DEF whole

LEMMA SplitAt ==
  ASSUME NEW es \in Seq(Entry), NEW k \in Nat, k <= Len(es)
  PROVE  LET p == SubSeq(es, 1, k)
             r == SubSeq(es, k + 1, Len(es))
         IN /\ p \in Seq(Entry) /\ Len(p) = k /\ \A i \in 1 .. k : p[i] = es[i]
            /\ r \in Seq(Entry) /\ p \o r = es
<1> DEFINE p == SubSeq(es, 1, k)
           r == SubSeq(es, k + 1, Len(es))
<1>1. p \in Seq(Entry) /\ Len(p) = k /\ \A i \in 1 .. k : p[i] = es[i]
  OBVIOUS
<1>2. /\ r \in Seq(Entry) /\ Len(r) = Len(es) - k
      /\ \A i \in 1 .. Len(r) : r[i] = es[k + i]
  OBVIOUS
<1> HIDE DEF p, r
<1>3. p \o r = es
  <2>1. Len(es) = Len(p) + Len(r)
    BY <1>1, <1>2
  <2>2. /\ \A i \in 1 .. Len(p) : p[i] = es[i]
        /\ \A i \in 1 .. Len(r) : r[i] = es[Len(p) + i]
    BY <1>1, <1>2
  <2> QED
    BY <1>1, <1>2, <2>1, <2>2, ConcatIs
<1> QED
  BY <1>1, <1>2, <1>3 DEF p, r

LEMMA TailAfterType ==
  ASSUME NEW first \in Seq(Entry), NEW log \in Seq(Entry)
  PROVE  /\ TailAfter(first, log) \in Seq(Entry)
         /\ \/ TailAfter(first, log) = <<>>
            \/ first \o TailAfter(first, log) = log
<1>1. CASE IsPrefix(first, log)
  <2> DEFINE rest == SubSeq(log, Len(first) + 1, Len(log))
  <2>1. Len(first) <= Len(log) /\ \A i \in 1 .. Len(first) : first[i] = log[i]
    <3>1. Len(first) <= Len(log)
      BY <1>1 DEF IsPrefix
    <3>2. SubSeq(first, 1, Len(first)) = SubSeq(log, 1, Len(first))
      BY <1>1 DEF IsPrefix
    <3>3. \A i \in 1 .. Len(first) : /\ SubSeq(first, 1, Len(first))[i] = first[i]
                                    /\ SubSeq(log, 1, Len(first))[i] = log[i]
      BY <3>1
    <3> QED
      BY <3>1, <3>2, <3>3
  <2>2. /\ rest \in Seq(Entry) /\ Len(rest) = Len(log) - Len(first)
        /\ \A i \in 1 .. Len(rest) : rest[i] = log[Len(first) + i]
    BY <2>1
  <2> HIDE DEF rest
  <2>3. first \o rest = log
    <3>1. Len(log) = Len(first) + Len(rest)
      BY <2>1, <2>2
    <3> QED
      BY <3>1, <2>1, <2>2, ConcatIs
  <2> QED
    BY <1>1, <2>2, <2>3 DEF TailAfter, rest
<1>2. CASE ~IsPrefix(first, log)
  BY <1>2 DEF TailAfter
<1> QED
  BY <1>1, <1>2

LEMMA AppendType ==
  ASSUME TypeInv, NEW s \in Server, NEW cmd \in Action, AppendEntry(s, cmd)
  PROVE  (/\ committed \in Seq(Entry)
          /\ tail \in [Server -> Seq(Entry)]
          /\ term \in Nat
          /\ leads \in [Server -> Nat]
          /\ hint \in [Server -> Server \cup {Nil}]
          /\ applied \in [Server -> Nat]
          /\ machine \in [Server -> TSM]
          /\ executed \in Hist)'
<1>1. [term |-> leads[s], cmd |-> cmd] \in Entry
  BY DEF TypeInv, Entry
<1>2. tail' \in [Server -> Seq(Entry)]
  BY <1>1 DEF TypeInv, AppendEntry
<1> QED
  BY <1>2 DEF TypeInv, AppendEntry

LEMMA NextType ==
  ASSUME TypeInv, [Next]_vars
  PROVE  TypeInv'
<1> DEFINE ServerTypes == /\ committed \in Seq(Entry)
                          /\ tail \in [Server -> Seq(Entry)]
                          /\ term \in Nat
                          /\ leads \in [Server -> Nat]
                          /\ hint \in [Server -> Server \cup {Nil}]
                          /\ applied \in [Server -> Nat]
                          /\ machine \in [Server -> TSM]
                          /\ executed \in Hist
           ClientTypes == /\ core \in [Client -> Core]
                          /\ answers \in [Client -> Seq(BOOLEAN)]
           PendingType == pending \subseteq [server : Server, cmd : Action]
<1>a. ServerTypes /\ ClientTypes /\ PendingType
  BY DEF TypeInv
<1>b. UNCHANGED serverVars => ServerTypes'
  BY <1>a DEF serverVars
<1>c. UNCHANGED clientVars => ClientTypes'
  BY <1>a DEF clientVars
<1>d. UNCHANGED <<core, answers>> => ClientTypes'
  BY <1>a
<1>e. UNCHANGED pending => PendingType'
  BY <1>a
<1>f. ASSUME NEW s \in Server, NEW cmd \in Action, AppendEntry(s, cmd) PROVE ServerTypes'
  BY <1>f, AppendType
<1>g. ASSUME NEW c \in Client, NEW s \in Server, Busy(c), StartRequest(c, s)
      PROVE  ServerTypes' /\ PendingType'
  <2>1. Current(c) \in Action
    BY <1>g, CurrentType
  <2>2. CASE c \in LateClients
    <3>1. [server |-> s, cmd |-> Current(c)] \in [server : Server, cmd : Action]
      BY <2>1
    <3> QED
      BY <2>2, <3>1, <1>a, <1>b, <1>g DEF StartRequest
  <2>3. CASE c \notin LateClients
    BY <2>1, <2>3, <1>e, <1>f, <1>g DEF StartRequest
  <2> QED
    BY <2>2, <2>3
<1>h. ASSUME NEW c \in Client, core[c].leader # Nil
      PROVE  core[c] \in Core /\ core[c].leader \in Server
  BY <1>h, <1>a DEF Core
<1>i. ASSUME NEW c \in Client, NEW next \in Core, LogErrAndBackoff(c, next)
      PROVE  core' \in [Client -> Core]
  BY <1>i, <1>a DEF LogErrAndBackoff, Core
<1> SUFFICES ServerTypes' /\ ClientTypes' /\ PendingType'
  BY DEF TypeInv
<1>1. ASSUME NEW s \in Server, Elect(s) PROVE ServerTypes' /\ ClientTypes' /\ PendingType'
  <2>1. term' = term + 1 /\ [term |-> term + 1, cmd |-> NoOp] \in Entry
    BY <1>1, <1>a DEF Elect, Entry
  <2>2. tail' \in [Server -> Seq(Entry)]
    BY <1>1, <1>a, <2>1 DEF Elect
  <2>3. leads' \in [Server -> Nat] /\ hint' \in [Server -> Server \cup {Nil}]
    BY <1>1, <1>a DEF Elect
  <2> QED
    BY <1>1, <1>a, <1>c, <1>e, <2>1, <2>2, <2>3 DEF Elect
<1>2. ASSUME NEW s \in Server, Follow(s) PROVE ServerTypes' /\ ClientTypes' /\ PendingType'
  <2>1. PICK l \in Server \ {s} :
          /\ leads' = [leads EXCEPT ![s] = 0]
          /\ hint' = [hint EXCEPT ![s] = l]
          /\ \E n \in 0 .. Len(tail[l]) :
               tail' = [tail EXCEPT ![s] = IF IsPrefix(SubSeq(tail[l], 1, n), @) THEN @
                                           ELSE SubSeq(tail[l], 1, n)]
          /\ applied' = [applied EXCEPT ![s] = IF applied[l] > @ THEN applied[l] ELSE @]
          /\ machine' = [machine EXCEPT ![s] = IF applied[l] > applied[s] THEN machine[l] ELSE @]
          /\ UNCHANGED <<committed, term, executed, pending, clientVars>>
    BY <1>2 DEF Follow
  <2>2. PICK n \in 0 .. Len(tail[l]) :
          tail' = [tail EXCEPT ![s] = IF IsPrefix(SubSeq(tail[l], 1, n), @) THEN @
                                      ELSE SubSeq(tail[l], 1, n)]
    BY <2>1
  <2>3. SubSeq(tail[l], 1, n) \in Seq(Entry)
    BY <1>a
  <2>4. tail' \in [Server -> Seq(Entry)]
    BY <1>a, <2>2, <2>3
  <2>5. leads' \in [Server -> Nat] /\ hint' \in [Server -> Server \cup {Nil}]
        /\ applied' \in [Server -> Nat]
    BY <1>a, <2>1
  <2>6. machine' \in [Server -> TSM]
    BY <1>a, <2>1
  <2> QED
    BY <1>a, <1>c, <1>e, <2>1, <2>4, <2>5, <2>6
<1>3. ASSUME NEW s \in Server, UpdateCommitIndex(s)
      PROVE  ServerTypes' /\ ClientTypes' /\ PendingType'
  <2>1. PICK n \in 1 .. Len(tail[s]) :
          LET first == SubSeq(tail[s], 1, n)
          IN /\ committed' = committed \o first
             /\ tail' = [q \in Server |-> TailAfter(first, tail[q])]
             /\ applied' = [applied EXCEPT ![s] = Len(committed) + n]
             /\ machine' = [machine EXCEPT ![s] =
                   FeedAll(@, SubSeq(committed \o first, applied[s] + 1, Len(committed) + n))]
             /\ executed' = NoteAll(executed, first)
    BY <1>3 DEF UpdateCommitIndex
  <2> DEFINE first == SubSeq(tail[s], 1, n)
             fed   == SubSeq(committed \o first, applied[s] + 1, Len(committed) + n)
  <2>2. first \in Seq(Entry) /\ committed \o first \in Seq(Entry) /\ fed \in Seq(Entry)
    BY CommitTypes
  <2>3. /\ committed' = committed \o first
        /\ tail' = [q \in Server |-> TailAfter(first, tail[q])]
        /\ applied' = [applied EXCEPT ![s] = Len(committed) + n]
        /\ machine' = [machine EXCEPT ![s] = FeedAll(machine[s], fed)]
        /\ executed' = NoteAll(executed, first)
    BY <2>1
  <2> HIDE DEF first, fed
  <2>4. tail' \in [Server -> Seq(Entry)]
    BY <1>a, <2>2, <2>3, TailAfterType
  <2>5. applied' \in [Server -> Nat]
    BY <1>a, <2>3
  <2>6. machine' \in [Server -> TSM]
    <3>1. FeedAll(machine[s], fed) \in TSM
      BY <1>a, <2>2, FeedConcat
    <3> QED
      BY <1>a, <2>3, <3>1
  <2>7. executed' \in Hist
    BY <1>a, <2>2, <2>3, NoteConcat
  <2> QED
    BY <1>a, <1>3, <1>c, <1>e, <2>2, <2>3, <2>4, <2>5, <2>6, <2>7 DEF UpdateCommitIndex
<1>4. ASSUME NEW m \in pending, RunPending(m) PROVE ServerTypes' /\ ClientTypes' /\ PendingType'
  <2>1. m.server \in Server /\ m.cmd \in Action
    BY <1>a
  <2>2. ServerTypes'
    BY <1>4, <2>1, <1>b, <1>f DEF RunPending
  <2>3. PendingType'
    BY <1>4, <1>a DEF RunPending
  <2> QED
    BY <1>4, <2>2, <2>3, <1>c DEF RunPending
<1>5. ASSUME NEW c \in Client, SendActionRequest(c)
      PROVE  ServerTypes' /\ ClientTypes' /\ PendingType'
  <2>1. core' \in [Client -> Core]
    BY <1>5, <1>a DEF SendActionRequest, Core
  <2> QED
    BY <1>5, <1>a, <1>g, <1>h, <2>1 DEF SendActionRequest
<1>6. ASSUME NEW c \in Client, SendActionRequestFails(c)
      PROVE  ServerTypes' /\ ClientTypes' /\ PendingType'
  <2>1. core[c] \in Core /\ core[c].leader \in Server /\ Busy(c)
    BY <1>6, <1>h DEF SendActionRequestFails
  <2>2. core' \in [Client -> Core]
    BY <1>6, <1>i, <2>1 DEF SendActionRequestFails
  <2>3. ServerTypes' /\ PendingType'
    BY <1>6, <1>b, <1>e, <1>g, <2>1 DEF SendActionRequestFails
  <2> QED
    BY <1>6, <1>a, <2>2, <2>3 DEF SendActionRequestFails
<1>7. ASSUME NEW c \in Client, CheckSucceeds(c)
      PROVE  ServerTypes' /\ ClientTypes' /\ PendingType'
  <2> DEFINE s == core[c].leader
  <2>1. core[c] \in Core /\ s \in Server
    BY <1>7, <1>h DEF CheckSucceeds
  <2>2. core' \in [Client -> Core]
    <3>1. [Idle EXCEPT !.leader = s, !.queries = core[c].queries] \in Core
      BY <2>1 DEF Idle, Core
    <3> QED
      BY <1>7, <1>a, <3>1 DEF CheckSucceeds
  <2>a. PICK t \in HandleClientQueryRequest(s) :
          \E info \in QueryLatestRequest(t, c) :
            answers' = [answers EXCEPT ![c] = Append(@, info.failed)]
    BY <1>7 DEF CheckSucceeds
  <2>3. PICK info \in QueryLatestRequest(t, c) :
          answers' = [answers EXCEPT ![c] = Append(@, info.failed)]
    BY <2>a
  <2>4. t \in TSM
    BY <1>a, <2>1 DEF HandleClientQueryRequest
  <2>5. info \in RequestInfo
    BY <2>4 DEF QueryLatestRequest, TSM, Map
  <2>6. info.failed \in BOOLEAN
    BY <2>5 DEF RequestInfo
  <2> DEFINE failed == info.failed
  <2> HIDE DEF failed
  <2>7. answers' \in [Client -> Seq(BOOLEAN)]
    BY <1>a, <2>3, <2>6 DEF failed
  <2> QED
    BY <1>7, <1>b, <1>e, <2>2, <2>7 DEF CheckSucceeds
<1>8. ASSUME NEW c \in Client, CheckFails(c)
      PROVE  ServerTypes' /\ ClientTypes' /\ PendingType'
  <2>1. core[c] \in Core
    BY <1>a
  <2>2. /\ [core[c] EXCEPT !.checks = @ + 1] \in Core
        /\ [core[c] EXCEPT !.pc = "send", !.checks = 0] \in Core
    BY <2>1, CoreChanges
  <2>3. core' \in [Client -> Core]
    BY <1>8, <1>i, <2>1, <2>2 DEF CheckFails
  <2> QED
    BY <1>8, <1>a, <1>b, <1>e, <2>3 DEF CheckFails
<1>9. ASSUME NEW c \in Client, StartQuery(c) PROVE ServerTypes' /\ ClientTypes' /\ PendingType'
  <2>1. core' \in [Client -> Core]
    <3> DEFINE x == [core[c] EXCEPT !.pc = "query", !.queries = @ + 1]
    <3>1. x \in Core
      BY <1>a, CoreChanges
    <3>2. core' = [core EXCEPT ![c] = x]
      BY <1>9, <1>a DEF StartQuery
    <3> HIDE DEF x
    <3> QED
      BY <1>a, <3>1, <3>2
  <2> QED
    BY <1>9, <1>a, <1>b, <1>e, <2>1 DEF StartQuery
<1>10. ASSUME NEW c \in Client, ExecuteQueryRequest(c)
       PROVE  ServerTypes' /\ ClientTypes' /\ PendingType'
  <2>1. core' \in [Client -> Core]
    BY <1>10, <1>a DEF ExecuteQueryRequest, Core
  <2> QED
    BY <1>10, <1>a, <1>b, <1>e, <2>1 DEF ExecuteQueryRequest
<1>11. ASSUME NEW c \in Client, ExecuteQueryRequestFails(c)
       PROVE  ServerTypes' /\ ClientTypes' /\ PendingType'
  <2>1. core' \in [Client -> Core]
    BY <1>11, <1>a, <1>i DEF ExecuteQueryRequestFails
  <2> QED
    BY <1>11, <1>a, <1>b, <1>e, <2>1 DEF ExecuteQueryRequestFails
<1>12. ASSUME NEW c \in Client, NEW s \in Server, LookForLeader(c, s)
       PROVE  ServerTypes' /\ ClientTypes' /\ PendingType'
  <2>1. core' \in [Client -> Core]
    <3>1. PICK l \in Server : core' = [core EXCEPT ![c].leader = l]
      BY <1>12 DEF LookForLeader, HandleClientLeaderRequest
    <3> DEFINE x == [core[c] EXCEPT !.leader = l]
    <3>2. x \in Core
      BY <1>a, CoreChanges
    <3>3. core' = [core EXCEPT ![c] = x]
      BY <1>a, <3>1
    <3> HIDE DEF x
    <3> QED
      BY <1>a, <3>2, <3>3
  <2> QED
    BY <1>12, <1>a, <1>b, <1>e, <2>1 DEF LookForLeader
<1>13. ASSUME UNCHANGED vars PROVE ServerTypes' /\ ClientTypes' /\ PendingType'
  BY <1>13, <1>b, <1>c, <1>e DEF vars
<1> HIDE DEF ServerTypes, ClientTypes, PendingType
<1> QED
  BY <1>1, <1>2, <1>3, <1>4, <1>5, <1>6, <1>7, <1>8, <1>9, <1>10, <1>11, <1>12, <1>13 DEF Next

\* Every variable has its type, and so every state machine that of a state machine.
THEOREM TypesAreKept == Spec => []TypeInv
  BY InitType, NextType, PTL DEF Spec

\* No balance is ever negative, nor larger than an int, on any state machine, whatever
\* happens to requests: BalancesInRange for any clients, scripts and ints.
THEOREM BalancesStayInRange == Spec => []BalancesInRange
<1>1. TypeInv => BalancesInRange
  <2> SUFFICES ASSUME TypeInv, NEW s \in Server, NEW k \in DOMAIN machine[s].data
               PROVE  machine[s].data[k] \in Balance
    BY DEF BalancesInRange
  <2>1. machine[s].data \in Map(Account, Balance)
    BY DEF TypeInv, TSM
  <2> QED
    BY <2>1 DEF Map
<1> QED
  BY <1>1, TypesAreKept, PTL

-----------------------------------------------------------------------------
\* logs

\* What may be appended after its client has gone on is the one command of a client.
OneLateRequest == \A c \in LateClients : Len(Script[c]) <= 1

\* a client asks for no more than the command it waits for
Asked(log) ==
  \A i \in 1 .. Len(log) : \A c \in Client :
    Asks(log[i], c) => Turn(log[i].cmd) <= Len(answers[c]) + 1

LogsAreGood ==
  \A s \in Server : Good(committed \o tail[s]) /\ Asked(committed \o tail[s])

AnsweredAreCommitted ==
  \A c \in Client : \A n \in 1 .. Len(answers[c]) :
    \E i \in 1 .. Len(committed) : n <= Len(Script[c]) /\ committed[i].cmd = Script[c][n]

LateAreOnly ==
  \A m \in pending : m.cmd.client \in LateClients /\ Scripted(m.cmd)

LogInv == LogsAreGood /\ AnsweredAreCommitted /\ LateAreOnly

\* what the state machines were fed
MachineInv ==
  /\ executed = NoteAll(FirstHist, committed)
  /\ \A s \in Server : /\ applied[s] <= Len(committed)
                       /\ machine[s] = FeedAll(EmptyTSM, SubSeq(committed, 1, applied[s]))

\* that a client has been told no more than was executed
ToldInv ==
  \A c \in Client :
    /\ Len(answers[c]) <= Done(executed, c) /\ Done(executed, c) <= Len(answers[c]) + 1

LEMMA AskedPrefix ==
  ASSUME NEW log \in Seq(Entry), NEW p \in Seq(Entry), Asked(log), Len(p) <= Len(log),
         \A i \in 1 .. Len(p) : p[i] = log[i]
  PROVE  Asked(p)
<1>1. \A i \in 1 .. Len(p) : i \in 1 .. Len(log)
  OBVIOUS
<1> QED
  BY <1>1 DEF Asked

LEMMA CommittedAreGood ==
  ASSUME TypeInv, LogsAreGood, NEW s \in Server
  PROVE  Good(committed) /\ Asked(committed)
<1>1. /\ committed \in Seq(Entry) /\ tail[s] \in Seq(Entry) /\ committed \o tail[s] \in Seq(Entry)
      /\ Len(committed) <= Len(committed \o tail[s])
      /\ \A i \in 1 .. Len(committed) : committed[i] = (committed \o tail[s])[i]
  BY DEF TypeInv
<1>2. Good(committed \o tail[s]) /\ Asked(committed \o tail[s])
  BY DEF LogsAreGood
<1> DEFINE log == committed \o tail[s]
<1> HIDE DEF log
<1> QED
  BY <1>1, <1>2, GoodPrefix, AskedPrefix DEF log

\* The state machine after a part of the committed entries knows of each client the latest
\* command in that part, and its outcome.
LEMMA MachineKnows ==
  ASSUME TypeInv, Good(committed), MachineInv, NEW s \in Server, NEW c \in Client,
         c \in DOMAIN machine[s].latest
  PROVE  \E n \in 1 .. Len(Script[c]) :
           /\ n <= Done(executed, c)
           /\ machine[s].latest[c].id = Script[c][n].id
           /\ machine[s].latest[c].failed = executed.outcomes[c][n]
           /\ \E i \in 1 .. Len(committed) : committed[i].cmd = Script[c][n]
<1> DEFINE k == applied[s]
           p == SubSeq(committed, 1, k)
           r == SubSeq(committed, k + 1, Len(committed))
           h == NoteAll(FirstHist, p)
<1>1. committed \in Seq(Entry) /\ k \in Nat /\ k <= Len(committed)
  BY DEF TypeInv, MachineInv
<1>2. /\ p \in Seq(Entry) /\ Len(p) = k /\ \A i \in 1 .. k : p[i] = committed[i]
      /\ r \in Seq(Entry) /\ p \o r = committed
  <2> HIDE DEF k
  <2> QED
    BY <1>1, SplitAt
<1> HIDE DEF k, p, r
<1>3. Good(p)
  BY <1>1, <1>2, GoodPrefix
<1>4. h \in Hist /\ Reflects(h, p)
  BY <1>2, <1>3, HistoryReflects
<1>5. h.machine = machine[s]
  <2>1. h.machine = FeedAll(FirstHist.machine, p)
    BY <1>2, FirstHistType, NoteFeeds
  <2> QED
    BY <2>1 DEF MachineInv, FirstHist, p, k
<1>6. executed = NoteAll(h, r)
  BY <1>2, FirstHistType, NoteConcat DEF MachineInv
<1> HIDE DEF h
<1> DEFINE n == Done(h, c)
<1>7. n > 0 /\ n \in Nat /\ n <= Len(Script[c])
      /\ machine[s].latest[c].id = Script[c][n].id
      /\ machine[s].latest[c].failed = h.outcomes[c][n]
  BY <1>4, <1>5, LatestIsDone
<1>8. /\ n <= Done(executed, c)
      /\ executed.outcomes[c][n] = h.outcomes[c][n]
  <2>1. /\ Len(h.outcomes[c]) <= Len(executed.outcomes[c])
        /\ \A j \in 1 .. Len(h.outcomes[c]) : executed.outcomes[c][j] = h.outcomes[c][j]
    BY <1>2, <1>4, <1>6, NoteFeeds
  <2>2. n \in 1 .. Len(h.outcomes[c])
    BY <1>7 DEF Done
  <2> QED
    BY <2>1, <2>2 DEF Done
<1>9. PICK i \in 1 .. Len(p) : p[i].cmd = Script[c][n]
  BY <1>4, <1>7 DEF Reflects
<1>10. i \in 1 .. Len(committed) /\ committed[i].cmd = Script[c][n]
  BY <1>1, <1>2, <1>9
<1>11. n \in 1 .. Len(Script[c])
  BY <1>7, TransactionsAssumption
<1> QED
  BY <1>7, <1>8, <1>10, <1>11

\* A check that succeeds has found the command that its client waits for, executed.
LEMMA CheckFinds ==
  ASSUME TypeInv, LogsAreGood, MachineInv, NEW c \in Client, CheckSucceeds(c)
  PROVE  LET n == Len(answers[c]) + 1
         IN /\ n \in 1 .. Len(Script[c]) /\ n <= Done(executed, c)
            /\ answers' = [answers EXCEPT ![c] = Append(@, executed.outcomes[c][n])]
            /\ \E i \in 1 .. Len(committed) : committed[i].cmd = Script[c][n]
<1> DEFINE s == core[c].leader
           N == Len(answers[c]) + 1
<1>1. s \in Server
  BY DEF CheckSucceeds, TypeInv, Core
<1>2. /\ N \in 1 .. Len(Script[c]) /\ Current(c) = Script[c][N]
  BY CurrentType DEF CheckSucceeds
<1>3. PICK t \in HandleClientQueryRequest(s) : \E info \in QueryLatestRequest(t, c) :
        /\ info.id = Current(c).id
        /\ answers' = [answers EXCEPT ![c] = Append(@, info.failed)]
  BY DEF CheckSucceeds
<1>4. PICK info \in QueryLatestRequest(t, c) :
        /\ info.id = Current(c).id
        /\ answers' = [answers EXCEPT ![c] = Append(@, info.failed)]
  BY <1>3
<1>5. t = machine[s] /\ c \in DOMAIN machine[s].latest /\ info = machine[s].latest[c]
  BY <1>3, <1>4 DEF HandleClientQueryRequest, QueryLatestRequest
<1>6. PICK n \in 1 .. Len(Script[c]) :
        /\ n <= Done(executed, c)
        /\ machine[s].latest[c].id = Script[c][n].id
        /\ machine[s].latest[c].failed = executed.outcomes[c][n]
        /\ \E i \in 1 .. Len(committed) : committed[i].cmd = Script[c][n]
  BY <1>1, <1>5, CommittedAreGood, MachineKnows
<1>7. n = N
  BY <1>2, <1>4, <1>5, <1>6, IdsDiffer
<1> QED
  BY <1>2, <1>4, <1>5, <1>6, <1>7

LEMMA WholeSubSeq ==
  ASSUME NEW es \in Seq(Entry)
  PROVE  SubSeq(es, 1, Len(es)) = es
<1>1. /\ Len(es) \in Nat /\ SubSeq(es, 1, Len(es)) \in Seq(Entry)
      /\ Len(SubSeq(es, 1, Len(es))) = Len(es)
      /\ \A i \in 1 .. Len(es) : SubSeq(es, 1, Len(es))[i] = es[i]
  OBVIOUS
<1> QED
  BY <1>1

\* At first there is one entry, of no client.
LEMMA InitLogs == Init => LogInv /\ MachineInv
<1> SUFFICES ASSUME Init PROVE LogInv /\ MachineInv
  OBVIOUS
<1> DEFINE e0  == [term |-> 1, cmd |-> NoOp]
           one == <<e0>>
<1>1. /\ committed = one /\ e0 \in Entry /\ one \in Seq(Entry) /\ Len(one) = 1 /\ one[1] = e0
      /\ e0.cmd = NoOp /\ one = Append(<<>>, e0) /\ SubSeq(one, 1, 1) = one /\ one \o <<>> = one
  <2>1. committed = one /\ e0.cmd = NoOp
    BY DEF Init
  <2>2. e0 \in Entry
    BY DEF Entry
  <2> HIDE DEF e0
  <2>3. one \in Seq(Entry) /\ Len(one) = 1 /\ one[1] = e0 /\ one = Append(<<>>, e0)
    BY <2>2
  <2> HIDE DEF one
  <2>4. SubSeq(one, 1, Len(one)) = one
    BY <2>3, WholeSubSeq
  <2>5. one \o <<>> = one
    BY <2>3
  <2>6. SubSeq(one, 1, 1) = one
    BY <2>3, <2>4, Zenon
  <2> QED
    BY <2>1, <2>2, <2>3, <2>5, <2>6
<1> HIDE DEF e0, one
<1>2. Good(one) /\ Asked(one)
  <2>1. \A i \in 1 .. Len(one) : one[i].cmd = NoOp
    BY <1>1
  <2> QED
    BY <2>1 DEF Good, AllScripted, InOrder, NoGaps, Asked, Asks
<1>3. LogsAreGood
  <2>1. \A s \in Server : committed \o tail[s] = one
    BY <1>1 DEF Init
  <2> QED
    BY <1>2, <2>1 DEF LogsAreGood
<1>4. AnsweredAreCommitted
  <2>1. \A c \in Client : answers[c] = <<>>
    BY DEF Init
  <2>2. 1 .. Len(<<>>) = {}
    OBVIOUS
  <2> QED
    BY <2>1, <2>2 DEF AnsweredAreCommitted
<1>5. LateAreOnly
  BY DEF Init, LateAreOnly
<1>6. EmptyTSM \in TSM /\ executed = FirstHist
  BY FirstHistType DEF Init, FirstHist, Hist
<1>7. FeedAll(EmptyTSM, one) = EmptyTSM
  <2>1. FeedAll(EmptyTSM, Append(<<>>, e0)) = Feed(FeedAll(EmptyTSM, <<>>), e0)
    <3>1. <<>> \in Seq(Entry)
      OBVIOUS
    <3> QED
      BY <1>1, <1>6, <3>1, FeedMore
  <2>2. FeedAll(EmptyTSM, <<>>) = EmptyTSM
    BY <1>6, FeedNone
  <2> QED
    BY <1>1, <2>1, <2>2 DEF Feed
<1>8. NoteAll(FirstHist, one) = FirstHist
  <2>1. NoteAll(FirstHist, Append(<<>>, e0)) = Note(NoteAll(FirstHist, <<>>), e0)
    <3>1. <<>> \in Seq(Entry)
      OBVIOUS
    <3> QED
      BY <1>1, FirstHistType, <3>1, NoteMore
  <2>2. NoteAll(FirstHist, <<>>) = FirstHist
    BY FirstHistType, NoteNone
  <2>3. Note(FirstHist, e0) = FirstHist
    BY <1>1 DEF Note, Feed, FirstHist
  <2> QED
    BY <1>1, <2>1, <2>2, <2>3
<1>9. MachineInv
  <2>1. \A s \in Server : applied[s] = 1 /\ machine[s] = EmptyTSM
    BY DEF Init
  <2>2. ASSUME NEW s \in Server
        PROVE  /\ applied[s] <= Len(committed)
               /\ machine[s] = FeedAll(EmptyTSM, SubSeq(committed, 1, applied[s]))
    <3>1. SubSeq(committed, 1, applied[s]) = one
      BY <1>1, <2>1
    <3>2. machine[s] = FeedAll(EmptyTSM, one)
      BY <1>7, <2>1
    <3>3. machine[s] = FeedAll(EmptyTSM, SubSeq(committed, 1, applied[s]))
      BY <3>1, <3>2, Zenon
    <3>4. applied[s] <= Len(committed)
      BY <1>1, <2>1
    <3> QED
      BY <3>3, <3>4, Zenon
  <2> QED
    BY <1>1, <1>6, <1>8, <2>2 DEF MachineInv
<1> QED
  BY <1>3, <1>4, <1>5, <1>9 DEF LogInv

\* An entry that is appended keeps the logs good, when it is none of a client, or its command
\* is the one the client waits for, or its only one.
LEMMA AppendKeepsLogs ==
  ASSUME TypeInv, LogsAreGood, AnsweredAreCommitted, NEW s \in Server, NEW e \in Entry,
         e.cmd # NoOp =>
           /\ Scripted(e.cmd)
           /\ \/ Turn(e.cmd) = Len(answers[e.cmd.client]) + 1
              \/ Len(Script[e.cmd.client]) <= 1,
         tail' = [tail EXCEPT ![s] = Append(@, e)], UNCHANGED <<committed, answers>>
  PROVE  LogsAreGood'
<1> DEFINE log == committed \o tail[s]
           c   == e.cmd.client
<1>1. /\ log \in Seq(Entry) /\ committed \o Append(tail[s], e) = Append(log, e)
      /\ committed \in Seq(Entry)
      /\ Len(committed) <= Len(log) /\ \A i \in 1 .. Len(committed) : log[i] = committed[i]
      /\ Len(log) \in Nat
  BY DEF TypeInv
<1>2. Good(log) /\ Asked(log)
  BY DEF LogsAreGood
<1> HIDE DEF log
<1>3. ASSUME e.cmd # NoOp
      PROVE  /\ Scripted(e.cmd) /\ c \in Client /\ Turn(e.cmd) <= Len(answers[c]) + 1
             /\ \A i \in 1 .. Len(log) : Asks(log[i], c) => Turn(log[i].cmd) <= Turn(e.cmd)
             /\ Turn(e.cmd) > 1 => \E j \in 1 .. Len(log) :
                                     log[j].cmd = Script[c][Turn(e.cmd) - 1]
  <2>1. c \in Client /\ Turn(e.cmd) \in 1 .. Len(Script[c])
    BY <1>3, TurnOf
  <2>2. answers[c] \in Seq(BOOLEAN) /\ Len(answers[c]) \in Nat /\ Len(Script[c]) \in Nat
    BY <2>1, TransactionsAssumption DEF TypeInv
  <2>3. CASE Turn(e.cmd) = Len(answers[c]) + 1
    <3>1. \A i \in 1 .. Len(log) : Asks(log[i], c) => Turn(log[i].cmd) <= Turn(e.cmd)
      BY <1>2, <2>1, <2>3 DEF Asked
    <3>2. ASSUME Turn(e.cmd) > 1
          PROVE  \E j \in 1 .. Len(log) : log[j].cmd = Script[c][Turn(e.cmd) - 1]
      <4>1. Turn(e.cmd) - 1 \in 1 .. Len(answers[c])
        BY <2>1, <2>2, <2>3, <3>2
      <4>2. PICK i \in 1 .. Len(committed) : committed[i].cmd = Script[c][Turn(e.cmd) - 1]
        BY <2>1, <4>1 DEF AnsweredAreCommitted
      <4>3. i \in 1 .. Len(log) /\ log[i] = committed[i]
        BY <1>1
      <4> QED
        BY <4>2, <4>3
    <3> QED
      BY <1>3, <2>1, <2>2, <2>3, <3>1, <3>2
  <2>4. CASE Len(Script[c]) <= 1
    <3>1. Turn(e.cmd) = 1
      BY <2>1, <2>2, <2>4
    <3>2. ASSUME NEW i \in 1 .. Len(log), Asks(log[i], c) PROVE Turn(log[i].cmd) <= Turn(e.cmd)
      <4>1. Scripted(log[i].cmd) /\ log[i].cmd.client = c
        BY <1>2, <3>2 DEF Good, AllScripted, Asks
      <4>2. Turn(log[i].cmd) \in 1 .. Len(Script[c])
        BY <4>1, TurnOf
      <4> QED
        BY <4>2, <2>2, <2>4, <3>1
    <3> QED
      BY <1>3, <2>1, <2>2, <3>1, <3>2
  <2> QED
    BY <1>3, <2>3, <2>4
<1>4. Good(Append(log, e))
  BY <1>1, <1>2, <1>3, GoodAppend
<1>5. Asked(Append(log, e))
  <2> DEFINE more == Append(log, e)
  <2>1. /\ Len(more) = Len(log) + 1 /\ more[Len(log) + 1] = e
        /\ \A i \in 1 .. Len(log) : more[i] = log[i]
        /\ \A i \in 1 .. Len(log) + 1 : i \in 1 .. Len(log) \/ i = Len(log) + 1
    BY <1>1
  <2> HIDE DEF more
  <2>2. ASSUME NEW i \in 1 .. Len(log) + 1, NEW d \in Client, Asks(more[i], d)
        PROVE  Turn(more[i].cmd) <= Len(answers[d]) + 1
    <3>1. CASE i \in 1 .. Len(log)
      BY <3>1, <2>1, <2>2, <1>2 DEF Asked
    <3>2. CASE i = Len(log) + 1
      <4>1. e.cmd # NoOp /\ c = d /\ more[i] = e
        BY <3>2, <2>1, <2>2 DEF Asks
      <4> QED
        BY <4>1, <1>3
    <3> QED
      BY <3>1, <3>2, <2>1
  <2> QED
    BY <2>1, <2>2 DEF Asked, more
<1>6. ASSUME NEW q \in Server PROVE Good(committed' \o tail'[q]) /\ (Asked(committed \o tail[q]))'
  <2>1. CASE q = s
    <3>1. committed' \o tail'[q] = Append(log, e)
      BY <2>1, <1>1 DEF TypeInv, log
    <3> QED
      BY <3>1, <1>4, <1>5 DEF Asked
  <2>2. CASE q # s
    <3>1. committed' = committed /\ tail'[q] = tail[q] /\ answers' = answers
      BY <2>2 DEF TypeInv
    <3> QED
      BY <3>1 DEF LogsAreGood, Asked
  <2> QED
    BY <2>1, <2>2
<1> QED
  BY <1>6 DEF LogsAreGood

\* A follower takes over a part of its leader's log, and a prefix of its state machine's feed.
LEMMA FollowKeepsLogs ==
  ASSUME TypeInv, LogsAreGood, MachineInv, NEW s \in Server, Follow(s)
  PROVE  LogsAreGood' /\ MachineInv'
<1>1. PICK l \in Server \ {s} :
        /\ \E n \in 0 .. Len(tail[l]) :
             tail' = [tail EXCEPT ![s] = IF IsPrefix(SubSeq(tail[l], 1, n), @) THEN @
                                         ELSE SubSeq(tail[l], 1, n)]
        /\ applied' = [applied EXCEPT ![s] = IF applied[l] > @ THEN applied[l] ELSE @]
        /\ machine' = [machine EXCEPT ![s] = IF applied[l] > applied[s] THEN machine[l] ELSE @]
        /\ UNCHANGED <<committed, executed, clientVars>>
  BY DEF Follow
<1>2. PICK n \in 0 .. Len(tail[l]) :
        tail' = [tail EXCEPT ![s] = IF IsPrefix(SubSeq(tail[l], 1, n), @) THEN @
                                    ELSE SubSeq(tail[l], 1, n)]
  BY <1>1
<1> DEFINE part == SubSeq(tail[l], 1, n)
           log  == committed \o tail[l]
           p    == committed \o part
<1>3. /\ log \in Seq(Entry) /\ p \in Seq(Entry) /\ Len(p) <= Len(log)
      /\ \A i \in 1 .. Len(p) : p[i] = log[i]
  BY DEF TypeInv
<1>4. Good(log) /\ Asked(log)
  BY DEF LogsAreGood
<1>5. \A q \in Server : tail'[q] = tail[q] \/ tail'[q] = part
  BY <1>2 DEF TypeInv
<1> HIDE DEF log, part
<1>6. Good(p) /\ Asked(p)
  <2> HIDE DEF p
  <2> QED
    BY <1>3, <1>4, GoodPrefix, AskedPrefix
<1>7. LogsAreGood'
  <2> SUFFICES ASSUME NEW q \in Server
               PROVE  Good(committed' \o tail'[q]) /\ (Asked(committed \o tail[q]))'
    BY DEF LogsAreGood
  <2>1. committed' = committed /\ answers' = answers
    BY <1>1 DEF clientVars
  <2>2. committed' \o tail'[q] = committed \o tail[q] \/ committed' \o tail'[q] = p
    BY <1>5, <2>1
  <2>3. Good(committed \o tail[q]) /\ Asked(committed \o tail[q])
    BY DEF LogsAreGood
  <2> QED
    BY <1>6, <2>1, <2>2, <2>3 DEF Asked
<1>8. \A q \in Server : \E v \in Server : applied'[q] = applied[v] /\ machine'[q] = machine[v]
  <2> SUFFICES ASSUME NEW q \in Server
               PROVE  \E v \in Server : applied'[q] = applied[v] /\ machine'[q] = machine[v]
    OBVIOUS
  <2>1. CASE q = s /\ applied[l] > applied[s]
    BY <1>1, <2>1 DEF TypeInv
  <2>2. CASE ~(q = s /\ applied[l] > applied[s])
    BY <1>1, <2>2 DEF TypeInv
  <2> QED
    BY <2>1, <2>2
<1>9. MachineInv'
  BY <1>1, <1>8 DEF MachineInv
<1> QED
  BY <1>7, <1>9

\* A commit moves entries of good logs, and feeds them once.
LEMMA CommitKeepsLogs ==
  ASSUME TypeInv, LogsAreGood, MachineInv, NEW s \in Server, UpdateCommitIndex(s)
  PROVE  /\ LogsAreGood' /\ MachineInv'
         /\ \E first \in Seq(Entry) :
              /\ committed' = committed \o first /\ executed' = NoteAll(executed, first)
              /\ Good(committed \o first) /\ Asked(committed \o first)
<1>1. PICK n \in 1 .. Len(tail[s]) :
        LET first == SubSeq(tail[s], 1, n)
        IN /\ committed' = committed \o first
           /\ tail' = [q \in Server |-> TailAfter(first, tail[q])]
           /\ applied' = [applied EXCEPT ![s] = Len(committed) + n]
           /\ machine' = [machine EXCEPT ![s] =
                 FeedAll(@, SubSeq(committed \o first, applied[s] + 1, Len(committed) + n))]
           /\ executed' = NoteAll(executed, first)
  BY DEF UpdateCommitIndex
<1> DEFINE first == SubSeq(tail[s], 1, n)
           all   == committed \o first
           a     == applied[s]
           fed   == SubSeq(all, a + 1, Len(committed) + n)
           done  == SubSeq(committed, 1, a)
<1>2. /\ first \in Seq(Entry) /\ Len(first) = n
      /\ \A i \in 1 .. n : first[i] = tail[s][i]
      /\ all \in Seq(Entry) /\ Len(all) = Len(committed) + n /\ fed \in Seq(Entry)
  BY CommitTypes
<1>3. /\ committed' = all /\ tail' = [q \in Server |-> TailAfter(first, tail[q])]
      /\ applied' = [applied EXCEPT ![s] = Len(committed) + n]
      /\ machine' = [machine EXCEPT ![s] = FeedAll(machine[s], fed)]
      /\ executed' = NoteAll(executed, first)
      /\ answers' = answers
  BY <1>1 DEF UpdateCommitIndex, clientVars
<1>a. /\ committed \in Seq(Entry) /\ a \in Nat /\ a <= Len(committed)
      /\ \A q \in Server : tail[q] \in Seq(Entry)
  BY DEF TypeInv, MachineInv
<1>4. Good(all) /\ Asked(all)
  <2> DEFINE log == committed \o tail[s]
  <2>1. /\ log \in Seq(Entry) /\ Len(all) <= Len(log) /\ \A i \in 1 .. Len(all) : all[i] = log[i]
    BY <1>a
  <2>2. Good(log) /\ Asked(log)
    BY DEF LogsAreGood
  <2> HIDE DEF log, all
  <2> QED
    BY <1>2, <2>1, <2>2, GoodPrefix, AskedPrefix
<1>5. LogsAreGood'
  <2> SUFFICES ASSUME NEW q \in Server
               PROVE  Good(committed' \o tail'[q]) /\ (Asked(committed \o tail[q]))'
    BY DEF LogsAreGood
  <2> HIDE DEF first
  <2>1. /\ tail'[q] = TailAfter(first, tail[q])
        /\ TailAfter(first, tail[q]) \in Seq(Entry)
        /\ \/ TailAfter(first, tail[q]) = <<>>
           \/ first \o TailAfter(first, tail[q]) = tail[q]
    BY <1>2, <1>3, <1>a, TailAfterType
  <2> DEFINE rest == TailAfter(first, tail[q])
  <2> HIDE DEF rest
  <2>2. all \o rest = all \/ all \o rest = committed \o tail[q]
    <3>1. CASE rest = <<>>
      BY <3>1, <1>2
    <3>2. CASE first \o rest = tail[q]
      <4>1. (committed \o first) \o rest = committed \o (first \o rest)
        BY <1>a, <1>2, <2>1 DEF rest
      <4> QED
        BY <3>2, <4>1
    <3> QED
      BY <2>1, <3>1, <3>2 DEF rest
  <2>3. Good(committed \o tail[q]) /\ Asked(committed \o tail[q])
    BY DEF LogsAreGood
  <2>4. committed' \o tail'[q] = all \/ committed' \o tail'[q] = committed \o tail[q]
    BY <1>3, <2>1, <2>2 DEF rest
  <2> QED
    BY <1>3, <1>4, <2>3, <2>4 DEF Asked
<1>6. executed' = NoteAll(FirstHist, committed')
  BY <1>2, <1>3, <1>a, FirstHistType, NoteConcat DEF MachineInv
<1>7. ASSUME NEW q \in Server
      PROVE  /\ applied'[q] <= Len(committed')
             /\ machine'[q] = FeedAll(EmptyTSM, SubSeq(committed', 1, applied'[q]))
  <2>0. machine[q] = FeedAll(EmptyTSM, SubSeq(committed, 1, applied[q]))
        /\ applied[q] \in Nat /\ applied[q] <= Len(committed)
    BY DEF MachineInv, TypeInv
  <2>1. CASE q = s
    <3>1. applied'[q] = Len(all) /\ machine'[q] = FeedAll(machine[s], fed)
      BY <1>2, <1>3, <2>1 DEF TypeInv
    <3>2. SubSeq(all, 1, a) = done
      <4>1. \A i \in 1 .. a : committed[i] = all[i]
        BY <1>2, <1>a
      <4>2. /\ done \in Seq(Entry) /\ Len(done) = a /\ \A i \in 1 .. a : done[i] = committed[i]
        BY <1>a
      <4> HIDE DEF all, done
      <4>3. /\ SubSeq(all, 1, a) \in Seq(Entry) /\ Len(SubSeq(all, 1, a)) = a
            /\ \A i \in 1 .. a : SubSeq(all, 1, a)[i] = all[i]
        BY <1>2, <1>a
      <4> QED
        BY <4>1, <4>2, <4>3
    <3>3. fed = SubSeq(all, a + 1, Len(all))
      BY <1>2
    <3> HIDE DEF done, fed, all
    <3>4. done \in Seq(Entry) /\ done \o fed = all
      <4>1. a <= Len(all)
        BY <1>2, <1>a
      <4> QED
        BY <1>2, <1>a, <3>2, <3>3, <4>1, SplitAt
    <3>5. machine[s] = FeedAll(EmptyTSM, done) /\ EmptyTSM \in TSM
      BY <2>0, <2>1, FirstHistType DEF done, FirstHist, Hist
    <3>6. FeedAll(EmptyTSM, done \o fed) = FeedAll(FeedAll(EmptyTSM, done), fed)
      BY <1>2, <3>4, <3>5, FeedConcat
    <3>7. machine'[q] = FeedAll(EmptyTSM, all)
      BY <3>1, <3>4, <3>5, <3>6
    <3>8. SubSeq(all, 1, Len(all)) = all /\ Len(all) \in Nat
      BY <1>2
    <3>9. SubSeq(committed', 1, applied'[q]) = all
      BY <1>3, <3>1, <3>8
    <3>10. machine'[q] = FeedAll(EmptyTSM, SubSeq(committed', 1, applied'[q]))
      BY <3>7, <3>9, Zenon
    <3>11. applied'[q] <= Len(committed')
      <4>1. applied'[q] = Len(committed')
        BY <1>3, <3>1, Zenon
      <4>2. Len(committed') \in Nat
        BY <1>3, <3>8, Zenon
      <4> QED
        BY <4>1, <4>2
    <3> QED
      BY <3>10, <3>11, Zenon
  <2>2. CASE q # s
    <3>1. applied'[q] = applied[q] /\ machine'[q] = machine[q]
      BY <1>3, <2>2 DEF TypeInv
    <3>2. SubSeq(all, 1, applied[q]) = SubSeq(committed, 1, applied[q])
      BY <1>2, <1>a, <2>0
    <3>3. applied[q] <= Len(all)
      BY <1>2, <1>a, <2>0
    <3> QED
      BY <1>3, <2>0, <3>1, <3>2, <3>3
  <2> QED
    BY <2>1, <2>2
<1> QED
  BY <1>2, <1>3, <1>4, <1>5, <1>6, <1>7 DEF MachineInv

\* The action that a client waits for is appended to the log of s, or will be.
LEMMA StartKeepsLogs ==
  ASSUME TypeInv, LogInv, NEW c \in Client, NEW s \in Server, Busy(c), StartRequest(c, s),
         UNCHANGED answers
  PROVE  LogInv' /\ UNCHANGED <<committed, applied, machine, executed>>
<1> DEFINE cmd == Current(c)
<1>1. /\ Len(answers[c]) + 1 \in 1 .. Len(Script[c]) /\ cmd = Script[c][Len(answers[c]) + 1]
  BY CurrentType
<1>2. /\ Scripted(cmd) /\ cmd \in Action /\ cmd # NoOp /\ cmd.client = c
      /\ Turn(cmd) = Len(answers[c]) + 1
  BY <1>1, TurnIs
<1> HIDE DEF cmd
<1>3. CASE c \in LateClients
  <2>1. pending' = pending \cup {[server |-> s, cmd |-> cmd]} /\ UNCHANGED serverVars
    BY <1>3 DEF StartRequest, cmd
  <2>2. LogsAreGood' /\ AnsweredAreCommitted'
    BY <2>1 DEF LogInv, LogsAreGood, AnsweredAreCommitted, Asked, serverVars
  <2>3. LateAreOnly'
    BY <1>2, <1>3, <2>1 DEF LogInv, LateAreOnly
  <2> QED
    BY <2>1, <2>2, <2>3 DEF LogInv, serverVars
<1>4. CASE c \notin LateClients
  <2>1. AppendEntry(s, cmd) /\ UNCHANGED pending
    BY <1>4 DEF StartRequest, cmd
  <2> DEFINE e == [term |-> leads[s], cmd |-> cmd]
  <2>2. /\ e \in Entry /\ e.cmd = cmd /\ tail' = [tail EXCEPT ![s] = Append(@, e)]
        /\ UNCHANGED <<committed, applied, machine, executed>>
    BY <1>2, <2>1 DEF AppendEntry, Entry, TypeInv
  <2> HIDE DEF e
  <2>3. LogsAreGood'
    BY <1>2, <2>2, AppendKeepsLogs DEF LogInv
  <2>4. AnsweredAreCommitted' /\ LateAreOnly'
    BY <2>1, <2>2 DEF LogInv, AnsweredAreCommitted, LateAreOnly
  <2> QED
    BY <2>2, <2>3, <2>4 DEF LogInv
<1> QED
  BY <1>3, <1>4

LEMMA NextLogs ==
  ASSUME OneLateRequest, TypeInv, LogInv, MachineInv, [Next]_vars
  PROVE  LogInv' /\ MachineInv'
<1>a. ASSUME UNCHANGED <<committed, applied, machine, executed>> PROVE MachineInv'
  BY <1>a DEF MachineInv
<1>b. ASSUME UNCHANGED <<committed, answers>> PROVE AnsweredAreCommitted'
  BY <1>b DEF LogInv, AnsweredAreCommitted
<1>c. ASSUME UNCHANGED pending PROVE LateAreOnly'
  BY <1>c DEF LogInv, LateAreOnly
<1>d. ASSUME UNCHANGED <<serverVars, pending, answers>> PROVE LogInv' /\ MachineInv'
  BY <1>d, <1>a, <1>b, <1>c DEF LogInv, LogsAreGood, Asked, serverVars
<1>1. ASSUME NEW s \in Server, Elect(s) PROVE LogInv' /\ MachineInv'
  <2> DEFINE e == [term |-> term + 1, cmd |-> NoOp]
  <2>1. /\ e \in Entry /\ e.cmd = NoOp /\ tail' = [tail EXCEPT ![s] = Append(@, e)]
        /\ UNCHANGED <<committed, applied, machine, executed, pending, answers>>
    BY <1>1 DEF Elect, Entry, TypeInv, clientVars
  <2> HIDE DEF e
  <2>2. LogsAreGood'
    BY <2>1, AppendKeepsLogs DEF LogInv
  <2> QED
    BY <1>a, <1>b, <1>c, <2>1, <2>2 DEF LogInv
<1>2. ASSUME NEW s \in Server, Follow(s) PROVE LogInv' /\ MachineInv'
  <2>1. UNCHANGED <<committed, pending, answers>>
    BY <1>2 DEF Follow, clientVars
  <2> QED
    BY <1>2, <1>b, <1>c, <2>1, FollowKeepsLogs DEF LogInv
<1>3. ASSUME NEW s \in Server, UpdateCommitIndex(s) PROVE LogInv' /\ MachineInv'
  <2>1. LogsAreGood' /\ MachineInv'
    BY <1>3, CommitKeepsLogs DEF LogInv
  <2>2. PICK first \in Seq(Entry) : committed' = committed \o first
    BY <1>3, CommitKeepsLogs DEF LogInv
  <2>3. UNCHANGED <<pending, answers>>
    BY <1>3 DEF UpdateCommitIndex, clientVars
  <2>4. \A i \in 1 .. Len(committed) : i \in 1 .. Len(committed') /\ committed'[i] = committed[i]
    BY <2>2 DEF TypeInv
  <2>5. AnsweredAreCommitted'
    BY <2>3, <2>4 DEF LogInv, AnsweredAreCommitted
  <2> QED
    BY <1>c, <2>1, <2>3, <2>5 DEF LogInv
<1>4. ASSUME NEW m \in pending, RunPending(m) PROVE LogInv' /\ MachineInv'
  <2>1. /\ m.server \in Server /\ m.cmd \in Action /\ m.cmd.client \in LateClients
        /\ Scripted(m.cmd) /\ m.cmd # NoOp
    BY TransactionsAssumption DEF TypeInv, LogInv, LateAreOnly
  <2>2. pending' = pending \ {m} /\ UNCHANGED answers
    BY <1>4 DEF RunPending, clientVars
  <2>3. LateAreOnly'
    BY <2>2 DEF LogInv, LateAreOnly
  <2>4. CASE leads[m.server] > 0
    <3> DEFINE e == [term |-> leads[m.server], cmd |-> m.cmd]
    <3>1. /\ e \in Entry /\ e.cmd = m.cmd /\ tail' = [tail EXCEPT ![m.server] = Append(@, e)]
          /\ UNCHANGED <<committed, applied, machine, executed>>
      BY <1>4, <2>1, <2>4 DEF RunPending, AppendEntry, Entry, TypeInv
    <3> HIDE DEF e
    <3>2. Len(Script[e.cmd.client]) <= 1
      BY <2>1, <3>1 DEF OneLateRequest
    <3>3. LogsAreGood'
      BY <2>1, <2>2, <3>1, <3>2, AppendKeepsLogs DEF LogInv
    <3> QED
      BY <1>a, <1>b, <2>2, <2>3, <3>1, <3>3 DEF LogInv
  <2>5. CASE ~(leads[m.server] > 0)
    <3>1. UNCHANGED serverVars
      BY <1>4, <2>5 DEF RunPending
    <3>2. LogsAreGood'
      BY <2>2, <3>1 DEF LogInv, LogsAreGood, Asked, serverVars
    <3> QED
      BY <1>a, <1>b, <2>2, <2>3, <3>1, <3>2 DEF LogInv, serverVars
  <2> QED
    BY <2>4, <2>5
<1>5. ASSUME NEW c \in Client, SendActionRequest(c) PROVE LogInv' /\ MachineInv'
  <2>1. core[c].leader \in Server /\ Busy(c) /\ StartRequest(c, core[c].leader)
        /\ UNCHANGED answers
    BY <1>5 DEF SendActionRequest, TypeInv, Core
  <2> QED
    BY <1>a, <2>1, StartKeepsLogs
<1>6. ASSUME NEW c \in Client, SendActionRequestFails(c) PROVE LogInv' /\ MachineInv'
  <2>1. /\ core[c].leader \in Server /\ Busy(c) /\ UNCHANGED answers
        /\ UNCHANGED <<serverVars, pending>> \/ StartRequest(c, core[c].leader)
    BY <1>6 DEF SendActionRequestFails, TypeInv, Core
  <2> QED
    BY <1>a, <1>d, <2>1, StartKeepsLogs
<1>7. ASSUME NEW c \in Client, CheckSucceeds(c) PROVE LogInv' /\ MachineInv'
  <2> DEFINE n == Len(answers[c]) + 1
             v == executed.outcomes[c][n]
  <2>1. /\ n \in 1 .. Len(Script[c])
        /\ answers' = [answers EXCEPT ![c] = Append(@, v)]
        /\ \E i \in 1 .. Len(committed) : committed[i].cmd = Script[c][n]
    BY <1>7, CheckFinds DEF LogInv
  <2>2. UNCHANGED <<serverVars, pending>>
    BY <1>7 DEF CheckSucceeds
  <2> HIDE DEF v
  <2>3. /\ Len(answers'[c]) = n /\ n \in Nat /\ Len(answers[c]) \in Nat
        /\ \A d \in Client : d # c => answers'[d] = answers[d]
    BY <2>1 DEF TypeInv
  <2>4. \A d \in Client : Len(answers[d]) <= Len(answers'[d])
                          /\ Len(answers[d]) \in Nat /\ Len(answers'[d]) \in Nat
    <3> SUFFICES ASSUME NEW d \in Client
                 PROVE  /\ Len(answers[d]) <= Len(answers'[d])
                        /\ Len(answers[d]) \in Nat /\ Len(answers'[d]) \in Nat
      OBVIOUS
    <3>1. Len(answers[d]) \in Nat
      BY DEF TypeInv
    <3> QED
      BY <2>3, <3>1
  <2>6. LogsAreGood'
    <3> SUFFICES ASSUME NEW q \in Server
                 PROVE  Good(committed' \o tail'[q]) /\ (Asked(committed \o tail[q]))'
      BY DEF LogsAreGood
    <3> DEFINE log == committed \o tail[q]
    <3>1. committed' = committed /\ tail' = tail
      BY <2>2 DEF serverVars
    <3>2. log \in Seq(Entry) /\ Good(log) /\ Asked(log)
      BY DEF LogInv, LogsAreGood, TypeInv
    <3> HIDE DEF log
    <3>3. ASSUME NEW i \in 1 .. Len(log), NEW d \in Client, Asks(log[i], d)
          PROVE  Turn(log[i].cmd) <= Len(answers'[d]) + 1
      <4>1. Turn(log[i].cmd) <= Len(answers[d]) + 1
        BY <3>2, <3>3 DEF Asked
      <4>2. Scripted(log[i].cmd)
        BY <3>2, <3>3 DEF Good, AllScripted, Asks
      <4>3. Turn(log[i].cmd) \in Nat
        BY <4>2, TurnOf
      <4> QED
        BY <2>4, <4>1, <4>3
    <3>4. committed' \o tail'[q] = log
      BY <3>1 DEF log
    <3> QED
      BY <3>2, <3>3, <3>4 DEF Asked
  <2>7. AnsweredAreCommitted'
    <3> SUFFICES ASSUME NEW d \in Client, NEW k \in 1 .. Len(answers'[d])
                 PROVE  \E i \in 1 .. Len(committed') :
                          k <= Len(Script[d]) /\ committed'[i].cmd = Script[d][k]
      BY DEF AnsweredAreCommitted
    <3>1. committed' = committed
      BY <2>2 DEF serverVars
    <3>2. CASE k \in 1 .. Len(answers[d])
      BY <3>1, <3>2 DEF LogInv, AnsweredAreCommitted
    <3>3. CASE k \notin 1 .. Len(answers[d])
      <4>1. d = c /\ k = n
        BY <2>3, <3>3
      <4> QED
        BY <2>1, <3>1, <4>1
    <3> QED
      BY <3>2, <3>3
  <2> QED
    BY <1>a, <1>c, <2>2, <2>6, <2>7 DEF LogInv, serverVars
<1>8. ASSUME NEW c \in Client, CheckFails(c) PROVE LogInv' /\ MachineInv'
  BY <1>8, <1>d DEF CheckFails
<1>9. ASSUME NEW c \in Client, StartQuery(c) PROVE LogInv' /\ MachineInv'
  BY <1>9, <1>d DEF StartQuery
<1>10. ASSUME NEW c \in Client, ExecuteQueryRequest(c) PROVE LogInv' /\ MachineInv'
  BY <1>10, <1>d DEF ExecuteQueryRequest
<1>11. ASSUME NEW c \in Client, ExecuteQueryRequestFails(c) PROVE LogInv' /\ MachineInv'
  BY <1>11, <1>d DEF ExecuteQueryRequestFails
<1>12. ASSUME NEW c \in Client, NEW s \in Server, LookForLeader(c, s) PROVE LogInv' /\ MachineInv'
  BY <1>12, <1>d DEF LookForLeader
<1>13. ASSUME UNCHANGED vars PROVE LogInv' /\ MachineInv'
  BY <1>13, <1>d DEF vars, clientVars
<1> QED
  BY <1>1, <1>2, <1>3, <1>4, <1>5, <1>6, <1>7, <1>8, <1>9, <1>10, <1>11, <1>12, <1>13 DEF Next

\* In every log the commands stand in the order their clients submitted them, when no client
\* goes on while one of its requests is still on its way.
THEOREM LogsStayInOrder == OneLateRequest /\ Spec => []LogsInOrder
<1> SUFFICES ASSUME OneLateRequest PROVE Spec => []LogsInOrder
  OBVIOUS
<1>1. ASSUME LogInv, TypeInv PROVE LogsInOrder
  <2> SUFFICES ASSUME NEW s \in Server
               PROVE  LET log == committed \o tail[s]
                      IN \A i, j \in DOMAIN log :
                           /\ i < j /\ log[i].cmd # NoOp /\ log[j].cmd # NoOp
                           /\ log[i].cmd.client = log[j].cmd.client
                           => Turn(log[i].cmd) <= Turn(log[j].cmd)
    BY DEF LogsInOrder
  <2> DEFINE log == committed \o tail[s]
  <2>1. log \in Seq(Entry) /\ DOMAIN log = 1 .. Len(log)
    BY <1>1 DEF TypeInv
  <2>2. Good(log)
    BY <1>1 DEF LogInv, LogsAreGood
  <2> HIDE DEF log
  <2>3. ASSUME NEW i \in 1 .. Len(log), NEW j \in 1 .. Len(log), i < j,
               log[i].cmd # NoOp, log[j].cmd # NoOp, log[i].cmd.client = log[j].cmd.client
        PROVE  Turn(log[i].cmd) <= Turn(log[j].cmd)
    <3>0. log[i] \in Entry
      BY <2>1, <2>3
    <3>1. log[i].cmd.client \in Client
      BY <2>3, <3>0 DEF Entry, Action
    <3>2. Asks(log[i], log[i].cmd.client) /\ Asks(log[j], log[i].cmd.client)
      BY <2>3 DEF Asks
    <3> QED
      BY <2>2, <2>3, <3>1, <3>2 DEF Good, InOrder
  <2> QED
    BY <2>1, <2>3 DEF log
<1> QED
  BY <1>1, InitType, InitLogs, NextType, NextLogs, PTL DEF Spec

-----------------------------------------------------------------------------
\* the bank

\* A client has been told of as many of its commands as were executed, or of all but one.
LEMMA ToldAreDone ==
  ASSUME TypeInv, LogInv, MachineInv, NEW s \in Server
  PROVE  ToldInv
<1>1. committed \in Seq(Entry) /\ Good(committed) /\ Asked(committed)
  BY CommittedAreGood DEF LogInv, TypeInv
<1>2. Reflects(executed, committed)
  BY <1>1, HistoryReflects DEF MachineInv
<1> SUFFICES ASSUME NEW c \in Client
             PROVE  /\ Len(answers[c]) <= Done(executed, c)
                    /\ Done(executed, c) <= Len(answers[c]) + 1
  BY DEF ToldInv
<1> DEFINE n == Len(answers[c])
           d == Done(executed, c)
<1>3. n \in Nat /\ d \in Nat /\ d <= Len(Script[c]) /\ Len(Script[c]) \in Nat
  <2>1. n \in Nat /\ d \in Nat
    BY DEF TypeInv, Hist, Done
  <2>2. d <= Len(Script[c])
    BY <1>2 DEF Reflects
  <2>3. Len(Script[c]) \in Nat
    BY TransactionsAssumption
  <2> QED
    BY <2>1, <2>2, <2>3
<1>4. ASSUME n > 0 PROVE n <= d
  <2>1. n \in 1 .. Len(answers[c])
    BY <1>3, <1>4
  <2>2. PICK i \in 1 .. Len(committed) : n <= Len(Script[c]) /\ committed[i].cmd = Script[c][n]
    BY <2>1 DEF LogInv, AnsweredAreCommitted
  <2>3. n \in 1 .. Len(Script[c])
    BY <1>3, <1>4, <2>2
  <2>4. Asks(committed[i], c) /\ Turn(committed[i].cmd) = n
    BY <2>2, <2>3, TurnIs DEF Asks
  <2> QED
    BY <1>2, <2>4 DEF Reflects
<1>5. ASSUME d > 0 PROVE d <= n + 1
  <2>1. PICK i \in 1 .. Len(committed) : committed[i].cmd = Script[c][d]
    BY <1>2, <1>5 DEF Reflects
  <2>2. d \in 1 .. Len(Script[c])
    BY <1>3, <1>5
  <2>3. Asks(committed[i], c) /\ Turn(committed[i].cmd) = d
    BY <2>1, <2>2, TurnIs DEF Asks
  <2> QED
    BY <1>1, <2>3 DEF Asked
<1> HIDE DEF n, d
<1>6. n <= d /\ d <= n + 1
  BY <1>3, <1>4, <1>5
<1> QED
  BY <1>6 DEF n, d

LEMMA SameRejects ==
  ASSUME NEW x, NEW a
  PROVE  TheBank!Rejects(x, a) <=> Rejects(x, a)
BY DEF TheBank!Rejects, Rejects, TheBank!RejectsSet, RejectsSet, TheBank!RejectsIncr, RejectsIncr,
       TheBank!RejectsMove, RejectsMove, TheBank!GoesNegative, GoesNegative, TheBank!Wrap, Wrap

LEMMA SameExecute ==
  ASSUME NEW x, NEW a
  PROVE  TheBank!Execute(x, a) = Execute(x, a)
BY DEF TheBank!Execute, Execute, TheBank!Put, Put, TheBank!Wrap, Wrap

LEMMA SameCardinality ==
  ASSUME NEW S
  PROVE  TheBank!Cardinality(S) = Cardinality(S)
BY DEF TheBank!Cardinality, Cardinality

\* The abstract bank makes of the next command of a client what the state machine does.
LEMMA ResultIs ==
  ASSUME NEW x, NEW c
  PROVE  /\ TheBank!Result(x, c).data = DataAfter(x, NextOf(executed, c))
         /\ TheBank!Result(x, c).failed = Rejects(x, NextOf(executed, c))
<1>1. TheBank!Result(x, c).data = DataAfter(x, NextOf(executed, c))
  BY SameRejects, SameExecute DEF TheBank!Result, DataAfter, NextOf, Done
<1>2. TheBank!Result(x, c).failed = Rejects(x, NextOf(executed, c))
  BY SameRejects, SameExecute, Zenon DEF TheBank!Result, NextOf, Done
<1> QED
  BY <1>1, <1>2

\* A sequence of different clients is an order of their set.
LEMMA OrderOfSet ==
  ASSUME NEW cs \in Seq(Client), \A i, j \in 1 .. Len(cs) : cs[i] = cs[j] => i = j
  PROVE  /\ TheBank!Range(cs) \in SUBSET Client
         /\ cs \in TheBank!SetToSeqs(TheBank!Range(cs))
<1> DEFINE n == Len(cs)
           S == TheBank!Range(cs)
<1>1. n \in Nat /\ DOMAIN cs = 1 .. n /\ cs \in [1 .. n -> Client]
  OBVIOUS
<1>2. S = {cs[i] : i \in 1 .. n}
  BY <1>1 DEF TheBank!Range
<1>3. cs \in [1 .. n -> S] /\ S \in SUBSET Client
  BY <1>1, <1>2
<1> HIDE DEF n, S
<1>4. cs \in Bijection(1 .. n, S)
  <2>1. \A i, j \in 1 .. n : cs[i] = cs[j] => i = j
    BY DEF n
  <2>2. \A t \in S : \E i \in 1 .. n : cs[i] = t
    BY <1>2
  <2>3. cs \in Injection(1 .. n, S)
    BY <1>3, <2>1, Fun_IsInj
  <2>4. cs \in Surjection(1 .. n, S)
    BY <1>3, <2>2, Fun_IsSurj
  <2> QED
    BY <2>3, <2>4 DEF Bijection
<1>5. Cardinality(S) = n
  <2>1. ExistsBijection(1 .. n, S)
    BY <1>4 DEF ExistsBijection
  <2>2. IsFiniteSet(1 .. n) /\ Cardinality(1 .. n) = n
    <3>1. 1 \in Int /\ n \in Int
      BY <1>1
    <3>2. /\ IsFiniteSet(1 .. n)
          /\ Cardinality(1 .. n) = IF 1 > n THEN 0 ELSE n - 1 + 1
      BY <3>1, FS_Interval
    <3> QED
      BY <1>1, <3>2
  <2> QED
    BY <2>1, <2>2, FS_Bijection
<1>6. cs \in TheBank!SetToSeqs(S)
  <2>1. \A i, j \in 1 .. n : i # j => cs[i] # cs[j]
    BY DEF n
  <2>2. TheBank!SetToSeqs(S) = {f \in [1 .. n -> S] : \A i, j \in 1 .. n : i # j => f[i] # f[j]}
    BY <1>5, SameCardinality DEF TheBank!SetToSeqs
  <2> QED
    BY <1>3, <2>1, <2>2
<1> QED
  BY <1>3, <1>6 DEF S

\* A run of commands is a step of the bank.
LEMMA RunsAreExecuted ==
  ASSUME TypeInv, TypeInv', NEW cs \in Seq(Client), NEW b \in [1 .. Len(cs) + 1 -> Data],
         Runs(executed, executed', [c \in Client |-> Len(answers[c])], cs, b), UNCHANGED answers
  PROVE  TheBank!ExecuteRequests(cs)
<1> DEFINE n == Len(cs)
           B == executed.machine.data
           D == 1 .. n + 1
           Body(f) == [i \in 1 .. Len(cs) + 1 |->
                         IF i = 1 THEN executed.machine.data
                         ELSE TheBank!Result(f[i - 1], cs[i - 1]).data]
           before == CHOOSE f : f = Body(f)
           of(c) == CHOOSE i \in 1 .. Len(cs) : cs[i] = c
<1>1. /\ \A i, j \in 1 .. n : cs[i] = cs[j] => i = j
      /\ b[1] = B /\ b[n + 1] = executed'.machine.data
      /\ \A i \in 1 .. n :
           /\ b[i + 1] = DataAfter(b[i], NextOf(executed, cs[i]))
           /\ executed'.outcomes[cs[i]]
                = Append(executed.outcomes[cs[i]], Rejects(b[i], NextOf(executed, cs[i])))
           /\ Done(executed, cs[i]) = [c \in Client |-> Len(answers[c])][cs[i]]
           /\ [c \in Client |-> Len(answers[c])][cs[i]] < Len(Script[cs[i]])
      /\ \A c \in Client :
           (\A i \in 1 .. n : cs[i] # c) => executed'.outcomes[c] = executed.outcomes[c]
  BY DEF Runs
<1>2. n \in Nat /\ DOMAIN cs = 1 .. n /\ \A i \in 1 .. n : cs[i] \in Client
  OBVIOUS
<1>3. b = Body(b)
  <2>1. \A i \in 1 .. n + 1 :
          b[i] = IF i = 1 THEN B ELSE TheBank!Result(b[i - 1], cs[i - 1]).data
    <3> SUFFICES ASSUME NEW i \in 1 .. n + 1, i # 1
                 PROVE  b[i] = TheBank!Result(b[i - 1], cs[i - 1]).data
      BY <1>1
    <3>1. i - 1 \in 1 .. n /\ (i - 1) + 1 = i
      BY <1>2
    <3>2. b[(i - 1) + 1] = DataAfter(b[i - 1], NextOf(executed, cs[i - 1]))
      BY <1>1, <3>1
    <3> QED
      BY <3>1, <3>2, ResultIs
  <2> QED
    BY <2>1
<1>4. before = Body(before)
  BY <1>3
<1> HIDE DEF before
<1>5. \A i \in 1 .. n + 1 : before[i] = b[i]
  <2> DEFINE m1 == [k \in 0 .. n |-> before[k + 1]]
             m2 == [k \in 0 .. n |-> b[k + 1]]
  <2>0. \A i \in 1 .. n + 1 :
          /\ before[i] = IF i = 1 THEN B ELSE TheBank!Result(before[i - 1], cs[i - 1]).data
          /\ b[i] = IF i = 1 THEN B ELSE TheBank!Result(b[i - 1], cs[i - 1]).data
    <3>1. \A i \in 1 .. n + 1 :
            Body(before)[i] = IF i = 1 THEN B ELSE TheBank!Result(before[i - 1], cs[i - 1]).data
      OBVIOUS
    <3>2. \A i \in 1 .. n + 1 :
            Body(b)[i] = IF i = 1 THEN B ELSE TheBank!Result(b[i - 1], cs[i - 1]).data
      OBVIOUS
    <3> HIDE DEF Body
    <3> QED
      BY <1>3, <1>4, <3>1, <3>2
  <2>1. m1[0] = m2[0]
    <3>1. 1 \in 1 .. n + 1 /\ 0 \in 0 .. n /\ 0 + 1 = 1
      BY <1>2
    <3> QED
      BY <2>0, <3>1
  <2>2. ASSUME NEW k \in 0 .. n - 1, m1[k] = m2[k] PROVE m1[k + 1] = m2[k + 1]
    <3>1. /\ k \in 0 .. n /\ k + 1 \in 0 .. n /\ (k + 1) + 1 \in 1 .. n + 1
          /\ (k + 1) + 1 # 1 /\ ((k + 1) + 1) - 1 = k + 1
      BY <1>2
    <3>2. before[k + 1] = b[k + 1]
      BY <2>2, <3>1
    <3>3. before[(k + 1) + 1] = TheBank!Result(before[k + 1], cs[k + 1]).data
      BY <2>0, <3>1
    <3>4. b[(k + 1) + 1] = TheBank!Result(b[k + 1], cs[k + 1]).data
      BY <2>0, <3>1
    <3> QED
      BY <3>1, <3>2, <3>3, <3>4
  <2>3. ASSUME NEW i \in 1 .. n + 1 PROVE before[i] = b[i]
    <3>1. i - 1 \in Nat /\ i - 1 \in 0 .. n /\ (i - 1) + 1 = i
          /\ \A k \in 0 .. (i - 1) - 1 : k \in 0 .. n - 1
      BY <1>2
    <3> HIDE DEF m1, m2
    <3>2. m1[i - 1] = m2[i - 1]
      BY <2>1, <2>2, <3>1, ChainsAgree
    <3> QED
      BY <3>1, <3>2 DEF m1, m2
  <2> QED
    BY <2>3
<1>6. \A i \in 1 .. n : of(cs[i]) = i
  BY <1>1
<1> HIDE DEF of
<1>7. \A i \in 1 .. n : TheBank!Submitted(cs[i])
  BY <1>1, <1>2 DEF TheBank!Submitted, Done
<1>8. executed.machine.data' = before[n + 1]
  BY <1>1, <1>2, <1>5
<1>9. executed.outcomes'
        = [c \in Client |-> IF c \in TheBank!Range(cs)
                              THEN Append(executed.outcomes[c],
                                          TheBank!Result(before[of(c)], c).failed)
                              ELSE executed.outcomes[c]]
  <2>1. executed'.outcomes \in [Client -> Seq(BOOLEAN)]
    BY DEF TypeInv, Hist
  <2>2. ASSUME NEW c \in Client, c \in TheBank!Range(cs)
        PROVE  executed'.outcomes[c]
                 = Append(executed.outcomes[c], TheBank!Result(before[of(c)], c).failed)
    <3>1. PICK i \in 1 .. n : cs[i] = c
      BY <2>2, <1>2 DEF TheBank!Range
    <3>2. of(c) = i /\ before[of(c)] = b[i]
      BY <3>1, <1>2, <1>5, <1>6
    <3>3. TheBank!Result(b[i], c).failed = Rejects(b[i], NextOf(executed, c))
      BY ResultIs, Zenon
    <3>4. executed'.outcomes[c] = Append(executed.outcomes[c], Rejects(b[i], NextOf(executed, c)))
      BY <1>1, <3>1
    <3> QED
      BY <3>2, <3>3, <3>4, Zenon
  <2>3. ASSUME NEW c \in Client, c \notin TheBank!Range(cs)
        PROVE  executed'.outcomes[c] = executed.outcomes[c]
    <3>1. \A i \in 1 .. n : cs[i] # c
      BY <2>3, <1>2 DEF TheBank!Range
    <3> QED
      BY <1>1, <3>1
  <2> QED
    BY <2>1, <2>2, <2>3, Zenon
<1> QED
  BY <1>7, <1>8, <1>9 DEF TheBank!ExecuteRequests, before, of

\* Commits execute requests at the bank, and a check that succeeds is a reply of it.
LEMMA NextIsOfTheBank ==
  ASSUME TypeInv, TypeInv', LogInv, MachineInv, [Next]_vars
  PROVE  [TheBank!Next]_(TheBank!vars)
<1>a. ASSUME UNCHANGED <<executed, answers>> PROVE UNCHANGED TheBank!vars
  BY <1>a DEF TheBank!vars
<1>b. ASSUME UNCHANGED <<serverVars, answers>> PROVE UNCHANGED TheBank!vars
  BY <1>a, <1>b DEF serverVars
<1>c. ASSUME NEW c \in Client, NEW s \in Server, StartRequest(c, s), UNCHANGED answers
      PROVE  UNCHANGED TheBank!vars
  BY <1>a, <1>c DEF StartRequest, AppendEntry, serverVars
<1>1. ASSUME NEW s \in Server, Elect(s) PROVE UNCHANGED TheBank!vars
  BY <1>1, <1>a DEF Elect, clientVars
<1>2. ASSUME NEW s \in Server, Follow(s) PROVE UNCHANGED TheBank!vars
  BY <1>2, <1>a DEF Follow, clientVars
<1>3. ASSUME NEW s \in Server, UpdateCommitIndex(s) PROVE TheBank!Next
  <2>1. PICK first \in Seq(Entry) :
          /\ executed' = NoteAll(executed, first)
          /\ Good(committed \o first) /\ Asked(committed \o first)
    BY <1>3, CommitKeepsLogs DEF LogInv
  <2>2. UNCHANGED answers
    BY <1>3 DEF UpdateCommitIndex, clientVars
  <2> DEFINE N == [c \in Client |-> Len(answers[c])]
  <2>3. N \in [Client -> Nat] /\ \A c \in Client : N[c] <= Done(executed, c)
    <3>1. \A c \in Client : Len(answers[c]) \in Nat
      BY DEF TypeInv
    <3>2. \A c \in Client : Len(answers[c]) <= Done(executed, c)
      BY ToldAreDone DEF ToldInv
    <3> QED
      BY <3>1, <3>2
  <2>4. \A i \in 1 .. Len(first) : \A c \in Client :
          Asks(first[i], c) => Turn(first[i].cmd) <= N[c] + 1
    <3> SUFFICES ASSUME NEW i \in 1 .. Len(first), NEW c \in Client, Asks(first[i], c)
                 PROVE  Turn(first[i].cmd) <= N[c] + 1
      OBVIOUS
    <3>1. /\ Len(committed) + i \in 1 .. Len(committed \o first)
          /\ (committed \o first)[Len(committed) + i] = first[i]
      BY DEF TypeInv
    <3> QED
      BY <2>1, <3>1 DEF Asked
  <2> HIDE DEF N
  <2>5. \E cs \in Seq(Client) : \E b \in [1 .. Len(cs) + 1 -> Data] :
          Runs(NoteAll(FirstHist, committed), NoteAll(NoteAll(FirstHist, committed), first), N, cs, b)
    <3>1. executed = NoteAll(FirstHist, committed) /\ committed \in Seq(Entry)
      BY DEF MachineInv, TypeInv
    <3>2. \A c \in Client : N[c] <= Done(NoteAll(FirstHist, committed), c)
      BY <2>3, <3>1
    <3> QED
      BY <2>1, <2>3, <2>4, <3>1, <3>2, CommitRuns
  <2>6. /\ NoteAll(FirstHist, committed) = executed
        /\ NoteAll(NoteAll(FirstHist, committed), first) = executed'
    BY <2>1 DEF MachineInv
  <2>7. \E cs \in Seq(Client) : \E b \in [1 .. Len(cs) + 1 -> Data] :
          Runs(executed, executed', N, cs, b)
    BY <2>5, <2>6
  <2>8. PICK cs \in Seq(Client) : \E b \in [1 .. Len(cs) + 1 -> Data] :
          Runs(executed, executed', N, cs, b)
    BY <2>7
  <2>9. PICK b \in [1 .. Len(cs) + 1 -> Data] : Runs(executed, executed', N, cs, b)
    BY <2>8
  <2>10. TheBank!ExecuteRequests(cs)
    BY <2>2, <2>9, RunsAreExecuted DEF N
  <2>11. \A i, j \in 1 .. Len(cs) : cs[i] = cs[j] => i = j
    BY <2>9 DEF Runs
  <2>12. /\ TheBank!Range(cs) \in SUBSET Client
         /\ cs \in TheBank!SetToSeqs(TheBank!Range(cs))
    BY <2>11, OrderOfSet
  <2> QED
    BY <2>10, <2>12 DEF TheBank!Next
<1>4. ASSUME NEW m \in pending, RunPending(m) PROVE UNCHANGED TheBank!vars
  BY <1>4, <1>a DEF RunPending, AppendEntry, serverVars, clientVars
<1>5. ASSUME NEW c \in Client, SendActionRequest(c) PROVE UNCHANGED TheBank!vars
  <2>1. core[c].leader \in Server /\ StartRequest(c, core[c].leader) /\ UNCHANGED answers
    BY <1>5 DEF SendActionRequest, TypeInv, Core
  <2> QED
    BY <1>c, <2>1
<1>6. ASSUME NEW c \in Client, SendActionRequestFails(c) PROVE UNCHANGED TheBank!vars
  <2>1. /\ core[c].leader \in Server /\ UNCHANGED answers
        /\ UNCHANGED serverVars \/ StartRequest(c, core[c].leader)
    BY <1>6 DEF SendActionRequestFails, TypeInv, Core
  <2> QED
    BY <1>b, <1>c, <2>1
<1>7. ASSUME NEW c \in Client, CheckSucceeds(c) PROVE TheBank!Reply(c)
  <2> DEFINE n == Len(answers[c]) + 1
  <2>1. /\ n <= Done(executed, c)
        /\ answers' = [answers EXCEPT ![c] = Append(@, executed.outcomes[c][n])]
    BY <1>7, CheckFinds DEF LogInv
  <2>2. UNCHANGED executed
    BY <1>7 DEF CheckSucceeds, serverVars
  <2>3. Len(answers[c]) \in Nat /\ Done(executed, c) \in Nat
    BY DEF TypeInv, Hist, Done
  <2>4. Len(answers[c]) < Len(executed.outcomes[c])
    BY <2>1, <2>3 DEF Done
  <2> QED
    BY <2>1, <2>2, <2>4 DEF TheBank!Reply
<1>8. ASSUME NEW c \in Client, CheckFails(c) PROVE UNCHANGED TheBank!vars
  BY <1>8, <1>b DEF CheckFails
<1>9. ASSUME NEW c \in Client, StartQuery(c) PROVE UNCHANGED TheBank!vars
  BY <1>9, <1>b DEF StartQuery
<1>10. ASSUME NEW c \in Client, ExecuteQueryRequest(c) PROVE UNCHANGED TheBank!vars
  BY <1>10, <1>b DEF ExecuteQueryRequest
<1>11. ASSUME NEW c \in Client, ExecuteQueryRequestFails(c) PROVE UNCHANGED TheBank!vars
  BY <1>11, <1>b DEF ExecuteQueryRequestFails
<1>12. ASSUME NEW c \in Client, NEW s \in Server, LookForLeader(c, s) PROVE UNCHANGED TheBank!vars
  BY <1>12, <1>b DEF LookForLeader
<1>13. ASSUME UNCHANGED vars PROVE UNCHANGED TheBank!vars
  BY <1>13, <1>b DEF vars, clientVars
<1>14. ASSUME NEW c \in Client, CheckSucceeds(c) PROVE TheBank!Next
  BY <1>7, <1>14 DEF TheBank!Next
<1> QED
  BY <1>1, <1>2, <1>3, <1>4, <1>5, <1>6, <1>8, <1>9, <1>10, <1>11, <1>12, <1>13, <1>14
  DEF Next

\* A request is executed once, at one instant between its submission and its answer, and the
\* client is told what came of it, for any clients, requests and peers, when no client goes on
\* while one of its requests is still on its way.
THEOREM ClientsSeeABank == OneLateRequest /\ Spec => ImplementsBank
<1> SUFFICES ASSUME OneLateRequest PROVE Spec => ImplementsBank
  OBVIOUS
<1>1. Init => TheBank!Init
  <2>1. TheBank!EmptyMap = EmptyMap
    BY DEF TheBank!EmptyMap, EmptyMap
  <2> QED
    BY <2>1 DEF Init, TheBank!Init, EmptyTSM
<1> QED
  BY <1>1, InitType, InitLogs, NextType, NextLogs, NextIsOfTheBank, PTL
  DEF Spec, ImplementsBank, TheBank!Spec

=============================================================================

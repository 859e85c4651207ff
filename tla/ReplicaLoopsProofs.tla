------------------------- MODULE ReplicaLoopsProofs -------------------------
(***************************************************************************)
(* The loops of the source compute the closed forms of RaftLog, for any    *)
(* replica, threshold, batch and index, and no snapshot, commit or restart *)
(* loses a command.                                                        *)
(*                                                                         *)
(* A loop is a recursive function of the number of iterations.  It equals  *)
(* a closed form when the closed form satisfies the same equation; that it *)
(* does is one iteration's worth of work, and the rest is induction.       *)
(***************************************************************************)
EXTENDS ReplicaLoops, RaftLogProofs

-----------------------------------------------------------------------------
\* the loop of updateCommitIndex

\* what a commit up to n leaves of s, before commitIndex is set
Uncounted(s, n) == [UpdateCommitIndex(s, n) EXCEPT !.commitIndex = s.commitIndex]

LEMMA CommitOneIs ==
  ASSUME NEW s, Sound(s), NEW n \in Nat, s.commitIndex <= n, n + 1 <= LastIndex(s)
  PROVE  CommitOne(Uncounted(s, n), n + 1) = Uncounted(s, n + 1)
  <1>. DEFINE u == UpdateCommitIndex(s, n)
              v == Uncounted(s, n)
              t == ApplyUpTo(u, n + 1)
              cmd == v.log[ToLogIndex(v, n + 1) + 1].cmd
              fed == [v EXCEPT !.applied = Append(@, cmd)]
  <1>1. /\ Sound(u) /\ u.commitIndex = n /\ LastIndex(u) = LastIndex(s)
        /\ UpdateCommitIndex(s, n + 1) =
             IF n + 1 - Base(u) >= SnapshotThreshold THEN TakeSnapshot(t, n + 1) ELSE t
    BY UpdateOneMore
  <1>. HIDE DEF u
  <1>2. /\ u \in Replica /\ u.applied \in Seq(Cmd) /\ Len(u.applied) = n
        /\ Base(u) \in Int /\ Base(u) <= n
    BY <1>1, SoundParts
  <1>3. v = [log |-> u.log, snapshot |-> u.snapshot, commitIndex |-> s.commitIndex,
             applied |-> u.applied]
    BY <1>2 DEF Uncounted, u, Replica
  <1>4. /\ Sound(t) /\ Base(t) = Base(u) /\ t.log = u.log /\ t.snapshot = u.snapshot
        /\ t.commitIndex = n + 1
        /\ \A k \in 1 .. n + 1 : t.applied[k] = IF k <= n THEN u.applied[k] ELSE CmdAt(u, k)
    BY <1>1, ApplyUpToIs
  <1>5. t \in Replica /\ t.applied \in Seq(Cmd) /\ Len(t.applied) = n + 1
    BY <1>4, SoundParts
  <1>. HIDE DEF v, t
  <1>6. Base(v) = Base(u) /\ cmd = CmdAt(u, n + 1)
    <2>1. Base(v) = Base(u) /\ v.log = u.log
      BY <1>3 DEF Base
    <2>2. ToLogIndex(v, n + 1) + 1 = (n + 1) - Base(u)
      BY <1>2, <2>1 DEF ToLogIndex
    <2>. QED BY <2>1, <2>2 DEF CmdAt
  <1>7. cmd \in Cmd
    <2>1. (n + 1) - Base(u) \in 1 .. Len(u.log) /\ u.log \in Seq(Entry)
      BY <1>1, <1>2, SoundParts
    <2>2. u.log[(n + 1) - Base(u)] \in Entry
      BY <2>1
    <2>3. u.log[(n + 1) - Base(u)].cmd \in Cmd
      BY <2>2 DEF Entry
    <2>. QED BY <1>6, <2>3 DEF CmdAt
  <1>. HIDE DEF cmd
  <1>8. t.applied = Append(u.applied, cmd)
    <2>1. /\ Append(u.applied, cmd) \in Seq(Cmd) /\ Len(Append(u.applied, cmd)) = n + 1
          /\ \A k \in 1 .. n + 1 :
               Append(u.applied, cmd)[k] = IF k <= n THEN u.applied[k] ELSE cmd
      BY <1>2, <1>7
    <2>2. \A k \in 1 .. n + 1 : ~(k <= n) => k = n + 1
      OBVIOUS
    <2>3. \A k \in 1 .. n + 1 : t.applied[k] = Append(u.applied, cmd)[k]
      BY <1>4, <1>6, <2>1, <2>2
    <2>. QED BY <1>5, <2>1, <2>3, SeqEqual
  <1>9. fed = [log |-> u.log, snapshot |-> u.snapshot, commitIndex |-> s.commitIndex,
               applied |-> t.applied]
    <2>1. v.applied = u.applied
      BY <1>3
    <2>2. fed = [v EXCEPT !.applied = t.applied]
      BY <1>8, <2>1
    <2>. QED BY <1>3, <2>2
  <1>. HIDE DEF fed
  <1>10. Base(fed) = Base(u)
    BY <1>9 DEF Base
  <1>11. CommitOne(v, n + 1) =
           IF n + 1 - Base(u) >= SnapshotThreshold THEN SaveToSnapshot(fed, n + 1) ELSE fed
    <2>1. ToLogIndex(fed, n + 1) + 1 = n + 1 - Base(u)
      BY <1>2, <1>10 DEF ToLogIndex
    <2>2. CommitOne(v, n + 1) = IF ToLogIndex(fed, n + 1) + 1 >= SnapshotThreshold
                                  THEN SaveToSnapshot(fed, n + 1) ELSE fed
      <3>1. ToLogIndex(v, n + 1) = ToLogIndex(fed, n + 1)
        BY <1>6, <1>10 DEF ToLogIndex
      <3>. QED BY <3>1 DEF CommitOne, fed, cmd
    <2>. QED BY <2>1, <2>2
  <1>12. CASE ~(n + 1 - Base(u) >= SnapshotThreshold)
    <2>1. UpdateCommitIndex(s, n + 1) = t
      BY <1>1, <1>12
    <2>2. Uncounted(s, n + 1) = [t EXCEPT !.commitIndex = s.commitIndex]
      BY <2>1 DEF Uncounted
    <2>3. [t EXCEPT !.commitIndex = s.commitIndex] = fed
      BY <1>4, <1>5, <1>9 DEF Replica
    <2>. QED BY <1>11, <1>12, <2>2, <2>3 DEF v
  <1>13. CASE n + 1 - Base(u) >= SnapshotThreshold
    <2>1. Uncounted(s, n + 1) = [TakeSnapshot(t, n + 1) EXCEPT !.commitIndex = s.commitIndex]
      BY <1>1, <1>13 DEF Uncounted
    <2>2. SubSeq(t.applied, 1, n + 1) = t.applied
      BY <1>5
    <2>3. SuffixFrom(t, (n + 1) + 1) = SuffixFrom(fed, (n + 1) + 1)
      BY <1>4, <1>9, <1>10 DEF SuffixFrom
    <2>4. TermAt(t, n + 1) = TermAt(fed, n + 1)
      BY <1>4, <1>9, <1>10 DEF TermAt
    <2>. DEFINE rest == SuffixFrom(fed, (n + 1) + 1)
                snap == [index |-> n + 1, term |-> TermAt(fed, n + 1), sm |-> t.applied]
    <2>5. TakeSnapshot(t, n + 1) = [log |-> rest, snapshot |-> snap,
                                    commitIndex |-> t.commitIndex, applied |-> t.applied]
      BY <2>2, <2>3, <2>4 DEF TakeSnapshot
    <2>6. SaveToSnapshot(fed, n + 1) = [log |-> rest, snapshot |-> snap,
                                        commitIndex |-> s.commitIndex, applied |-> t.applied]
      <3>1. fed.applied = t.applied
        BY <1>9
      <3>2. SaveToSnapshot(fed, n + 1) = [fed EXCEPT !.snapshot = snap, !.log = rest]
        BY <3>1 DEF SaveToSnapshot
      <3>. HIDE DEF rest, snap
      <3>. QED BY <1>9, <3>2
    <2>. HIDE DEF rest, snap
    <2>7. [TakeSnapshot(t, n + 1) EXCEPT !.commitIndex = s.commitIndex] =
            SaveToSnapshot(fed, n + 1)
      BY <2>5, <2>6
    <2>. QED BY <1>11, <1>13, <2>1, <2>7 DEF v
  <1>. QED BY <1>12, <1>13

LEMMA CommitLoopIs ==
  ASSUME NEW s, Sound(s), NEW upTo \in Nat, s.commitIndex <= upTo, upTo <= LastIndex(s)
  PROVE  CommitLoop(s, upTo) = Uncounted(s, upTo)
  <1>. DEFINE c  == s.commitIndex
              N  == upTo - c
              Body(f) == [n \in 0 .. N |-> IF n = 0 THEN s ELSE CommitOne(f[n - 1], c + n)]
              closed  == [n \in 0 .. N |-> Uncounted(s, c + n)]
              after   == CHOOSE f : f = Body(f)
  <1>1. c \in Nat /\ N \in Nat /\ c + N = upTo /\ s \in Replica /\ LastIndex(s) \in Nat
    <2>1. s.commitIndex \in Nat /\ s \in Replica /\ LastIndex(s) \in Nat
      BY SoundParts
    <2>. QED BY <2>1
  <1>2. Uncounted(s, c + 0) = s
    <2>1. UpdateCommitIndex(s, c) = s
      BY <1>1 DEF UpdateCommitIndex, Lesser
    <2>. QED BY <1>1, <2>1 DEF Uncounted, Replica
  <1>3. CommitLoop(s, upTo) = after[N]
    BY DEF CommitLoop
  <1>. HIDE DEF N
  <1>4. \A n \in 0 .. N : n # 0 => CommitOne(Uncounted(s, c + (n - 1)), c + n) = Uncounted(s, c + n)
    <2>. SUFFICES ASSUME NEW n \in 0 .. N, n # 0
                  PROVE  CommitOne(Uncounted(s, c + (n - 1)), c + n) = Uncounted(s, c + n)
      OBVIOUS
    <2>. DEFINE m == c + (n - 1)
    <2>1. m \in Nat /\ c <= m /\ m + 1 <= LastIndex(s) /\ m + 1 = c + n
      <3>. HIDE DEF c
      <3>. QED BY <1>1
    <2>. HIDE DEF m
    <2>2. CommitOne(Uncounted(s, m), m + 1) = Uncounted(s, m + 1)
      BY <2>1, CommitOneIs
    <2>. QED BY <2>1, <2>2 DEF m
  <1>. HIDE DEF c
  <1>5. closed = Body(closed)
    <2>1. ASSUME NEW n \in 0 .. N
          PROVE  closed[n] = IF n = 0 THEN s ELSE CommitOne(closed[n - 1], c + n)
      <3>1. CASE n = 0
        BY <1>2, <3>1
      <3>2. CASE n # 0
        <4>1. n - 1 \in 0 .. N
          BY <1>1, <3>2
        <4>2. closed[n - 1] = Uncounted(s, c + (n - 1))
          BY <4>1
        <4>. QED BY <1>4, <3>2, <4>2
      <3>. QED BY <3>1, <3>2
    <2>2. closed = [n \in 0 .. N |-> closed[n]]
      OBVIOUS
    <2>. HIDE DEF closed
    <2>. QED BY <2>1, <2>2
  <1>6. after = Body(after)
    <2>. HIDE DEF closed, Body
    <2>. QED BY <1>5
  <1>. HIDE DEF after
  <1>7. \A n \in 0 .. N : after[n] = IF n = 0 THEN s ELSE CommitOne(after[n - 1], c + n)
    BY <1>6
  <1>8. \A n \in 0 .. N : after[n] = Uncounted(s, c + n)
    <2>. DEFINE S == {n \in Nat : n <= N => after[n] = Uncounted(s, c + n)}
    <2>1. 0 \in S
      <3>1. 0 \in 0 .. N
        BY <1>1
      <3>. QED BY <1>2, <1>7, <3>1
    <2>2. ASSUME NEW n \in Nat, n \in S PROVE n + 1 \in S
      <3>. SUFFICES ASSUME n + 1 <= N PROVE after[n + 1] = Uncounted(s, c + (n + 1))
        OBVIOUS
      <3>1. n + 1 \in 0 .. N /\ n + 1 # 0 /\ (n + 1) - 1 = n
        BY <1>1
      <3>2. after[n] = Uncounted(s, c + n)
        BY <1>1, <2>2
      <3>3. after[n + 1] = CommitOne(after[n], c + (n + 1))
        BY <1>7, <3>1
      <3>4. CommitOne(Uncounted(s, c + n), c + (n + 1)) = Uncounted(s, c + (n + 1))
        BY <1>4, <3>1
      <3>. QED BY <3>2, <3>3, <3>4
    <2>. HIDE DEF S
    <2>3. Nat \subseteq S
      BY <2>1, <2>2, Induction
    <2>. QED BY <1>1, <2>3 DEF S
  <1>9. after[N] = Uncounted(s, c + N)
    BY <1>1, <1>8
  <1>. QED BY <1>1, <1>3, <1>9 DEF c, after

LEMMA CommitByLoopIs ==
  ASSUME NEW s, Sound(s), NEW idx \in Nat
  PROVE  UpdateCommitIndex(s, idx) = CommitByLoop(s, idx)
  <1>. DEFINE upTo == Lesser(idx, LastIndex(s))
              u == UpdateCommitIndex(s, upTo)
  <1>1. s.commitIndex \in Nat /\ LastIndex(s) \in Nat /\ upTo \in Nat /\ upTo <= LastIndex(s)
    BY SoundParts DEF Lesser
  <1>2. UpdateCommitIndex(s, idx) = u
    <2>1. Lesser(upTo, LastIndex(s)) = upTo
      BY <1>1 DEF Lesser
    <2>. QED BY <2>1 DEF UpdateCommitIndex
  <1>. HIDE DEF upTo
  <1>3. CASE upTo > s.commitIndex
    <2>1. CommitLoop(s, upTo) = [u EXCEPT !.commitIndex = s.commitIndex]
      BY <1>1, <1>3, CommitLoopIs DEF Uncounted
    <2>2. u \in Replica /\ u.commitIndex = upTo
      <3>3. u = IF upTo < FirstSnapshot(s) THEN ApplyUpTo(s, upTo)
                ELSE TakeSnapshot(ApplyUpTo(s, upTo), LastSnapshot(s, upTo))
        BY <1>1, <1>3, UpdateIs
      <3>4. Sound(u)
        BY <1>1, UpdateCommitIndexSound
      <3>. HIDE DEF u
      <3>5. CASE upTo < FirstSnapshot(s)
        <4>1. u = ApplyUpTo(s, upTo)
          BY <3>3, <3>5
        <4>. QED BY <3>4, <4>1 DEF ApplyUpTo, Sound
      <3>6. CASE ~(upTo < FirstSnapshot(s))
        <4>. DEFINE a == ApplyUpTo(s, upTo)
                    l == LastSnapshot(s, upTo)
        <4>1. u = TakeSnapshot(a, l)
          BY <3>3, <3>6
        <4>2. a.commitIndex = upTo
          BY DEF ApplyUpTo
        <4>. HIDE DEF a, l
        <4>. QED BY <3>4, <4>1, <4>2 DEF TakeSnapshot, Sound
      <3>. QED BY <3>5, <3>6
    <2>3. CommitByLoop(s, idx) = [CommitLoop(s, upTo) EXCEPT !.commitIndex = upTo]
      BY <1>3 DEF CommitByLoop, upTo
    <2>. HIDE DEF u
    <2>4. [[u EXCEPT !.commitIndex = s.commitIndex] EXCEPT !.commitIndex = upTo] = u
      BY <2>2 DEF Replica
    <2>. QED BY <1>2, <2>1, <2>3, <2>4
  <1>4. CASE ~(upTo > s.commitIndex)
    <2>1. CommitByLoop(s, idx) = s
      BY <1>4 DEF CommitByLoop, upTo
    <2>2. u = s
      BY <1>1, <1>4 DEF UpdateCommitIndex, Lesser
    <2>. QED BY <1>2, <2>1, <2>2
  <1>. QED BY <1>3, <1>4

-----------------------------------------------------------------------------
\* the loop of handleAppendEntries

\* The loop stops at the first entry that is not held, and past the last one when all are.
LEMMA HeldLoopIs ==
  ASSUME NEW s, Sound(s), NEW prev \in Nat, NEW es \in Seq(Entry), es # <<>>,
         Base(s) <= prev, prev <= LastIndex(s)
  PROVE  HeldLoop(s, prev, es) = IF OverrunsEntries(s, prev, es) THEN -1
                                 ELSE HeldPrefix(s, prev, es)
  <1>. DEFINE L == Len(es)
              h == HeldPrefix(s, prev, es)
              Stop(n) == IF LogLen(s) <= prev + n + 1 THEN n ELSE IF n = L THEN -1 ELSE n
              Body(f) == [n \in 0 .. L |->
                            IF LogLen(s) <= prev + n + 1 THEN n
                            ELSE IF n = L THEN -1
                            ELSE IF TermAt(s, prev + n + 1) = es[n + 1].term THEN f[n + 1]
                            ELSE n]
              \* where the loop ends when it gets to n
              Ends(n) == {m \in n .. L : /\ m = L \/ ~Agrees(s, prev, es, m)
                                         /\ \A k \in n .. m - 1 : Agrees(s, prev, es, k)}
              closed == [n \in 0 .. L |-> Stop(CHOOSE m : m \in Ends(n))]
              from   == CHOOSE f : f = Body(f)
  <1>1. L \in Nat /\ L > 0 /\ s \in Replica /\ LogLen(s) \in Int
    <2>1. LogLen(s) = LastIndex(s) + 1 /\ LastIndex(s) \in Nat /\ s \in Replica
      BY SoundParts
    <2>. QED BY <2>1
  <1>2. /\ h \in 0 .. L
        /\ \A n \in 0 .. h - 1 : Agrees(s, prev, es, n)
        /\ h < L => ~Agrees(s, prev, es, h)
    BY <1>1, HeldPrefixAgrees
  <1>3. HeldLoop(s, prev, es) = from[0]
    BY DEF HeldLoop
  <1>4. OverrunsEntries(s, prev, es) <=> h = L /\ LogLen(s) > prev + L + 1
    BY DEF OverrunsEntries
  <1>. HIDE DEF L, h
  <1>5. \A f : \A n \in 0 .. L :
          Body(f)[n] = IF n < L /\ Agrees(s, prev, es, n) THEN f[n + 1] ELSE Stop(n)
    <2>1. ASSUME NEW n \in 0 .. L
          PROVE  Agrees(s, prev, es, n) <=> /\ ~(LogLen(s) <= prev + n + 1)
                                            /\ TermAt(s, prev + n + 1) = es[n + 1].term
      BY <1>1 DEF Agrees
    <2>. QED BY <1>1, <2>1
  <1>6. closed = Body(closed)
    <2>1. ASSUME NEW n \in 0 .. L PROVE closed[n] = Body(closed)[n]
      <3>1. CASE n < L /\ Agrees(s, prev, es, n)
        <4>1. Ends(n) = Ends(n + 1)
          <5>1. ASSUME NEW m \in Ends(n) PROVE m \in Ends(n + 1)
            <6>1. m # n
              BY <1>1, <3>1
            <6>. QED BY <1>1, <6>1
          <5>2. ASSUME NEW m \in Ends(n + 1) PROVE m \in Ends(n)
            <6>1. \A k \in n .. m - 1 : k = n \/ k \in n + 1 .. m - 1
              BY <1>1
            <6>. QED BY <1>1, <3>1, <6>1
          <5>. QED BY <5>1, <5>2
        <4>2. n + 1 \in 0 .. L
          BY <1>1, <3>1
        <4>3. closed[n] = closed[n + 1]
          <5>. HIDE DEF Ends, Stop
          <5>. QED BY <4>1, <4>2
        <4>. HIDE DEF closed, Body
        <4>. QED BY <1>5, <3>1, <4>3
      <3>2. CASE ~(n < L /\ Agrees(s, prev, es, n))
        <4>1. n \in Ends(n)
          BY <1>1, <3>2
        <4>2. \A m \in Ends(n) : m = n
          BY <1>1, <3>2
        <4>3. (CHOOSE m : m \in Ends(n)) = n
          <5>. HIDE DEF Ends
          <5>. QED BY <4>1, <4>2
        <4>4. closed[n] = Stop(n)
          <5>. HIDE DEF Ends, Stop
          <5>. QED BY <4>3
        <4>. HIDE DEF closed, Body, Stop
        <4>. QED BY <1>5, <3>2, <4>4
      <3>. QED BY <3>1, <3>2
    <2>2. closed = [n \in 0 .. L |-> closed[n]]
      OBVIOUS
    <2>3. Body(closed) = [n \in 0 .. L |-> Body(closed)[n]]
      <3>. HIDE DEF closed
      <3>. QED OBVIOUS
    <2>. HIDE DEF closed, Body
    <2>. QED BY <2>1, <2>2, <2>3
  <1>7. from = Body(from)
    <2>. HIDE DEF closed, Body
    <2>. QED BY <1>6
  <1>. HIDE DEF from
  <1>8. \A n \in 0 .. L : from[n] = IF n < L /\ Agrees(s, prev, es, n) THEN from[n + 1]
                                    ELSE Stop(n)
    <2>. HIDE DEF Body, Stop
    <2>. QED BY <1>5, <1>7
  <1>9. from[0] = from[h]
    <2>. DEFINE S == {n \in Nat : n <= h => from[0] = from[n]}
    <2>1. 0 \in S
      OBVIOUS
    <2>2. ASSUME NEW n \in Nat, n \in S PROVE n + 1 \in S
      <3>. SUFFICES ASSUME n + 1 <= h PROVE from[0] = from[n + 1]
        OBVIOUS
      <3>1. n \in 0 .. L /\ n \in 0 .. h - 1 /\ n < L /\ n <= h
        BY <1>1, <1>2
      <3>. HIDE DEF Stop
      <3>2. from[n] = from[n + 1]
        BY <1>2, <1>8, <3>1
      <3>. QED BY <2>2, <3>1, <3>2
    <2>. HIDE DEF S
    <2>3. Nat \subseteq S
      BY <2>1, <2>2, Induction
    <2>. QED BY <1>2, <2>3 DEF S
  <1>10. from[h] = Stop(h)
    <2>. HIDE DEF Stop
    <2>. QED BY <1>2, <1>8
  <1>11. Stop(h) = IF h = L /\ LogLen(s) > prev + L + 1 THEN -1 ELSE h
    BY <1>1, <1>2
  <1>. HIDE DEF Stop
  <1>. QED BY <1>3, <1>4, <1>9, <1>10, <1>11 DEF h, L

-----------------------------------------------------------------------------
\* the loop of loadFromPersistentStorage

\* what is left when the entries up to i, if any, were fed
FedTo(s, i) == [s EXCEPT !.applied = SubSeq(s.applied, 1, Greater(i, 0))]

\* One iteration feeds the entry that the state machine was fed.
LEMMA ReloadOneIs ==
  ASSUME NEW s, Sound(s), Rebuilt(s), NEW i \in Nat, Base(s) < i, i <= s.commitIndex
  PROVE  ReloadOne(FedTo(s, i - 1), i) = FedTo(s, i)
  <1>. DEFINE v == FedTo(s, i - 1)
              w == SubSeq(s.applied, 1, i)
  <1>1. /\ s \in Replica /\ s.applied \in Seq(Cmd) /\ Len(s.applied) = s.commitIndex
        /\ s.commitIndex \in Nat /\ Base(s) \in Int
    BY SoundParts
  <1>2. CASE i = 0
    <2>1. Greater(i - 1, 0) = Greater(i, 0)
      BY <1>2 DEF Greater
    <2>. QED BY <1>2, <2>1 DEF ReloadOne, FedTo
  <1>3. CASE i # 0
    <2>. DEFINE u == SubSeq(s.applied, 1, i - 1)
    <2>1. Greater(i - 1, 0) = i - 1 /\ Greater(i, 0) = i
      BY <1>3 DEF Greater
    <2>2. v = [s EXCEPT !.applied = u] /\ FedTo(s, i) = [s EXCEPT !.applied = w]
      BY <2>1 DEF FedTo
    <2>3. /\ u \in Seq(Cmd) /\ Len(u) = i - 1 /\ \A k \in 1 .. i - 1 : u[k] = s.applied[k]
          /\ w \in Seq(Cmd) /\ Len(w) = i /\ \A k \in 1 .. i : w[k] = s.applied[k]
      <3>1. i - 1 \in 0 .. Len(s.applied) /\ i \in 0 .. Len(s.applied)
        BY <1>1, <1>3
      <3>. QED BY <1>1, <3>1
    <2>. HIDE DEF u, w, v
    <2>4. /\ v.log = s.log /\ v.snapshot = s.snapshot /\ v.commitIndex = s.commitIndex
          /\ v.applied = u /\ v \in Replica
      BY <1>1, <2>2, <2>3 DEF Replica
    <2>5. ToLogIndex(v, i) + 1 = i - Base(s)
      <3>1. Base(v) = Base(s)
        BY <2>4 DEF Base
      <3>. QED BY <1>1, <3>1 DEF ToLogIndex
    <2>6. v.log[ToLogIndex(v, i) + 1].cmd = s.applied[i]
      <3>1. i \in 1 .. s.commitIndex /\ ~(i <= Base(s))
        BY <1>1, <1>3
      <3>. QED BY <2>4, <2>5, <3>1 DEF Rebuilt, CmdAt
    <2>7. s.applied[i] \in Cmd
      BY <1>1, <1>3
    <2>8. Append(u, s.applied[i]) = w
      <3>1. /\ Append(u, s.applied[i]) \in Seq(Cmd) /\ Len(Append(u, s.applied[i])) = i
            /\ \A k \in 1 .. i : Append(u, s.applied[i])[k] =
                                   IF k <= i - 1 THEN u[k] ELSE s.applied[i]
        BY <2>3, <2>7
      <3>2. \A k \in 1 .. i : k <= i - 1 \/ k = i
        OBVIOUS
      <3>3. \A k \in 1 .. i : Append(u, s.applied[i])[k] = w[k]
        BY <2>3, <3>1, <3>2
      <3>. QED BY <2>3, <3>1, <3>3, SeqEqual
    <2>9. ReloadOne(v, i) = [v EXCEPT !.applied = w]
      BY <1>3, <2>4, <2>6, <2>8 DEF ReloadOne
    <2>10. [v EXCEPT !.applied = w] = [s EXCEPT !.applied = w]
      BY <1>1, <2>2 DEF Replica
    <2>. QED BY <2>2, <2>9, <2>10 DEF v
  <1>. QED BY <1>2, <1>3

LEMMA ReloadLoopIs ==
  ASSUME NEW s, Sound(s), Rebuilt(s)
  PROVE  ReloadLoop(s) = s
  <1>. DEFINE b     == Base(s)
              start == IF s.snapshot = NoSnapshot THEN 0 ELSE Base(s) + 1
              N     == s.commitIndex - start + 1
              first == [s EXCEPT !.applied = s.snapshot.sm]
              Body(f) == [n \in 0 .. N |-> IF n = 0 THEN first
                                           ELSE ReloadOne(f[n - 1], start + n - 1)]
              closed  == [n \in 0 .. N |-> FedTo(s, b + n)]
              after   == CHOOSE f : f = Body(f)
  <1>1. /\ s \in Replica /\ s.applied \in Seq(Cmd) /\ Len(s.applied) = s.commitIndex
        /\ s.commitIndex \in Nat /\ b \in Int /\ b >= -1 /\ b <= s.commitIndex
        /\ s.snapshot.sm \in Seq(Cmd) /\ Len(s.snapshot.sm) = Greater(b, 0)
    BY SoundParts
  <1>2. start = b + 1
    <2>1. s.snapshot \in Snapshot \cup {NoSnapshot}
      BY SoundParts
    <2>2. s.snapshot = NoSnapshot <=> b = -1
      BY <2>1, SnapshotParts DEF Base
    <2>. QED BY <2>2
  <1>3. ReloadLoop(s) = after[N]
    BY DEF ReloadLoop
  <1>. HIDE DEF start
  <1>4. N \in Nat /\ b + N = s.commitIndex /\ \A n \in 0 .. N : start + n - 1 = b + n
    <2>. HIDE DEF b
    <2>. QED BY <1>1, <1>2
  <1>5. first = FedTo(s, b + 0)
    <2>. DEFINE w == SubSeq(s.applied, 1, Greater(b, 0))
    <2>1. w \in Seq(Cmd) /\ Len(w) = Greater(b, 0) /\ \A k \in 1 .. Len(w) : w[k] = s.applied[k]
      BY <1>1 DEF Greater
    <2>2. \A k \in 1 .. Len(w) : s.snapshot.sm[k] = s.applied[k]
      <3>1. \A k \in 1 .. Len(w) : k \in 1 .. s.commitIndex /\ k <= b
        BY <1>1, <2>1 DEF Greater
      <3>. QED BY <3>1 DEF Rebuilt
    <2>. HIDE DEF w
    <2>3. s.snapshot.sm = w
      BY <1>1, <2>1, <2>2, SeqEqual
    <2>4. first = [s EXCEPT !.applied = w]
      BY <2>3
    <2>5. b + 0 = b
      BY <1>1
    <2>. QED BY <2>4, <2>5 DEF FedTo, w
  <1>6. FedTo(s, b + N) = s
    <2>1. Greater(b + N, 0) = Len(s.applied)
      BY <1>1, <1>4 DEF Greater
    <2>2. SubSeq(s.applied, 1, Len(s.applied)) = s.applied
      BY <1>1
    <2>. QED BY <1>1, <2>1, <2>2 DEF FedTo, Replica
  <1>. HIDE DEF N, first
  <1>7. \A n \in 0 .. N : n # 0 => ReloadOne(FedTo(s, b + (n - 1)), start + n - 1) = FedTo(s, b + n)
    <2>. SUFFICES ASSUME NEW n \in 0 .. N, n # 0
                  PROVE  ReloadOne(FedTo(s, b + (n - 1)), start + n - 1) = FedTo(s, b + n)
      OBVIOUS
    <2>. DEFINE i == b + n
    <2>1. i \in Nat /\ b < i /\ i <= s.commitIndex /\ i - 1 = b + (n - 1) /\ start + n - 1 = i
      <3>. HIDE DEF b
      <3>. QED BY <1>1, <1>4
    <2>. HIDE DEF i
    <2>2. ReloadOne(FedTo(s, i - 1), i) = FedTo(s, i)
      BY <2>1, ReloadOneIs
    <2>. QED BY <2>1, <2>2 DEF i
  <1>. HIDE DEF b
  <1>8. closed = Body(closed)
    <2>1. ASSUME NEW n \in 0 .. N
          PROVE  closed[n] = IF n = 0 THEN first ELSE ReloadOne(closed[n - 1], start + n - 1)
      <3>1. CASE n = 0
        BY <1>5, <3>1
      <3>2. CASE n # 0
        <4>1. n - 1 \in 0 .. N
          BY <1>4, <3>2
        <4>2. closed[n - 1] = FedTo(s, b + (n - 1))
          BY <4>1
        <4>. QED BY <1>7, <3>2, <4>2
      <3>. QED BY <3>1, <3>2
    <2>2. closed = [n \in 0 .. N |-> closed[n]]
      OBVIOUS
    <2>. HIDE DEF closed
    <2>. QED BY <2>1, <2>2
  <1>9. after = Body(after)
    <2>. HIDE DEF closed, Body
    <2>. QED BY <1>8
  <1>. HIDE DEF after
  <1>10. \A n \in 0 .. N : after[n] = IF n = 0 THEN first
                                      ELSE ReloadOne(after[n - 1], start + n - 1)
    BY <1>9
  <1>11. \A n \in 0 .. N : after[n] = FedTo(s, b + n)
    <2>. DEFINE S == {n \in Nat : n <= N => after[n] = FedTo(s, b + n)}
    <2>1. 0 \in S
      <3>1. 0 \in 0 .. N
        BY <1>4
      <3>. QED BY <1>5, <1>10, <3>1
    <2>2. ASSUME NEW n \in Nat, n \in S PROVE n + 1 \in S
      <3>. SUFFICES ASSUME n + 1 <= N PROVE after[n + 1] = FedTo(s, b + (n + 1))
        OBVIOUS
      <3>1. n + 1 \in 0 .. N /\ n + 1 # 0 /\ (n + 1) - 1 = n
        BY <1>4
      <3>2. after[n] = FedTo(s, b + n)
        BY <1>4, <2>2
      <3>3. after[n + 1] = ReloadOne(after[n], start + (n + 1) - 1)
        BY <1>10, <3>1
      <3>4. ReloadOne(FedTo(s, b + n), start + (n + 1) - 1) = FedTo(s, b + (n + 1))
        BY <1>7, <3>1
      <3>. QED BY <3>2, <3>3, <3>4
    <2>. HIDE DEF S
    <2>3. Nat \subseteq S
      BY <2>1, <2>2, Induction
    <2>. QED BY <1>4, <2>3 DEF S
  <1>12. after[N] = FedTo(s, b + N)
    BY <1>4, <1>11
  <1>. QED BY <1>3, <1>6, <1>12 DEF after

-----------------------------------------------------------------------------
\* every replica the operations lead to

LoopInv == Sound(r) /\ Rebuilt(r)

LEMMA InitLoopInv == Init => LoopInv
  <1>. SUFFICES ASSUME Init PROVE LoopInv
    OBVIOUS
  <1>1. /\ r = InitReplica /\ r.snapshot = NoSnapshot /\ r.snapshot.index = -1
        /\ r.log \in Seq(Entry) /\ Len(r.log) = 1 /\ r.commitIndex = 0 /\ r.applied = <<>>
    BY DEF Init, InitReplica, NoSnapshot, Entry, Cmd
  <1>2. r \in Replica
    <2>1. r.applied \in Seq(Cmd) /\ r.commitIndex \in Nat
      BY <1>1
    <2>. QED BY <1>1, <2>1 DEF InitReplica, Replica
  <1>3. WellFormed(r.log, r.snapshot, r.commitIndex) /\ Len(r.applied) = r.commitIndex
    BY <1>1 DEF WellFormed
  <1>4. Base(r) = -1 /\ LastIndex(r) = 0
    <2>1. Base(r) = -1
      BY <1>1 DEF Base
    <2>2. LastIndex(r) = Len(r.log) + Base(r)
      BY <1>2, ReplicaParts
    <2>. QED BY <1>1, <2>1, <2>2
  <1>. QED BY <1>1, <1>2, <1>3, <1>4 DEF LoopInv, Sound, Rebuilt

LEMMA BatchIsEntries ==
  ASSUME NEW es \in Batch
  PROVE  es \in Seq(Entry)
  <1>1. PICK n \in 0 .. 2 : es \in [1 .. n -> [term : 1 .. MaxTerm, cmd : Cmd]]
    BY DEF Batch
  <1>2. [term : 1 .. MaxTerm, cmd : Cmd] \subseteq Entry
    BY BoundsAssumption DEF Entry
  <1>3. es \in [1 .. n -> Entry]
    BY <1>1, <1>2
  <1>. QED BY <1>3

LEMMA FitsAfterIs ==
  ASSUME Sound(r), NEW prev \in Nat, NEW es \in Seq(Entry), FitsAfter(prev, es)
  PROVE  Base(r) <= prev /\ prev <= LastIndex(r)
  <1>1. LogLen(r) = LastIndex(r) + 1 /\ LastIndex(r) \in Nat
    BY SoundParts
  <1>2. prev >= Base(r) /\ prev < LogLen(r)
    BY DEF FitsAfter, Readable
  <1>. QED BY <1>1, <1>2, SoundParts

\* The commands a snapshot of another replica is made of, one for each index.
LEMMA AheadIs ==
  ASSUME Sound(r), Rebuilt(r), NEW index \in Nat, r.commitIndex < index
  PROVE  LET sm == r.applied \o Commands(r, r.commitIndex + 1, Lesser(index, LastIndex(r)))
                     \o [k \in 1 .. index - LastIndex(r) |-> NoOp]
         IN  sm \in Seq(Cmd) /\ Len(sm) = index
  <1>. DEFINE c    == r.commitIndex
              last == Lesser(index, LastIndex(r))
              held == Commands(r, c + 1, last)
              m    == Greater(index - LastIndex(r), 0)
              rest == [k \in 1 .. index - LastIndex(r) |-> NoOp]
  <1>1. /\ r \in Replica /\ r.applied \in Seq(Cmd) /\ Len(r.applied) = c /\ c \in Nat
        /\ Base(r) \in Int /\ Base(r) <= c /\ LastIndex(r) \in Nat /\ c <= LastIndex(r)
    BY SoundParts DEF Rebuilt
  <1>2. last \in Nat /\ c <= last /\ last <= LastIndex(r) /\ m \in Nat /\ last + m = index
    BY <1>1 DEF Lesser, Greater
  <1>3. held \in Seq(Cmd) /\ Len(held) = last - c
    <2>1. /\ c + 1 \in Int /\ last \in Int /\ Base(r) < c + 1 /\ c + 1 <= last + 1
          /\ last <= LastIndex(r)
      BY <1>1, <1>2
    <2>2. held \in Seq(Cmd) /\ Len(held) = last - (c + 1) + 1
      BY <1>1, <2>1, CommandsAreCmds
    <2>. QED BY <1>1, <1>2, <2>2
  <1>4. rest \in Seq(Cmd) /\ Len(rest) = m
    <2>1. 1 .. index - LastIndex(r) = 1 .. m
      BY <1>1 DEF Greater
    <2>2. rest = [k \in 1 .. m |-> NoOp]
      BY <2>1
    <2>3. NoOp \in Cmd
      BY DEF Cmd
    <2>. HIDE DEF rest, m
    <2>. QED BY <1>2, <2>2, <2>3
  <1>. HIDE DEF held, last, rest, m
  <1>. DEFINE fed == r.applied \o held
  <1>5. fed \in Seq(Cmd) /\ Len(fed) = last
    <2>1. fed \in Seq(Cmd) /\ Len(fed) = Len(r.applied) + Len(held)
      BY <1>1, <1>3
    <2>. HIDE DEF fed
    <2>. QED BY <1>1, <1>2, <1>3, <2>1
  <1>. HIDE DEF fed
  <1>6. fed \o rest \in Seq(Cmd) /\ Len(fed \o rest) = last + m
    BY <1>4, <1>5
  <1>. QED BY <1>2, <1>6 DEF fed, held, last, rest

LEMMA NextLoopInv == LoopInv /\ [Next]_r => LoopInv'
  <1>. SUFFICES ASSUME LoopInv, [Next]_r PROVE LoopInv'
    OBVIOUS
  <1>1. Sound(r) /\ Rebuilt(r)
    BY DEF LoopInv
  <1>2. r.commitIndex <= LastIndex(r) /\ r.commitIndex \in Nat /\ Base(r) <= r.commitIndex
    BY <1>1, SoundParts DEF Rebuilt
  <1>3. ASSUME NEW v, r' = v, Sound(v), Rebuilt(v) PROVE LoopInv'
    BY <1>3 DEF LoopInv
  <1>4. CASE Merge
    <2>1. PICK prev \in 0 .. MaxIndex, es \in Batch :
            /\ FitsAfter(prev, es)
            /\ prev + HeldPrefix(r, prev, es) >= r.commitIndex
            /\ r' = MergeEntries(r, prev, es)
      BY <1>4 DEF Merge
    <2>2. prev \in Nat /\ es \in Seq(Entry)
      BY BatchIsEntries
    <2>3. Base(r) <= prev /\ prev <= LastIndex(r)
      BY <1>1, <2>1, <2>2, FitsAfterIs
    <2>4. r.commitIndex <= prev + HeldPrefix(r, prev, es)
      <3>1. HeldPrefix(r, prev, es) \in Nat
        BY <1>1, <2>2, <2>3, SoundParts, HeldPrefixBounds
      <3>. QED BY <1>2, <2>1, <2>2, <3>1
    <2>5. Sound(MergeEntries(r, prev, es)) /\ Rebuilt(MergeEntries(r, prev, es))
      BY <1>1, <2>2, <2>3, <2>4, MergeEntriesSound, MergeLosesNothing
    <2>. QED BY <1>3, <2>1, <2>5
  <1>5. CASE Commit
    <2>1. PICK idx \in 1 .. MaxIndex : r' = UpdateCommitIndex(r, idx)
      BY <1>5 DEF Commit
    <2>2. Sound(UpdateCommitIndex(r, idx)) /\ Rebuilt(UpdateCommitIndex(r, idx))
      BY <1>1, <1>2, UpdateLosesNothing
    <2>. QED BY <1>3, <2>1, <2>2
  <1>6. CASE Install
    <2>. DEFINE Ahead(index) ==
                  r.applied \o Commands(r, r.commitIndex + 1, Lesser(index, LastIndex(r)))
                    \o [k \in 1 .. index - LastIndex(r) |-> NoOp]
    <2>1. PICK index \in r.commitIndex + 1 .. MaxIndex :
            \E term \in 1 .. MaxTerm :
              r' = InstallSnapshot(r, [index |-> index, term |-> term, sm |-> Ahead(index)])
      BY <1>6 DEF Install
    <2>2. index \in Nat /\ r.commitIndex < index
      BY <1>2, BoundsAssumption
    <2>3. Ahead(index) \in Seq(Cmd) /\ Len(Ahead(index)) = index
      BY <1>1, <2>2, AheadIs
    <2>. HIDE DEF Ahead
    <2>4. PICK term \in 1 .. MaxTerm :
            r' = InstallSnapshot(r, [index |-> index, term |-> term, sm |-> Ahead(index)])
      BY <2>1
    <2>. DEFINE snap == [index |-> index, term |-> term, sm |-> Ahead(index)]
    <2>5. snap \in Snapshot /\ snap.index = index /\ Len(snap.sm) = snap.index
      BY <2>2, <2>3, BoundsAssumption DEF Snapshot
    <2>6. snap.index < LastIndex(r) => Readable(r, snap.index)
      <3>1. LogLen(r) = LastIndex(r) + 1 /\ LastIndex(r) \in Nat /\ Base(r) \in Int
        BY <1>1, SoundParts
      <3>. QED BY <1>2, <2>2, <3>1 DEF Readable
    <2>. HIDE DEF snap
    <2>7. Sound(InstallSnapshot(r, snap)) /\ Rebuilt(InstallSnapshot(r, snap))
      BY <1>1, <2>5, <2>6, InstallSnapshotSound, InstallRebuilds
    <2>. QED BY <1>3, <2>4, <2>7 DEF snap
  <1>7. CASE UNCHANGED r
    BY <1>1, <1>3, <1>7
  <1>. QED BY <1>4, <1>5, <1>6, <1>7 DEF Next

LEMMA LoopInvHolds == Spec => []LoopInv
  BY InitLoopInv, NextLoopInv, PTL DEF Spec

-----------------------------------------------------------------------------
\* UpdateCommitIndex, the closed form the other modules commit with, leaves what the
\* loop of updateCommitIndex leaves, whatever the threshold and the index.
THEOREM CommitsMatchTheLoop == Spec => []CommitMatchesLoop
  <1>1. LoopInv => CommitMatchesLoop
    <2>. SUFFICES ASSUME LoopInv, NEW idx \in 0 .. MaxIndex + 1
                  PROVE  UpdateCommitIndex(r, idx) = CommitByLoop(r, idx)
      BY DEF CommitMatchesLoop
    <2>1. idx \in Nat /\ Sound(r)
      BY BoundsAssumption DEF LoopInv
    <2>. QED BY <2>1, CommitByLoopIs
  <1>. QED BY <1>1, LoopInvHolds, PTL

\* HeldPrefix is what the loop of handleAppendEntries counts, and OverrunsEntries is
\* when it reads past the end of the request, whatever the log and the entries.
THEOREM MergesMatchTheLoop == Spec => []MergeMatchesLoop
  <1>1. LoopInv => MergeMatchesLoop
    <2>. SUFFICES ASSUME LoopInv, NEW prev \in 0 .. MaxIndex, NEW es \in Batch,
                         es # <<>>, FitsAfter(prev, es)
                  PROVE  HeldLoop(r, prev, es) = IF OverrunsEntries(r, prev, es) THEN -1
                                                 ELSE HeldPrefix(r, prev, es)
      BY DEF MergeMatchesLoop
    <2>1. Sound(r) /\ prev \in Nat /\ es \in Seq(Entry)
      BY BatchIsEntries DEF LoopInv
    <2>2. Base(r) <= prev /\ prev <= LastIndex(r)
      BY <2>1, FitsAfterIs
    <2>. QED BY <2>1, <2>2, HeldLoopIs
  <1>. QED BY <1>1, LoopInvHolds, PTL

\* After a merge the log is the leader's: what it was up to prev, then the terms of the
\* entries received, and nothing after them.
THEOREM MergesYieldTheLeadersLog == Spec => []MergeYieldsLeaderLog
  <1>1. LoopInv => MergeYieldsLeaderLog
    <2>. SUFFICES ASSUME LoopInv, NEW prev \in 0 .. MaxIndex, NEW es \in Batch,
                         es # <<>>, FitsAfter(prev, es)
                  PROVE  LET s == MergeEntries(r, prev, es)
                         IN /\ LastIndex(s) = prev + Len(es)
                            /\ \A i \in 1 .. Len(es) : TermAt(s, prev + i) = es[i].term
                            /\ \A i \in Greater(Base(r), 0) .. prev : TermAt(s, i) = TermAt(r, i)
      BY DEF MergeYieldsLeaderLog
    <2>. DEFINE s == MergeEntries(r, prev, es)
                h == HeldPrefix(r, prev, es)
                b == Base(r)
                L == Len(es)
    <2>1. Sound(r) /\ prev \in Nat /\ es \in Seq(Entry) /\ L \in Nat
      BY BatchIsEntries DEF LoopInv
    <2>2. b <= prev /\ prev <= LastIndex(r) /\ b \in Int /\ r \in Replica
      BY <2>1, FitsAfterIs, SoundParts
    <2>3. /\ Base(s) = b /\ s.snapshot = r.snapshot /\ LastIndex(s) = prev + L
          /\ \A i \in b + 1 .. prev + h : s.log[i - b] = r.log[i - b]
          /\ \A i \in prev + h + 1 .. prev + L : s.log[i - b] = es[i - prev]
      BY <2>1, <2>2, MergedLog
    <2>4. h \in 0 .. L /\ \A n \in 0 .. h - 1 : Agrees(r, prev, es, n)
      BY <2>1, <2>2, HeldPrefixAgrees
    <2>. HIDE DEF s, h, L
    <2>5. ASSUME NEW i \in 1 .. L PROVE TermAt(s, prev + i) = es[i].term
      <3>1. prev + i # b /\ prev + i \in Int
        BY <2>1, <2>2
      <3>2. TermAt(s, prev + i) = s.log[(prev + i) - b].term
        BY <2>3, <3>1 DEF TermAt
      <3>3. CASE i <= h
        <4>1. s.log[(prev + i) - b] = r.log[(prev + i) - b]
          <5>1. prev + i \in b + 1 .. prev + h
            BY <2>1, <2>2, <2>4, <3>3
          <5>. QED BY <2>3, <5>1
        <4>2. TermAt(r, prev + i) = es[i].term
          <5>1. i - 1 \in 0 .. h - 1 /\ prev + (i - 1) + 1 = prev + i /\ (i - 1) + 1 = i
            BY <2>1, <2>4, <3>3
          <5>2. TermAt(r, prev + (i - 1) + 1) = es[(i - 1) + 1].term
            BY <2>4, <5>1 DEF Agrees
          <5>. QED BY <5>1, <5>2
        <4>3. TermAt(r, prev + i) = r.log[(prev + i) - b].term
          BY <3>1 DEF TermAt
        <4>. QED BY <3>2, <4>1, <4>2, <4>3
      <3>4. CASE ~(i <= h)
        <4>1. prev + i \in prev + h + 1 .. prev + L /\ (prev + i) - prev = i
          BY <2>1, <2>4, <3>4
        <4>2. s.log[(prev + i) - b] = es[(prev + i) - prev]
          BY <2>3, <4>1
        <4>. QED BY <3>2, <4>1, <4>2
      <3>. QED BY <3>3, <3>4
    <2>6. ASSUME NEW i \in Greater(b, 0) .. prev PROVE TermAt(s, i) = TermAt(r, i)
      <3>1. i \in Int /\ (i = b \/ i \in b + 1 .. prev + h)
        BY <2>1, <2>2, <2>4 DEF Greater
      <3>. QED BY <2>3, <3>1 DEF TermAt
    <2>. QED BY <2>3, <2>5, <2>6 DEF s, L
  <1>. QED BY <1>1, LoopInvHolds, PTL

\* Commits and the snapshots they take move commands and lose none, and the loop of
\* loadFromPersistentStorage makes of what was saved the replica it was saved from.
THEOREM NothingIsLost == Spec => []SnapshotsLoseNothing
  <1>1. LoopInv => SnapshotsLoseNothing
    <2>. SUFFICES ASSUME LoopInv PROVE SnapshotsLoseNothing
      OBVIOUS
    <2>1. Sound(r) /\ Rebuilt(r) /\ r.commitIndex <= LastIndex(r)
      BY DEF LoopInv, Rebuilt
    <2>2. ASSUME NEW idx \in 0 .. MaxIndex + 1
          PROVE  AllCommands(UpdateCommitIndex(r, idx)) = AllCommands(r)
      BY <2>1, BoundsAssumption, UpdateLosesNothing
    <2>3. Reload(r.log, r.snapshot, r.commitIndex) = r
      BY <2>1, ReloadRebuilds
    <2>4. ReloadLoop(r) = r
      BY <2>1, ReloadLoopIs
    <2>. QED BY <2>2, <2>3, <2>4 DEF SnapshotsLoseNothing
  <1>. QED BY <1>1, LoopInvHolds, PTL

=============================================================================

------------------------------ MODULE LockQueues ------------------------------
(***************************************************************************)
(* An asyncio.Lock as a sequence: the holder, then the waiters in order.   *)
(* Queues(q, W) says that the lock q is held and awaited by exactly the    *)
(* tasks in W, each once: nobody waits for a lock that a task which is     *)
(* gone still holds, and no task holds it unknowingly.                     *)
(***************************************************************************)
EXTENDS Naturals, Sequences, SequenceTheorems, TLAPS

InQueue(q) == {q[i] : i \in DOMAIN q}

Queues(q, W) ==
    /\ \A i, j \in DOMAIN q : q[i] = q[j] => i = j
    /\ InQueue(q) = W

\* A lock is free when nobody is in it.
LEMMA FreeLock == \A W : Queues(<<>>, W) <=> W = {}
  BY DEF Queues, InQueue

\* The holder is one of its tasks.
LEMMA HolderIsIn ==
    ASSUME NEW S, NEW q \in Seq(S), q # <<>>, NEW W, Queues(q, W)
    PROVE  Head(q) \in W
  <1>1. 1 \in DOMAIN q /\ Head(q) = q[1]
    BY EmptySeq
  <1> QED
    BY <1>1 DEF Queues, InQueue

\* A task that is not in it joins at the end and leaves the holder as it is.
LEMMA JoinQueue ==
    ASSUME NEW S, NEW q \in Seq(S), NEW t \in S, NEW W, t \notin W, Queues(q, W)
    PROVE  Append(q, t) \in Seq(S) /\ Queues(Append(q, t), W \cup {t})
  <1> DEFINE n == Len(q)
             p == Append(q, t)
  <1>1. /\ n \in Nat /\ DOMAIN q = 1 .. n
        /\ p \in Seq(S) /\ DOMAIN p = 1 .. n + 1
        /\ \A i \in 1 .. n : p[i] = q[i]
        /\ p[n + 1] = t
    BY AppendProperties
  <1> HIDE DEF p, n
  <1>2. \A i \in 1 .. n : q[i] # t
    BY <1>1 DEF Queues, InQueue
  <1>3. ASSUME NEW i \in DOMAIN p, NEW j \in DOMAIN p, p[i] = p[j]
        PROVE  i = j
    <2>1. CASE i \in 1 .. n /\ j \in 1 .. n
      BY <1>1, <1>3, <2>1 DEF Queues
    <2>2. CASE i = n + 1 /\ j = n + 1
      BY <2>2
    <2>3. CASE i = n + 1 /\ j \in 1 .. n
      BY <1>1, <1>2, <1>3, <2>3
    <2>4. CASE i \in 1 .. n /\ j = n + 1
      BY <1>1, <1>2, <1>3, <2>4
    <2> QED
      BY <1>1, <2>1, <2>2, <2>3, <2>4
  <1>4. InQueue(p) = W \cup {t}
    <2>1. W = {q[i] : i \in 1 .. n}
      BY <1>1 DEF Queues, InQueue
    <2>2. InQueue(p) = {p[i] : i \in 1 .. n + 1}
      BY <1>1 DEF InQueue
    <2>3. 1 .. n + 1 = (1 .. n) \cup {n + 1}
      BY <1>1
    <2> QED
      BY <1>1, <2>1, <2>2, <2>3
  <1> QED
    BY <1>1, <1>3, <1>4 DEF Queues, p

\* The holder leaves it to the next one.
LEMMA LeaveQueue ==
    ASSUME NEW S, NEW q \in Seq(S), q # <<>>, NEW W, Queues(q, W)
    PROVE  Tail(q) \in Seq(S) /\ Queues(Tail(q), W \ {Head(q)})
  <1> DEFINE n == Len(q)
             p == Tail(q)
  <1>1. /\ n \in Nat /\ n > 0 /\ DOMAIN q = 1 .. n
        /\ p \in Seq(S) /\ DOMAIN p = 1 .. n - 1
        /\ \A i \in 1 .. n - 1 : p[i] = q[i + 1]
        /\ Head(q) = q[1]
    BY EmptySeq, HeadTailProperties
  <1> HIDE DEF p, n
  <1>2. ASSUME NEW i \in DOMAIN p, NEW j \in DOMAIN p, p[i] = p[j]
        PROVE  i = j
    <2>1. i + 1 \in DOMAIN q /\ j + 1 \in DOMAIN q /\ q[i + 1] = q[j + 1]
      BY <1>1, <1>2
    <2>2. i + 1 = j + 1
      BY <2>1 DEF Queues
    <2> QED
      BY <1>1, <2>2
  <1>3. InQueue(p) = W \ {Head(q)}
    <2>1. ASSUME NEW i \in 1 .. n - 1
          PROVE  p[i] \in W \ {Head(q)}
      <3>1. i + 1 \in DOMAIN q /\ 1 \in DOMAIN q /\ i + 1 # 1 /\ p[i] = q[i + 1]
        BY <1>1
      <3> QED
        BY <1>1, <3>1 DEF Queues, InQueue
    <2>2. ASSUME NEW x \in W, x # Head(q)
          PROVE  \E i \in 1 .. n - 1 : p[i] = x
      <3>1. PICK k \in 1 .. n : q[k] = x
        BY <1>1 DEF Queues, InQueue
      <3>2. k # 1
        BY <1>1, <2>2, <3>1
      <3>3. k - 1 \in 1 .. n - 1 /\ (k - 1) + 1 = k
        BY <1>1, <3>2
      <3>4. PICK m \in 1 .. n - 1 : m + 1 = k
        BY <3>3
      <3>5. p[m] = q[k]
        BY <1>1, <3>4
      <3> QED
        BY <3>1, <3>5
    <2>3. InQueue(p) = {p[i] : i \in 1 .. n - 1}
      BY <1>1 DEF InQueue
    <2> QED
      BY <2>1, <2>2, <2>3
  <1> QED
    BY <1>1, <1>2, <1>3 DEF Queues, p
=============================================================================

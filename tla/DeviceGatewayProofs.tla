------------------------- MODULE DeviceGatewayProofs -------------------------
(***************************************************************************)
(* Proofs about DeviceGateway, for any bound on the pings, any message ids *)
(* and any size of the replay window.                                      *)
(***************************************************************************)
EXTENDS DeviceGateway, SequenceTheorems, TLAPS

Queued(t) == \E i \in DOMAIN lock : lock[i] = t

\* The send lock's queue, task by task.
QueueExact ==
    /\ lock \in Seq(Tasks)
    /\ \A i, j \in DOMAIN lock : lock[i] = lock[j] => i = j
    /\ Queued("handler") <=> handler \in HandlerSends
    /\ heartbeat \in HeartbeatSends => Queued("heartbeat")
    /\ Queued("heartbeat") => heartbeat \in HeartbeatSends \cup {"cancelling"}
    /\ Queued("evictor") <=> evictor \in {"close", "closing"}
    /\ Queued("command") <=> command = "sending"

\* The handler's frame is written before the command's.
Ahead == \E i, j \in DOMAIN lock : i < j /\ lock[i] = "handler" /\ lock[j] = "command"

\* Nothing is written any more, and never will be.
NoMore == closed \/ socket # "open" \/ handler = "ended"

\* Where server.ready is when a command may be sent, or is being sent.
ReadyFirst ==
    /\ handler \in {"serving", "updating", "reply"} => "ready" \in written
    /\ online => "ready" \in written \/ handler = "ready" \/ NoMore
    /\ command = "sending" =>
          "ready" \in written \/ (handler = "ready" /\ Ahead) \/ NoMore

\* Before it is served a session has no heartbeat.
Starting ==
    handler \in {"upgrade", "accepted", "connecting", "hello", "await_hello", "activating",
                "ready"}
        => heartbeat = "none"

\* A session starts unregistered and ends after its heartbeat.
Teardown ==
    /\ Starting
    /\ handler \in {"upgrade", "accepted"} =>
          ~registered /\ ~online
    /\ handler = "await_heartbeat" => heartbeat \in {"cancelling", "cancelled"}
    /\ TeardownComplete

\* The inductive invariant.
GatewayInv ==
    /\ TypeOK
    /\ QueueExact
    /\ ReadyFirst
    /\ CommandAfterReady
    /\ Teardown
    /\ ReplayWindowExact
    /\ received => nonce = 0

-----------------------------------------------------------------------------
\* Removing the i-th element moves those behind it up by one.
LEMMA RemoveAtFacts ==
    ASSUME NEW S, NEW q \in Seq(S), NEW i \in DOMAIN q
    PROVE  /\ RemoveAt(q, i) \in Seq(S)
           /\ Len(RemoveAt(q, i)) = Len(q) - 1
           /\ \A j \in 1 .. Len(q) - 1 :
                 RemoveAt(q, i)[j] = IF j < i THEN q[j] ELSE q[j + 1]
  <1> DEFINE a == SubSeq(q, 1, i - 1)
             b == SubSeq(q, i + 1, Len(q))
  <1>1. Len(q) \in Nat /\ i \in 1 .. Len(q)
    OBVIOUS
  <1>2. a \in Seq(S) /\ Len(a) = i - 1 /\ \A j \in 1 .. i - 1 : a[j] = q[j]
    BY <1>1, SubSeqProperties
  <1>3. b \in Seq(S) /\ Len(b) = Len(q) - i /\ \A j \in 1 .. Len(q) - i : b[j] = q[i + j]
    BY <1>1, SubSeqProperties
  <1>4. RemoveAt(q, i) = a \o b
    BY DEF RemoveAt
  <1> HIDE DEF a, b
  <1>8. a \in Seq(S) /\ b \in Seq(S)
    BY <1>2, <1>3
  <1>9. Len(a) = i - 1 /\ Len(b) = Len(q) - i /\ Len(a) \in Nat /\ Len(b) \in Nat
    BY <1>1, <1>2, <1>3
  <1>5. a \o b \in Seq(S) /\ Len(a \o b) = Len(a) + Len(b)
    <2>1. a \in Seq(S) /\ b \in Seq(S)
      BY <1>2, <1>3
    <2> QED
      BY <2>1
  <1>6. ASSUME NEW j \in 1 .. Len(q) - 1
        PROVE  (a \o b)[j] = IF j < i THEN q[j] ELSE q[j + 1]
    <2>1. CASE j < i
      <3>1. j \in 1 .. Len(a)
        BY <1>1, <1>2, <2>1
      <3>2. (a \o b)[j] = a[j]
        BY <1>2, <1>3, <3>1
      <3> QED
        BY <1>2, <2>1, <3>1, <3>2
    <2>2. CASE ~(j < i)
      <3>1. j - Len(a) \in 1 .. Len(q) - i
        BY <1>1, <1>9, <2>2
      <3>2. j \in Len(a) + 1 .. Len(a) + Len(b)
        BY <1>1, <1>9, <2>2
      <3>3. (a \o b)[j] = b[j - Len(a)]
        BY <1>8, <3>2
      <3>4. i + (j - Len(a)) = j + 1
        BY <1>1, <1>9
      <3>5. b[j - Len(a)] = q[i + (j - Len(a))]
        BY <1>3, <3>1
      <3> QED
        BY <2>2, <3>3, <3>4, <3>5
    <2> QED
      BY <2>1, <2>2
  <1>7. Len(a) + Len(b) = Len(q) - 1
    BY <1>1, <1>2, <1>3
  <1> QED
    BY <1>4, <1>5, <1>6, <1>7

-----------------------------------------------------------------------------
(* What the operations of the send lock do to its queue *)

LEMMA HolderIsQueued ==
    ASSUME lock \in Seq(Tasks), NEW t, Holds(t)
    PROVE  Queued(t) /\ lock[1] = t /\ 1 \in DOMAIN lock
  BY DEF Holds, Queued

LEMMA AcquireEffect ==
    ASSUME QueueExact, NEW t \in Tasks, ~Queued(t), Acquire(t)
    PROVE  /\ lock' \in Seq(Tasks)
           /\ \A i, j \in DOMAIN lock' : lock'[i] = lock'[j] => i = j
           /\ \A u : Queued(u)' <=> Queued(u) \/ u = t
           /\ Ahead => Ahead'
           /\ t = "command" /\ Queued("handler") => Ahead'
  <1>1. lock \in Seq(Tasks) /\ lock' = Append(lock, t)
    BY DEF QueueExact, Acquire
  <1>2. /\ lock' \in Seq(Tasks)
        /\ DOMAIN lock = 1 .. Len(lock)
        /\ DOMAIN lock' = 1 .. Len(lock) + 1
        /\ Len(lock) \in Nat
    BY <1>1
  <1>3. \A i \in DOMAIN lock : lock'[i] = lock[i] /\ i \in DOMAIN lock' /\ i < Len(lock) + 1
    BY <1>1, <1>2
  <1>4. lock'[Len(lock) + 1] = t /\ Len(lock) + 1 \in DOMAIN lock'
    BY <1>1, <1>2
  <1>5. \A i \in DOMAIN lock' : i \in DOMAIN lock \/ i = Len(lock) + 1
    BY <1>2
  <1>6. \A i, j \in DOMAIN lock' : lock'[i] = lock'[j] => i = j
    BY <1>3, <1>4, <1>5 DEF QueueExact, Queued
  <1>7. \A u : Queued(u)' <=> Queued(u) \/ u = t
    BY <1>3, <1>4, <1>5 DEF Queued
  <1>8. Ahead => Ahead'
    BY <1>3 DEF Ahead
  <1>9. t = "command" /\ Queued("handler") => Ahead'
    BY <1>3, <1>4 DEF Ahead, Queued
  <1> QED
    BY <1>2, <1>6, <1>7, <1>8, <1>9

LEMMA TailFacts ==
    ASSUME QueueExact, NEW t, Holds(t)
    PROVE  /\ t \in Tasks
           /\ Tail(lock) \in Seq(Tasks)
           /\ DOMAIN lock = 1 .. Len(lock)
           /\ Len(lock) \in Nat \ {0}
           /\ lock[1] = t
           /\ DOMAIN Tail(lock) = 1 .. Len(lock) - 1
           /\ \A i \in 1 .. Len(lock) - 1 : Tail(lock)[i] = lock[i + 1]
  <1>1. lock \in Seq(Tasks) /\ lock # <<>> /\ Head(lock) = t
    BY DEF QueueExact, Holds
  <1>2. Head(lock) = lock[1] /\ Len(lock) \in Nat \ {0} /\ DOMAIN lock = 1 .. Len(lock)
    BY <1>1
  <1>3. t \in Tasks
    BY <1>1, <1>2
  <1>4. /\ Tail(lock) \in Seq(Tasks)
        /\ Len(Tail(lock)) = Len(lock) - 1
        /\ \A i \in 1 .. Len(Tail(lock)) : Tail(lock)[i] = lock[i + 1]
    BY <1>1, HeadTailProperties
  <1>5. DOMAIN Tail(lock) = 1 .. Len(lock) - 1
    BY <1>4
  <1> QED
    BY <1>1, <1>2, <1>3, <1>4, <1>5

LEMMA ReleaseEffect ==
    ASSUME QueueExact, NEW t, Release(t)
    PROVE  /\ lock' \in Seq(Tasks)
           /\ \A i, j \in DOMAIN lock' : lock'[i] = lock'[j] => i = j
           /\ Queued(t)
           /\ \A u : Queued(u)' <=> Queued(u) /\ u # t
           /\ Ahead /\ t \notin {"handler", "command"} => Ahead'
  <1> DEFINE n == Len(lock) - 1
  <1>0. Holds(t) /\ lock' = Tail(lock)
    BY DEF Release
  <1>1. /\ lock' \in Seq(Tasks) /\ n \in Nat
        /\ DOMAIN lock = 1 .. n + 1 /\ DOMAIN lock' = 1 .. n
        /\ lock[1] = t
        /\ \A i \in 1 .. n : lock'[i] = lock[i + 1]
    BY <1>0, TailFacts
  <1> HIDE DEF n
  <1>2. \A i \in 1 .. n : i + 1 \in DOMAIN lock /\ i + 1 # 1
    BY <1>1
  <1>3. ASSUME NEW i \in DOMAIN lock, i # 1
        PROVE  i - 1 \in DOMAIN lock' /\ lock'[i - 1] = lock[i]
    <2>1. i - 1 \in 1 .. n /\ (i - 1) + 1 = i
      BY <1>1, <1>3
    <2> QED
      BY <1>1, <2>1
  <1>4. \A i, j \in DOMAIN lock' : lock'[i] = lock'[j] => i = j
    <2> SUFFICES ASSUME NEW i \in 1 .. n, NEW j \in 1 .. n, lock'[i] = lock'[j]
                 PROVE  i = j
      BY <1>1
    <2>1. lock[i + 1] = lock[j + 1]
      BY <1>1
    <2>2. i + 1 = j + 1
      BY <1>2, <2>1 DEF QueueExact
    <2> QED
      BY <2>2
  <1>5. Queued(t) /\ 1 \in DOMAIN lock
    BY <1>1 DEF Queued
  <1>6. ASSUME NEW u, Queued(u)'
        PROVE  Queued(u) /\ u # t
    <2>1. PICK i \in 1 .. n : lock[i + 1] = u
      BY <1>1, <1>6 DEF Queued
    <2>2. i + 1 \in DOMAIN lock /\ i + 1 # 1
      BY <1>2
    <2>3. u # t
      BY <1>1, <1>5, <2>1, <2>2 DEF QueueExact
    <2> QED
      BY <2>1, <2>2, <2>3 DEF Queued
  <1>7. ASSUME NEW u, Queued(u), u # t
        PROVE  Queued(u)'
    <2>1. PICK i \in DOMAIN lock : lock[i] = u
      BY <1>7 DEF Queued
    <2> QED
      BY <1>1, <1>3, <1>7, <2>1 DEF Queued
  <1>8. ASSUME Ahead, t \notin {"handler", "command"}
        PROVE  Ahead'
    <2>1. PICK i, j \in DOMAIN lock : i < j /\ lock[i] = "handler" /\ lock[j] = "command"
      BY <1>8 DEF Ahead
    <2>2. i # 1 /\ j # 1
      BY <1>1, <1>8, <2>1
    <2>3. /\ i - 1 \in DOMAIN lock' /\ lock'[i - 1] = "handler"
          /\ j - 1 \in DOMAIN lock' /\ lock'[j - 1] = "command"
      BY <1>3, <2>1, <2>2
    <2>4. i - 1 < j - 1
      BY <1>1, <2>1
    <2> QED
      BY <2>3, <2>4 DEF Ahead
  <1> QED
    BY <1>1, <1>4, <1>5, <1>6, <1>7, <1>8

LEMMA ReleaseAndAcquireEffect ==
    ASSUME QueueExact, NEW t, ReleaseAndAcquire(t)
    PROVE  /\ lock' \in Seq(Tasks)
           /\ \A i, j \in DOMAIN lock' : lock'[i] = lock'[j] => i = j
           /\ Queued(t)
           /\ \A u : Queued(u)' <=> Queued(u)
  <1> DEFINE n == Len(lock) - 1
             q == Tail(lock)
  <1>0. Holds(t) /\ lock' = Append(q, t)
    BY DEF ReleaseAndAcquire
  <1>1. /\ t \in Tasks /\ q \in Seq(Tasks) /\ n \in Nat
        /\ DOMAIN lock = 1 .. n + 1 /\ Len(q) = n
        /\ lock[1] = t
        /\ \A i \in 1 .. n : q[i] = lock[i + 1]
    BY <1>0, TailFacts
  <1> HIDE DEF n, q
  <1>2. /\ lock' \in Seq(Tasks) /\ DOMAIN lock' = 1 .. n + 1
        /\ \A i \in 1 .. n : lock'[i] = q[i]
        /\ lock'[n + 1] = t
    BY <1>0, <1>1
  <1>3. \A i \in 1 .. n : lock'[i] = lock[i + 1]
    BY <1>1, <1>2
  <1>4. \A i \in 1 .. n : i + 1 \in DOMAIN lock /\ i + 1 # 1 /\ lock[i + 1] # t
    <2>1. \A i \in 1 .. n : i + 1 \in DOMAIN lock /\ i + 1 # 1
      BY <1>1
    <2> QED
      BY <1>1, <2>1 DEF QueueExact
  <1>5. \A i \in 1 .. n + 1 : i \in 1 .. n \/ i = n + 1
    BY <1>1
  <1>6. \A i, j \in DOMAIN lock' : lock'[i] = lock'[j] => i = j
    <2> SUFFICES ASSUME NEW i \in 1 .. n + 1, NEW j \in 1 .. n + 1, lock'[i] = lock'[j]
                 PROVE  i = j
      BY <1>2
    <2>1. CASE i \in 1 .. n /\ j \in 1 .. n
      <3>1. lock[i + 1] = lock[j + 1]
        BY <1>3, <2>1
      <3>2. i + 1 = j + 1
        BY <1>4, <2>1, <3>1 DEF QueueExact
      <3> QED
        BY <3>2
    <2>2. CASE i = n + 1 \/ j = n + 1
      BY <1>2, <1>3, <1>4, <1>5, <2>2
    <2> QED
      BY <1>5, <2>1, <2>2
  <1>7. Queued(t)
    BY <1>1 DEF Queued
  <1>8. ASSUME NEW u, Queued(u)'
        PROVE  Queued(u)
    BY <1>2, <1>3, <1>4, <1>5, <1>7, <1>8 DEF Queued
  <1>9. ASSUME NEW u, Queued(u)
        PROVE  Queued(u)'
    <2>1. PICK i \in DOMAIN lock : lock[i] = u
      BY <1>9 DEF Queued
    <2>2. CASE i = 1
      <3>1. n + 1 \in DOMAIN lock'
        BY <1>1, <1>2
      <3> QED
        BY <1>1, <1>2, <2>1, <2>2, <3>1 DEF Queued
    <2>3. CASE i # 1
      <3>1. i - 1 \in 1 .. n /\ (i - 1) + 1 = i /\ i - 1 \in DOMAIN lock'
        BY <1>1, <1>2, <2>3
      <3>2. lock'[i - 1] = lock[i]
        BY <1>3, <3>1
      <3> QED
        BY <2>1, <3>1, <3>2 DEF Queued
    <2> QED
      BY <2>2, <2>3
  <1> QED
    BY <1>2, <1>6, <1>7, <1>8, <1>9

LEMMA GiveUpEffect ==
    ASSUME QueueExact, NEW t, GiveUp(t)
    PROVE  /\ lock' \in Seq(Tasks)
           /\ \A i, j \in DOMAIN lock' : lock'[i] = lock'[j] => i = j
           /\ \A u : Queued(u)' <=> Queued(u) /\ u # t
           /\ Ahead /\ t \notin {"handler", "command"} => Ahead'
  <1>0. lock \in Seq(Tasks)
    BY DEF QueueExact
  <1>1. CASE (\A i \in DOMAIN lock : lock[i] # t) /\ UNCHANGED lock
    <2>1. \A u : Queued(u)' <=> Queued(u)
      BY <1>1 DEF Queued
    <2>2. ~Queued(t)
      BY <1>1 DEF Queued
    <2>3. Ahead' <=> Ahead
      BY <1>1 DEF Ahead
    <2>4. \A i, j \in DOMAIN lock' : lock'[i] = lock'[j] => i = j
      BY <1>1 DEF QueueExact
    <2> QED
      BY <1>0, <1>1, <2>1, <2>2, <2>3, <2>4
  <1>2. ASSUME NEW k \in DOMAIN lock, lock[k] = t, lock' = RemoveAt(lock, k)
        PROVE  /\ lock' \in Seq(Tasks)
               /\ \A i, j \in DOMAIN lock' : lock'[i] = lock'[j] => i = j
               /\ \A u : Queued(u)' <=> Queued(u) /\ u # t
               /\ Ahead /\ t \notin {"handler", "command"} => Ahead'
    <2> DEFINE n == Len(lock) - 1
               old(j) == IF j < k THEN j ELSE j + 1
               new(i) == IF i < k THEN i ELSE i - 1
    <2>1. /\ lock' \in Seq(Tasks) /\ n \in Nat
          /\ DOMAIN lock = 1 .. n + 1 /\ Len(lock') = n
          /\ \A j \in 1 .. n : lock'[j] = IF j < k THEN lock[j] ELSE lock[j + 1]
      BY <1>0, <1>2, RemoveAtFacts
    <2>2. DOMAIN lock' = 1 .. n
      BY <2>1
    <2> HIDE DEF n
    <2>3. \A j \in 1 .. n :
             /\ old(j) \in DOMAIN lock /\ old(j) # k
             /\ lock'[j] = lock[old(j)]
      BY <1>2, <2>1
    <2>4. \A i, j \in 1 .. n : old(i) = old(j) => i = j
      BY <1>2, <2>1
    <2>5. \A i \in DOMAIN lock : i # k => new(i) \in 1 .. n /\ old(new(i)) = i
      BY <1>2, <2>1
    <2>6. \A i, j \in DOMAIN lock : i # k /\ j # k /\ i < j => new(i) < new(j)
      BY <1>2, <2>1
    <2> HIDE DEF old, new
    <2>7. \A i \in DOMAIN lock : i # k => new(i) \in DOMAIN lock' /\ lock'[new(i)] = lock[i]
      BY <2>2, <2>3, <2>5
    <2>8. \A i, j \in DOMAIN lock' : lock'[i] = lock'[j] => i = j
      BY <2>2, <2>3, <2>4 DEF QueueExact
    <2>9. ASSUME NEW u
          PROVE  Queued(u)' <=> Queued(u) /\ u # t
      <3>1. Queued(u)' => Queued(u) /\ u # t
        BY <1>2, <2>2, <2>3 DEF Queued, QueueExact
      <3>2. Queued(u) /\ u # t => Queued(u)'
        BY <1>2, <2>7 DEF Queued
      <3> QED
        BY <3>1, <3>2
    <2>10. ASSUME Ahead, t \notin {"handler", "command"}
           PROVE  Ahead'
      <3>1. PICK i, j \in DOMAIN lock : i < j /\ lock[i] = "handler" /\ lock[j] = "command"
        BY <2>10 DEF Ahead
      <3>2. i # k /\ j # k
        BY <1>2, <2>10, <3>1
      <3>3. /\ new(i) \in DOMAIN lock' /\ lock'[new(i)] = "handler"
            /\ new(j) \in DOMAIN lock' /\ lock'[new(j)] = "command"
            /\ new(i) < new(j)
        BY <2>6, <2>7, <3>1, <3>2
      <3> QED
        BY <3>3 DEF Ahead
    <2> QED
      BY <2>1, <2>8, <2>9, <2>10
  <1> QED
    BY <1>1, <1>2 DEF GiveUp

\* While the handler's frame is ahead, the command does not have the lock.
LEMMA AheadHolds ==
    ASSUME QueueExact, Holds("command")
    PROVE  ~Ahead
  <1>1. lock[1] = "command" /\ 1 \in DOMAIN lock /\ DOMAIN lock = 1 .. Len(lock)
    BY HolderIsQueued DEF QueueExact
  <1>2. ASSUME NEW i \in DOMAIN lock, NEW j \in DOMAIN lock,
               i < j, lock[i] = "handler", lock[j] = "command"
        PROVE  FALSE
    <2>1. j = 1
      BY <1>1, <1>2 DEF QueueExact
    <2> QED
      BY <1>1, <1>2, <2>1
  <1> QED
    BY <1>2 DEF Ahead

LEMMA UnchangedEffect ==
    ASSUME QueueExact, UNCHANGED lock
    PROVE  /\ lock' \in Seq(Tasks)
           /\ \A i, j \in DOMAIN lock' : lock'[i] = lock'[j] => i = j
           /\ \A u : Queued(u)' <=> Queued(u)
           /\ Ahead => Ahead'
  BY DEF QueueExact, Queued, Ahead

-----------------------------------------------------------------------------
LEMMA InitInv == Init => GatewayInv
  <1> SUFFICES ASSUME Init PROVE GatewayInv
    OBVIOUS
  <1> USE DEF Init
  <1>1. <<>> \in Seq(Tasks) /\ <<>> \in Seq(MessageIds) /\ DOMAIN <<>> = {}
    OBVIOUS
  <1>2. TypeOK
    <2>1. lock \in Seq(Tasks) /\ ordered \in Seq(MessageIds)
      OBVIOUS
    <2>2. pings \in 0 .. MaxPings /\ nonce \in {0, pings}
      BY GatewayAssumption
    <2> QED
      BY <2>1, <2>2 DEF TypeOK, HandlerPhases
  <1>3. QueueExact
    BY <1>1 DEF QueueExact, Queued, HandlerSends, HeartbeatSends
  <1>4. ReadyFirst /\ CommandAfterReady
    BY DEF ReadyFirst, CommandAfterReady
  <1>5. Teardown
    BY DEF Teardown, Starting, TeardownComplete
  <1>6. ReplayWindowExact
    BY <1>1 DEF ReplayWindowExact
  <1> QED
    BY <1>2, <1>3, <1>4, <1>5, <1>6 DEF GatewayInv

-----------------------------------------------------------------------------
\* Every task enters the queue when it begins to send or close, and leaves it when
\* it has ended, failed or been cancelled.
LEMMA QueueStep ==
    ASSUME GatewayInv, [Next]_vars
    PROVE  QueueExact'
  <1>0. QueueExact
    BY DEF GatewayInv
  <1> DEFINE Sound == /\ lock' \in Seq(Tasks)
                      /\ \A i, j \in DOMAIN lock' : lock'[i] = lock'[j] => i = j
  <1> DEFINE Places ==
        /\ Queued("handler")' <=> handler' \in HandlerSends
        /\ heartbeat' \in HeartbeatSends => Queued("heartbeat")'
        /\ Queued("heartbeat")' => heartbeat' \in HeartbeatSends \cup {"cancelling"}
        /\ Queued("evictor")' <=> evictor' \in {"close", "closing"}
        /\ Queued("command")' <=> command' = "sending"
  <1>s. SUFFICES Sound /\ Places
    BY DEF QueueExact
  <1> HIDE DEF Sound
  <1> USE DEF HandlerSends, HeartbeatSends
  <1>1. ASSUME UNCHANGED lock
        PROVE  Sound /\ (\A u : Queued(u)' <=> Queued(u))
    BY <1>0, <1>1, UnchangedEffect DEF Sound
  <1>2. ASSUME NEW t \in Tasks, ~Queued(t), Acquire(t)
        PROVE  Sound /\ (\A u : Queued(u)' <=> Queued(u) \/ u = t)
    BY <1>0, <1>2, AcquireEffect DEF Sound
  <1>3. ASSUME NEW t, Release(t)
        PROVE  Sound /\ Queued(t) /\ (\A u : Queued(u)' <=> Queued(u) /\ u # t)
    BY <1>0, <1>3, ReleaseEffect DEF Sound
  <1>4. ASSUME NEW t, ReleaseAndAcquire(t)
        PROVE  Sound /\ Queued(t) /\ (\A u : Queued(u)' <=> Queued(u))
    BY <1>0, <1>4, ReleaseAndAcquireEffect DEF Sound
  <1>5. ASSUME NEW t, GiveUp(t)
        PROVE  Sound /\ (\A u : Queued(u)' <=> Queued(u) /\ u # t)
    BY <1>0, <1>5, GiveUpEffect DEF Sound
  <1>q. /\ Queued("handler") <=> handler \in HandlerSends
        /\ heartbeat \in HeartbeatSends => Queued("heartbeat")
        /\ Queued("heartbeat") => heartbeat \in HeartbeatSends \cup {"cancelling"}
        /\ Queued("evictor") <=> evictor \in {"close", "closing"}
        /\ Queued("command") <=> command = "sending"
    BY <1>0 DEF QueueExact
  <1>6. CASE Upgrade \/ ConnectDevice \/ FinishTeardown \/ PongSeen \/ PeerGone
             \/ HandlerDisconnected \/ (\E m \in MessageIds : AskGrants(m))
    <2>1. UNCHANGED lock
      BY <1>6
      DEF Upgrade, ConnectDevice, FinishTeardown, PongSeen, PeerGone, HandlerDisconnected,
          AskGrants
    <2>2. Sound /\ (\A u : Queued(u)' <=> Queued(u))
      BY <1>1, <2>1
    <2>3. Places
      BY <1>6, <1>q, <2>2
      DEF Upgrade, ConnectDevice, FinishTeardown, PongSeen, PeerGone, HandlerDisconnected,
          AskGrants, Readable, Leave, HandlerReturns, HeartbeatAlive
    <2> QED
      BY <2>2, <2>3
  <1>7. CASE Greet \/ HelloTimeout \/ InvalidMessage \/ ActivateSession
    <2>1. Acquire("handler") /\ handler \notin HandlerSends /\ "handler" \in Tasks
      BY <1>7
      DEF Tasks, Greet, HelloTimeout, InvalidMessage, ActivateSession, Protest, InternalError,
          Readable
    <2>2. Sound /\ (\A u : Queued(u)' <=> Queued(u) \/ u = "handler")
      BY <1>2, <1>q, <2>1
    <2>3. Places
      BY <1>7, <1>q, <2>2
      DEF Greet, HelloTimeout, InvalidMessage, ActivateSession, Protest, InternalError
    <2> QED
      BY <2>2, <2>3
  <1>8. CASE ConnectRefused \/ DirectClose
             \/ (\E m \in MessageIds : Result(m) \/ \E n \in 1 .. pings : Pong(n, m))
    <2>1. /\ handler \notin HandlerSends
          /\ UNCHANGED <<evictor, command>>
          /\ \/ /\ UNCHANGED lock
                /\ handler' \notin HandlerSends
                /\ heartbeat' \in HeartbeatSends => UNCHANGED heartbeat
                /\ heartbeat' # heartbeat => heartbeat' = "cancelling"
             \/ /\ Acquire("handler")
                /\ handler' \in HandlerSends
                /\ UNCHANGED heartbeat
      BY <1>8
      DEF ConnectRefused, DirectClose, Result, Pong, Protest, InternalError, Readable, Leave,
          HandlerReturns
    <2>2. CASE UNCHANGED lock /\ handler' \notin HandlerSends
      BY <1>1, <1>q, <2>1, <2>2
    <2>3. CASE Acquire("handler") /\ handler' \in HandlerSends
      <3>1. Sound /\ (\A u : Queued(u)' <=> Queued(u) \/ u = "handler")
        BY <1>2, <1>q, <2>1, <2>3 DEF Tasks
      <3> QED
        BY <1>q, <2>1, <2>3, <3>1
    <2> QED
      BY <2>1, <2>2, <2>3
  <1>9. CASE HandlerSent \/ HandlerClosed
    <2>1. Release("handler")
      BY <1>9 DEF HandlerSent, HandlerClosed, EndClose
    <2>2. Sound /\ (\A u : Queued(u)' <=> Queued(u) /\ u # "handler")
      BY <1>3, <2>1
    <2>3. Places
      <3>1. CASE HandlerSent
        <4>1. handler = "ready" => heartbeat' = "sleeping"
          BY <3>1 DEF HandlerSent
        <4>2. CASE handler # "ready"
          BY <1>q, <2>2, <3>1, <4>2 DEF HandlerSent
        <4>3. CASE handler = "ready"
          <5>1. heartbeat = "none"
            BY <4>3 DEF GatewayInv, Teardown, Starting
          <5> QED
            BY <1>q, <2>2, <3>1, <4>3, <5>1 DEF HandlerSent
        <4> QED
          BY <4>2, <4>3
      <3>2. CASE HandlerClosed
        BY <1>q, <2>2, <3>2 DEF HandlerClosed, Leave, HandlerReturns, HeartbeatAlive
      <3> QED
        BY <1>9, <3>1, <3>2
    <2> QED
      BY <2>2, <2>3
  <1>10. CASE HandlerSendRaises
    <2>1. CASE ReleaseAndAcquire("handler") /\ handler' = "close"
      <3>1. Sound /\ (\A u : Queued(u)' <=> Queued(u))
        BY <1>4, <2>1
      <3>2. handler \in HandlerSends /\ UNCHANGED <<evictor, command>>
        BY <1>10 DEF HandlerSendRaises
      <3>3. UNCHANGED heartbeat \/ heartbeat' = "cancelling"
        BY <1>10, <2>1 DEF HandlerSendRaises, Leave
      <3>4. heartbeat \in HeartbeatSends /\ heartbeat' = "cancelling"
               => Queued("heartbeat")
        BY <1>q
      <3> QED
        BY <1>q, <2>1, <3>1, <3>2, <3>3, <3>4
    <2>2. CASE Release("handler") /\ Leave
      <3>1. Sound /\ (\A u : Queued(u)' <=> Queued(u) /\ u # "handler")
        BY <1>3, <2>2
      <3>2. UNCHANGED <<evictor, command>>
        BY <1>10 DEF HandlerSendRaises
      <3> QED
        BY <1>q, <2>2, <3>1, <3>2 DEF Leave, HandlerReturns
    <2> QED
      BY <1>10, <2>1, <2>2 DEF HandlerSendRaises
  <1>11. CASE ErrorSent
    <2>1. Sound /\ (\A u : Queued(u)' <=> Queued(u))
      BY <1>4, <1>11 DEF ErrorSent
    <2> QED
      BY <1>q, <1>11, <2>1 DEF ErrorSent
  <1>12. CASE HandlerCloses
    <2>1. handler = "close" /\ UNCHANGED <<evictor, command>>
      BY <1>12 DEF HandlerCloses
    <2>2. CASE UNCHANGED lock /\ handler' = "closing" /\ UNCHANGED heartbeat
      BY <1>1, <1>q, <2>1, <2>2
    <2>3. CASE Release("handler") /\ Leave
      <3>1. Sound /\ (\A u : Queued(u)' <=> Queued(u) /\ u # "handler")
        BY <1>3, <2>3
      <3> QED
        BY <1>q, <2>1, <2>3, <3>1 DEF Leave, HandlerReturns
    <2> QED
      BY <1>12, <2>2, <2>3 DEF HandlerCloses, StartClose
  <1>13. CASE Ping \/ PongMissed
    <2>1. /\ Acquire("heartbeat") /\ "heartbeat" \in Tasks
          /\ heartbeat \in {"sleeping", "waiting"} /\ heartbeat' \in HeartbeatSends
          /\ UNCHANGED <<handler, evictor, command>>
      BY <1>13 DEF Ping, PongMissed, Tasks
    <2>2. Sound /\ (\A u : Queued(u)' <=> Queued(u) \/ u = "heartbeat")
      BY <1>2, <1>q, <2>1
    <2> QED
      BY <1>q, <2>1, <2>2
  <1>14. CASE PingSent
    <2>1. Sound /\ (\A u : Queued(u)' <=> Queued(u) /\ u # "heartbeat")
      BY <1>3, <1>14 DEF PingSent
    <2> QED
      BY <1>q, <1>14, <2>1 DEF PingSent
  <1>15. CASE HeartbeatCloses
    <2>1. UNCHANGED <<handler, evictor, command>> /\ heartbeat \in {"close", "closing"}
      BY <1>15 DEF HeartbeatCloses
    <2>2. CASE UNCHANGED lock /\ heartbeat' = "closing"
      BY <1>1, <1>q, <2>1, <2>2
    <2>3. CASE Release("heartbeat") /\ heartbeat' = "returned"
      <3>1. Sound /\ (\A u : Queued(u)' <=> Queued(u) /\ u # "heartbeat")
        BY <1>3, <2>3
      <3> QED
        BY <1>q, <2>1, <2>3, <3>1
    <2> QED
      BY <1>15, <2>2, <2>3 DEF HeartbeatCloses, StartClose, EndClose
  <1>16. CASE HeartbeatCancelled
    <2>1. Sound /\ (\A u : Queued(u)' <=> Queued(u) /\ u # "heartbeat")
      BY <1>5, <1>16 DEF HeartbeatCancelled
    <2> QED
      BY <1>q, <1>16, <2>1 DEF HeartbeatCancelled
  <1>17. CASE Evict
    <2>1. /\ Acquire("evictor") /\ "evictor" \in Tasks
          /\ evictor = "idle" /\ evictor' = "close"
          /\ UNCHANGED <<handler, heartbeat, command>>
      BY <1>17 DEF Evict, Tasks
    <2>2. Sound /\ (\A u : Queued(u)' <=> Queued(u) \/ u = "evictor")
      BY <1>2, <1>q, <2>1
    <2> QED
      BY <1>q, <2>1, <2>2
  <1>18. CASE EvictorCloses
    <2>1. UNCHANGED <<handler, heartbeat, command>> /\ evictor \in {"close", "closing"}
      BY <1>18 DEF EvictorCloses
    <2>2. CASE UNCHANGED lock /\ evictor' = "closing"
      BY <1>1, <1>q, <2>1, <2>2
    <2>3. CASE Release("evictor") /\ evictor' = "done"
      <3>1. Sound /\ (\A u : Queued(u)' <=> Queued(u) /\ u # "evictor")
        BY <1>3, <2>3
      <3> QED
        BY <1>q, <2>1, <2>3, <3>1
    <2> QED
      BY <1>18, <2>2, <2>3 DEF EvictorCloses, StartClose, EndClose
  <1>19. CASE SendCommand
    <2>1. /\ Acquire("command") /\ "command" \in Tasks
          /\ command = "idle" /\ command' = "sending"
          /\ UNCHANGED <<handler, heartbeat, evictor>>
      BY <1>19 DEF SendCommand, Tasks
    <2>2. Sound /\ (\A u : Queued(u)' <=> Queued(u) \/ u = "command")
      BY <1>2, <1>q, <2>1
    <2> QED
      BY <1>q, <2>1, <2>2
  <1>20. CASE CommandSent
    <2>1. Sound /\ (\A u : Queued(u)' <=> Queued(u) /\ u # "command")
      BY <1>3, <1>20 DEF CommandSent
    <2> QED
      BY <1>q, <1>20, <2>1 DEF CommandSent
  <1>21. CASE UNCHANGED vars
    BY <1>1, <1>q, <1>21 DEF vars
  <1> QED
    BY <1>6, <1>7, <1>8, <1>9, <1>10, <1>11, <1>12, <1>13, <1>14, <1>15, <1>16, <1>17,
       <1>18, <1>19, <1>20, <1>21
    DEF Next, HandlerRuns, HeartbeatRuns, Messages

-----------------------------------------------------------------------------
\* The set and the deque forget the same id.
LEMMA RememberKeeps ==
    ASSUME ReplayWindowExact, ordered \in Seq(MessageIds), NEW m \in MessageIds, Remember(m)
    PROVE  /\ ReplayWindowExact'
           /\ ordered' \in Seq(MessageIds)
           /\ seen' \in SUBSET MessageIds
  <1>1. m \notin seen
    BY DEF Remember
  <1>2. \A i \in DOMAIN ordered : ordered[i] # m
    BY <1>1 DEF ReplayWindowExact
  <1>3. Len(ordered) \in Nat /\ DOMAIN ordered = 1 .. Len(ordered)
    OBVIOUS
  <1>4. ASSUME NEW q \in Seq(MessageIds), ordered' = Append(q, m),
               \A i, j \in DOMAIN q : q[i] = q[j] => i = j,
               \A i \in DOMAIN q : q[i] # m,
               seen' = {q[i] : i \in DOMAIN q} \cup {m}
        PROVE  ReplayWindowExact' /\ ordered' \in Seq(MessageIds) /\ seen' \in SUBSET MessageIds
    <2>1. Len(q) \in Nat /\ DOMAIN q = 1 .. Len(q)
      OBVIOUS
    <2>2. /\ ordered' \in Seq(MessageIds) /\ DOMAIN ordered' = 1 .. Len(q) + 1
          /\ \A i \in DOMAIN q : ordered'[i] = q[i] /\ i \in DOMAIN ordered'
          /\ ordered'[Len(q) + 1] = m /\ Len(q) + 1 \in DOMAIN ordered'
      BY <1>4, <2>1
    <2>3. \A i \in DOMAIN ordered' : i \in DOMAIN q \/ i = Len(q) + 1
      BY <2>1, <2>2
    <2>4. \A i, j \in DOMAIN ordered' : ordered'[i] = ordered'[j] => i = j
      BY <1>4, <2>2, <2>3
    <2>5. seen' = {ordered'[i] : i \in DOMAIN ordered'}
      BY <1>4, <2>2, <2>3
    <2>6. seen' \in SUBSET MessageIds
      BY <1>4, <2>1
    <2> QED
      BY <2>2, <2>4, <2>5, <2>6 DEF ReplayWindowExact
  <1>5. CASE Len(ordered) # ReplayWindow
    BY <1>2, <1>4, <1>5 DEF Remember, ReplayWindowExact
  <1>6. CASE Len(ordered) = ReplayWindow
    <2> DEFINE q == Tail(ordered)
               n == Len(ordered) - 1
    <2>1. ordered # <<>>
      BY <1>3, <1>6, GatewayAssumption
    <2>2. n \in Nat /\ Len(ordered) = n + 1
      BY <1>3, <1>6, GatewayAssumption
    <2>3. /\ q \in Seq(MessageIds) /\ Len(q) = n
          /\ \A i \in 1 .. n : q[i] = ordered[i + 1]
      BY <2>1, HeadTailProperties
    <2>4. Head(ordered) = ordered[1]
      OBVIOUS
    <2>5. /\ ordered' = Append(q, m)
          /\ seen' = (seen \ {Head(ordered)}) \cup {m}
      BY <1>6 DEF Remember
    <2>6. DOMAIN q = 1 .. n
      BY <2>3
    <2> HIDE DEF q, n
    <2>7. \A i \in 1 .. n : i + 1 \in DOMAIN ordered /\ i + 1 # 1
      BY <1>3, <2>2
    <2>8. \A i, j \in DOMAIN q : q[i] = q[j] => i = j
      <3> SUFFICES ASSUME NEW i \in 1 .. n, NEW j \in 1 .. n, q[i] = q[j]
                   PROVE  i = j
        BY <2>6
      <3>1. ordered[i + 1] = ordered[j + 1]
        BY <2>3
      <3>2. i + 1 = j + 1
        BY <2>7, <3>1 DEF ReplayWindowExact
      <3> QED
        BY <2>2, <3>2
    <2>9. \A i \in DOMAIN q : q[i] # m
      BY <1>2, <2>3, <2>6, <2>7
    <2>10. seen \ {Head(ordered)} = {q[i] : i \in DOMAIN q}
      <3>1. ASSUME NEW i \in 1 .. n
            PROVE  q[i] \in seen \ {Head(ordered)}
        <4>1. q[i] = ordered[i + 1] /\ i + 1 \in DOMAIN ordered /\ i + 1 # 1
          BY <2>3, <2>7
        <4>2. 1 \in DOMAIN ordered
          BY <1>3, <2>2
        <4>3. ordered[i + 1] # ordered[1]
          BY <4>1, <4>2 DEF ReplayWindowExact
        <4> QED
          BY <2>4, <4>1, <4>3 DEF ReplayWindowExact
      <3>2. ASSUME NEW x \in seen, x # Head(ordered)
            PROVE  x \in {q[i] : i \in 1 .. n}
        <4>1. PICK i \in DOMAIN ordered : ordered[i] = x
          BY DEF ReplayWindowExact
        <4>2. i # 1
          BY <2>4, <3>2, <4>1
        <4>3. i - 1 \in 1 .. n /\ (i - 1) + 1 = i
          BY <1>3, <2>2, <4>2
        <4>4. q[i - 1] = x
          BY <2>3, <4>1, <4>3
        <4> QED
          BY <4>3, <4>4
      <3> QED
        BY <2>6, <3>1, <3>2
    <2> QED
      BY <1>4, <2>3, <2>5, <2>8, <2>9, <2>10
  <1> QED
    BY <1>5, <1>6

\* Only messages change the window, and only Remember changes it.
LEMMA WindowStep ==
    ASSUME GatewayInv, [Next]_vars
    PROVE  /\ ReplayWindowExact'
           /\ ordered' \in Seq(MessageIds)
           /\ seen' \in SUBSET MessageIds
  <1>0. ReplayWindowExact /\ ordered \in Seq(MessageIds) /\ seen \in SUBSET MessageIds
    BY DEF GatewayInv, TypeOK
  <1>1. ASSUME UNCHANGED windowVars
        PROVE  /\ ReplayWindowExact'
               /\ ordered' \in Seq(MessageIds)
               /\ seen' \in SUBSET MessageIds
    BY <1>0, <1>1 DEF windowVars, ReplayWindowExact
  <1>2. UNCHANGED windowVars \/ \E m \in MessageIds : Remember(m)
    BY DEF vars, windowVars, Next, HandlerRuns, HeartbeatRuns, Messages, Upgrade, ConnectDevice,
        ConnectRefused, Greet, HandlerSent, HandlerSendRaises, ErrorSent, HandlerCloses,
        HandlerClosed, HandlerDisconnected, HelloTimeout, ActivateSession, FinishTeardown,
        PingSent, PongSeen, PongMissed, HeartbeatCloses, HeartbeatCancelled, InvalidMessage,
        DirectClose, AskGrants, Result, Pong, Ping, Evict, EvictorCloses, SendCommand,
        CommandSent, PeerGone
  <1> QED
    BY <1>0, <1>1, <1>2, RememberKeeps

-----------------------------------------------------------------------------
\* Where each task may be after a step.
LEMMA PhaseTypes ==
    ASSUME TypeOK, [Next]_vars
    PROVE  /\ handler' \in HandlerPhases
           /\ heartbeat' \in HeartbeatAlive \cup {"none", "returned", "failed", "cancelled"}
           /\ evictor' \in {"idle", "close", "closing", "done"}
           /\ command' \in {"idle", "sending"}
           /\ socket' \in {"open", "closing", "closed"}
           /\ written' \in SUBSET {"ready", "command"}
  <1> DEFINE Rest ==
        /\ handler' \in HandlerPhases
        /\ heartbeat' \in HeartbeatAlive \cup {"none", "returned", "failed", "cancelled"}
        /\ evictor' \in {"idle", "close", "closing", "done"}
        /\ command' \in {"idle", "sending"}
        /\ socket' \in {"open", "closing", "closed"}
        /\ written' \in SUBSET {"ready", "command"}
  <1> SUFFICES Rest
    OBVIOUS
  <1>0. /\ handler \in HandlerPhases
        /\ heartbeat \in HeartbeatAlive \cup {"none", "returned", "failed", "cancelled"}
        /\ evictor \in {"idle", "close", "closing", "done"}
        /\ command \in {"idle", "sending"}
        /\ socket \in {"open", "closing", "closed"}
        /\ written \in SUBSET {"ready", "command"}
    BY DEF TypeOK
  <1> USE <1>0 DEF HandlerPhases, HandlerSends, HeartbeatAlive, HeartbeatSends
  <1>3. CASE Upgrade \/ ConnectDevice \/ Greet \/ ErrorSent \/ HelloTimeout \/ FinishTeardown
    BY <1>3
    DEF Upgrade, ConnectDevice, Greet, ErrorSent, HelloTimeout, FinishTeardown, HandlerReturns
  <1>4. CASE ConnectRefused \/ HandlerSent \/ HandlerSendRaises
    BY <1>4
    DEF ConnectRefused, HandlerSent, HandlerSendRaises, InternalError, Leave, HandlerReturns
  <1>5. CASE HandlerCloses \/ HandlerClosed \/ HandlerDisconnected
    BY <1>5
    DEF HandlerCloses, HandlerClosed, HandlerDisconnected, StartClose, EndClose, Leave,
        HandlerReturns
  <1>6. CASE ActivateSession \/ InvalidMessage \/ DirectClose
    BY <1>6 DEF ActivateSession, InvalidMessage, DirectClose, Protest, InternalError
  <1>7. ASSUME NEW m \in MessageIds,
               AskGrants(m) \/ Result(m) \/ \E n \in 1 .. pings : Pong(n, m)
        PROVE  Rest
    BY <1>7 DEF AskGrants, Result, Pong, Protest
  <1>8. CASE Ping \/ PingSent \/ PongSeen \/ PongMissed \/ HeartbeatCloses
             \/ HeartbeatCancelled
    BY <1>8
    DEF Ping, PingSent, PongSeen, PongMissed, HeartbeatCloses, HeartbeatCancelled, StartClose,
        EndClose
  <1>9. CASE Evict \/ EvictorCloses \/ SendCommand \/ CommandSent \/ PeerGone
    BY <1>9
    DEF Evict, EvictorCloses, SendCommand, CommandSent, PeerGone, StartClose, EndClose
  <1>10. CASE UNCHANGED vars
    BY <1>10 DEF vars
  <1> QED
    BY <1>3, <1>4, <1>5, <1>6, <1>7, <1>8, <1>9, <1>10
    DEF Next, HandlerRuns, HeartbeatRuns, Messages

\* Only Ping draws a nonce.
LEMMA NumberTypes ==
    ASSUME TypeOK, [Next]_vars
    PROVE  pings' \in 0 .. MaxPings /\ nonce' \in {0, pings'}
  <1>0. pings \in 0 .. MaxPings /\ nonce \in {0, pings}
    BY DEF TypeOK
  <1>1. ASSUME NEW m \in MessageIds, NEW n \in 1 .. pings, Pong(n, m)
        PROVE  pings' = pings /\ nonce' \in {0, nonce}
    BY <1>1 DEF Pong
  <1>2. CASE Ping
    BY <1>0, <1>2, GatewayAssumption DEF Ping
  <1>3. \/ pings' = pings /\ nonce' = nonce
        \/ Ping
        \/ \E m \in MessageIds, n \in 1 .. pings : Pong(n, m)
    BY DEF vars, hbVars, Next, HandlerRuns, HeartbeatRuns, Messages, Upgrade, ConnectDevice, ConnectRefused, Greet, HandlerSent,
        HandlerSendRaises, ErrorSent, HandlerCloses, HandlerClosed, HandlerDisconnected,
        HelloTimeout, ActivateSession, FinishTeardown, PingSent, PongSeen, PongMissed,
        HeartbeatCloses, HeartbeatCancelled, InvalidMessage, DirectClose, AskGrants, Result,
        Evict, EvictorCloses, SendCommand, CommandSent, PeerGone
  <1> QED
    BY <1>0, <1>1, <1>2, <1>3

LEMMA FlagTypes ==
    ASSUME TypeOK, [Next]_vars
    PROVE  /\ closed' \in BOOLEAN
           /\ registered' \in BOOLEAN
           /\ online' \in BOOLEAN
           /\ received' \in BOOLEAN
  <1>0. closed \in BOOLEAN /\ registered \in BOOLEAN /\ online \in BOOLEAN /\ received \in BOOLEAN
    BY DEF TypeOK
  <1>1. closed' = closed \/ closed' = TRUE
    BY DEF vars, Next, HandlerRuns, HeartbeatRuns, Messages, Pong, Ping, StartClose, EndClose,
        Upgrade, ConnectDevice, ConnectRefused, Greet, HandlerSent,
        HandlerSendRaises, ErrorSent, HandlerCloses, HandlerClosed, HandlerDisconnected,
        HelloTimeout, ActivateSession, FinishTeardown, PingSent, PongSeen, PongMissed,
        HeartbeatCloses, HeartbeatCancelled, InvalidMessage, DirectClose, AskGrants, Result,
        Evict, EvictorCloses, SendCommand, CommandSent, PeerGone
  <1>2. registered' = registered \/ registered' = FALSE \/ registered' = TRUE
    BY DEF vars, regVars, Next, HandlerRuns, HeartbeatRuns, Messages, Pong, Ping, Leave,
        Disconnect, Upgrade, ConnectDevice, ConnectRefused, Greet, HandlerSent,
        HandlerSendRaises, ErrorSent, HandlerCloses, HandlerClosed, HandlerDisconnected,
        HelloTimeout, ActivateSession, FinishTeardown, PingSent, PongSeen, PongMissed,
        HeartbeatCloses, HeartbeatCancelled, InvalidMessage, DirectClose, AskGrants, Result,
        Evict, EvictorCloses, SendCommand, CommandSent, PeerGone
  <1>3. online' = online \/ online' = FALSE \/ online' = TRUE
    BY DEF vars, regVars, Next, HandlerRuns, HeartbeatRuns, Messages, Pong, Ping, Leave,
        Disconnect, Upgrade, ConnectDevice, ConnectRefused, Greet, HandlerSent,
        HandlerSendRaises, ErrorSent, HandlerCloses, HandlerClosed, HandlerDisconnected,
        HelloTimeout, ActivateSession, FinishTeardown, PingSent, PongSeen, PongMissed,
        HeartbeatCloses, HeartbeatCancelled, InvalidMessage, DirectClose, AskGrants, Result,
        Evict, EvictorCloses, SendCommand, CommandSent, PeerGone
  <1>4. received' = received \/ received' = FALSE \/ received' = TRUE
    BY DEF vars, hbVars, Next, HandlerRuns, HeartbeatRuns, Messages, Pong, Ping,
        Upgrade, ConnectDevice, ConnectRefused, Greet, HandlerSent,
        HandlerSendRaises, ErrorSent, HandlerCloses, HandlerClosed, HandlerDisconnected,
        HelloTimeout, ActivateSession, FinishTeardown, PingSent, PongSeen, PongMissed,
        HeartbeatCloses, HeartbeatCancelled, InvalidMessage, DirectClose, AskGrants, Result,
        Evict, EvictorCloses, SendCommand, CommandSent, PeerGone
  <1> QED
    BY <1>0, <1>1, <1>2, <1>3, <1>4

LEMMA TypeStep ==
    ASSUME GatewayInv, [Next]_vars
    PROVE  TypeOK'
  <1>1. TypeOK
    BY DEF GatewayInv
  <1>2. lock' \in Seq(Tasks)
    BY QueueStep DEF QueueExact
  <1>3. ordered' \in Seq(MessageIds) /\ seen' \in SUBSET MessageIds
    BY WindowStep
  <1> QED
    BY <1>1, <1>2, <1>3, PhaseTypes, NumberTypes, FlagTypes DEF TypeOK

\* The finally clause runs after the heartbeat, whatever state it is entered from.
LEMMA TeardownStep ==
    ASSUME GatewayInv, [Next]_vars
    PROVE  Teardown'
  <1>0. TypeOK /\ Teardown
    BY DEF GatewayInv
  <1> USE <1>0 DEF Teardown, Starting, TeardownComplete, HeartbeatAlive, HeartbeatSends,
                   regVars, hbVars
  <1>3. CASE Upgrade \/ ConnectDevice \/ Greet \/ ErrorSent \/ HelloTimeout \/ FinishTeardown
    BY <1>3
    DEF Upgrade, ConnectDevice, Greet, ErrorSent, HelloTimeout, FinishTeardown, HandlerReturns,
        Disconnect
  <1>4. CASE ConnectRefused \/ HandlerSent \/ HandlerSendRaises
    BY <1>4
    DEF ConnectRefused, HandlerSent, HandlerSendRaises, InternalError, Leave, HandlerReturns,
        Disconnect
  <1>5. CASE HandlerCloses \/ HandlerClosed \/ HandlerDisconnected
    BY <1>5
    DEF HandlerCloses, HandlerClosed, HandlerDisconnected, Leave, HandlerReturns, Disconnect
  <1>6. CASE ActivateSession \/ InvalidMessage \/ DirectClose
    BY <1>6 DEF ActivateSession, InvalidMessage, DirectClose, Protest, InternalError, Readable
  <1>7. ASSUME NEW m \in MessageIds,
               AskGrants(m) \/ Result(m) \/ \E n \in 1 .. pings : Pong(n, m)
        PROVE  Teardown'
    BY <1>7 DEF AskGrants, Result, Pong, Protest, Readable
  <1>8. CASE Ping \/ PingSent \/ PongSeen \/ PongMissed \/ HeartbeatCloses
             \/ HeartbeatCancelled
    BY <1>8 DEF Ping, PingSent, PongSeen, PongMissed, HeartbeatCloses, HeartbeatCancelled
  <1>9. CASE Evict \/ EvictorCloses \/ SendCommand \/ CommandSent \/ PeerGone
    BY <1>9 DEF Evict, EvictorCloses, SendCommand, CommandSent, PeerGone, Disconnect
  <1>10. CASE UNCHANGED vars
    BY <1>10 DEF vars
  <1> QED
    BY <1>3, <1>4, <1>5, <1>6, <1>7, <1>8, <1>9, <1>10
    DEF Next, HandlerRuns, HeartbeatRuns, Messages

\* The event of a round is set only by its own pong.
LEMMA AnsweredStep ==
    ASSUME received => nonce = 0, [Next]_vars
    PROVE  (received => nonce = 0)'
  <1>1. ASSUME NEW m \in MessageIds, NEW n \in 1 .. pings, Pong(n, m)
        PROVE  (received => nonce = 0)'
    BY <1>1 DEF Pong
  <1>2. CASE Ping
    BY <1>2 DEF Ping
  <1>3. CASE UNCHANGED hbVars
    BY <1>3 DEF hbVars
  <1>4. \/ UNCHANGED hbVars \/ Ping
        \/ \E m \in MessageIds, n \in 1 .. pings : Pong(n, m)
    BY DEF vars, hbVars, Next, HandlerRuns, HeartbeatRuns, Messages, Upgrade, ConnectDevice,
        ConnectRefused, Greet, HandlerSent, HandlerSendRaises, ErrorSent, HandlerCloses,
        HandlerClosed, HandlerDisconnected, HelloTimeout, ActivateSession, FinishTeardown,
        PingSent, PongSeen, PongMissed, HeartbeatCloses, HeartbeatCancelled, InvalidMessage,
        DirectClose, AskGrants, Result, Evict, EvictorCloses, SendCommand, CommandSent, PeerGone
  <1> QED
    BY <1>1, <1>2, <1>3, <1>4

-----------------------------------------------------------------------------
\* Who queues last does not overtake.
LEMMA AcquireAhead ==
    ASSUME lock \in Seq(Tasks), NEW t \in Tasks, Acquire(t)
    PROVE  /\ Ahead => Ahead'
           /\ t = "command" /\ Queued("handler") => Ahead'
  <1>1. lock' = Append(lock, t)
    BY DEF Acquire
  <1>2. DOMAIN lock = 1 .. Len(lock) /\ DOMAIN lock' = 1 .. Len(lock) + 1 /\ Len(lock) \in Nat
    BY <1>1
  <1>3. \A i \in DOMAIN lock : lock'[i] = lock[i] /\ i \in DOMAIN lock' /\ i < Len(lock) + 1
    BY <1>1, <1>2
  <1>4. lock'[Len(lock) + 1] = t /\ Len(lock) + 1 \in DOMAIN lock'
    BY <1>1, <1>2
  <1> QED
    BY <1>3, <1>4 DEF Ahead, Queued

\* What has been closed or lost stays so, and what was written stays written.
LEMMA NothingReopens ==
    ASSUME [Next]_vars
    PROVE  /\ NoMore => NoMore'
           /\ "ready" \in written => "ready" \in written'
  <1>1. closed => closed'
    BY DEF vars, Next, HandlerRuns, HeartbeatRuns, Messages, StartClose, EndClose,
        Upgrade, ConnectDevice, ConnectRefused, Greet, HandlerSent,
        HandlerSendRaises, ErrorSent, HandlerCloses, HandlerClosed, HandlerDisconnected,
        HelloTimeout, ActivateSession, FinishTeardown, PingSent, PongSeen, PongMissed,
        HeartbeatCloses, HeartbeatCancelled, InvalidMessage, DirectClose, AskGrants, Result,
        Pong, Ping, Evict, EvictorCloses, SendCommand, CommandSent, PeerGone
  <1>2. socket # "open" => socket' # "open"
    BY DEF vars, Next, HandlerRuns, HeartbeatRuns, Messages, StartClose, EndClose,
        Upgrade, ConnectDevice, ConnectRefused, Greet, HandlerSent,
        HandlerSendRaises, ErrorSent, HandlerCloses, HandlerClosed, HandlerDisconnected,
        HelloTimeout, ActivateSession, FinishTeardown, PingSent, PongSeen, PongMissed,
        HeartbeatCloses, HeartbeatCancelled, InvalidMessage, DirectClose, AskGrants, Result,
        Pong, Ping, Evict, EvictorCloses, SendCommand, CommandSent, PeerGone
  <1>3. handler = "ended" => handler' = "ended"
    BY DEF vars, Next, HandlerRuns, HeartbeatRuns, Messages, Readable,
        Upgrade, ConnectDevice, ConnectRefused, Greet, HandlerSent,
        HandlerSendRaises, ErrorSent, HandlerCloses, HandlerClosed, HandlerDisconnected,
        HelloTimeout, ActivateSession, FinishTeardown, PingSent, PongSeen, PongMissed,
        HeartbeatCloses, HeartbeatCancelled, InvalidMessage, DirectClose, AskGrants, Result,
        Pong, Ping, Evict, EvictorCloses, SendCommand, CommandSent, PeerGone
  <1>4. "ready" \in written => "ready" \in written'
    BY DEF vars, Next, HandlerRuns, HeartbeatRuns, Messages,
        Upgrade, ConnectDevice, ConnectRefused, Greet, HandlerSent,
        HandlerSendRaises, ErrorSent, HandlerCloses, HandlerClosed, HandlerDisconnected,
        HelloTimeout, ActivateSession, FinishTeardown, PingSent, PongSeen, PongMissed,
        HeartbeatCloses, HeartbeatCancelled, InvalidMessage, DirectClose, AskGrants, Result,
        Pong, Ping, Evict, EvictorCloses, SendCommand, CommandSent, PeerGone
  <1> QED
    BY <1>1, <1>2, <1>3, <1>4 DEF NoMore

\* While server.ready waits for the lock, the handler does nothing but send it.
LEMMA ReadyIsSent ==
    ASSUME [Next]_vars, handler = "ready"
    PROVE  handler' = "ready" \/ "ready" \in written' \/ NoMore'
  <1>1. CASE HandlerSent
    BY <1>1 DEF HandlerSent
  <1>2. CASE HandlerSendRaises
    <2>1. NoMore
      BY <1>2 DEF HandlerSendRaises, CanWrite, NoMore
    <2> QED
      BY <2>1, NothingReopens
  <1>3. CASE ~HandlerSent /\ ~HandlerSendRaises
    <2>1. handler' = "ready"
      BY <1>3 DEF vars, Next, HandlerRuns, HeartbeatRuns, Messages, Readable,
        Upgrade, ConnectDevice, ConnectRefused, Greet, HandlerSent,
        HandlerSendRaises, ErrorSent, HandlerCloses, HandlerClosed, HandlerDisconnected,
        HelloTimeout, ActivateSession, FinishTeardown, PingSent, PongSeen, PongMissed,
        HeartbeatCloses, HeartbeatCancelled, InvalidMessage, DirectClose, AskGrants, Result,
        Pong, Ping, Evict, EvictorCloses, SendCommand, CommandSent, PeerGone
    <2> QED
      BY <2>1
  <1> QED
    BY <1>1, <1>2, <1>3

\* ... and a command behind it stays behind.
LEMMA AheadStays ==
    ASSUME QueueExact, [Next]_vars, Ahead,
           handler = "ready", handler' = "ready",
           command = "sending", command' = "sending"
    PROVE  Ahead'
  <1>0. lock \in Seq(Tasks)
    BY DEF QueueExact
  <1>1. CASE UNCHANGED lock
    BY <1>1 DEF Ahead
  <1>2. ASSUME NEW t \in Tasks, Acquire(t)
        PROVE  Ahead'
    BY <1>0, <1>2, AcquireAhead
  <1>3. ASSUME NEW t, t \notin {"handler", "command"}, Release(t)
        PROVE  Ahead'
    BY <1>3, ReleaseEffect
  <1>4. CASE GiveUp("heartbeat")
    BY <1>4, GiveUpEffect
  <1>5. CASE HandlerRuns \/ Messages
    BY <1>1, <1>2, <1>5
    DEF HandlerRuns, Messages, Readable, Upgrade, ConnectDevice, ConnectRefused, Greet,
        HandlerSent, HandlerSendRaises, ErrorSent, HandlerCloses, HandlerClosed,
        HandlerDisconnected, HelloTimeout, ActivateSession, FinishTeardown, InvalidMessage,
        DirectClose, AskGrants, Result, Pong, Leave, HandlerReturns
  <1>6. CASE HeartbeatRuns \/ Ping
    <2>1. \/ UNCHANGED lock
          \/ Acquire("heartbeat") \/ Release("heartbeat") \/ GiveUp("heartbeat")
      BY <1>6
      DEF HeartbeatRuns, Ping, PingSent, PongSeen, PongMissed, HeartbeatCloses,
          HeartbeatCancelled, StartClose, EndClose
    <2> QED
      BY <1>1, <1>2, <1>3, <1>4, <2>1 DEF Tasks
  <1>7. CASE Evict \/ EvictorCloses \/ SendCommand \/ CommandSent \/ PeerGone
    <2>1. UNCHANGED lock \/ Acquire("evictor") \/ Release("evictor")
      BY <1>7
      DEF Evict, EvictorCloses, SendCommand, CommandSent, PeerGone, StartClose, EndClose
    <2> QED
      BY <1>1, <1>2, <1>3, <2>1 DEF Tasks
  <1>8. CASE UNCHANGED vars
    BY <1>1, <1>8 DEF vars
  <1> QED
    BY <1>5, <1>6, <1>7, <1>8 DEF Next

\* A command is admitted behind server.ready, or after it.
LEMMA ReadyStep ==
    ASSUME GatewayInv, [Next]_vars
    PROVE  ReadyFirst' /\ CommandAfterReady'
  <1>0. QueueExact /\ ReadyFirst /\ CommandAfterReady
    BY DEF GatewayInv
  <1>1. handler' \in {"serving", "updating", "reply"} => "ready" \in written'
    <2>1. \/ handler \in {"serving", "updating", "reply"}
          \/ handler' \notin {"serving", "updating", "reply"}
          \/ "ready" \in written'
      BY DEF vars, Next, HandlerRuns, HeartbeatRuns, Messages, Readable, Leave, HandlerReturns,
        Protest, InternalError, Upgrade, ConnectDevice, ConnectRefused, Greet, HandlerSent,
        HandlerSendRaises, ErrorSent, HandlerCloses, HandlerClosed, HandlerDisconnected,
        HelloTimeout, ActivateSession, FinishTeardown, PingSent, PongSeen, PongMissed,
        HeartbeatCloses, HeartbeatCancelled, InvalidMessage, DirectClose, AskGrants, Result,
        Pong, Ping, Evict, EvictorCloses, SendCommand, CommandSent, PeerGone
    <2> QED
      BY <1>0, <2>1, NothingReopens DEF ReadyFirst
  <1>2. online' => "ready" \in written' \/ handler' = "ready" \/ NoMore'
    <2>1. CASE online
      BY <1>0, <2>1, NothingReopens, ReadyIsSent DEF ReadyFirst
    <2>2. CASE ~online /\ ActivateSession
      BY <1>0, <1>1, <2>2, NothingReopens DEF ReadyFirst, ActivateSession
    <2>3. CASE ~online /\ ~ActivateSession
      <3>1. online' => online
        BY <2>3
        DEF vars, regVars, Next, HandlerRuns, HeartbeatRuns, Messages, Leave, Disconnect,
        Upgrade, ConnectDevice, ConnectRefused, Greet, HandlerSent,
        HandlerSendRaises, ErrorSent, HandlerCloses, HandlerClosed, HandlerDisconnected,
        HelloTimeout, ActivateSession, FinishTeardown, PingSent, PongSeen, PongMissed,
        HeartbeatCloses, HeartbeatCancelled, InvalidMessage, DirectClose, AskGrants, Result,
        Pong, Ping, Evict, EvictorCloses, SendCommand, CommandSent, PeerGone
      <3> QED
        BY <2>3, <3>1
    <2> QED
      BY <2>1, <2>2, <2>3
  <1>3. command' = "sending" =>
           "ready" \in written' \/ (handler' = "ready" /\ Ahead') \/ NoMore'
    <2>1. CASE command = "sending"
      BY <1>0, <2>1, NothingReopens, ReadyIsSent, AheadStays DEF ReadyFirst
    <2>2. CASE SendCommand
      <3>1. "ready" \in written \/ handler = "ready" \/ NoMore
        BY <1>0, <2>2 DEF ReadyFirst, SendCommand
      <3>2. handler = "ready" => handler' = "ready" /\ Ahead'
        <4>1. handler = "ready" => Queued("handler")
          BY <1>0 DEF QueueExact, HandlerSends
        <4>2. lock \in Seq(Tasks) /\ "command" \in Tasks /\ Acquire("command")
          BY <1>0, <2>2 DEF QueueExact, Tasks, SendCommand
        <4> QED
          BY <2>2, <4>1, <4>2, AcquireAhead DEF SendCommand
      <3> QED
        BY <3>1, <3>2, NothingReopens
    <2>3. CASE command # "sending" /\ ~SendCommand
      <3>1. command' # "sending"
        BY <2>3
        DEF vars, Next, HandlerRuns, HeartbeatRuns, Messages, Upgrade, ConnectDevice, ConnectRefused, Greet, HandlerSent,
        HandlerSendRaises, ErrorSent, HandlerCloses, HandlerClosed, HandlerDisconnected,
        HelloTimeout, ActivateSession, FinishTeardown, PingSent, PongSeen, PongMissed,
        HeartbeatCloses, HeartbeatCancelled, InvalidMessage, DirectClose, AskGrants, Result,
        Pong, Ping, Evict, EvictorCloses, SendCommand, CommandSent, PeerGone
      <3> QED
        BY <3>1
    <2> QED
      BY <2>1, <2>2, <2>3
  <1>4. CommandAfterReady'
    <2>1. CASE "command" \in written
      BY <1>0, <2>1, NothingReopens DEF CommandAfterReady
    <2>2. CASE CommandSent
      <3>1. Holds("command") /\ command = "sending"
        BY <2>2 DEF CommandSent, Release
      <3>2. ~Ahead
        BY <1>0, <3>1, AheadHolds
      <3>3. "ready" \in written \/ NoMore
        BY <1>0, <3>1, <3>2 DEF ReadyFirst
      <3> QED
        BY <1>0, <2>2, <3>3, NothingReopens DEF CommandAfterReady, CommandSent, CanWrite, NoMore
    <2>3. CASE "command" \notin written /\ ~CommandSent
      <3>1. "command" \notin written'
        BY <2>3
        DEF vars, Next, HandlerRuns, HeartbeatRuns, Messages, Upgrade, ConnectDevice, ConnectRefused, Greet, HandlerSent,
        HandlerSendRaises, ErrorSent, HandlerCloses, HandlerClosed, HandlerDisconnected,
        HelloTimeout, ActivateSession, FinishTeardown, PingSent, PongSeen, PongMissed,
        HeartbeatCloses, HeartbeatCancelled, InvalidMessage, DirectClose, AskGrants, Result,
        Pong, Ping, Evict, EvictorCloses, SendCommand, CommandSent, PeerGone
      <3> QED
        BY <3>1 DEF CommandAfterReady
    <2> QED
      BY <2>1, <2>2, <2>3
  <1> QED
    BY <1>1, <1>2, <1>3, <1>4 DEF ReadyFirst

-----------------------------------------------------------------------------
LEMMA InvStep == GatewayInv /\ [Next]_vars => GatewayInv'
  <1> SUFFICES ASSUME GatewayInv, [Next]_vars PROVE GatewayInv'
    OBVIOUS
  <1>1. received => nonce = 0
    BY DEF GatewayInv
  <1>2. (received => nonce = 0)'
    BY <1>1, AnsweredStep
  <1> QED
    BY <1>2, TypeStep, QueueStep, ReadyStep, TeardownStep, WindowStep DEF GatewayInv

\* The tasks of a session that share its transport agree at every step: the
\* queue of the send lock, the order of the first frames, the replay window and
\* the end of the handler (device_gateway.py:86-102, 108-279, 344-354).
THEOREM GatewayInvariant == Spec => []GatewayInv
  BY InitInv, InvStep, PTL DEF Spec

\* Every variable keeps its type; the nonce is that of the last ping or none
\* (device_gateway.py:186-197).
THEOREM GatewayTypeCorrect == Spec => []TypeOK
  <1>1. GatewayInv => TypeOK
    BY DEF GatewayInv
  <1> QED
    BY <1>1, GatewayInvariant, PTL

\* A device never sees a command before server.ready, although its session is open
\* to commands before that frame is written (device_gateway.py:167-181).
THEOREM ReadyBeforeCommand == Spec => []CommandAfterReady
  <1>1. GatewayInv => CommandAfterReady
    BY DEF GatewayInv
  <1> QED
    BY <1>1, GatewayInvariant, PTL

\* No task leaves an entry in the transport's send lock that would block the
\* others for good (device_gateway.py:86-102, 274-277).
THEOREM LockQueueIsExact == Spec => []LockQueueExact
  <1>1. GatewayInv => LockQueueExact
    <2> SUFFICES ASSUME GatewayInv PROVE LockQueueExact
      OBVIOUS
    <2>1. QueueExact
      BY DEF GatewayInv
    <2>2. \A i, j \in DOMAIN lock : lock[i] = lock[j] => i = j
      BY <2>1 DEF QueueExact
    <2>3. ASSUME NEW t \in Tasks, SendsOrCloses(t)
          PROVE  \E i \in DOMAIN lock : lock[i] = t
      BY <2>1, <2>3 DEF QueueExact, Queued, SendsOrCloses, Tasks
    <2>4. ASSUME NEW i \in DOMAIN lock
          PROVE  \/ SendsOrCloses(lock[i])
                 \/ lock[i] = "heartbeat" /\ heartbeat = "cancelling"
      <3>1. lock[i] \in Tasks /\ Queued(lock[i])
        BY <2>1 DEF QueueExact, Queued
      <3> QED
        BY <2>1, <3>1 DEF QueueExact, SendsOrCloses, Tasks
    <2> QED
      BY <2>2, <2>3, <2>4 DEF LockQueueExact
  <1> QED
    BY <1>1, GatewayInvariant, PTL

\* A message id among the last ReplayWindow ones is never accepted again, and the
\* window remembers nothing else (device_gateway.py:344-354).
THEOREM WindowIsExact == Spec => []ReplayWindowExact
  <1>1. GatewayInv => ReplayWindowExact
    BY DEF GatewayInv
  <1> QED
    BY <1>1, GatewayInvariant, PTL

\* A handler that has returned left no heartbeat behind and, unless that task had
\* failed, no session (device_gateway.py:273-279).
THEOREM SessionTornDown == Spec => []TeardownComplete
  <1>1. GatewayInv => TeardownComplete
    BY DEF GatewayInv, Teardown
  <1> QED
    BY <1>1, GatewayInvariant, PTL

\* The event that ends a heartbeat round was set by a pong with that round's nonce
\* (device_gateway.py:186-202, 214-220).
THEOREM PassedWasAnswered == Spec => PassedHeartbeatWasAnswered
  <1>1. GatewayInv /\ [Next]_vars
           => [heartbeat = "waiting" /\ heartbeat' = "sleeping" => nonce = 0]_vars
    <2> SUFFICES ASSUME GatewayInv, [Next]_vars, heartbeat = "waiting", heartbeat' = "sleeping"
                 PROVE  nonce = 0
      OBVIOUS
    <2>1. CASE PongSeen
      BY <2>1 DEF PongSeen, GatewayInv
    <2>2. CASE ~PongSeen
      <3>1. handler # "ready"
        BY DEF GatewayInv, Teardown, Starting
      <3>2. heartbeat' # "sleeping"
        BY <2>2, <3>1
        DEF vars, Next, HandlerRuns, HeartbeatRuns, Messages, Leave, HandlerReturns,
        Upgrade, ConnectDevice, ConnectRefused, Greet, HandlerSent,
        HandlerSendRaises, ErrorSent, HandlerCloses, HandlerClosed, HandlerDisconnected,
        HelloTimeout, ActivateSession, FinishTeardown, PingSent, PongMissed,
        HeartbeatCloses, HeartbeatCancelled, InvalidMessage, DirectClose, AskGrants, Result,
        Pong, Ping, Evict, EvictorCloses, SendCommand, CommandSent, PeerGone
      <3> QED
        BY <3>2
    <2> QED
      BY <2>1, <2>2
  <1> QED
    BY <1>1, GatewayInvariant, PTL DEF Spec, PassedHeartbeatWasAnswered
=============================================================================

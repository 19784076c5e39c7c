---------------------------- MODULE LockQueue_proofs ----------------------------
(***************************************************************************)
(* What joining and leaving the queue of a lock does to those who wait.    *)
(***************************************************************************)
EXTENDS LockQueue, SequenceTheorems, TLAPS

\* From q to p: t takes the last place; t goes, if it was there. The others, of
\* the set S, keep their order.
Joined(S, q, p, t) ==
    /\ p \in Seq(S) /\ Once(p)
    /\ \A a \in S : Waits(p, a) <=> Waits(q, a) \/ a = t
    /\ \A a, b \in S : Ahead(p, a, b) => Ahead(q, a, b) \/ b = t
    /\ \A a \in S : Holds(q, a) => Holds(p, a)
Gone(S, q, p, t) ==
    /\ p \in Seq(S) /\ Once(p)
    /\ \A a \in S : Waits(p, a) <=> Waits(q, a) /\ a # t
    /\ \A a, b \in S : Ahead(p, a, b) => Ahead(q, a, b)
    /\ \A a \in S : Holds(q, a) /\ a # t => Holds(p, a)

\* (asyncio.Lock.acquire, in _run_operation and on _relay_io_lock) A newcomer takes
\* the last place.
LEMMA JoinQueue ==
  ASSUME NEW S, NEW q \in Seq(S), NEW t \in S
  PROVE  /\ Append(q, t) \in Seq(S)
         /\ \A a : Waits(Append(q, t), a) <=> Waits(q, a) \/ a = t
         /\ \A a, b : Ahead(Append(q, t), a, b) <=> Ahead(q, a, b) \/ (Waits(q, a) /\ b = t)
         /\ Once(q) /\ ~Waits(q, t) => Once(Append(q, t))
         /\ \A a : Holds(q, a) => Holds(Append(q, t), a)
         /\ q = <<>> => Holds(Append(q, t), t)
<1> DEFINE p == Append(q, t)
<1>1. /\ p \in Seq(S) /\ Len(p) = Len(q) + 1 /\ p[Len(q) + 1] = t
      /\ \A i \in 1..Len(q) : p[i] = q[i]
  BY AppendProperties
<1>2. DOMAIN q = 1..Len(q) /\ DOMAIN p = 1..(Len(q) + 1) /\ Len(q) \in Nat
  BY <1>1
<1>3. \A a : Holds(q, a) => Holds(p, a)
  BY <1>1, <1>2 DEF Holds
<1>4. q = <<>> => Holds(p, t)
  BY <1>1, <1>2 DEF Holds
<1> HIDE DEF p
<1>5. \A a : Waits(p, a) <=> Waits(q, a) \/ a = t
  BY <1>1, <1>2 DEF Waits
<1>6. \A a, b : Ahead(p, a, b) <=> Ahead(q, a, b) \/ (Waits(q, a) /\ b = t)
  BY <1>1, <1>2 DEF Ahead, Waits
<1>7. Once(q) /\ ~Waits(q, t) => Once(p)
  BY <1>1, <1>2 DEF Once, Waits
<1> QED
  BY <1>1, <1>3, <1>4, <1>5, <1>6, <1>7 DEF p

\* (asyncio.Lock.release) The head goes, the others keep their order.
LEMMA HeadLeaves ==
  ASSUME NEW S, NEW q \in Seq(S), NEW t, Holds(q, t)
  PROVE  /\ t \in S /\ Waits(q, t) /\ Tail(q) \in Seq(S)
         /\ \A a : Waits(Tail(q), a) => Waits(q, a)
         /\ \A a : Waits(q, a) => a = t \/ (Waits(Tail(q), a) /\ Ahead(q, t, a))
         /\ \A a, b : Ahead(Tail(q), a, b) => Ahead(q, a, b)
         /\ Once(q) => Once(Tail(q)) /\ ~Waits(Tail(q), t)
<1> DEFINE p == Tail(q)
<1>1. /\ q # <<>> /\ q[1] = t /\ t \in S /\ p \in Seq(S) /\ Len(p) = Len(q) - 1
      /\ \A i \in 1..Len(p) : p[i] = q[i + 1]
  BY HeadTailProperties DEF Holds
<1>2. DOMAIN q = 1..Len(q) /\ DOMAIN p = 1..(Len(q) - 1) /\ Len(q) \in Nat \ {0}
  BY <1>1
<1> HIDE DEF p
<1>3. \A i \in DOMAIN q : i = 1 \/ (i - 1 \in DOMAIN p /\ q[i] = p[i - 1])
  BY <1>1, <1>2
<1>4. \A i \in DOMAIN p : i + 1 \in DOMAIN q /\ p[i] = q[i + 1]
  BY <1>1, <1>2
<1>5. Waits(q, t) /\ \A a : Waits(p, a) => Waits(q, a)
  BY <1>1, <1>2, <1>4 DEF Waits
<1>6. ASSUME NEW a, Waits(q, a), a # t PROVE Waits(p, a) /\ Ahead(q, t, a)
  <2>1. PICK i \in DOMAIN q : q[i] = a
    BY <1>6 DEF Waits
  <2>2. i # 1 /\ 1 < i /\ 1 \in DOMAIN q /\ i - 1 \in DOMAIN p /\ p[i - 1] = a
    BY <1>1, <1>2, <1>3, <1>6, <2>1
  <2>3. QED
    BY <1>1, <2>1, <2>2 DEF Waits, Ahead
<1>7. ASSUME NEW a, NEW b, Ahead(p, a, b) PROVE Ahead(q, a, b)
  <2>1. PICK i \in DOMAIN p, j \in DOMAIN p : i < j /\ p[i] = a /\ p[j] = b
    BY <1>7 DEF Ahead
  <2>2. i + 1 < j + 1
    BY <1>2, <2>1
  <2>3. QED
    BY <1>4, <2>1, <2>2 DEF Ahead
<1>8. ASSUME Once(q) PROVE Once(p) /\ ~Waits(p, t)
  <2>1. \A i, j \in DOMAIN p : p[i] = p[j] => i = j
    BY <1>2, <1>4, <1>8 DEF Once
  <2>2. ASSUME NEW i \in DOMAIN p, p[i] = t PROVE FALSE
    BY <1>1, <1>2, <1>4, <1>8, <2>2 DEF Once
  <2>3. QED
    BY <2>1, <2>2 DEF Once, Waits
<1> QED
  BY <1>1, <1>5, <1>6, <1>7, <1>8 DEF p

\* (asyncio.Lock.acquire, cancelled) So it is with one from the middle.
LEMMA LeaveQueue ==
  ASSUME NEW S, NEW q \in Seq(S), NEW t
  PROVE  /\ Without(q, t) \in Seq(S)
         /\ \A a : Waits(Without(q, t), a) => Waits(q, a)
         /\ \A a : Waits(q, a) /\ a # t => Waits(Without(q, t), a)
         /\ \A a, b : Ahead(Without(q, t), a, b) => Ahead(q, a, b)
         /\ Once(q) => Once(Without(q, t)) /\ ~Waits(Without(q, t), t)
         /\ \A a : Holds(q, a) /\ a # t => Holds(Without(q, t), a)
         /\ ~Waits(q, t) => Without(q, t) = q
<1>1. CASE ~Waits(q, t)
  BY <1>1 DEF Without
<1>2. CASE Waits(q, t)
  <2> DEFINE k == CHOOSE j \in DOMAIN q : q[j] = t
             f == SubSeq(q, 1, k - 1)
             g == SubSeq(q, k + 1, Len(q))
             p == f \o g
  <2>1. k \in DOMAIN q /\ q[k] = t
    BY <1>2 DEF Waits
  <2>2. Without(q, t) = p
    BY <1>2 DEF Without
  <2>3. DOMAIN q = 1..Len(q) /\ Len(q) \in Nat /\ k \in 1..Len(q) /\ \A i \in 1..Len(q) : q[i] \in S
    BY <2>1
  <2> HIDE DEF k
  <2>4. f \in Seq(S) /\ Len(f) = k - 1 /\ \A i \in 1..(k - 1) : f[i] = q[i]
    <3>1. \A i \in 1..(k - 1) : q[i] \in S
      BY <2>3
    <3>2. 1 \in Int /\ k - 1 \in Int
      BY <2>3
    <3>3. /\ f \in Seq(S) /\ Len(f) = IF 1 <= k - 1 THEN k - 1 - 1 + 1 ELSE 0
          /\ \A i \in 1 .. k - 1 - 1 + 1 : f[i] = q[1 + i - 1]
      BY <3>1, <3>2, SubSeqProperties
    <3>4. QED
      BY <2>3, <3>3
  <2>5. g \in Seq(S) /\ Len(g) = Len(q) - k /\ \A i \in 1..(Len(q) - k) : g[i] = q[k + i]
    <3>1. \A i \in (k + 1)..Len(q) : q[i] \in S
      BY <2>3
    <3>2. k + 1 \in Int /\ Len(q) \in Int
      BY <2>3
    <3>3. /\ g \in Seq(S) /\ Len(g) = IF k + 1 <= Len(q) THEN Len(q) - (k + 1) + 1 ELSE 0
          /\ \A i \in 1 .. Len(q) - (k + 1) + 1 : g[i] = q[k + 1 + i - 1]
      BY <3>1, <3>2, SubSeqProperties
    <3>4. Len(g) = Len(q) - k /\ 1 .. Len(q) - (k + 1) + 1 = 1..(Len(q) - k)
      <4>1. k \in Int /\ Len(q) \in Int /\ k <= Len(q)
        BY <2>3
      <4>2. Len(q) - (k + 1) + 1 = Len(q) - k
        BY <4>1
      <4>3. k + 1 <= Len(q) \/ Len(q) - k = 0
        BY <4>1
      <4>4. QED
        BY <3>3, <4>2, <4>3
    <3>5. \A i \in 1..(Len(q) - k) : k + 1 + i - 1 = k + i
      BY <2>3
    <3>6. QED
      BY <3>3, <3>4, <3>5
  <2> HIDE DEF f, g
  <2>6. /\ p \in Seq(S) /\ Len(p) = Len(q) - 1
        /\ \A i \in 1..(Len(q) - 1) : p[i] = IF i < k THEN q[i] ELSE q[i + 1]
    <3>1. /\ p \in Seq(S) /\ Len(p) = Len(f) + Len(g)
          /\ \A i \in 1 .. Len(f) + Len(g) : p[i] = IF i <= Len(f) THEN f[i] ELSE g[i - Len(f)]
      BY <2>4, <2>5, ConcatProperties
    <3>2. Len(f) + Len(g) = Len(q) - 1
      BY <2>3, <2>4, <2>5
    <3> HIDE DEF p
    <3>3. ASSUME NEW i \in 1..(Len(q) - 1) PROVE p[i] = IF i < k THEN q[i] ELSE q[i + 1]
      <4>1. CASE i < k
        BY <2>3, <2>4, <3>1, <3>2, <4>1
      <4>2. CASE ~(i < k)
        <5>1. p[i] = g[i - (k - 1)] /\ i - (k - 1) \in 1..(Len(q) - k)
          BY <2>3, <2>4, <3>1, <3>2, <4>2
        <5>2. k + (i - (k - 1)) = i + 1
          BY <2>3
        <5>3. QED
          BY <2>5, <4>2, <5>1, <5>2
      <4>3. QED
        BY <4>1, <4>2
    <3>4. QED
      BY <3>1, <3>2, <3>3
  <2> HIDE DEF p
  <2>7. DOMAIN p = 1..(Len(q) - 1)
    BY <2>6, <2>3
  <2> DEFINE at(i) == IF i < k THEN i ELSE i + 1
  <2>8. \A i \in DOMAIN p : at(i) \in DOMAIN q /\ at(i) # k /\ p[i] = q[at(i)]
    BY <2>3, <2>6, <2>7
  <2>9. \A i, j \in DOMAIN p : (i < j => at(i) < at(j)) /\ (at(i) = at(j) => i = j)
    BY <2>3, <2>7
  <2>10. \A i \in DOMAIN q : i = k \/ \E j \in DOMAIN p : at(j) = i
    <3>1. ASSUME NEW i \in DOMAIN q, i < k PROVE i \in DOMAIN p /\ at(i) = i
      BY <2>3, <2>7, <3>1
    <3>2. ASSUME NEW i \in DOMAIN q, i > k PROVE i - 1 \in DOMAIN p /\ at(i - 1) = i
      BY <2>3, <2>7, <3>2
    <3>3. QED
      BY <2>3, <3>1, <3>2
  <2>11. Holds(q, t) \/ \A a : Holds(q, a) => Holds(p, a)
    <3>1. CASE k = 1
      BY <2>1, <2>3, <3>1 DEF Holds
    <3>2. CASE k # 1
      <4>1. Len(p) > 0 /\ p[1] = q[1]
        BY <2>3, <2>6, <3>2
      <4>2. QED
        BY <2>6, <4>1 DEF Holds
    <3>3. QED
      BY <3>1, <3>2
  <2> HIDE DEF at
  <2>12. \A a : Waits(p, a) => Waits(q, a)
    BY <2>8 DEF Waits
  <2>13. \A a : Waits(q, a) /\ a # t => Waits(p, a)
    BY <2>1, <2>8, <2>10 DEF Waits
  <2>14. \A a, b : Ahead(p, a, b) => Ahead(q, a, b)
    BY <2>8, <2>9 DEF Ahead
  <2>15. Once(q) => Once(p) /\ ~Waits(p, t)
    BY <2>1, <2>8, <2>9 DEF Once, Waits
  <2>16. \A a : Holds(q, a) /\ a # t => Holds(p, a)
    BY <2>11 DEF Holds
  <2>17. QED
    BY <1>2, <2>2, <2>6, <2>12, <2>13, <2>14, <2>15, <2>16
<1> QED  BY <1>1, <1>2

\* (asyncio.Lock.acquire) A newcomer joins, and a queue without t has seen it leave.
LEMMA JoiningQueue ==
  ASSUME NEW S, NEW q \in Seq(S), NEW t \in S, Once(q), ~Waits(q, t)
  PROVE  Joined(S, q, Append(q, t), t) /\ Gone(S, q, q, t)
BY JoinQueue DEF Joined, Gone

\* (asyncio.Lock.release, and acquire when it is cancelled) The two ways to leave.
LEMMA LeavingQueue ==
  ASSUME NEW S, NEW q \in Seq(S), NEW t \in S, Once(q)
  PROVE  /\ Gone(S, q, Without(q, t), t)
         /\ Holds(q, t) => Gone(S, q, Tail(q), t)
<1>1. Gone(S, q, Without(q, t), t)
  BY LeaveQueue DEF Gone
<1>2. ASSUME Holds(q, t) PROVE Gone(S, q, Tail(q), t)
  <2>1. \A a : Holds(q, a) => a = t
    BY <1>2 DEF Holds
  <2>2. QED
    BY <1>2, <2>1, HeadLeaves DEF Gone
<1> QED  BY <1>1, <1>2

\* (__init__) An empty queue.
LEMMA EmptyQueue ==
  ASSUME NEW S
  PROVE  <<>> \in Seq(S) /\ Once(<<>>) /\ \A t : ~Waits(<<>>, t) /\ ~Holds(<<>>, t)
<1>1. DOMAIN <<>> = {}
  OBVIOUS
<1>2. <<>> \in Seq(S)
  OBVIOUS
<1> QED  BY <1>1, <1>2 DEF Once, Waits, Holds

\* A queue in which nobody waits is empty.
LEMMA NobodyWaits ==
  ASSUME NEW S, NEW q \in Seq(S), \A t \in S : ~Waits(q, t)
  PROVE  q = <<>>
<1>1. DOMAIN q = 1..Len(q) /\ Len(q) \in Nat /\ \A i \in DOMAIN q : q[i] \in S
  OBVIOUS
<1>2. \A i \in DOMAIN q : FALSE
  BY <1>1 DEF Waits
<1>3. Len(q) = 0
  BY <1>1, <1>2
<1> QED  BY <1>3
=============================================================================

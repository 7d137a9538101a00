------------------------- MODULE SysTimeoutsProofs -------------------------
(***************************************************************************)
(* lwIP's timers for every set of timers, every interval and delay, every  *)
(* pool that has an element for each timer, and any number of messages.    *)
(***************************************************************************)
EXTENDS SysTimeouts, FiniteSetTheorems, SequenceTheorems, WellFoundedInduction, TLAPS

\* Every non-empty set of natural numbers has a least element.
LEMMA LeastNumber ==
    ASSUME NEW S \in SUBSET Nat, S # {}
    PROVE  \E x \in S : \A y \in S : x <= y
<1>1. PICK x \in S : \A y \in S : ~ (<<y, x>> \in OpToRel(<, Nat))
    BY NatLessThanWellFounded, WFMin
<1>2. \A y \in S : ~ (y < x)
    BY <1>1 DEF OpToRel
<1> QED BY <1>2

\* Induction up to n, in the form the proofs below use it: where a claim fails
\* first, it holds one place earlier.
LEMMA FirstFailure ==
    ASSUME NEW n \in Nat, NEW Bad \in SUBSET (0..n), Bad # {}, 0 \notin Bad
    PROVE  \E k \in Bad : k \in 1..n /\ k - 1 \in 0..n /\ k - 1 \notin Bad
<1>1. Bad \in SUBSET Nat
    OBVIOUS
<1>2. PICK k \in Bad : \A y \in Bad : k <= y
    BY <1>1, LeastNumber
<1>3. k \in 0..n /\ k # 0
    OBVIOUS
<1>4. k \in 1..n /\ k - 1 \in 0..n
    BY <1>3
<1>5. k - 1 \notin Bad
    BY <1>2, <1>4
<1> QED BY <1>4, <1>5

\* A finite, non-empty set of natural numbers has a greatest element.
LEMMA GreatestNumber ==
    ASSUME NEW S \in SUBSET Nat, IsFiniteSet(S), S # {}
    PROVE  Max(S) \in S /\ \A y \in S : y <= Max(S)
<1>1. PICK n \in Nat : ExistsBijection(1..n, S)
    BY FS_NatBijection
<1>2. PICK f : f \in Bijection(1..n, S)
    BY <1>1 DEF ExistsBijection
<1>3. f \in [1..n -> S] /\ \A y \in S : \E i \in 1..n : f[i] = y
    BY <1>2 DEF Bijection, Injection, Surjection
<1>e. \A i \in 1..n : f[i] \in Nat
  <2>1. \A i \in 1..n : f[i] \in S
      BY <1>3
  <2> QED BY <2>1
<1> DEFINE Bounded(m) == \E b \in Nat : \A i \in 1..m : f[i] <= b
           Bad == {m \in 0..n : ~Bounded(m)}
<1>a. Bad \in SUBSET (0..n) /\ \A m \in 0..n : m \in Bad <=> ~Bounded(m)
    OBVIOUS
<1>b. Bounded(0)
  <2>1. 0 \in Nat /\ \A i \in 1..0 : f[i] <= 0
      OBVIOUS
  <2> QED BY ONLY <2>1
<1> HIDE DEF Bad
<1>4. Bad = {}
  <2> SUFFICES ASSUME Bad # {} PROVE FALSE
      OBVIOUS
  <2>1. 0 \notin Bad
      BY <1>a, <1>b
  <2>2. PICK m \in Bad : m \in 1..n /\ m - 1 \in 0..n /\ m - 1 \notin Bad
      BY <1>a, <2>1, FirstFailure
  <2>3. Bounded(m - 1)
      BY <1>a, <2>2
  <2>4. PICK b \in Nat : \A i \in 1..(m - 1) : f[i] <= b
      BY <2>3
  <2>5. f[m] \in Nat /\ m \in Nat
      BY <1>e, <2>2
  <2>6. \A i \in 1..m : i = m \/ i \in 1..(m - 1)
      BY <2>5
  <2>7. \A i \in 1..m : f[i] <= b + f[m]
    <3> TAKE i \in 1..m
    <3>1. f[i] \in Nat
        BY <1>e, <2>2, <2>5
    <3>2. i = m \/ f[i] <= b
        BY <2>4, <2>6
    <3> QED BY <2>5, <3>1, <3>2
  <2>8. b + f[m] \in Nat
      BY <2>5
  <2>9. Bounded(m)
      BY <2>7, <2>8
  <2> QED BY <1>a, <2>2, <2>9
<1>c. n \in 0..n
    OBVIOUS
<1>d. Bounded(n)
    BY <1>a, <1>c, <1>4
<1>5. PICK b \in Nat : \A i \in 1..n : f[i] <= b
    BY <1>d
<1>6. \A y \in S : y <= b
    BY <1>3, <1>5
<1> DEFINE Gap == {b - y : y \in S}
<1>7. Gap \in SUBSET Nat /\ Gap # {}
  <2>1. \A y \in S : b - y \in Nat
      BY <1>6
  <2> QED BY <2>1
<1> HIDE DEF Gap
<1>8. PICK g \in Gap : \A z \in Gap : g <= z
    BY <1>7, LeastNumber
<1>9. PICK x \in S : g = b - x
    BY <1>8 DEF Gap
<1>10. \A y \in S : x >= y
    BY <1>8, <1>9 DEF Gap
<1>11. Max(S) \in S /\ \A y \in S : Max(S) >= y
    BY <1>10 DEF Max
<1> QED BY <1>11

-----------------------------------------------------------------------------
\* Every delay that is asked for is at most Longest.
LEMMA LongestDelay ==
    /\ Longest \in Nat
    /\ \A h \in Periodic \cup {ARP_TMR, TCP_TMR} : Interval[h] \in 0..Longest
    /\ UserMsecs \subseteq 0..Longest
<1> DEFINE D == Periodic \cup {ARP_TMR, TCP_TMR}
           S == Range(Interval) \cup UserMsecs
<1>1. Startup \in Seq(Periodic)
    BY StartupAssumption
<1>2. IsFiniteSet(Periodic)
  <2>1. Periodic = {Startup[i] : i \in 1..Len(Startup)}
      BY <1>1 DEF Periodic, Range
  <2>2. IsFiniteSet(1..Len(Startup))
      BY <1>1, FS_Interval
  <2> DEFINE f == [i \in 1..Len(Startup) |-> Startup[i]]
  <2>3. f \in Surjection(1..Len(Startup), Periodic)
      BY <2>1 DEF Surjection
  <2> HIDE DEF f
  <2> QED BY <2>2, <2>3, FS_Surjection DEF ExistsSurjection
<1>3. IsFiniteSet(D)
  <2>1. IsFiniteSet(Periodic \cup {ARP_TMR})
      BY <1>2, FS_AddElement
  <2>2. D = (Periodic \cup {ARP_TMR}) \cup {TCP_TMR}
      OBVIOUS
  <2> QED BY <2>1, <2>2, FS_AddElement
<1>4. Interval \in [D -> Nat \ {0}]
    BY IntervalAssumption
<1>5. IsFiniteSet(Range(Interval))
  <2>1. Interval \in Surjection(D, Range(Interval))
      BY <1>4 DEF Surjection, Range
  <2> QED BY <1>3, <2>1, FS_Surjection DEF ExistsSurjection
<1>6. IsFiniteSet(S) /\ S \in SUBSET Nat /\ S # {}
  <2>1. Range(Interval) \in SUBSET Nat /\ Interval[ARP_TMR] \in Range(Interval)
      BY <1>4 DEF Range
  <2> QED BY <1>5, <2>1, FS_Union, UserAssumption
<1>7. Longest = Max(S)
    BY DEF Longest
<1> HIDE DEF S
<1>8. Longest \in S /\ \A y \in S : y <= Longest
    BY <1>6, <1>7, GreatestNumber
<1>9. \A h \in D : Interval[h] \in S
    BY <1>4 DEF S, Range
<1>10. UserMsecs \subseteq S
    BY DEF S
<1>11. \A y \in S : y \in Nat
    BY <1>6
<1> QED BY <1>8, <1>9, <1>10, <1>11

-----------------------------------------------------------------------------
(***************************************************************************)
(* When the elements of a list are due.                                    *)
(***************************************************************************)
\* A recurrence over the elements of a list has at most one solution ...
LEMMA DueUnique ==
    ASSUME NEW s \in Seq(Timer), NEW f, NEW g,
           f \in [0..Len(s) -> Int], g \in [0..Len(s) -> Int],
           f[0] = 0, \A k \in 1..Len(s) : f[k] = f[k - 1] + s[k].time,
           g[0] = 0, \A k \in 1..Len(s) : g[k] = g[k - 1] + s[k].time
    PROVE  f = g
<1> DEFINE n == Len(s)
           Bad == {k \in 0..n : f[k] # g[k]}
<1>1. n \in Nat
    OBVIOUS
<1>2. Bad \in SUBSET (0..n) /\ \A k \in 0..n : k \in Bad <=> f[k] # g[k]
    OBVIOUS
<1> HIDE DEF Bad
<1>3. Bad = {}
  <2> SUFFICES ASSUME Bad # {} PROVE FALSE
      OBVIOUS
  <2>1. 0 \notin Bad
      BY <1>1, <1>2
  <2>2. PICK k \in Bad : k \in 1..n /\ k - 1 \in 0..n /\ k - 1 \notin Bad
      BY <1>1, <1>2, <2>1, FirstFailure
  <2>3. f[k - 1] = g[k - 1]
      BY <1>2, <2>2
  <2>4. f[k] = g[k]
      BY <2>2, <2>3
  <2> QED BY <1>2, <2>2, <2>4
<1> QED BY <1>2, <1>3

\* ... and Due(s) is a solution.
LEMMA DueSums ==
    ASSUME NEW s \in Seq(Timer)
    PROVE  /\ Due(s) \in [0..Len(s) -> Nat]
           /\ Due(s)[0] = 0
           /\ \A k \in 1..Len(s) : Due(s)[k] = Due(s)[k - 1] + s[k].time
<1> DEFINE n == Len(s)
           Sums(m, f) == /\ f \in [0..m -> Nat]
                         /\ f[0] = 0
                         /\ \A k \in 1..m : f[k] = f[k - 1] + s[k].time
           Bad == {m \in 0..n : ~ \E f : Sums(m, f)}
<1>1. n \in Nat
    OBVIOUS
<1>2. \A k \in 1..n : s[k].time \in Nat
  <2>1. \A k \in 1..n : s[k] \in Timer
      BY ElementOfSeq
  <2>2. \A t \in Timer : t.time \in Nat
      BY LongestDelay DEF Timer
  <2> QED BY <2>1, <2>2
<1> HIDE DEF n
<1>a. Bad \in SUBSET (0..n) /\ \A m \in 0..n : m \in Bad <=> ~ \E f : Sums(m, f)
    OBVIOUS
<1>b. Sums(0, [k \in 0..0 |-> 0])
    OBVIOUS
<1> HIDE DEF Bad
<1>3. Bad = {}
  <2> SUFFICES ASSUME Bad # {} PROVE FALSE
      OBVIOUS
  <2>1. \E f : Sums(0, f)
      BY <1>b
  <2>2. 0 \notin Bad
      BY <1>1, <1>a, <2>1
  <2>3. PICK m \in Bad : m \in 1..n /\ m - 1 \in 0..n /\ m - 1 \notin Bad
      BY <1>1, <1>a, <2>2, FirstFailure
  <2>4. PICK f : Sums(m - 1, f)
      BY <1>a, <2>3
  <2> DEFINE g == [k \in 0..m |-> IF k = m THEN f[m - 1] + s[m].time ELSE f[k]]
  <2>5. m \in Nat /\ m > 0
      BY <1>1, <2>3
  <2>6. m - 1 \in 0..(m - 1) /\ f[m - 1] \in Nat /\ s[m].time \in Nat
      BY <1>2, <2>3, <2>4, <2>5
  <2>7. \A k \in 0..m : k = m \/ k \in 0..(m - 1)
      BY <2>5
  <2>8. g \in [0..m -> Nat] /\ g[0] = 0
      BY <2>4, <2>5, <2>6, <2>7
  <2>9. ASSUME NEW k \in 1..m PROVE g[k] = g[k - 1] + s[k].time
    <3>1. k \in 0..m /\ k - 1 \in 0..m /\ k - 1 # m /\ g[k - 1] = f[k - 1]
        BY <2>5
    <3>2. CASE k = m
        BY <3>1, <3>2
    <3>3. CASE k # m
      <4>1. k \in 1..(m - 1)
          BY <2>5, <3>3
      <4>2. f[k] = f[k - 1] + s[k].time
          BY <2>4, <4>1
      <4>3. g[k] = f[k]
          BY <3>1, <3>3
      <4> QED BY <3>1, <4>2, <4>3
    <3> QED BY <3>2, <3>3
  <2>10. Sums(m, g)
      BY <2>8, <2>9
  <2> HIDE DEF g, Sums
  <2>11. \E h : Sums(m, h)
      BY <2>10
  <2> QED BY <1>a, <2>3, <2>11
<1>c. \E f : Sums(n, f)
  <2>1. n \in 0..n
      BY <1>1
  <2> HIDE DEF Sums
  <2> QED BY <1>3, <1>a, <2>1
<1>4. PICK f : Sums(n, f)
    BY <1>c
<1> DEFINE P(g) == g = [k \in 0..Len(s) |-> IF k = 0 THEN 0 ELSE g[k - 1] + s[k].time]
<1>5. f = [k \in 0..n |-> f[k]]
    BY <1>4
<1>6. \A k \in 0..n : f[k] = IF k = 0 THEN 0 ELSE f[k - 1] + s[k].time
    BY <1>1, <1>4
<1>7. P(f)
    BY <1>5, <1>6 DEF n
<1>8. Due(s) = CHOOSE g : P(g)
    BY DEF Due
<1> HIDE DEF P
<1>9. P(Due(s))
    BY <1>7, <1>8
<1> DEFINE d == Due(s)
<1>10. d = [k \in 0..n |-> IF k = 0 THEN 0 ELSE d[k - 1] + s[k].time]
    BY <1>9 DEF P, n
<1> HIDE DEF d
<1>11. \A k \in 0..n : d[k] = IF k = 0 THEN 0 ELSE d[k - 1] + s[k].time
    BY <1>10
<1>12. d = [k \in 0..n |-> d[k]]
    BY <1>10, <1>11
<1>13. \A k \in 0..n : d[k] = f[k]
  <2> DEFINE Wrong == {k \in 0..n : d[k] # f[k]}
  <2>1. Wrong \in SUBSET (0..n) /\ \A k \in 0..n : k \in Wrong <=> d[k] # f[k]
      OBVIOUS
  <2> HIDE DEF Wrong
  <2>2. ASSUME Wrong # {} PROVE FALSE
    <3>1. 0 \notin Wrong
        BY <1>1, <1>4, <1>11, <2>1
    <3>2. PICK k \in Wrong : k \in 1..n /\ k - 1 \in 0..n /\ k - 1 \notin Wrong
        BY <1>1, <2>1, <2>2, <3>1, FirstFailure
    <3>3. d[k - 1] = f[k - 1] /\ k # 0
        BY <2>1, <3>2
    <3>4. d[k] = f[k]
        BY <1>4, <1>11, <2>1, <3>2, <3>3
    <3> QED BY <2>1, <3>2, <3>4
  <2> QED BY <2>1, <2>2
<1>14. d = f
    BY <1>5, <1>12, <1>13
<1> QED BY <1>4, <1>14 DEF d, n
-----------------------------------------------------------------------------
(***************************************************************************)
(* What the operations on the list do to it, element by element.           *)
(***************************************************************************)
LEMMA TimerFields ==
    ASSUME NEW t \in Timer
    PROVE  /\ t.h \in Handlers
           /\ t.time \in 0..Longest
           /\ t.left \in 0..Longest
           /\ t.time \in Nat
           /\ t.left \in Nat
           /\ \A x \in 0..Longest : /\ [t EXCEPT !.time = x] \in Timer
                                    /\ [t EXCEPT !.left = x] \in Timer
    BY LongestDelay DEF Timer

LEMMA ListFields ==
    ASSUME NEW s \in Seq(Timer)
    PROVE  /\ Len(s) \in Nat
           /\ DOMAIN s = 1..Len(s)
           /\ \A k \in 1..Len(s) :
                 s[k] \in Timer /\ s[k].time \in Nat /\ s[k].left \in Nat /\ s[k].h \in Handlers
<1>1. Len(s) \in Nat /\ DOMAIN s = 1..Len(s)
    BY LenProperties
<1>2. \A k \in 1..Len(s) : s[k] \in Timer
    BY ElementOfSeq
<1> QED BY <1>1, <1>2, TimerFields

\* sys_timeout's loop: the new element goes behind those that are due no later,
\* gets what is left of its delay there, and the next one loses that much.
InsertedAt(p, s, r, h, msecs) ==
    /\ r \in Seq(Timer)
    /\ Len(r) = Len(s) + 1
    /\ \A i \in 1..(p - 1) : r[i] = s[i]
    /\ r[p] = [h |-> h, time |-> msecs - Due(s)[p - 1], left |-> msecs]
    /\ \A i \in p..Len(s) :
          /\ r[i + 1].h = s[i].h
          /\ r[i + 1].left = s[i].left
          /\ r[i + 1].time = IF i = p THEN s[i].time - r[p].time ELSE s[i].time

LEMMA InsertShape ==
    ASSUME NEW s \in Seq(Timer), NEW h \in Handlers, NEW msecs \in 0..Longest,
           NEW r, r = Insert(s, h, msecs)
    PROVE  \E p \in 1..(Len(s) + 1) : InsertedAt(p, s, r, h, msecs)
<1> DEFINE n == Len(s)
           Rest(j) == msecs - Due(s)[j]
           Stops == {j \in 0..n : j = n \/ s[j + 1].time > Rest(j)}
           k == Min(Stops)
           t == [h |-> h, time |-> Rest(k), left |-> msecs]
           tail == SubSeq(s, k + 1, n)
           front == SubSeq(s, 1, k)
           back == IF tail = <<>> THEN tail ELSE [tail EXCEPT ![1].time = @ - t.time]
<1>1. r = front \o <<t>> \o back
    BY DEF Insert
<1>2. n \in Nat /\ \A j \in 1..n : s[j] \in Timer /\ s[j].time \in Nat
    BY ListFields
<1>3. /\ Due(s) \in [0..n -> Nat] /\ Due(s)[0] = 0
      /\ \A j \in 1..n : Due(s)[j] = Due(s)[j - 1] + s[j].time
    BY DueSums
<1>4. msecs \in Nat /\ Longest \in Nat /\ msecs <= Longest
    BY LongestDelay
<1>5. Stops \in SUBSET Nat /\ n \in Stops
    BY <1>2
<1>6. k \in Stops /\ \A j \in Stops : k <= j
  <2> HIDE DEF Stops
  <2>1. \E x \in Stops : \A y \in Stops : x <= y
      BY <1>5, LeastNumber
  <2> QED BY <2>1 DEF Min
<1>7. k \in 0..n /\ (k = n \/ s[k + 1].time > Rest(k))
    BY <1>6
<1> HIDE DEF k
<1>8. Rest(k) \in 0..Longest
  <2>1. CASE k = 0
      BY <1>3, <1>4, <2>1
  <2>2. CASE k # 0
    <3>1. k \in 1..n /\ k - 1 \in 0..n /\ k - 1 # n
        BY <1>2, <1>7, <2>2
    <3>2. k - 1 \notin Stops
        BY <1>6, <3>1
    <3>3. ~ (s[k].time > Rest(k - 1))
        BY <3>1, <3>2
    <3>4. Due(s)[k - 1] \in Nat /\ Due(s)[k] \in Nat /\ Due(s)[k] = Due(s)[k - 1] + s[k].time
        BY <1>3, <1>7, <3>1
    <3> QED BY <1>2, <1>4, <3>1, <3>3, <3>4, SMTT(30)
  <2> QED BY <2>1, <2>2
<1>9. t \in Timer /\ t.time = Rest(k)
    BY <1>4, <1>8 DEF Timer
<1> HIDE DEF Rest, Stops
<1>10. /\ front \in Seq(Timer) /\ Len(front) = k
       /\ \A i \in 1..k : front[i] = s[i]
  <2>1. \A i \in 1..k : s[i] \in Timer
      BY <1>2, <1>7
  <2>2. k \in Int /\ 1 \in Int
      BY <1>2, <1>7
  <2>3. /\ SubSeq(s, 1, k) \in Seq(Timer)
        /\ Len(SubSeq(s, 1, k)) = IF 1 <= k THEN k - 1 + 1 ELSE 0
        /\ \A i \in 1..(k - 1 + 1) : SubSeq(s, 1, k)[i] = s[1 + i - 1]
      BY <2>1, <2>2, SubSeqProperties
  <2> QED BY <1>2, <1>7, <2>3
<1>11. /\ tail \in Seq(Timer) /\ Len(tail) = n - k
       /\ \A i \in 1..(n - k) : tail[i] = s[k + i]
  <2>1. \A i \in (k + 1)..n : s[i] \in Timer
      BY <1>2, <1>7
  <2>2. k + 1 \in Int /\ n \in Int
      BY <1>2, <1>7
  <2>3. /\ SubSeq(s, k + 1, n) \in Seq(Timer)
        /\ Len(SubSeq(s, k + 1, n)) = IF k + 1 <= n THEN n - (k + 1) + 1 ELSE 0
        /\ \A i \in 1..(n - (k + 1) + 1) : SubSeq(s, k + 1, n)[i] = s[k + 1 + i - 1]
      BY <2>1, <2>2, SubSeqProperties
  <2> QED BY <1>2, <1>7, <2>3
<1>12. /\ back \in Seq(Timer) /\ Len(back) = n - k
       /\ \A i \in 1..(n - k) :
             /\ back[i].h = s[k + i].h
             /\ back[i].left = s[k + i].left
             /\ back[i].time = IF i = 1 THEN s[k + 1].time - t.time ELSE s[k + i].time
  <2>1. CASE tail = <<>>
    <3>1. back = <<>> /\ n - k = 0
        BY <1>11, <2>1
    <3> QED BY <1>11, <2>1, <3>1
  <2>2. CASE tail # <<>>
    <3> DEFINE u == [s[k + 1] EXCEPT !.time = s[k + 1].time - t.time]
    <3>1. n - k \in Nat /\ n - k >= 1
      <4>1. Len(tail) # 0
          BY <1>11, <2>2, EmptySeq
      <4> QED BY <1>2, <1>7, <1>11, <4>1
    <3>2. k + 1 \in 1..n /\ s[k + 1] \in Timer /\ tail[1] = s[k + 1] /\ 1 \in 1..Len(tail)
        BY <1>2, <1>7, <1>11, <3>1
    <3>3. s[k + 1].time > t.time
        BY <1>2, <1>7, <1>9, <3>1 DEF Rest
    <3>4. s[k + 1].time - t.time \in 0..Longest
        BY <1>8, <1>9, <3>2, <3>3, TimerFields, LongestDelay, SMTT(30)
    <3>5. /\ u \in Timer /\ u.h = s[k + 1].h /\ u.left = s[k + 1].left
          /\ u.time = s[k + 1].time - t.time
        BY <3>2, <3>4, TimerFields DEF Timer
    <3>6. back = [tail EXCEPT ![1] = u]
        BY <2>2, <3>2
    <3> HIDE DEF u
    <3>7. /\ back \in Seq(Timer) /\ Len(back) = n - k
          /\ \A i \in 1..(n - k) : back[i] = IF i = 1 THEN u ELSE tail[i]
      <4> HIDE DEF tail, back
      <4> QED BY <1>11, <3>2, <3>5, <3>6, ExceptSeq
    <3> HIDE DEF back, tail
    <3> QED BY <1>11, <3>5, <3>7
  <2> QED BY <2>1, <2>2
<1> HIDE DEF front, tail, back, t
<1>13. <<t>> \in Seq(Timer) /\ Len(<<t>>) = 1 /\ <<t>>[1] = t
    BY <1>9
<1> DEFINE u == <<t>>
<1> HIDE DEF u
<1>14. /\ front \o u \in Seq(Timer) /\ Len(front \o u) = k + 1
       /\ \A i \in 1..(k + 1) : (front \o u)[i] = IF i <= k THEN s[i] ELSE t
  <2>1. /\ front \o u \in Seq(Timer) /\ Len(front \o u) = k + 1
        /\ \A i \in 1..(k + 1) : (front \o u)[i] = IF i <= k THEN front[i] ELSE u[i - k]
    <3>1. u \in Seq(Timer) /\ Len(u) = 1
        BY <1>13 DEF u
    <3>2. /\ front \o u \in Seq(Timer) /\ Len(front \o u) = Len(front) + Len(u)
          /\ \A i \in 1..(Len(front) + Len(u)) :
                (front \o u)[i] = IF i <= Len(front) THEN front[i] ELSE u[i - Len(front)]
        BY <1>10, <3>1, ConcatProperties
    <3>3. Len(front) + Len(u) = k + 1 /\ Len(front) = k
        BY <1>10, <3>1
    <3> QED BY <3>2, <3>3
  <2>2. \A i \in 1..(k + 1) : ~ (i <= k) => i - k = 1
      BY <1>2, <1>7
  <2>3. \A i \in 1..(k + 1) : i <= k => i \in 1..k
      BY <1>2, <1>7
  <2> QED BY <1>10, <1>13, <2>1, <2>2, <2>3 DEF u
<1> DEFINE a == front \o u
<1> HIDE DEF a
<1>15. /\ r \in Seq(Timer) /\ Len(r) = n + 1
       /\ \A i \in 1..(n + 1) : r[i] = IF i <= k + 1 THEN a[i] ELSE back[i - (k + 1)]
  <2>1. r = a \o back
      BY <1>1 DEF a, u
  <2>2. a \in Seq(Timer) /\ Len(a) = k + 1
      BY <1>14 DEF a
  <2>3. /\ a \o back \in Seq(Timer) /\ Len(a \o back) = Len(a) + Len(back)
        /\ \A i \in 1..(Len(a) + Len(back)) :
              (a \o back)[i] = IF i <= Len(a) THEN a[i] ELSE back[i - Len(a)]
      BY <1>12, <2>2, ConcatProperties, ZenonT(30)
  <2>4. Len(a) + Len(back) = n + 1
      BY <1>2, <1>7, <1>12, <2>2
  <2> QED BY <2>1, <2>2, <2>3, <2>4
<1>16. k + 1 \in 1..(n + 1)
    BY <1>2, <1>7
<1>17. \A i \in 1..k : r[i] = s[i]
  <2> TAKE i \in 1..k
  <2>1. i \in 1..(n + 1) /\ i \in 1..(k + 1) /\ i <= k + 1 /\ i <= k
      BY <1>2, <1>7
  <2> QED BY <1>14, <1>15, <2>1 DEF a
<1>18. r[k + 1] = t
  <2>1. k + 1 \in 1..(k + 1) /\ k + 1 <= k + 1 /\ ~ (k + 1 <= k)
      BY <1>2, <1>7
  <2> QED BY <1>14, <1>15, <1>16, <2>1 DEF a
<1>19. \A i \in (k + 1)..n : /\ r[i + 1].h = s[i].h
                             /\ r[i + 1].left = s[i].left
                             /\ r[i + 1].time = IF i = k + 1 THEN s[i].time - t.time ELSE s[i].time
  <2> TAKE i \in (k + 1)..n
  <2>1. /\ i + 1 \in 1..(n + 1) /\ ~ (i + 1 <= k + 1) /\ i + 1 - (k + 1) = i - k
        /\ i - k \in 1..(n - k) /\ k + (i - k) = i /\ (i - k = 1 <=> i = k + 1)
      BY <1>2, <1>7
  <2>2. r[i + 1] = back[i - k]
    <3>1. PICK j \in 1..(n + 1) : j = i + 1
        BY <2>1
    <3>2. r[j] = IF j <= k + 1 THEN a[j] ELSE back[j - (k + 1)]
        BY <1>15
    <3>3. r[j] = back[j - (k + 1)]
        BY <2>1, <3>1, <3>2
    <3>4. j - (k + 1) = i - k
        BY <1>2, <1>7, <2>1, <3>1
    <3> QED BY <3>1, <3>3, <3>4
  <2> QED BY <1>12, <2>1, <2>2
<1> QED
  <2> DEFINE p == k + 1
  <2>1. p \in 1..(Len(s) + 1)
      BY <1>16
  <2>2. InsertedAt(p, s, r, h, msecs)
    <3>1. r \in Seq(Timer) /\ Len(r) = Len(s) + 1
        BY <1>15
    <3>2. \A i \in 1..(p - 1) : r[i] = s[i]
        BY <1>2, <1>7, <1>17
    <3>3. r[p] = t
        BY <1>18
    <3>4. r[p] = [h |-> h, time |-> msecs - Due(s)[p - 1], left |-> msecs]
      <4>1. p - 1 = k
          BY <1>2, <1>7
      <4> HIDE DEF p
      <4> QED BY <3>3, <4>1 DEF t, Rest
    <3>5. \A i \in p..Len(s) :
              /\ r[i + 1].h = s[i].h
              /\ r[i + 1].left = s[i].left
              /\ r[i + 1].time = IF i = p THEN s[i].time - t.time ELSE s[i].time
        BY <1>19
    <3> HIDE DEF p
    <3> QED BY <3>1, <3>2, <3>3, <3>4, <3>5 DEF InsertedAt
  <2> HIDE DEF p
  <2> QED BY <2>1, <2>2

\* sys_timeout makes the new timer due after its delay and leaves every other one
\* due when it was.
DueAt(p, s, r, h, msecs) ==
    /\ r \in Seq(Timer)
    /\ Len(r) = Len(s) + 1
    /\ r[p].h = h /\ r[p].left = msecs /\ Due(r)[p] = msecs
    /\ \A i \in 1..(p - 1) : r[i] = s[i] /\ Due(r)[i] = Due(s)[i]
    /\ \A i \in p..Len(s) :
          /\ r[i + 1].h = s[i].h
          /\ r[i + 1].left = s[i].left
          /\ Due(r)[i + 1] = Due(s)[i]

LEMMA InsertDue ==
    ASSUME NEW s \in Seq(Timer), NEW h \in Handlers, NEW msecs \in 0..Longest,
           NEW r, r = Insert(s, h, msecs)
    PROVE  \E p \in 1..(Len(s) + 1) : DueAt(p, s, r, h, msecs)
<1> DEFINE n == Len(s)
<1>0. PICK p \in 1..(n + 1) : InsertedAt(p, s, r, h, msecs)
    BY InsertShape
<1>1. /\ r \in Seq(Timer)
      /\ Len(r) = n + 1
      /\ \A i \in 1..(p - 1) : r[i] = s[i]
      /\ r[p] = [h |-> h, time |-> msecs - Due(s)[p - 1], left |-> msecs]
      /\ \A i \in p..n :
            /\ r[i + 1].h = s[i].h
            /\ r[i + 1].left = s[i].left
            /\ r[i + 1].time = IF i = p THEN s[i].time - r[p].time ELSE s[i].time
    BY <1>0 DEF InsertedAt
<1>2. n \in Nat /\ msecs \in Nat /\ \A i \in 1..n : s[i].time \in Nat
    BY ListFields, LongestDelay
<1>3. /\ Due(s) \in [0..n -> Nat] /\ Due(s)[0] = 0
      /\ \A i \in 1..n : Due(s)[i] = Due(s)[i - 1] + s[i].time
    BY DueSums
<1>4. /\ Due(r) \in [0..(n + 1) -> Nat] /\ Due(r)[0] = 0
      /\ \A i \in 1..(n + 1) : Due(r)[i] = Due(r)[i - 1] + r[i].time
  <2> HIDE DEF n
  <2> QED BY <1>1, DueSums
<1> DEFINE f == [i \in 0..(n + 1) |-> IF i < p THEN Due(s)[i]
                                      ELSE IF i = p THEN msecs ELSE Due(s)[i - 1]]
<1> HIDE DEF n
<1>5. f \in [0..(n + 1) -> Nat]
    BY <1>2, <1>3
<1>6. f[0] = 0
    BY <1>2, <1>3
<1>7. ASSUME NEW i \in 1..(n + 1) PROVE f[i] = f[i - 1] + r[i].time
  <2>1. i \in 0..(n + 1) /\ i - 1 \in 0..(n + 1)
      BY <1>2
  <2>2. CASE i < p
    <3>1. i \in 1..(p - 1) /\ i \in 1..n
        BY <1>2, <2>2
    <3>2. f[i] = Due(s)[i] /\ f[i - 1] = Due(s)[i - 1]
        BY <1>2, <2>1, <2>2
    <3>3. r[i] = s[i] /\ Due(s)[i] = Due(s)[i - 1] + s[i].time
        BY <1>1, <1>3, <3>1
    <3> HIDE DEF f
    <3> QED BY <3>2, <3>3
  <2>3. CASE i = p
    <3>1. p - 1 \in 0..n /\ Due(s)[p - 1] \in Nat /\ r[p].time = msecs - Due(s)[p - 1]
        BY <1>1, <1>2, <1>3
    <3>2. f[i] = msecs /\ f[i - 1] = Due(s)[p - 1]
        BY <1>2, <2>1, <2>3
    <3> QED BY <1>2, <2>3, <3>1, <3>2
  <2>4. CASE i > p
    <3>1. PICK j \in p..n : i = j + 1
        BY <1>2, <2>4
    <3>2. j \in 1..n /\ Due(s)[j] \in Nat /\ Due(s)[j - 1] \in Nat
        BY <1>2, <1>3, <3>1
    <3>3. Due(s)[j] = Due(s)[j - 1] + s[j].time
        BY <1>3, <3>2
    <3>4. f[i] = Due(s)[j]
        BY <1>2, <2>1, <2>4, <3>1
    <3>5. r[i].time = IF j = p THEN s[j].time - r[p].time ELSE s[j].time
        BY <1>1, <3>1
    <3>6. CASE j = p
      <4>1. f[i - 1] = msecs
          BY <1>2, <2>1, <3>1, <3>6
      <4>2. r[p].time = msecs - Due(s)[j - 1]
          BY <1>1, <3>6
      <4>3. r[i].time = s[j].time - r[p].time /\ s[j].time \in Nat
          BY <1>2, <3>2, <3>5, <3>6
      <4> HIDE DEF f
      <4>4. r[i].time = s[j].time - (msecs - Due(s)[j - 1])
          BY <4>2, <4>3
      <4>5. msecs + (s[j].time - (msecs - Due(s)[j - 1])) = Due(s)[j]
          BY ONLY <1>2, <3>2, <3>3, <4>3
      <4> QED BY <3>4, <4>1, <4>4, <4>5
    <3>7. CASE j # p
      <4>1. f[i - 1] = Due(s)[j - 1]
          BY <1>2, <2>1, <3>1, <3>7
      <4> QED BY <1>2, <3>2, <3>3, <3>4, <3>5, <3>7, <4>1
    <3> QED BY <3>6, <3>7
  <2> QED BY <1>2, <2>2, <2>3, <2>4
<1>8. f = Due(r)
  <2>1. Len(r) = n + 1 /\ r \in Seq(Timer)
      BY <1>1
  <2> HIDE DEF f
  <2>2. f \in [0..Len(r) -> Int] /\ Due(r) \in [0..Len(r) -> Int]
      BY <1>4, <1>5, <2>1
  <2>3. \A i \in 1..Len(r) : f[i] = f[i - 1] + r[i].time
      BY <1>7, <2>1
  <2>4. \A i \in 1..Len(r) : Due(r)[i] = Due(r)[i - 1] + r[i].time
      BY <1>4, <2>1
  <2> QED BY <1>4, <1>6, <2>1, <2>2, <2>3, <2>4, DueUnique, ZenonT(30)
<1>9. Due(r)[p] = msecs
    BY <1>2, <1>8
<1>10. \A i \in 1..(p - 1) : Due(r)[i] = Due(s)[i]
    BY <1>2, <1>8
<1>11. \A i \in p..n : Due(r)[i + 1] = Due(s)[i]
  <2> TAKE i \in p..n
  <2>1. i + 1 \in 0..(n + 1) /\ ~ (i + 1 < p) /\ i + 1 # p /\ i + 1 - 1 = i
      BY <1>2
  <2> QED BY <1>8, <2>1
<1>12. r[p].h = h /\ r[p].left = msecs
    BY <1>1
<1>13. DueAt(p, s, r, h, msecs)
    BY <1>1, <1>9, <1>10, <1>11, <1>12 DEF n, DueAt
<1> QED BY <1>13 DEF n

-----------------------------------------------------------------------------
(***************************************************************************)
(* The invariant of the list.                                              *)
(***************************************************************************)
Listed(s) == {s[k].h : k \in DOMAIN s}

\* No handler is in the list twice, the last element is due within the longest
\* delay, and no element is due, after w more ticks that are not accounted for
\* yet, before its time has really passed.
ListInv(s, w) ==
    /\ s \in Seq(Timer)
    /\ \A i, j \in DOMAIN s : s[i].h = s[j].h => i = j
    /\ \A k \in DOMAIN s : Due(s)[k] <= Longest
    /\ \A k \in DOMAIN s : s[k].left = 0 \/ s[k].left + w <= Due(s)[k]

LEMMA InsertList ==
    ASSUME NEW s, NEW h \in Handlers, NEW msecs \in 0..Longest,
           ListInv(s, 0), h \notin Listed(s)
    PROVE  /\ ListInv(Insert(s, h, msecs), 0)
           /\ Listed(Insert(s, h, msecs)) = Listed(s) \cup {h}
           /\ Len(Insert(s, h, msecs)) = Len(s) + 1
<1> DEFINE r == Insert(s, h, msecs)
           n == Len(s)
<1>1. s \in Seq(Timer)
    BY DEF ListInv
<1>2. n \in Nat /\ DOMAIN s = 1..n /\ \A i \in 1..n : s[i] \in Timer /\ s[i].left \in Nat
    BY <1>1, ListFields
<1>a. PICK p \in 1..(n + 1) : DueAt(p, s, r, h, msecs)
    BY <1>1, InsertDue
<1>3. /\ r \in Seq(Timer)
      /\ Len(r) = n + 1
      /\ r[p].h = h /\ r[p].left = msecs /\ Due(r)[p] = msecs
      /\ \A i \in 1..(p - 1) : r[i] = s[i] /\ Due(r)[i] = Due(s)[i]
      /\ \A i \in p..n :
            /\ r[i + 1].h = s[i].h
            /\ r[i + 1].left = s[i].left
            /\ Due(r)[i + 1] = Due(s)[i]
    BY <1>a DEF DueAt
<1> HIDE DEF r, n
<1>4. DOMAIN r = 1..(n + 1)
    BY <1>3, ListFields
<1> DEFINE from(i) == IF i < p THEN i ELSE i - 1
<1>5. ASSUME NEW i \in 1..(n + 1), i # p
      PROVE  /\ from(i) \in 1..n
             /\ r[i].h = s[from(i)].h /\ r[i].left = s[from(i)].left
             /\ Due(r)[i] = Due(s)[from(i)]
  <2>1. CASE i < p
    <3>1. i \in 1..(p - 1) /\ i \in 1..n /\ from(i) = i
        BY <1>2, <2>1
    <3> QED BY <1>3, <3>1
  <2>2. CASE i > p
    <3>1. PICK j \in p..n : i = j + 1
        BY <1>2, <2>2
    <3>2. from(i) = j /\ j \in 1..n
        BY <1>2, <2>2, <3>1
    <3> QED BY <1>3, <3>1, <3>2
  <2> QED BY <1>2, <1>5, <2>1, <2>2
<1>6. \A i, j \in 1..(n + 1) : i # p /\ j # p /\ from(i) = from(j) => i = j
    BY <1>2
<1>7. \A j \in 1..n : \E i \in 1..(n + 1) : i # p /\ from(i) = j
  <2> TAKE j \in 1..n
  <2>1. CASE j < p
    <3>1. j \in 1..(n + 1) /\ j # p /\ from(j) = j
        BY <1>2, <2>1
    <3> QED BY <3>1
  <2>2. CASE ~ (j < p)
    <3>1. j + 1 \in 1..(n + 1) /\ j + 1 # p /\ from(j + 1) = j
        BY <1>2, <2>2
    <3> QED BY <3>1
  <2> QED BY <2>1, <2>2
<1> HIDE DEF from
<1>8. \A j \in 1..n : s[j].h # h
    BY <1>2 DEF Listed
<1>9. \A i, j \in DOMAIN r : r[i].h = r[j].h => i = j
  <2> SUFFICES ASSUME NEW i \in 1..(n + 1), NEW j \in 1..(n + 1), r[i].h = r[j].h
               PROVE  i = j
      BY <1>4
  <2>1. CASE i = p /\ j = p
      BY <2>1
  <2>2. CASE i = p /\ j # p
      BY <1>3, <1>5, <1>8, <2>2
  <2>3. CASE i # p /\ j = p
      BY <1>3, <1>5, <1>8, <2>3
  <2>4. CASE i # p /\ j # p
    <3>1. from(i) \in DOMAIN s /\ from(j) \in DOMAIN s /\ s[from(i)].h = s[from(j)].h
        BY <1>2, <1>5, <2>4
    <3>2. from(i) = from(j)
        BY <3>1 DEF ListInv
    <3> QED BY <1>6, <2>4, <3>2
  <2> QED BY <2>1, <2>2, <2>3, <2>4
<1>10. \A i \in DOMAIN r : Due(r)[i] <= Longest
  <2> SUFFICES ASSUME NEW i \in 1..(n + 1) PROVE Due(r)[i] <= Longest
      BY <1>4
  <2>1. CASE i = p
      BY <1>3, <2>1, LongestDelay
  <2>2. CASE i # p
      BY <1>2, <1>5, <2>2 DEF ListInv
  <2> QED BY <2>1, <2>2
<1>11. \A i \in DOMAIN r : r[i].left = 0 \/ r[i].left + 0 <= Due(r)[i]
  <2> SUFFICES ASSUME NEW i \in 1..(n + 1) PROVE r[i].left = 0 \/ r[i].left + 0 <= Due(r)[i]
      BY <1>4
  <2>1. CASE i = p
      BY <1>3, <2>1, LongestDelay
  <2>2. CASE i # p
      BY <1>2, <1>5, <2>2 DEF ListInv
  <2> QED BY <2>1, <2>2
<1>12. Listed(r) = Listed(s) \cup {h}
  <2>1. ASSUME NEW x \in Listed(r) PROVE x \in Listed(s) \cup {h}
    <3>1. PICK i \in 1..(n + 1) : x = r[i].h
        BY <1>4, <2>1 DEF Listed
    <3> QED BY <1>2, <1>3, <1>5, <3>1, ZenonT(30) DEF Listed
  <2>2. ASSUME NEW x \in Listed(s) PROVE x \in Listed(r)
    <3>1. PICK j \in 1..n : x = s[j].h
        BY <1>2, <2>2 DEF Listed
    <3>2. PICK i \in 1..(n + 1) : i # p /\ from(i) = j
        BY <1>7
    <3> QED BY <1>4, <1>5, <3>1, <3>2 DEF Listed
  <2>3. h \in Listed(r)
      BY <1>3, <1>4 DEF Listed
  <2> QED BY <2>1, <2>2, <2>3
<1>13. ListInv(r, 0)
    BY <1>3, <1>9, <1>10, <1>11 DEF ListInv
<1> QED BY <1>3, <1>12, <1>13 DEF r, n

\* The list without element k; the elements behind it are due d ticks earlier.
RemovedAt(k, d, s, r) ==
    /\ r \in Seq(Timer)
    /\ Len(r) = Len(s) - 1
    /\ \A i \in 1..(k - 1) : r[i] = s[i] /\ Due(r)[i] = Due(s)[i]
    /\ \A i \in k..(Len(s) - 1) :
          /\ r[i].h = s[i + 1].h
          /\ r[i].left = s[i + 1].left
          /\ Due(r)[i] = Due(s)[i + 1] - d

LEMMA RemoveList ==
    ASSUME NEW s, NEW r, NEW w \in Nat, NEW d \in Nat, d <= w, ListInv(s, w),
           NEW k \in 1..Len(s), RemovedAt(k, d, s, r)
    PROVE  /\ ListInv(r, 0)
           /\ Listed(r) = Listed(s) \ {s[k].h}
<1> DEFINE n == Len(s)
<1>1. s \in Seq(Timer) /\ r \in Seq(Timer) /\ Len(r) = n - 1
    BY DEF ListInv, RemovedAt
<1>2. n \in Nat /\ DOMAIN s = 1..n /\ \A i \in 1..n : s[i] \in Timer /\ s[i].left \in Nat
    BY <1>1, ListFields
<1>3. DOMAIN r = 1..(n - 1)
    BY <1>1, ListFields
<1>4. \A i \in 1..n : Due(s)[i] \in Nat
    BY <1>1, <1>2, DueSums
<1>5. /\ \A i \in 1..(k - 1) : r[i] = s[i] /\ Due(r)[i] = Due(s)[i]
      /\ \A i \in k..(n - 1) :
            /\ r[i].h = s[i + 1].h
            /\ r[i].left = s[i + 1].left
            /\ Due(r)[i] = Due(s)[i + 1] - d
    BY DEF RemovedAt
<1>6. /\ \A i, j \in 1..n : s[i].h = s[j].h => i = j
      /\ \A i \in 1..n : Due(s)[i] <= Longest
      /\ \A i \in 1..n : s[i].left = 0 \/ s[i].left + w <= Due(s)[i]
    BY <1>2 DEF ListInv
<1> HIDE DEF n
<1> DEFINE from(i) == IF i < k THEN i ELSE i + 1
<1>7. ASSUME NEW i \in 1..(n - 1)
      PROVE  /\ from(i) \in 1..n /\ from(i) # k
             /\ r[i].h = s[from(i)].h /\ r[i].left = s[from(i)].left
             /\ Due(r)[i] = Due(s)[from(i)] \/ Due(r)[i] = Due(s)[from(i)] - d
  <2>1. CASE i < k
    <3>1. i \in 1..(k - 1) /\ i \in 1..n /\ from(i) = i /\ i # k
        BY <1>2, <2>1
    <3> QED BY <1>5, <3>1
  <2>2. CASE ~ (i < k)
    <3>1. i \in k..(n - 1) /\ i + 1 \in 1..n /\ from(i) = i + 1 /\ i + 1 # k
        BY <1>2, <2>2 DEF n
    <3> QED BY <1>5, <3>1
  <2> QED BY <2>1, <2>2
<1>8. \A i, j \in 1..(n - 1) : from(i) = from(j) => i = j
    BY <1>2 DEF n
<1>9. \A j \in 1..n : j # k => \E i \in 1..(n - 1) : from(i) = j
  <2> SUFFICES ASSUME NEW j \in 1..n, j # k PROVE \E i \in 1..(n - 1) : from(i) = j
      OBVIOUS
  <2>1. CASE j < k
    <3>1. j \in 1..(n - 1) /\ from(j) = j
        BY <1>2, <2>1 DEF n
    <3> QED BY <3>1
  <2>2. CASE ~ (j < k)
    <3>1. j - 1 \in 1..(n - 1) /\ from(j - 1) = j
        BY <1>2, <2>2 DEF n
    <3> QED BY <3>1
  <2> QED BY <2>1, <2>2
<1> HIDE DEF from
<1>10. \A i, j \in DOMAIN r : r[i].h = r[j].h => i = j
    BY <1>3, <1>6, <1>7, <1>8
<1>11. \A i \in DOMAIN r : Due(r)[i] <= Longest
  <2> SUFFICES ASSUME NEW i \in 1..(n - 1) PROVE Due(r)[i] <= Longest
      BY <1>3
  <2>1. Due(s)[from(i)] \in Nat /\ Due(s)[from(i)] <= Longest
      BY <1>4, <1>6, <1>7
  <2> QED BY <1>7, <2>1, LongestDelay
<1>12. \A i \in DOMAIN r : r[i].left = 0 \/ r[i].left + 0 <= Due(r)[i]
  <2> SUFFICES ASSUME NEW i \in 1..(n - 1) PROVE r[i].left = 0 \/ r[i].left + 0 <= Due(r)[i]
      BY <1>3
  <2> DEFINE j == from(i)
  <2>1. j \in 1..n /\ r[i].left = s[j].left
      BY <1>7
  <2>2. Due(r)[i] = Due(s)[j] \/ Due(r)[i] = Due(s)[j] - d
      BY <1>7
  <2> HIDE DEF j
  <2>3. Due(s)[j] \in Nat /\ s[j].left \in Nat /\ (s[j].left = 0 \/ s[j].left + w <= Due(s)[j])
      BY <1>2, <1>4, <1>6, <2>1
  <2> QED BY <2>1, <2>2, <2>3
<1>13. ListInv(r, 0)
    BY <1>1, <1>10, <1>11, <1>12 DEF ListInv
<1>14. Listed(r) = Listed(s) \ {s[k].h}
  <2>1. ASSUME NEW x \in Listed(r) PROVE x \in Listed(s) /\ x # s[k].h
    <3>1. PICK i \in 1..(n - 1) : x = r[i].h
        BY <1>3, <2>1 DEF Listed
    <3>2. from(i) \in 1..n /\ from(i) # k /\ x = s[from(i)].h
        BY <1>7, <3>1
    <3> QED BY <1>2, <1>6, <3>2 DEF Listed, n
  <2>2. ASSUME NEW x \in Listed(s), x # s[k].h PROVE x \in Listed(r)
    <3>1. PICK j \in 1..n : x = s[j].h
        BY <1>2, <2>2 DEF Listed
    <3>2. PICK i \in 1..(n - 1) : from(i) = j
        BY <1>9, <2>2, <3>1
    <3> QED BY <1>3, <1>7, <3>1, <3>2 DEF Listed
  <2> QED BY <2>1, <2>2
<1> QED BY <1>13, <1>14

\* The list with the same elements in the same places.
LEMMA RetimedList ==
    ASSUME NEW s, NEW r, NEW w, NEW v, ListInv(s, w), r \in Seq(Timer), Len(r) = Len(s),
           \A i \in 1..Len(s) : /\ r[i].h = s[i].h
                                /\ Due(r)[i] <= Due(s)[i]
                                /\ r[i].left = 0 \/ r[i].left + v <= Due(r)[i]
    PROVE  ListInv(r, v) /\ Listed(r) = Listed(s)
<1>1. s \in Seq(Timer)
    BY DEF ListInv
<1>2. DOMAIN s = 1..Len(s) /\ DOMAIN r = 1..Len(s) /\ Len(s) \in Nat
    BY <1>1, ListFields
<1>3. \A i \in 1..Len(s) : Due(s)[i] \in Nat /\ Due(r)[i] \in Nat
    BY <1>1, <1>2, DueSums
<1>4. \A i \in DOMAIN r : Due(r)[i] <= Longest
    BY <1>2, <1>3, LongestDelay DEF ListInv
<1>5. \A i, j \in DOMAIN r : r[i].h = r[j].h => i = j
    BY <1>2 DEF ListInv
<1>6. ListInv(r, v)
    BY <1>2, <1>4, <1>5 DEF ListInv
<1>7. Listed(r) = Listed(s)
    BY <1>2 DEF Listed
<1> QED BY <1>6, <1>7

LEMMA DueIs ==
    ASSUME NEW r \in Seq(Timer), NEW f, f \in [0..Len(r) -> Int], f[0] = 0,
           \A i \in 1..Len(r) : f[i] = f[i - 1] + r[i].time
    PROVE  Due(r) = f
<1>1. Due(r) \in [0..Len(r) -> Nat] /\ Due(r)[0] = 0
    BY DueSums
<1>2. \A i \in 1..Len(r) : Due(r)[i] = Due(r)[i - 1] + r[i].time
    BY DueSums
<1>3. Due(r) \in [0..Len(r) -> Int]
    BY <1>1
<1> QED BY <1>1, <1>2, <1>3, DueUnique

LEMMA RemoveAtShape ==
    ASSUME NEW u \in Seq(Timer), NEW k \in 1..Len(u)
    PROVE  /\ RemoveAt(u, k) \in Seq(Timer)
           /\ Len(RemoveAt(u, k)) = Len(u) - 1
           /\ \A i \in 1..(Len(u) - 1) : RemoveAt(u, k)[i] = IF i < k THEN u[i] ELSE u[i + 1]
<1> DEFINE n == Len(u)
           a == SubSeq(u, 1, k - 1)
           b == SubSeq(u, k + 1, n)
<1>1. n \in Nat /\ \A i \in 1..n : u[i] \in Timer
    BY ListFields
<1>2. RemoveAt(u, k) = a \o b
    BY DEF RemoveAt
<1>3. /\ a \in Seq(Timer) /\ Len(a) = k - 1
      /\ \A i \in 1..(k - 1) : a[i] = u[i]
  <2>1. \A i \in 1..(k - 1) : u[i] \in Timer
      BY <1>1
  <2>2. k - 1 \in Int /\ 1 \in Int
      BY <1>1
  <2>3. /\ SubSeq(u, 1, k - 1) \in Seq(Timer)
        /\ Len(SubSeq(u, 1, k - 1)) = IF 1 <= k - 1 THEN k - 1 - 1 + 1 ELSE 0
        /\ \A i \in 1..(k - 1 - 1 + 1) : SubSeq(u, 1, k - 1)[i] = u[1 + i - 1]
      BY <2>1, <2>2, SubSeqProperties
  <2> QED BY <1>1, <2>3
<1>4. /\ b \in Seq(Timer) /\ Len(b) = n - k
      /\ \A i \in 1..(n - k) : b[i] = u[k + i]
  <2>1. \A i \in (k + 1)..n : u[i] \in Timer
      BY <1>1
  <2>2. k + 1 \in Int /\ n \in Int
      BY <1>1
  <2>3. /\ SubSeq(u, k + 1, n) \in Seq(Timer)
        /\ Len(SubSeq(u, k + 1, n)) = IF k + 1 <= n THEN n - (k + 1) + 1 ELSE 0
        /\ \A i \in 1..(n - (k + 1) + 1) : SubSeq(u, k + 1, n)[i] = u[k + 1 + i - 1]
      BY <2>1, <2>2, SubSeqProperties
  <2> QED BY <1>1, <2>3
<1> HIDE DEF a, b
<1>5. /\ a \o b \in Seq(Timer) /\ Len(a \o b) = Len(a) + Len(b)
      /\ \A i \in 1..(Len(a) + Len(b)) :
            (a \o b)[i] = IF i <= Len(a) THEN a[i] ELSE b[i - Len(a)]
    BY <1>3, <1>4, ConcatProperties
<1>6. Len(a) + Len(b) = n - 1 /\ Len(a) = k - 1
    BY <1>1, <1>3, <1>4
<1>7. ASSUME NEW i \in 1..(n - 1)
      PROVE  (a \o b)[i] = IF i < k THEN u[i] ELSE u[i + 1]
  <2>1. (a \o b)[i] = IF i <= k - 1 THEN a[i] ELSE b[i - (k - 1)]
      BY <1>5, <1>6
  <2>2. CASE i < k
    <3>1. i <= k - 1 /\ i \in 1..(k - 1)
        BY <1>1, <2>2
    <3> QED BY <1>3, <2>1, <2>2, <3>1
  <2>3. CASE ~ (i < k)
    <3>1. PICK j \in 1..(n - k) : j = i - (k - 1)
        BY <1>1, <2>3
    <3>2. ~ (i <= k - 1) /\ k + j = i + 1
        BY <1>1, <2>3, <3>1
    <3> QED BY <1>4, <2>1, <2>3, <3>1, <3>2
  <2> QED BY <2>2, <2>3
<1> QED BY <1>2, <1>5, <1>6, <1>7

\* sys_untimeout leaves every other timer due when it was.
LEMMA UnlinkList ==
    ASSUME NEW s, ListInv(s, 0), NEW k \in 1..Len(s)
    PROVE  /\ ListInv(Unlink(s, k), 0)
           /\ Listed(Unlink(s, k)) = Listed(s) \ {s[k].h}
           /\ Len(Unlink(s, k)) = Len(s) - 1
<1> DEFINE n == Len(s)
           x == s[k + 1].time + s[k].time
           e == [s[k + 1] EXCEPT !.time = x]
           u == IF k < n THEN [s EXCEPT ![k + 1] = e] ELSE s
           r == RemoveAt(u, k)
<1>1. s \in Seq(Timer)
    BY DEF ListInv
<1>2. n \in Nat /\ DOMAIN s = 1..n /\ \A i \in 1..n : s[i] \in Timer /\ s[i].time \in Nat
    BY <1>1, ListFields
<1>3. /\ Due(s) \in [0..n -> Nat] /\ Due(s)[0] = 0
      /\ \A i \in 1..n : Due(s)[i] = Due(s)[i - 1] + s[i].time
    BY <1>1, DueSums
<1>4. ASSUME k < n
      PROVE  /\ e \in Timer /\ e.time = x /\ e.h = s[k + 1].h /\ e.left = s[k + 1].left
             /\ k + 1 \in 1..n
             /\ Due(s)[k + 1] = Due(s)[k - 1] + x
  <2>1. k + 1 \in 1..n /\ k \in 1..n /\ k - 1 \in 0..n
      BY <1>2, <1>4
  <2>2. Due(s)[k] = Due(s)[k - 1] + s[k].time /\ Due(s)[k - 1] \in Nat
      BY <1>3, <2>1
  <2>3. Due(s)[k + 1] = Due(s)[k] + s[k + 1].time
    <3>1. PICK j \in 1..n : j = k + 1
        BY <2>1
    <3>2. Due(s)[j] = Due(s)[j - 1] + s[j].time /\ j - 1 = k
        BY <1>2, <1>3, <3>1
    <3> QED BY <3>1, <3>2
  <2>4. Due(s)[k + 1] <= Longest
      BY <1>2, <2>1 DEF ListInv
  <2>5. s[k].time \in Nat /\ s[k + 1].time \in Nat
      BY <1>2, <2>1
  <2>6. x \in 0..Longest /\ Due(s)[k + 1] = Due(s)[k - 1] + x
    <3>1. \A a, b, c \in Nat : a + b + c = a + (c + b) /\ (a + (c + b) <= Longest => c + b \in 0..Longest)
        BY ONLY LongestDelay
    <3>2. Due(s)[k + 1] = Due(s)[k - 1] + s[k].time + s[k + 1].time
        BY <2>2, <2>3
    <3> QED BY <2>2, <2>4, <2>5, <3>1, <3>2
  <2> QED BY <1>2, <2>1, <2>6, TimerFields DEF Timer
<1>5. Unlink(s, k) = r
    BY <1>4, <1>2 DEF Unlink
<1>6. /\ u \in Seq(Timer) /\ Len(u) = n
      /\ \A i \in 1..n : u[i] = IF i = k + 1 THEN e ELSE s[i]
  <2>1. CASE k < n
    <3> HIDE DEF e
    <3> QED BY <1>1, <1>4, <2>1, ExceptSeq
  <2>2. CASE ~ (k < n)
      BY <1>1, <1>2, <2>2
  <2> QED BY <2>1, <2>2
<1> HIDE DEF u, e, x, n
<1>7. /\ r \in Seq(Timer) /\ Len(r) = n - 1
      /\ \A i \in 1..(n - 1) : r[i] = IF i < k THEN u[i] ELSE u[i + 1]
    BY <1>6, RemoveAtShape, ZenonT(30) DEF n
<1> HIDE DEF r
<1>8. k \in 1..n
    BY DEF n
<1> DEFINE f == [i \in 0..(n - 1) |-> IF i < k THEN Due(s)[i] ELSE Due(s)[i + 1]]
<1>9. f \in [0..(n - 1) -> Int] /\ f[0] = 0
    BY <1>2, <1>3, <1>8
<1>10. ASSUME NEW i \in 1..(n - 1) PROVE f[i] = f[i - 1] + r[i].time
  <2>1. i \in 0..(n - 1) /\ i - 1 \in 0..(n - 1) /\ i \in 1..n /\ i + 1 \in 1..n
      BY <1>2
  <2>2. CASE i < k
    <3>1. f[i] = Due(s)[i] /\ f[i - 1] = Due(s)[i - 1]
        BY <1>8, <2>1, <2>2
    <3>2. r[i] = s[i]
        BY <1>6, <1>7, <1>8, <2>1, <2>2
    <3> HIDE DEF f
    <3> QED BY <1>3, <2>1, <3>1, <3>2
  <2>3. CASE i = k
    <3>1. k < n
        BY <1>2, <2>3
    <3>2. f[i] = Due(s)[k + 1] /\ f[i - 1] = Due(s)[k - 1]
        BY <1>8, <2>1, <2>3
    <3>3. r[i] = e
        BY <1>6, <1>7, <2>1, <2>3
    <3> HIDE DEF f
    <3> QED BY <1>4, <3>1, <3>2, <3>3
  <2>4. CASE i > k
    <3>1. f[i] = Due(s)[i + 1] /\ f[i - 1] = Due(s)[i]
        BY <1>2, <1>8, <2>1, <2>4
    <3>2. PICK j \in 1..n : j = i + 1
        BY <2>1
    <3>3. r[i] = s[j]
        BY <1>6, <1>7, <1>8, <2>1, <2>4, <3>2
    <3>4. Due(s)[j] = Due(s)[j - 1] + s[j].time /\ j - 1 = i
        BY <1>3, <2>1, <3>2
    <3> HIDE DEF f
    <3> QED BY <3>1, <3>2, <3>3, <3>4
  <2> QED BY <1>8, <2>2, <2>3, <2>4
<1>11. Due(r) = f
  <2> HIDE DEF f
  <2> QED BY <1>7, <1>9, <1>10, DueIs
<1>12. ASSUME NEW i \in 1..(k - 1) PROVE r[i] = s[i] /\ Due(r)[i] = Due(s)[i]
  <2>1. i \in 1..(n - 1) /\ i \in 1..n /\ i < k /\ i # k + 1 /\ i \in 0..(n - 1)
      BY <1>2, <1>8
  <2> QED BY <1>6, <1>7, <1>11, <2>1
<1>13. ASSUME NEW i \in k..(n - 1)
       PROVE  /\ r[i].h = s[i + 1].h /\ r[i].left = s[i + 1].left
              /\ Due(r)[i] = Due(s)[i + 1] - 0
  <2>1. i \in 1..(n - 1) /\ i + 1 \in 1..n /\ ~ (i < k) /\ i \in 0..(n - 1) /\ i + 1 \in 0..n
      BY <1>2, <1>8
  <2>2. r[i] = u[i + 1]
      BY <1>7, <2>1
  <2>3. r[i].h = s[i + 1].h /\ r[i].left = s[i + 1].left
    <3>1. CASE i = k
      <4>1. k < n
          BY <1>2, <3>1
      <4> QED BY <1>4, <1>6, <2>1, <2>2, <3>1, <4>1
    <3>2. CASE i # k
      <4>1. i + 1 # k + 1
          BY <1>8, <3>2
      <4> QED BY <1>6, <2>1, <2>2, <4>1
    <3> QED BY <3>1, <3>2
  <2>4. Due(r)[i] = Due(s)[i + 1] /\ Due(s)[i + 1] \in Nat
      BY <1>3, <1>11, <2>1
  <2> QED BY <2>3, <2>4
<1>14. RemovedAt(k, 0, s, r)
    BY <1>7, <1>12, <1>13 DEF RemovedAt, n
<1>15. 0 \in Nat /\ 0 <= 0
    OBVIOUS
<1>16. ListInv(r, 0) /\ Listed(r) = Listed(s) \ {s[k].h}
    BY <1>14, <1>15, RemoveList
<1> QED BY <1>5, <1>7, <1>16 DEF n

\* The first element is taken off when at least its time has been waited: it is
\* really due, and no other one comes closer than the wait was long.
LEMMA TailList ==
    ASSUME NEW s, NEW w \in Nat, ListInv(s, w), s # <<>>, s[1].time <= w
    PROVE  /\ ListInv(Tail(s), 0)
           /\ Listed(Tail(s)) = Listed(s) \ {Head(s).h}
           /\ Len(Tail(s)) = Len(s) - 1
           /\ Head(s) \in Timer /\ Head(s).left = 0 /\ Head(s).h \in Listed(s)
<1> DEFINE n == Len(s)
           r == Tail(s)
           d == s[1].time
<1>1. s \in Seq(Timer)
    BY DEF ListInv
<1>2. n \in Nat /\ DOMAIN s = 1..n /\ \A i \in 1..n : s[i] \in Timer /\ s[i].time \in Nat /\ s[i].left \in Nat
    BY <1>1, ListFields
<1>3. /\ Due(s) \in [0..n -> Nat] /\ Due(s)[0] = 0
      /\ \A i \in 1..n : Due(s)[i] = Due(s)[i - 1] + s[i].time
    BY <1>1, DueSums
<1>4. n >= 1 /\ 1 \in 1..n
  <2>1. n # 0
      BY <1>1, EmptySeq
  <2> QED BY <1>2, <2>1
<1>5. Head(s) = s[1]
    BY <1>1, <1>4
<1>6. /\ r \in Seq(Timer) /\ Len(r) = n - 1
      /\ \A i \in 1..(n - 1) : r[i] = s[i + 1]
    BY <1>1, HeadTailProperties
<1>7. Due(s)[1] = d
  <2>1. 1 \in 1..n /\ 1 - 1 = 0 /\ d \in Nat
      BY <1>2, <1>4
  <2>2. Due(s)[1] = Due(s)[1 - 1] + s[1].time
      BY <1>3, <2>1
  <2> QED BY <1>3, <2>1, <2>2
<1>8. s[1].left = 0
  <2>1. s[1].left = 0 \/ s[1].left + w <= Due(s)[1]
      BY <1>2, <1>4 DEF ListInv
  <2> QED BY <1>2, <1>4, <1>7, <2>1
<1> HIDE DEF r, n
<1> DEFINE f == [i \in 0..(n - 1) |-> Due(s)[i + 1] - d]
<1>9. \A i \in 0..(n - 1) : i + 1 \in 0..n
    BY <1>2
<1>10. d \in Nat
    BY <1>2, <1>4
<1>11. f \in [0..(n - 1) -> Int]
    BY <1>3, <1>9, <1>10
<1>12. f[0] = 0
    BY <1>2, <1>4, <1>7, <1>10
<1>13. ASSUME NEW i \in 1..(n - 1) PROVE f[i] = f[i - 1] + r[i].time
  <2>1. i \in 0..(n - 1) /\ i - 1 \in 0..(n - 1)
      BY <1>2
  <2>2. PICK j \in 1..n : j = i + 1
      BY <1>2
  <2>3. Due(s)[j] = Due(s)[j - 1] + s[j].time /\ j - 1 = i /\ Due(s)[j - 1] \in Nat /\ s[j].time \in Nat
      BY <1>2, <1>3, <2>2
  <2>4. f[i] = Due(s)[j] - d
      BY <2>1, <2>2
  <2>5. f[i - 1] = Due(s)[j - 1] - d
      BY <1>2, <2>1, <2>2
  <2>6. r[i] = s[j]
      BY <1>6, <2>2
  <2> HIDE DEF f
  <2> QED BY <1>10, <2>3, <2>4, <2>5, <2>6
<1>14. Due(r) = f
  <2> HIDE DEF f
  <2> QED BY <1>6, <1>11, <1>12, <1>13, DueIs
<1>15. RemovedAt(1, d, s, r)
  <2>1. \A i \in 1..(n - 1) : /\ r[i].h = s[i + 1].h /\ r[i].left = s[i + 1].left
                              /\ Due(r)[i] = Due(s)[i + 1] - d
    <3> TAKE i \in 1..(n - 1)
    <3>1. i \in 0..(n - 1)
        BY <1>2
    <3> QED BY <1>6, <1>14, <3>1
  <2>2. \A i \in 1..(1 - 1) : FALSE
      OBVIOUS
  <2> QED BY <1>6, <2>1, <2>2 DEF RemovedAt, n
<1>16. 1 \in 1..Len(s)
    BY <1>4 DEF n
<1>17. ListInv(r, 0) /\ Listed(r) = Listed(s) \ {s[1].h}
  <2> HIDE DEF d
  <2>1. d <= w
      BY DEF d
  <2> QED BY <1>10, <1>15, <1>16, <2>1, RemoveList
<1>18. s[1].h \in Listed(s) /\ s[1] \in Timer
    BY <1>2, <1>4 DEF Listed
<1> QED BY <1>5, <1>6, <1>8, <1>17, <1>18 DEF r, n

\* A message ends a wait of w ticks: they are taken off the first element, as far
\* as it has them.
LEMMA AccountList ==
    ASSUME NEW s, NEW w \in Nat, ListInv(s, w), s # <<>>,
           NEW r, r = [s EXCEPT ![1].time = IF w < @ THEN @ - w ELSE 0]
    PROVE  ListInv(r, 0) /\ Listed(r) = Listed(s) /\ Len(r) = Len(s)
<1> DEFINE n == Len(s)
           x == IF w < s[1].time THEN s[1].time - w ELSE 0
           e == [s[1] EXCEPT !.time = x]
           d == s[1].time - x
<1>1. s \in Seq(Timer)
    BY DEF ListInv
<1>2. n \in Nat /\ DOMAIN s = 1..n /\ \A i \in 1..n : s[i] \in Timer /\ s[i].time \in Nat /\ s[i].left \in Nat
    BY <1>1, ListFields
<1>3. /\ Due(s) \in [0..n -> Nat] /\ Due(s)[0] = 0
      /\ \A i \in 1..n : Due(s)[i] = Due(s)[i - 1] + s[i].time
    BY <1>1, DueSums
<1>4. n >= 1 /\ 1 \in 1..n
  <2>1. n # 0
      BY <1>1, EmptySeq
  <2> QED BY <1>2, <2>1
<1>5. s[1] \in Timer /\ s[1].time \in Nat /\ s[1].time <= Longest /\ Longest \in Nat
    BY <1>2, <1>4, TimerFields, LongestDelay
<1>6. x \in 0..Longest /\ d \in Nat /\ d <= w /\ s[1].time = x + d
    BY <1>5
<1>7. e \in Timer /\ e.time = x /\ e.h = s[1].h /\ e.left = s[1].left
    BY <1>5, <1>6, TimerFields DEF Timer
<1>8. r = [s EXCEPT ![1] = e]
    BY <1>4, <1>2
<1> HIDE DEF e, x, d
<1>9. /\ r \in Seq(Timer) /\ Len(r) = n
      /\ \A i \in 1..n : r[i] = IF i = 1 THEN e ELSE s[i]
    BY <1>1, <1>4, <1>7, <1>8, ExceptSeq
<1> HIDE DEF n
<1> DEFINE f == [i \in 0..n |-> IF i = 0 THEN 0 ELSE Due(s)[i] - d]
<1>10. f \in [0..n -> Int] /\ f[0] = 0
    BY <1>2, <1>3, <1>6
<1>11. ASSUME NEW i \in 1..n PROVE f[i] = f[i - 1] + r[i].time
  <2>1. i \in 0..n /\ i - 1 \in 0..n /\ i # 0 /\ Due(s)[i] \in Nat /\ Due(s)[i - 1] \in Nat
      BY <1>2, <1>3
  <2>2. f[i] = Due(s)[i] - d /\ Due(s)[i] = Due(s)[i - 1] + s[i].time /\ s[i].time \in Nat
      BY <1>2, <1>3, <2>1
  <2>3. CASE i = 1
    <3>1. f[i - 1] = 0 /\ Due(s)[i - 1] = 0
        BY <1>3, <1>10, <2>3
    <3>2. r[i].time = x /\ s[i].time = x + d /\ x \in Nat
      <4>1. r[i] = e
          BY <1>9, <2>3
      <4>2. x \in Nat
          BY <1>5, <1>6
      <4> QED BY <1>6, <1>7, <2>3, <4>1, <4>2
    <3> HIDE DEF f
    <3> QED BY <1>6, <2>2, <3>1, <3>2
  <2>4. CASE i # 1
    <3>1. f[i - 1] = Due(s)[i - 1] - d
        BY <2>1, <2>4
    <3>2. r[i] = s[i]
        BY <1>9, <2>4
    <3>3. Due(s)[i] - d = Due(s)[i - 1] - d + s[i].time
        BY <1>6, <2>1, <2>2
    <3>4. f[i] = Due(s)[i] - d
        BY <2>2
    <3> HIDE DEF f
    <3> QED BY <3>1, <3>2, <3>3, <3>4
  <2> QED BY <2>3, <2>4
<1>12. Due(r) = f
  <2> HIDE DEF f
  <2> QED BY <1>9, <1>10, <1>11, DueIs
<1>13. ASSUME NEW i \in 1..n
       PROVE  /\ r[i].h = s[i].h
              /\ Due(r)[i] <= Due(s)[i]
              /\ r[i].left = 0 \/ r[i].left + 0 <= Due(r)[i]
  <2>1. r[i].h = s[i].h /\ r[i].left = s[i].left
      BY <1>7, <1>9
  <2>2. Due(r)[i] = Due(s)[i] - d /\ Due(s)[i] \in Nat /\ s[i].left \in Nat
      BY <1>2, <1>3, <1>12
  <2>3. s[i].left = 0 \/ s[i].left + w <= Due(s)[i]
      BY <1>2 DEF ListInv
  <2> QED BY <1>6, <2>1, <2>2, <2>3
<1>14. ListInv(r, 0) /\ Listed(r) = Listed(s)
  <2>0. PICK v \in Nat : v = 0
      OBVIOUS
  <2>1. r \in Seq(Timer) /\ Len(r) = Len(s)
      BY <1>9 DEF n
  <2>2. \A i \in 1..Len(s) : /\ r[i].h = s[i].h
                             /\ Due(r)[i] <= Due(s)[i]
                             /\ r[i].left = 0 \/ r[i].left + v <= Due(r)[i]
      BY <1>13, <2>0 DEF n
  <2>3. ListInv(r, v) /\ Listed(r) = Listed(s)
      BY ONLY ListInv(s, w), <2>1, <2>2, RetimedList
  <2> QED BY <2>0, <2>3
<1> QED BY <1>9, <1>14 DEF n

\* A tick passes: it is not accounted for yet.
LEMMA TickList ==
    ASSUME NEW s, NEW w \in Nat, NEW v \in {w, w + 1}, ListInv(s, w),
           NEW r, r = [k \in DOMAIN s |-> [s[k] EXCEPT !.left = IF @ > 0 THEN @ - 1 ELSE 0]]
    PROVE  /\ ListInv(r, v) /\ Listed(r) = Listed(s) /\ Len(r) = Len(s)
           /\ \A i \in 1..Len(s) : r[i].time = s[i].time
<1> DEFINE n == Len(s)
<1>1. s \in Seq(Timer)
    BY DEF ListInv
<1>2. n \in Nat /\ DOMAIN s = 1..n /\ \A i \in 1..n : s[i] \in Timer /\ s[i].time \in Nat /\ s[i].left \in Nat
    BY <1>1, ListFields
<1>3. /\ Due(s) \in [0..n -> Nat] /\ Due(s)[0] = 0
      /\ \A i \in 1..n : Due(s)[i] = Due(s)[i - 1] + s[i].time
    BY <1>1, DueSums
<1>4. ASSUME NEW i \in 1..n
      PROVE  /\ r[i] \in Timer /\ r[i].h = s[i].h /\ r[i].time = s[i].time
             /\ r[i].left = IF s[i].left > 0 THEN s[i].left - 1 ELSE 0
  <2>1. r[i] = [s[i] EXCEPT !.left = IF s[i].left > 0 THEN s[i].left - 1 ELSE 0]
      BY <1>2
  <2>2. s[i] \in Timer /\ s[i].left \in 0..Longest /\ Longest \in Nat
      BY <1>2, TimerFields, LongestDelay
  <2>3. (IF s[i].left > 0 THEN s[i].left - 1 ELSE 0) \in 0..Longest
      BY <2>2
  <2> QED BY <2>1, <2>2, <2>3, TimerFields DEF Timer
<1>5. r \in Seq(Timer) /\ Len(r) = n
  <2>1. r \in [1..n -> Timer]
    <3>1. r = [i \in 1..n |-> r[i]]
        BY <1>2
    <3> QED BY <1>4, <3>1
  <2> QED BY <1>2, <2>1, SeqDef
<1> HIDE DEF n
<1>6. Due(r) = Due(s)
  <2>1. Due(s) \in [0..n -> Int]
      BY <1>3
  <2>2. \A i \in 1..n : Due(s)[i] = Due(s)[i - 1] + r[i].time
      BY <1>3, <1>4
  <2> QED BY <1>3, <1>5, <2>1, <2>2, DueIs
<1>7. ASSUME NEW i \in 1..n
      PROVE  /\ r[i].h = s[i].h
             /\ Due(r)[i] <= Due(s)[i]
             /\ r[i].left = 0 \/ r[i].left + v <= Due(r)[i]
  <2>1. Due(s)[i] \in Nat /\ s[i].left \in Nat
      BY <1>2, <1>3
  <2>2. s[i].left = 0 \/ s[i].left + w <= Due(s)[i]
      BY <1>2 DEF ListInv
  <2>3. r[i].h = s[i].h /\ r[i].left = IF s[i].left > 0 THEN s[i].left - 1 ELSE 0
      BY <1>4
  <2>4. r[i].left = 0 \/ r[i].left + v <= Due(s)[i]
    <3>1. CASE s[i].left = 0
        BY <2>3, <3>1
    <3>2. CASE s[i].left # 0
      <4>1. s[i].left + w <= Due(s)[i] /\ r[i].left = s[i].left - 1
          BY <2>1, <2>2, <2>3, <3>2
      <4> QED BY ONLY <2>1, <4>1, w \in Nat, v \in {w, w + 1}
    <3> QED BY <3>1, <3>2
  <2>5. Due(s)[i] <= Due(s)[i]
      BY <2>1
  <2> QED BY <1>6, <2>3, <2>4, <2>5
<1>8. ListInv(r, v) /\ Listed(r) = Listed(s)
    BY <1>5, <1>7, RetimedList DEF n
<1> QED BY <1>4, <1>5, <1>8 DEF n

-----------------------------------------------------------------------------
(***************************************************************************)
(* The pool.                                                               *)
(***************************************************************************)
LEMMA HandlerCount ==
    IsFiniteSet(Handlers) /\ Cardinality(Handlers) \in Nat /\ Cardinality(Handlers) <= Len(Startup) + 3
<1> DEFINE n == Len(Startup)
           f == [i \in 1..n |-> Startup[i]]
           A == Periodic \cup {ARP_TMR}
           B == A \cup {TCP_TMR}
           C == B \cup {User}
<1>1. Startup \in Seq(Periodic) /\ n \in Nat /\ DOMAIN Startup = 1..n
    BY StartupAssumption, LenProperties
<1>2. f \in Surjection(1..n, Periodic)
  <2>1. Periodic = {Startup[i] : i \in 1..n}
      BY <1>1 DEF Periodic, Range
  <2> QED BY <2>1 DEF Surjection
<1>3. IsFiniteSet(1..n) /\ Cardinality(1..n) = n
    BY <1>1, FS_Interval
<1> HIDE DEF f, n
<1>4. IsFiniteSet(Periodic) /\ Cardinality(Periodic) <= n /\ Cardinality(Periodic) \in Nat
    BY <1>2, <1>3, FS_Surjection, FS_CardinalityType
<1>a. ASSUME NEW S, NEW x, NEW m \in Nat,
             IsFiniteSet(S), Cardinality(S) \in Nat, Cardinality(S) <= m
      PROVE  /\ IsFiniteSet(S \cup {x}) /\ Cardinality(S \cup {x}) \in Nat
             /\ Cardinality(S \cup {x}) <= m + 1
  <2>1. /\ IsFiniteSet(S \cup {x})
        /\ Cardinality(S \cup {x}) = IF x \in S THEN Cardinality(S) ELSE Cardinality(S) + 1
      BY <1>a, FS_AddElement
  <2>2. Cardinality(S \cup {x}) = Cardinality(S) \/ Cardinality(S \cup {x}) = Cardinality(S) + 1
      BY <2>1
  <2> QED BY <1>a, <2>1, <2>2
<1>b. n \in Nat
    BY <1>1
<1>5. IsFiniteSet(A) /\ Cardinality(A) \in Nat /\ Cardinality(A) <= n + 1
    BY ONLY <1>a, <1>b, <1>4
<1> HIDE DEF A
<1>6. IsFiniteSet(B) /\ Cardinality(B) \in Nat /\ Cardinality(B) <= n + 2
  <2>1. n + 1 \in Nat /\ n + 1 + 1 = n + 2
      BY ONLY <1>b
  <2>2. IsFiniteSet(B) /\ Cardinality(B) \in Nat /\ Cardinality(B) <= n + 1 + 1
      BY ONLY <1>a, <1>5, <2>1
  <2> QED BY <2>1, <2>2
<1> HIDE DEF B
<1>7. IsFiniteSet(C) /\ Cardinality(C) \in Nat /\ Cardinality(C) <= n + 3
  <2>1. n + 2 \in Nat /\ n + 2 + 1 = n + 3
      BY ONLY <1>b
  <2>2. IsFiniteSet(C) /\ Cardinality(C) \in Nat /\ Cardinality(C) <= n + 2 + 1
      BY ONLY <1>a, <1>6, <2>1
  <2> QED BY <2>1, <2>2
<1>8. Handlers = C
    BY DEF Handlers, A, B
<1> QED BY <1>7, <1>8 DEF n

\* A list in which no handler is twice is as long as the set of its handlers.
LEMMA ListedCount ==
    ASSUME NEW s, NEW w, ListInv(s, w)
    PROVE  /\ Listed(s) \subseteq Handlers
           /\ Cardinality(Listed(s)) = Len(s) /\ IsFiniteSet(Listed(s)) /\ Len(s) \in Nat
<1> DEFINE n == Len(s)
           f == [i \in 1..n |-> s[i].h]
<1>1. s \in Seq(Timer)
    BY DEF ListInv
<1>2. n \in Nat /\ DOMAIN s = 1..n /\ \A i \in 1..n : s[i].h \in Handlers
    BY <1>1, ListFields
<1>3. f \in Bijection(1..n, Listed(s))
  <2>1. f \in [1..n -> Listed(s)] /\ \A x \in Listed(s) : \E i \in 1..n : f[i] = x
      BY <1>2 DEF Listed
  <2>2. \A i, j \in 1..n : f[i] = f[j] => i = j
      BY <1>2 DEF ListInv
  <2> HIDE DEF f
  <2> QED BY <2>1, <2>2 DEF Bijection, Injection, Surjection, IsInjective
<1>4. IsFiniteSet(1..n) /\ Cardinality(1..n) = n
    BY <1>2, FS_Interval
<1>5. ExistsBijection(1..n, Listed(s))
    BY <1>3 DEF ExistsBijection
<1>6. IsFiniteSet(Listed(s)) /\ Cardinality(Listed(s)) = n
    BY <1>4, <1>5, FS_Bijection
<1>7. Listed(s) \subseteq Handlers
    BY <1>2 DEF Listed
<1> QED BY <1>2, <1>6, <1>7

\* Every element of the pool is free, in the list or lost to a sys_timeout
\* that found no list, and ethernetif_init is the only one to lose any.
TimerPool == memp + Len(timeouts) + lost = MEMP_NUM_SYS_TIMEOUT /\ lost <= 1

\* There is an element for every handler that is not armed, even when the one of
\* ethernetif_init was lost, since its timer then never runs.
LEMMA PoolHasRoom ==
    ASSUME NEW w, ListInv(timeouts, w), TimerPool, memp \in Nat, lost \in Nat,
           NEW h \in Handlers, h \notin Listed(timeouts),
           lost = 1 => ARP_TMR \notin Listed(timeouts) \cup {h}
    PROVE  memp > 0
<1> DEFINE L == Listed(timeouts)
           D == Handlers \ {h}
           E == D \ {ARP_TMR}
<1>1. /\ L \subseteq Handlers /\ Cardinality(L) = Len(timeouts) /\ IsFiniteSet(L)
      /\ Len(timeouts) \in Nat
    BY ListedCount
<1>2. /\ IsFiniteSet(Handlers) /\ Cardinality(Handlers) \in Nat
      /\ Cardinality(Handlers) <= Len(Startup) + 3
    BY HandlerCount
<1>3. Len(Startup) \in Nat
    BY StartupAssumption
<1>4. IsFiniteSet(D) /\ Cardinality(D) = Cardinality(Handlers) - 1
    BY <1>2, FS_RemoveElement
<1>5. memp + Len(timeouts) + lost = MEMP_NUM_SYS_TIMEOUT /\ (lost = 0 \/ lost = 1)
    BY <1>1 DEF TimerPool
<1>6. MEMP_NUM_SYS_TIMEOUT >= Len(Startup) + 3 /\ MEMP_NUM_SYS_TIMEOUT \in Nat
    BY PoolAssumption
<1> HIDE DEF L
<1>7. CASE lost = 0
  <2>1. L \subseteq D
      BY <1>1 DEF L
  <2>2. Cardinality(L) <= Cardinality(D)
      BY <1>4, <2>1, FS_Subset
  <2> QED BY <1>1, <1>2, <1>3, <1>4, <1>5, <1>6, <1>7, <2>2
<1>8. CASE lost = 1
  <2>1. ARP_TMR \in D
      BY <1>8 DEF Handlers
  <2>2. L \subseteq E
      BY <1>1, <1>8 DEF L
  <2> HIDE DEF D
  <2>3. IsFiniteSet(E) /\ Cardinality(E) = Cardinality(D) - 1
      BY <1>4, <2>1, FS_RemoveElement
  <2>4. Cardinality(L) <= Cardinality(E)
      BY <2>2, <2>3, FS_Subset
  <2> QED BY <1>1, <1>2, <1>3, <1>4, <1>5, <1>6, <1>8, <2>3, <2>4
<1> QED BY <1>5, <1>7, <1>8

-----------------------------------------------------------------------------
(***************************************************************************)
(* The inductive invariant.                                                *)
(***************************************************************************)
Armed == Listed(timeouts) \cup (IF pc = "handler" THEN {running.h} ELSE {})

\* The ticks of the wait that are not taken off the list yet.
Unaccounted == IF pc \in {"wait", "got", "timeout"} THEN waited ELSE 0

StartInv ==
    /\ s_timeoutlist = {"tcpip_thread"}
    /\ pc \in {"ethif", "netif"} => timeouts = <<>> /\ lost = 0 /\ started = 0
    /\ pc \notin {"ethif", "netif", "start"} =>
         pxCurrentTCB = "tcpip_thread" /\ started = Len(Startup)

WaitInv ==
    /\ pc \in {"wait", "got"} => (forever <=> timeouts = <<>>)
    /\ pc = "timeout" => timeouts # <<>> /\ waited >= timeouts[1].time

ArmedInv ==
    /\ pc = "handler" => running.h \notin Listed(timeouts)
    /\ tcp_pcbs => tcpip_tcp_timer_active
    /\ tcpip_tcp_timer_active <=> TCP_TMR \in Armed
    /\ \A i \in 1..Len(Startup) : Startup[i] \in Armed <=> i <= started
    /\ lost = 1 => ARP_TMR \notin Armed

IInv ==
    /\ TypeOK
    /\ TimerPool
    /\ NeverEarly
    /\ ListInv(timeouts, Unaccounted)
    /\ StartInv
    /\ WaitInv
    /\ ArmedInv

-----------------------------------------------------------------------------
\* sys_timeout finds an element and a list, and arms the timer.
LEMMA SysTimeoutArms ==
    ASSUME TypeOK, TimerPool, ListInv(timeouts, 0), sys_arch_timeouts,
           NEW h \in Handlers, h \notin Listed(timeouts),
           lost = 1 => ARP_TMR \notin Listed(timeouts) \cup {h},
           NEW msecs \in 0..Longest, sys_timeout(h, msecs)
    PROVE  /\ ListInv(timeouts', 0)
           /\ Listed(timeouts') = Listed(timeouts) \cup {h}
           /\ memp' \in 0..MEMP_NUM_SYS_TIMEOUT
           /\ lost' = lost
           /\ TimerPool'
<1>1. memp \in 0..MEMP_NUM_SYS_TIMEOUT /\ lost \in 0..MEMP_NUM_SYS_TIMEOUT
    BY DEF TypeOK
<1>2. MEMP_NUM_SYS_TIMEOUT \in Nat
    BY PoolAssumption
<1>3. memp \in Nat /\ lost \in Nat
    BY <1>1, <1>2
<1>4. memp > 0
    BY <1>3, PoolHasRoom
<1>5. memp' = memp - 1 /\ timeouts' = Insert(timeouts, h, msecs) /\ lost' = lost
    BY <1>3, <1>4 DEF sys_timeout
<1>6. /\ ListInv(timeouts', 0) /\ Listed(timeouts') = Listed(timeouts) \cup {h}
      /\ Len(timeouts') = Len(timeouts) + 1
    BY <1>5, InsertList
<1>7. Len(timeouts) \in Nat
    BY ListedCount
<1>8. memp' \in 0..MEMP_NUM_SYS_TIMEOUT
    BY <1>1, <1>2, <1>4, <1>5
<1>9. memp + Len(timeouts) + lost = MEMP_NUM_SYS_TIMEOUT /\ lost <= 1
    BY DEF TimerPool
<1>10. memp' + Len(timeouts') + lost' = MEMP_NUM_SYS_TIMEOUT
    BY <1>3, <1>5, <1>6, <1>7, <1>9
<1>11. TimerPool'
    BY <1>5, <1>9, <1>10 DEF TimerPool
<1> QED BY <1>5, <1>6, <1>8, <1>11

\* sys_untimeout takes the timer off the list, if it is there.
LEMMA SysUntimeoutDisarms ==
    ASSUME TypeOK, TimerPool, ListInv(timeouts, 0), NEW h, sys_untimeout(h)
    PROVE  /\ ListInv(timeouts', 0)
           /\ Listed(timeouts') = Listed(timeouts) \ {h}
           /\ memp' \in 0..MEMP_NUM_SYS_TIMEOUT
           /\ lost' = lost
           /\ TimerPool'
<1> DEFINE M == {k \in DOMAIN timeouts : timeouts[k].h = h}
<1>1. memp \in 0..MEMP_NUM_SYS_TIMEOUT /\ lost \in 0..MEMP_NUM_SYS_TIMEOUT
    BY DEF TypeOK
<1>2. MEMP_NUM_SYS_TIMEOUT \in Nat
    BY PoolAssumption
<1>3. Len(timeouts) \in Nat /\ DOMAIN timeouts = 1..Len(timeouts)
    BY ListFields DEF ListInv
<1>4. memp + Len(timeouts) + lost = MEMP_NUM_SYS_TIMEOUT /\ lost <= 1
    BY DEF TimerPool
<1>5. CASE M = {}
  <2>1. timeouts' = timeouts /\ memp' = memp /\ lost' = lost
      BY <1>5 DEF sys_untimeout, list
  <2>2. h \notin Listed(timeouts)
      BY <1>5 DEF Listed
  <2>3. Listed(timeouts') = Listed(timeouts) \ {h}
      BY <2>1, <2>2
  <2>4. TimerPool'
      BY <1>4, <2>1 DEF TimerPool
  <2> QED BY <1>1, <2>1, <2>3, <2>4
<1>6. CASE M # {}
  <2> DEFINE k == Min(M)
  <2>1. timeouts' = Unlink(timeouts, k) /\ memp' = memp + 1 /\ lost' = lost
      BY <1>6 DEF sys_untimeout
  <2>2. M \in SUBSET Nat
      BY <1>3
  <2>3. k \in M
    <3> HIDE DEF M
    <3>1. \E x \in M : \A y \in M : x <= y
        BY <1>6, <2>2, LeastNumber
    <3> QED BY <3>1 DEF Min
  <2> HIDE DEF k
  <2>4. k \in 1..Len(timeouts) /\ timeouts[k].h = h
      BY <1>3, <2>3
  <2>5. /\ ListInv(timeouts', 0) /\ Listed(timeouts') = Listed(timeouts) \ {h}
        /\ Len(timeouts') = Len(timeouts) - 1
      BY <2>1, <2>4, UnlinkList
  <2>6. memp' + Len(timeouts') + lost' = MEMP_NUM_SYS_TIMEOUT
      BY <1>1, <1>2, <1>3, <1>4, <2>1, <2>5
  <2>7. memp' \in 0..MEMP_NUM_SYS_TIMEOUT
      BY <1>1, <1>2, <1>3, <1>4, <2>1, <2>4
  <2>8. TimerPool'
      BY <1>4, <2>1, <2>6 DEF TimerPool
  <2> QED BY <2>1, <2>5, <2>7, <2>8
<1> QED BY <1>5, <1>6

-----------------------------------------------------------------------------
LEMMA InitInv == Init => IInv
<1> SUFFICES ASSUME Init PROVE IInv
    OBVIOUS
<1> USE DEF Init
<1>1. /\ MEMP_NUM_SYS_TIMEOUT \in Nat /\ Longest \in Nat /\ Len(Startup) \in Nat
      /\ Startup \in Seq(Periodic) /\ MaxMsgs \in Nat
    BY PoolAssumption, LongestDelay, StartupAssumption, UserAssumption
<1>2. <<>> \in Seq(Timer) /\ DOMAIN <<>> = {} /\ Len(<<>>) = 0
    OBVIOUS
<1>3. running \in Timer
    BY <1>1 DEF Timer, Handlers
<1>4. TypeOK
  <2>1. timeouts \in Seq(Timer)
      BY <1>2
  <2>2. memp \in 0..MEMP_NUM_SYS_TIMEOUT /\ lost \in 0..MEMP_NUM_SYS_TIMEOUT
      BY <1>1
  <2>3. started \in 0..Len(Startup) /\ waited \in 0..Longest /\ msgs \in 0..MaxMsgs
      BY <1>1
  <2>4. /\ pc \in PC /\ s_timeoutlist \subseteq {"tcpip_thread"}
        /\ pxCurrentTCB \in {"tcpip_thread", "Eth_if"}
        /\ forever \in BOOLEAN /\ tcp_pcbs \in BOOLEAN /\ tcpip_tcp_timer_active \in BOOLEAN
      BY DEF PC
  <2> QED BY <1>3, <2>1, <2>2, <2>3, <2>4, Zenon DEF TypeOK
<1>5. TimerPool
    BY <1>1, <1>2 DEF TimerPool
<1>6. NeverEarly
    BY DEF NeverEarly
<1>7. ListInv(timeouts, Unaccounted)
    BY <1>2 DEF ListInv
<1>8. Listed(timeouts) = {}
    BY <1>2 DEF Listed
<1>9. Armed = {}
    BY <1>8 DEF Armed
<1>10. StartInv /\ WaitInv
    BY DEF StartInv, WaitInv
<1>11. ArmedInv
    BY <1>1, <1>8, <1>9 DEF ArmedInv
<1> QED BY <1>4, <1>5, <1>6, <1>7, <1>10, <1>11 DEF IInv

\* What TypeOK says of the variables, unprimed and unfolded.
LEMMA Types ==
    ASSUME IInv
    PROVE  /\ timeouts \in Seq(Timer) /\ Len(timeouts) \in Nat
           /\ memp \in Nat /\ memp <= MEMP_NUM_SYS_TIMEOUT /\ MEMP_NUM_SYS_TIMEOUT \in Nat
           /\ lost \in Nat
           /\ started \in 0..Len(Startup) /\ Len(Startup) \in Nat
           /\ forever \in BOOLEAN
           /\ waited \in Nat /\ waited <= Longest /\ Longest \in Nat
           /\ running \in Timer
           /\ Unaccounted \in Nat
           /\ \A i \in 1..Len(Startup) : Startup[i] \in Periodic
<1>1. MEMP_NUM_SYS_TIMEOUT \in Nat /\ Longest \in Nat /\ Startup \in Seq(Periodic)
    BY PoolAssumption, LongestDelay, StartupAssumption
<1>2. Len(Startup) \in Nat /\ \A i \in 1..Len(Startup) : Startup[i] \in Periodic
    BY <1>1, LenProperties, ElementOfSeq
<1>3. TypeOK
    BY DEF IInv
<1>4. /\ timeouts \in Seq(Timer) /\ memp \in Nat /\ memp <= MEMP_NUM_SYS_TIMEOUT /\ lost \in Nat
      /\ started \in 0..Len(Startup) /\ forever \in BOOLEAN
      /\ waited \in Nat /\ waited <= Longest /\ running \in Timer
    BY <1>1, <1>3 DEF TypeOK
<1>5. Len(timeouts) \in Nat
    BY <1>4, ListFields
<1>6. Unaccounted \in Nat
    BY <1>4 DEF Unaccounted
<1> QED BY <1>1, <1>2, <1>4, <1>5, <1>6

\* The steps that leave the list, the pool and the timers' flags alone.
LEMMA QuietStep ==
    ASSUME IInv, UNCHANGED <<list, tcp, started, running, s_timeoutlist>>,
           pc # "handler", pc' # "handler", pc' \in PC,
           pxCurrentTCB' \in {"tcpip_thread", "Eth_if"},
           forever' \in BOOLEAN, waited' \in 0..Longest, msgs' \in 0..MaxMsgs,
           Unaccounted' = Unaccounted, StartInv', WaitInv'
    PROVE  IInv'
<1> USE DEF list, tcp
<1>1. TypeOK'
    BY DEF TypeOK, IInv
<1>2. TimerPool'
    BY DEF TimerPool, IInv
<1>3. NeverEarly'
    BY DEF NeverEarly
<1>4. ListInv(timeouts', Unaccounted')
    BY DEF IInv
<1>5. Armed' = Armed
    BY DEF Armed
<1>6. ArmedInv'
    BY <1>5 DEF ArmedInv, IInv
<1> QED BY <1>1, <1>2, <1>3, <1>4, <1>6 DEF IInv

LEMMA QuietActions ==
    ASSUME IInv,
           \/ low_level_init \/ Scheduled \/ Fetch \/ TimedOut \/ Received
           \/ ThreadStart /\ ~ (started < Len(Startup))
    PROVE  IInv'
<1> USE DEF list, tcp, table
<1>1. /\ timeouts \in Seq(Timer) /\ waited \in 0..Longest /\ msgs \in 0..MaxMsgs /\ MaxMsgs \in Nat
      /\ Longest \in Nat /\ started \in 0..Len(Startup) /\ Len(Startup) \in Nat
      /\ pc \in PC /\ forever \in BOOLEAN /\ pxCurrentTCB \in {"tcpip_thread", "Eth_if"}
    BY Types, UserAssumption DEF IInv, TypeOK
<1>2. StartInv /\ WaitInv
    BY DEF IInv
<1>3. CASE low_level_init
  <2> USE <1>3 DEF low_level_init
  <2>1. StartInv' /\ WaitInv' /\ Unaccounted' = Unaccounted /\ pc' \in PC
      BY <1>2 DEF StartInv, WaitInv, Unaccounted, PC
  <2> QED BY <1>1, <2>1, QuietStep
<1>4. CASE Scheduled
  <2> USE <1>4 DEF Scheduled
  <2>1. StartInv' /\ WaitInv' /\ Unaccounted' = Unaccounted /\ pc' \in PC
      BY <1>2 DEF StartInv, WaitInv, Unaccounted, PC
  <2> QED BY <1>1, <2>1, QuietStep
<1>5. CASE ThreadStart /\ ~ (started < Len(Startup))
  <2> USE <1>5 DEF ThreadStart
  <2>1. started = Len(Startup)
      BY <1>1
  <2>2. StartInv' /\ WaitInv' /\ Unaccounted' = Unaccounted /\ pc' \in PC
      BY <1>2, <2>1 DEF StartInv, WaitInv, Unaccounted, PC
  <2> QED BY <1>1, <2>2, QuietStep
<1>6. CASE Fetch
  <2> USE <1>6 DEF Fetch
  <2>1. pc = "again" /\ waited' = 0 /\ sys_arch_timeouts
      BY <1>2 DEF StartInv, sys_arch_timeouts
  <2>2. forever' \in BOOLEAN /\ (forever' <=> timeouts = <<>>)
      BY <2>1
  <2>3. pc' \in {"timeout", "wait"} /\ (pc' = "timeout" => ~forever' /\ timeouts[1].time = 0)
      BY <2>1
  <2>4. Unaccounted' = Unaccounted /\ pc' \in PC
      BY <2>1, <2>3 DEF Unaccounted, PC
  <2>5. WaitInv'
      BY <2>1, <2>2, <2>3 DEF WaitInv
  <2>6. StartInv'
      BY <1>2, <2>1, <2>3 DEF StartInv
  <2>7. waited' \in 0..Longest
      BY <1>1, <2>1
  <2> QED BY <1>1, <2>1, <2>2, <2>3, <2>4, <2>5, <2>6, <2>7, QuietStep
<1>7. CASE TimedOut
  <2> USE <1>7 DEF TimedOut
  <2>1. StartInv' /\ WaitInv' /\ Unaccounted' = Unaccounted /\ pc' \in PC
      BY <1>2 DEF StartInv, WaitInv, Unaccounted, PC
  <2> QED BY <1>1, <2>1, QuietStep
<1>8. CASE Received
  <2> USE <1>8 DEF Received
  <2>1. StartInv' /\ WaitInv' /\ Unaccounted' = Unaccounted /\ pc' \in PC
      BY <1>2 DEF StartInv, WaitInv, Unaccounted, PC
  <2>2. msgs' \in 0..MaxMsgs
      BY <1>1
  <2> QED BY <1>1, <2>1, <2>2, QuietStep
<1> QED BY <1>3, <1>4, <1>5, <1>6, <1>7, <1>8

LEMMA AccountStep ==
    ASSUME IInv, Account
    PROVE  IInv'
<1> USE DEF Account, tcp, table
<1>1. /\ pc = "got" /\ pc' = "msg" /\ Unaccounted = waited /\ Unaccounted' = 0 /\ waited \in Nat
      /\ forever \in BOOLEAN
    BY Types DEF Unaccounted
<1>2. ListInv(timeouts, waited) /\ (forever <=> timeouts = <<>>)
    BY <1>1 DEF IInv, WaitInv
<1>3. ListInv(timeouts', 0) /\ Listed(timeouts') = Listed(timeouts) /\ Len(timeouts') = Len(timeouts)
  <2>1. CASE forever
    <3>1. timeouts' = timeouts /\ timeouts = <<>>
        BY <1>2, <2>1
    <3>2. DOMAIN timeouts = {} /\ timeouts \in Seq(Timer)
        BY <3>1, Types
    <3>3. ListInv(timeouts, 0)
        BY <3>2 DEF ListInv
    <3> QED BY <3>1, <3>3
  <2>2. CASE ~forever
    <3>1. timeouts # <<>>
        BY <1>2, <2>2
    <3>2. timeouts' = [timeouts EXCEPT ![1].time = IF waited < @ THEN @ - waited ELSE 0]
        BY <2>2
    <3> QED BY <1>1, <1>2, <3>1, <3>2, AccountList
  <2> QED BY <2>1, <2>2
<1>4. TypeOK'
    BY <1>1, <1>3 DEF IInv, TypeOK, ListInv, PC
<1>5. TimerPool' /\ NeverEarly'
    BY <1>1, <1>3 DEF IInv, TimerPool, NeverEarly
<1>6. StartInv' /\ WaitInv'
    BY <1>1 DEF IInv, StartInv, WaitInv
<1>7. Armed' = Armed
    BY <1>1, <1>3 DEF Armed
<1>8. ArmedInv'
    BY <1>1, <1>7 DEF ArmedInv, IInv
<1> QED BY <1>1, <1>3, <1>4, <1>5, <1>6, <1>8 DEF IInv

LEMMA UnlinkFirstStep ==
    ASSUME IInv, UnlinkFirst
    PROVE  IInv'
<1> USE DEF UnlinkFirst, tcp, table
<1>1. /\ pc = "timeout" /\ pc' = "handler" /\ Unaccounted = waited /\ Unaccounted' = 0
      /\ waited \in Nat
    BY Types DEF Unaccounted
<1>2. ListInv(timeouts, waited) /\ timeouts # <<>> /\ waited >= timeouts[1].time
    BY <1>1 DEF IInv, WaitInv
<1>3. timeouts[1].time \in Nat
  <2>1. Len(timeouts) # 0
      BY <1>2, Types, EmptySeq
  <2> QED BY <2>1, Types, ListFields
<1>4. /\ ListInv(timeouts', 0) /\ Listed(timeouts') = Listed(timeouts) \ {running'.h}
      /\ Len(timeouts') = Len(timeouts) - 1
      /\ running' \in Timer /\ running'.left = 0 /\ running'.h \in Listed(timeouts)
  <2>1. timeouts[1].time <= waited
      BY <1>1, <1>2, <1>3
  <2> QED BY <1>1, <1>2, <2>1, TailList
<1>5. memp' = memp + 1 /\ lost' = lost
    OBVIOUS
<1>6. memp + Len(timeouts) + lost = MEMP_NUM_SYS_TIMEOUT /\ lost <= 1
    BY DEF IInv, TimerPool
<1>7. TimerPool'
  <2>1. memp \in Nat /\ lost \in Nat /\ Len(timeouts) \in Nat
      BY Types
  <2>2. memp' + Len(timeouts') + lost' = MEMP_NUM_SYS_TIMEOUT
      BY ONLY <1>4, <1>5, <1>6, <2>1
  <2> QED BY <1>5, <1>6, <2>2 DEF TimerPool
<1>8. memp' \in 0..MEMP_NUM_SYS_TIMEOUT
  <2>1. Len(timeouts') \in Nat
      BY <1>4, ListedCount
  <2> QED BY <1>4, <1>5, <1>6, <2>1, Types, SMTT(30)
<1>9. TypeOK'
    BY <1>1, <1>4, <1>8 DEF IInv, TypeOK, ListInv, PC
<1>10. NeverEarly'
    BY <1>4 DEF NeverEarly
<1>11. StartInv' /\ WaitInv'
    BY <1>1 DEF IInv, StartInv, WaitInv
<1>12. Armed' = Armed
    BY <1>1, <1>4 DEF Armed
<1>13. ArmedInv'
    BY <1>1, <1>4, <1>12 DEF ArmedInv, IInv
<1> QED BY <1>1, <1>4, <1>7, <1>9, <1>10, <1>11, <1>13 DEF IInv

LEMMA TickStep ==
    ASSUME IInv, Tick
    PROVE  IInv'
<1> USE DEF Tick, tcp, table
<1>1. pc' = pc /\ waited \in Nat /\ waited <= Longest /\ Longest \in Nat /\ timeouts \in Seq(Timer)
    BY Types
<1>2. waited' \in 0..Longest /\ waited' >= waited /\ (pc = "timeout" => waited' = waited)
    BY <1>1
<1>3. Unaccounted \in Nat /\ Unaccounted' \in {Unaccounted, Unaccounted + 1}
    BY <1>1, Types DEF Unaccounted
<1>4. /\ ListInv(timeouts', Unaccounted') /\ Listed(timeouts') = Listed(timeouts)
      /\ Len(timeouts') = Len(timeouts)
      /\ \A i \in 1..Len(timeouts) : timeouts'[i].time = timeouts[i].time
    BY <1>3, TickList DEF IInv
<1>5. TypeOK'
    BY <1>1, <1>2, <1>4 DEF IInv, TypeOK, ListInv
<1>6. TimerPool' /\ NeverEarly'
    BY <1>1, <1>4 DEF IInv, TimerPool, NeverEarly
<1>7. timeouts' = <<>> <=> timeouts = <<>>
  <2>1. timeouts' \in Seq(Timer)
      BY <1>4 DEF ListInv
  <2> QED BY <1>1, <1>4, <2>1, EmptySeq
<1>8. WaitInv'
  <2>1. pc \in {"wait", "got"} => (forever <=> timeouts = <<>>)
      BY DEF IInv, WaitInv
  <2>2. ASSUME pc = "timeout"
        PROVE  timeouts' # <<>> /\ waited' >= timeouts'[1].time
    <3>1. timeouts # <<>> /\ waited >= timeouts[1].time
        BY <2>2 DEF IInv, WaitInv
    <3>2. 1 \in 1..Len(timeouts)
        BY <1>1, <3>1, EmptySeq
    <3> QED BY <1>2, <1>4, <1>7, <2>2, <3>1, <3>2
  <2> QED BY <1>1, <1>7, <2>1, <2>2 DEF WaitInv
<1>9. StartInv'
    BY DEF IInv, StartInv
<1>10. Armed' = Armed
    BY <1>1, <1>4 DEF Armed
<1>11. ArmedInv'
    BY <1>1, <1>4, <1>10 DEF ArmedInv, IInv
<1> QED BY <1>4, <1>5, <1>6, <1>8, <1>9, <1>11 DEF IInv

\* The steps in which the thread arms or cancels timers.
LEMMA BusyStep ==
    ASSUME IInv, ListInv(timeouts', 0), TimerPool', memp' \in 0..MEMP_NUM_SYS_TIMEOUT,
           lost' \in 0..MEMP_NUM_SYS_TIMEOUT,
           pc' \in {"start", "again"},
           started' \in 0..Len(Startup), StartInv',
           tcp_pcbs' \in BOOLEAN, tcpip_tcp_timer_active' \in BOOLEAN,
           tcp_pcbs' => tcpip_tcp_timer_active',
           tcpip_tcp_timer_active' <=> TCP_TMR \in Listed(timeouts'),
           \A i \in 1..Len(Startup) : Startup[i] \in Listed(timeouts') <=> i <= started',
           lost' = 1 => ARP_TMR \notin Listed(timeouts'),
           UNCHANGED <<table, forever, waited, running, msgs>>
    PROVE  IInv'
<1> USE DEF table
<1>1. TypeOK'
    BY DEF IInv, TypeOK, ListInv, PC
<1>2. Unaccounted' = 0 /\ NeverEarly' /\ WaitInv'
    BY DEF Unaccounted, NeverEarly, WaitInv
<1>3. Armed' = Listed(timeouts')
    BY DEF Armed
<1>4. ArmedInv'
    BY <1>3 DEF ArmedInv
<1> QED BY <1>1, <1>2, <1>4 DEF IInv

LEMMA EthernetifInitStep ==
    ASSUME IInv, ethernetif_init
    PROVE  IInv'
<1> USE DEF ethernetif_init, tcp, table
<1>1. /\ pc = "netif" /\ pc' = "start" /\ Unaccounted = 0 /\ Unaccounted \in Nat
      /\ timeouts = <<>> /\ lost = 0 /\ started = 0 /\ started' = 0
    BY Types DEF Unaccounted, IInv, StartInv
<1>2. ListInv(timeouts, 0) /\ TypeOK /\ TimerPool
    BY <1>1 DEF IInv
<1>3. Listed(timeouts) = {} /\ Armed = {}
    BY <1>1 DEF Listed, Armed
<1>4. /\ tcpip_tcp_timer_active = FALSE /\ tcp_pcbs = FALSE
      /\ tcpip_tcp_timer_active' = FALSE /\ tcp_pcbs' = FALSE
    BY <1>3 DEF IInv, ArmedInv, TypeOK
<1>5. Interval[ARP_TMR] \in 0..Longest /\ ARP_TMR \in Handlers
    BY LongestDelay DEF Handlers
<1>6. MEMP_NUM_SYS_TIMEOUT \in Nat /\ MEMP_NUM_SYS_TIMEOUT >= 3 /\ Len(Startup) \in Nat
    BY PoolAssumption, Types
<1>7. \A i \in 1..Len(Startup) : Startup[i] # ARP_TMR /\ ~ (i <= 0)
    BY Types, StartupAssumption
<1>8. ARP_TMR # TCP_TMR
    BY DEF ARP_TMR, TCP_TMR
<1>9. StartInv'
    BY <1>1 DEF StartInv, IInv
<1>10. CASE sys_arch_timeouts
  <2>1. /\ ListInv(timeouts', 0) /\ Listed(timeouts') = Listed(timeouts) \cup {ARP_TMR}
        /\ memp' \in 0..MEMP_NUM_SYS_TIMEOUT /\ lost' = lost /\ TimerPool'
      BY <1>1, <1>2, <1>3, <1>5, <1>10, SysTimeoutArms
  <2>2. Listed(timeouts') = {ARP_TMR}
      BY <1>3, <2>1
  <2>3. lost' \in 0..MEMP_NUM_SYS_TIMEOUT /\ lost' = 0
      BY <1>1, <1>6, <2>1
  <2>4. started' \in 0..Len(Startup)
      BY <1>1, <1>6
  <2>5. \A i \in 1..Len(Startup) : Startup[i] \in Listed(timeouts') <=> i <= started'
      BY <1>1, <1>7, <2>2
  <2>6. lost' = 1 => ARP_TMR \notin Listed(timeouts')
      BY <2>3
  <2>7. /\ tcp_pcbs' \in BOOLEAN /\ tcpip_tcp_timer_active' \in BOOLEAN
        /\ tcp_pcbs' => tcpip_tcp_timer_active'
        /\ tcpip_tcp_timer_active' <=> TCP_TMR \in Listed(timeouts')
      BY <1>4, <1>8, <2>2
  <2> QED BY <1>1, <1>9, <2>1, <2>3, <2>4, <2>5, <2>6, <2>7, BusyStep
<1>11. CASE ~sys_arch_timeouts
  <2>1. memp = MEMP_NUM_SYS_TIMEOUT
    <3>1. Len(timeouts) = 0
        BY <1>1
    <3> QED BY <1>1, <1>2, <3>1, Types DEF TimerPool
  <2>2. memp' = memp - 1 /\ lost' = 1 /\ timeouts' = timeouts
      BY <1>1, <1>6, <1>11, <2>1 DEF sys_timeout
  <2>3. memp' \in 0..MEMP_NUM_SYS_TIMEOUT /\ lost' \in 0..MEMP_NUM_SYS_TIMEOUT
      BY <1>6, <2>1, <2>2
  <2>4. TimerPool'
    <3>1. Len(timeouts') = 0
        BY <1>1, <2>2
    <3> QED BY <1>6, <2>1, <2>2, <3>1 DEF TimerPool
  <2>5. Listed(timeouts') = {} /\ ListInv(timeouts', 0)
      BY <1>2, <1>3, <2>2
  <2>6. started' \in 0..Len(Startup)
      BY <1>1, <1>6
  <2>7. \A i \in 1..Len(Startup) : Startup[i] \in Listed(timeouts') <=> i <= started'
      BY <1>1, <1>7, <2>5
  <2> QED BY <1>1, <1>4, <1>9, <2>3, <2>4, <2>5, <2>6, <2>7, BusyStep
<1> QED BY <1>10, <1>11

LEMMA ThreadStartStep ==
    ASSUME IInv, ThreadStart, started < Len(Startup)
    PROVE  IInv'
<1> USE DEF ThreadStart, tcp, table
<1> DEFINE n == started + 1
           h == Startup[n]
<1>1. /\ pc = "start" /\ pc' = "start" /\ Unaccounted = 0 /\ started' = n
      /\ sys_timeout(h, Interval[h])
    BY DEF Unaccounted
<1>2. n \in 1..Len(Startup) /\ n \in 0..Len(Startup) /\ started \in Nat /\ Len(Startup) \in Nat
    BY Types
<1>3. /\ h \in Periodic /\ h \in Handlers /\ Interval[h] \in 0..Longest
      /\ h # ARP_TMR /\ h # TCP_TMR
    BY <1>2, Types, StartupAssumption, LongestDelay DEF Handlers
<1>4. ListInv(timeouts, 0) /\ TypeOK /\ TimerPool /\ StartInv /\ ArmedInv
    BY <1>1 DEF IInv
<1>5. sys_arch_timeouts
    BY <1>4 DEF StartInv, sys_arch_timeouts
<1>6. Armed = Listed(timeouts)
    BY <1>1 DEF Armed
<1>7. h \notin Listed(timeouts)
    BY <1>2, <1>4, <1>6 DEF ArmedInv
<1>8. lost = 1 => ARP_TMR \notin Listed(timeouts)
    BY <1>4, <1>6 DEF ArmedInv
<1> HIDE DEF h
<1>9. /\ ListInv(timeouts', 0) /\ Listed(timeouts') = Listed(timeouts) \cup {h}
      /\ memp' \in 0..MEMP_NUM_SYS_TIMEOUT /\ lost' = lost /\ TimerPool'
    BY <1>1, <1>3, <1>4, <1>5, <1>7, <1>8, SysTimeoutArms
<1>10. \A i \in 1..Len(Startup) : Startup[i] \in Listed(timeouts') <=> i <= started'
  <2> TAKE i \in 1..Len(Startup)
  <2>1. Startup[i] \in Listed(timeouts) <=> i <= started
      BY <1>4, <1>6 DEF ArmedInv
  <2>2. Startup[i] = h <=> i = n
      BY <1>2, StartupAssumption DEF h
  <2>3. i <= n <=> i <= started \/ i = n
      BY <1>2
  <2> QED BY <1>1, <1>9, <2>1, <2>2, <2>3
<1>11. StartInv'
    BY <1>1, <1>4 DEF StartInv
<1>12. /\ tcp_pcbs' \in BOOLEAN /\ tcpip_tcp_timer_active' \in BOOLEAN
       /\ tcp_pcbs' => tcpip_tcp_timer_active'
       /\ tcpip_tcp_timer_active' <=> TCP_TMR \in Listed(timeouts')
    BY <1>3, <1>4, <1>6, <1>9 DEF ArmedInv, TypeOK
<1>13. lost' = 1 => ARP_TMR \notin Listed(timeouts')
    BY <1>3, <1>8, <1>9
<1>14. lost' \in 0..MEMP_NUM_SYS_TIMEOUT
    BY <1>4, <1>9 DEF TypeOK
<1> QED BY <1>1, <1>2, <1>9, <1>10, <1>11, <1>12, <1>13, <1>14, BusyStep

LEMMA HandlerStep ==
    ASSUME IInv, Handler
    PROVE  IInv'
<1> USE DEF tcp, table, list
<1>1. /\ pc = "handler" /\ pc' = "again" /\ Unaccounted = 0
      /\ UNCHANGED <<table, started, forever, waited, running, msgs>>
    BY DEF Unaccounted, Handler
<1>2. ListInv(timeouts, 0) /\ TypeOK /\ TimerPool /\ StartInv /\ ArmedInv
    BY <1>1 DEF IInv
<1>3. sys_arch_timeouts /\ StartInv'
    BY <1>1, <1>2 DEF StartInv, sys_arch_timeouts
<1> DEFINE h == running.h
<1>4. h \notin Listed(timeouts) /\ Armed = Listed(timeouts) \cup {h}
    BY <1>1, <1>2 DEF ArmedInv, Armed
<1>5. lost = 1 => ARP_TMR \notin Listed(timeouts) \cup {h}
    BY <1>2, <1>4 DEF ArmedInv
<1>6. /\ tcp_pcbs \in BOOLEAN /\ tcpip_tcp_timer_active \in BOOLEAN
      /\ tcp_pcbs => tcpip_tcp_timer_active
      /\ tcpip_tcp_timer_active <=> TCP_TMR \in Listed(timeouts) \cup {h}
      /\ \A i \in 1..Len(Startup) : Startup[i] \in Listed(timeouts) \cup {h} <=> i <= started
    BY <1>2, <1>4 DEF TypeOK, ArmedInv
<1>7. started' \in 0..Len(Startup) /\ lost \in 0..MEMP_NUM_SYS_TIMEOUT /\ memp \in 0..MEMP_NUM_SYS_TIMEOUT
    BY <1>1, <1>2 DEF TypeOK
<1>8. \A i \in 1..Len(Startup) : Startup[i] # TCP_TMR /\ Startup[i] # User
    BY Types, StartupAssumption
<1>9. h \in Handlers
    BY Types, TimerFields
<1>10. User # TCP_TMR /\ User # ARP_TMR /\ ARP_TMR # TCP_TMR
       /\ User \notin Periodic /\ TCP_TMR \notin Periodic
    BY StartupAssumption DEF ARP_TMR, TCP_TMR
<1> DEFINE Rearmed == /\ ListInv(timeouts', 0) /\ Listed(timeouts') = Listed(timeouts) \cup {h}
                      /\ memp' \in 0..MEMP_NUM_SYS_TIMEOUT /\ lost' = lost /\ TimerPool'
           Alone == timeouts' = timeouts /\ memp' = memp /\ lost' = lost
<1> HIDE DEF h
<1>11. ASSUME NEW msecs \in 0..Longest, sys_timeout(h, msecs) PROVE Rearmed
    BY <1>2, <1>3, <1>4, <1>5, <1>9, <1>11, SysTimeoutArms
<1>12. ASSUME Alone PROVE ListInv(timeouts', 0) /\ TimerPool' /\ Listed(timeouts') = Listed(timeouts)
    BY <1>2, <1>12 DEF TimerPool
<1>13. CASE h = TCP_TMR /\ tcpip_tcp_timer
  <2>1. tcp_pcbs' \in BOOLEAN /\ tcpip_tcp_timer_active' = tcp_pcbs'
      BY <1>6, <1>13 DEF tcpip_tcp_timer
  <2>2. CASE tcp_pcbs'
    <3>1. sys_timeout(h, Interval[TCP_TMR]) /\ Interval[TCP_TMR] \in 0..Longest
        BY <1>13, <2>2, LongestDelay DEF tcpip_tcp_timer
    <3>2. Rearmed
        BY <1>11, <3>1
    <3>3. tcpip_tcp_timer_active' <=> TCP_TMR \in Listed(timeouts')
        BY <1>13, <2>1, <2>2, <3>2
    <3>4. \A i \in 1..Len(Startup) : Startup[i] \in Listed(timeouts') <=> i <= started'
        BY <1>1, <1>6, <3>2
    <3>5. lost' = 1 => ARP_TMR \notin Listed(timeouts')
        BY <1>5, <3>2
    <3> QED BY <1>1, <1>3, <1>7, <2>1, <3>2, <3>3, <3>4, <3>5, BusyStep
  <2>3. CASE ~tcp_pcbs'
    <3>1. Alone
        BY <1>13, <2>3 DEF tcpip_tcp_timer
    <3>2. tcpip_tcp_timer_active' <=> TCP_TMR \in Listed(timeouts')
        BY <1>4, <1>12, <1>13, <2>1, <2>3, <3>1
    <3>3. \A i \in 1..Len(Startup) : Startup[i] \in Listed(timeouts') <=> i <= started'
        BY <1>1, <1>6, <1>8, <1>12, <1>13, <3>1
    <3>4. lost' = 1 => ARP_TMR \notin Listed(timeouts')
        BY <1>5, <1>12, <3>1
    <3> QED BY <1>1, <1>3, <1>7, <1>12, <2>1, <3>1, <3>2, <3>3, <3>4, BusyStep
  <2> QED BY <2>2, <2>3
<1>14. CASE /\ h \in Periodic \cup {ARP_TMR}
            /\ sys_timeout(h, Interval[h])
            /\ tcp_pcbs' \in {tcp_pcbs, FALSE}
            /\ UNCHANGED tcpip_tcp_timer_active
  <2>1. Interval[h] \in 0..Longest
      BY <1>14, LongestDelay
  <2>2. Rearmed
      BY <1>11, <1>14, <2>1
  <2>3. /\ tcp_pcbs' \in BOOLEAN /\ tcpip_tcp_timer_active' \in BOOLEAN
        /\ tcp_pcbs' => tcpip_tcp_timer_active'
        /\ tcpip_tcp_timer_active' <=> TCP_TMR \in Listed(timeouts')
    <3>1. tcpip_tcp_timer_active' = tcpip_tcp_timer_active
        BY <1>14
    <3>2. tcpip_tcp_timer_active' <=> TCP_TMR \in Listed(timeouts')
        BY <1>6, <2>2, <3>1
    <3>3. CASE tcp_pcbs' = tcp_pcbs
        BY <1>6, <3>1, <3>2, <3>3
    <3>4. CASE tcp_pcbs' = FALSE
        BY <1>6, <3>1, <3>2, <3>4
    <3> QED BY <1>14, <3>3, <3>4
  <2>4. \A i \in 1..Len(Startup) : Startup[i] \in Listed(timeouts') <=> i <= started'
      BY <1>1, <1>6, <2>2
  <2>5. lost' = 1 => ARP_TMR \notin Listed(timeouts')
      BY <1>5, <2>2
  <2> QED BY <1>1, <1>3, <1>7, <2>2, <2>3, <2>4, <2>5, BusyStep
<1>15. CASE h = User /\ UNCHANGED <<list, tcp>>
  <2>1. Alone
      BY <1>15
  <2>2. /\ tcp_pcbs' \in BOOLEAN /\ tcpip_tcp_timer_active' \in BOOLEAN
        /\ tcp_pcbs' => tcpip_tcp_timer_active'
        /\ tcpip_tcp_timer_active' <=> TCP_TMR \in Listed(timeouts')
      BY <1>6, <1>10, <1>12, <1>15, <2>1
  <2>3. \A i \in 1..Len(Startup) : Startup[i] \in Listed(timeouts') <=> i <= started'
      BY <1>1, <1>6, <1>8, <1>12, <1>15, <2>1
  <2>4. lost' = 1 => ARP_TMR \notin Listed(timeouts')
      BY <1>5, <1>12, <2>1
  <2> QED BY <1>1, <1>3, <1>7, <1>12, <2>1, <2>2, <2>3, <2>4, BusyStep
<1> QED BY <1>13, <1>14, <1>15 DEF Handler, h

LEMMA MessageStep ==
    ASSUME IInv, Message
    PROVE  IInv'
<1> USE DEF tcp, table, list
<1>1. /\ pc = "msg" /\ pc' = "again" /\ Unaccounted = 0
      /\ UNCHANGED <<table, started, forever, waited, running, msgs>>
    BY DEF Unaccounted, Message
<1>2. ListInv(timeouts, 0) /\ TypeOK /\ TimerPool /\ StartInv /\ ArmedInv
    BY <1>1 DEF IInv
<1>3. sys_arch_timeouts /\ StartInv'
    BY <1>1, <1>2 DEF StartInv, sys_arch_timeouts
<1> DEFINE L == Listed(timeouts)
<1>4. Armed = L
    BY <1>1 DEF Armed
<1>5. lost = 1 => ARP_TMR \notin L
    BY <1>2, <1>4 DEF ArmedInv
<1>6. /\ tcp_pcbs \in BOOLEAN /\ tcpip_tcp_timer_active \in BOOLEAN
      /\ tcp_pcbs => tcpip_tcp_timer_active
      /\ tcpip_tcp_timer_active <=> TCP_TMR \in L
      /\ \A i \in 1..Len(Startup) : Startup[i] \in L <=> i <= started
    BY <1>2, <1>4 DEF TypeOK, ArmedInv
<1>7. started' \in 0..Len(Startup) /\ lost \in 0..MEMP_NUM_SYS_TIMEOUT /\ memp \in 0..MEMP_NUM_SYS_TIMEOUT
    BY <1>1, <1>2 DEF TypeOK
<1>8. \A i \in 1..Len(Startup) : Startup[i] # TCP_TMR /\ Startup[i] # User
    BY Types, StartupAssumption
<1>9. User \in Handlers /\ TCP_TMR \in Handlers
    BY DEF Handlers
<1>10. User # TCP_TMR /\ User # ARP_TMR /\ ARP_TMR # TCP_TMR
    BY StartupAssumption DEF ARP_TMR, TCP_TMR
<1> DEFINE Arms(h) == /\ ListInv(timeouts', 0) /\ Listed(timeouts') = L \cup {h}
                      /\ memp' \in 0..MEMP_NUM_SYS_TIMEOUT /\ lost' = lost /\ TimerPool'
           Alone == timeouts' = timeouts /\ memp' = memp /\ lost' = lost
<1>11. ASSUME NEW h \in {User, TCP_TMR}, h \notin L, NEW msecs \in 0..Longest, sys_timeout(h, msecs)
       PROVE  Arms(h)
  <2>1. h \in Handlers /\ h # ARP_TMR
      BY <1>9, <1>10
  <2>2. lost = 1 => ARP_TMR \notin L \cup {h}
      BY <1>5, <2>1
  <2> QED BY <1>2, <1>3, <1>11, <2>1, <2>2, SysTimeoutArms
<1>12. ASSUME Alone PROVE ListInv(timeouts', 0) /\ TimerPool' /\ Listed(timeouts') = L
    BY <1>2, <1>12 DEF TimerPool
<1> HIDE DEF L
<1>13. CASE tcp_timer_needed
  <2>1. tcp_pcbs' = TRUE /\ tcpip_tcp_timer_active' = TRUE
      BY <1>13 DEF tcp_timer_needed
  <2>2. CASE tcpip_tcp_timer_active
    <3>1. Alone
        BY <1>13, <2>2 DEF tcp_timer_needed
    <3> QED BY <1>1, <1>3, <1>5, <1>6, <1>7, <1>12, <2>1, <2>2, <3>1, BusyStep
  <2>3. CASE ~tcpip_tcp_timer_active
    <3>1. sys_timeout(TCP_TMR, Interval[TCP_TMR]) /\ Interval[TCP_TMR] \in 0..Longest
        BY <1>13, <2>3, LongestDelay DEF tcp_timer_needed
    <3>2. Arms(TCP_TMR)
        BY <1>6, <1>11, <2>3, <3>1
    <3>3. \A i \in 1..Len(Startup) : Startup[i] \in Listed(timeouts') <=> i <= started'
        BY <1>1, <1>6, <1>8, <3>2
    <3>4. lost' = 1 => ARP_TMR \notin Listed(timeouts')
        BY <1>5, <1>10, <3>2
    <3> QED BY <1>1, <1>3, <1>7, <2>1, <3>2, <3>3, <3>4, BusyStep
  <2> QED BY <2>2, <2>3
<1>14. CASE tcp_pcbs' \in {tcp_pcbs, FALSE} /\ UNCHANGED <<tcpip_tcp_timer_active, list>>
  <2>1. Alone
      BY <1>14
  <2>2. /\ tcp_pcbs' \in BOOLEAN /\ tcpip_tcp_timer_active' \in BOOLEAN
        /\ tcp_pcbs' => tcpip_tcp_timer_active'
        /\ tcpip_tcp_timer_active' <=> TCP_TMR \in Listed(timeouts')
    <3>1. tcpip_tcp_timer_active' = tcpip_tcp_timer_active
        BY <1>14
    <3>2. tcpip_tcp_timer_active' <=> TCP_TMR \in Listed(timeouts')
        BY <1>6, <1>12, <2>1, <3>1
    <3>3. CASE tcp_pcbs' = tcp_pcbs
        BY <1>6, <3>1, <3>2, <3>3
    <3>4. CASE tcp_pcbs' = FALSE
        BY <1>6, <3>1, <3>2, <3>4
    <3> QED BY <1>14, <3>3, <3>4
  <2> QED BY <1>1, <1>3, <1>5, <1>6, <1>7, <1>12, <2>1, <2>2, BusyStep
<1>15. CASE /\ \A k \in DOMAIN timeouts : timeouts[k].h # User
            /\ \E msecs \in UserMsecs : sys_timeout(User, msecs)
            /\ UNCHANGED tcp
  <2>1. User \notin L
      BY <1>15 DEF L, Listed
  <2>2. PICK msecs \in 0..Longest : sys_timeout(User, msecs)
      BY <1>15, LongestDelay
  <2>3. Arms(User)
      BY <1>11, <2>1, <2>2
  <2>4. /\ tcp_pcbs' \in BOOLEAN /\ tcpip_tcp_timer_active' \in BOOLEAN
        /\ tcp_pcbs' => tcpip_tcp_timer_active'
        /\ tcpip_tcp_timer_active' <=> TCP_TMR \in Listed(timeouts')
      BY <1>6, <1>10, <1>15, <2>3
  <2>5. \A i \in 1..Len(Startup) : Startup[i] \in Listed(timeouts') <=> i <= started'
      BY <1>1, <1>6, <1>8, <2>3
  <2>6. lost' = 1 => ARP_TMR \notin Listed(timeouts')
      BY <1>5, <1>10, <2>3
  <2> QED BY <1>1, <1>3, <1>7, <2>3, <2>4, <2>5, <2>6, BusyStep
<1>16. CASE sys_untimeout(User) /\ UNCHANGED tcp
  <2>1. /\ ListInv(timeouts', 0) /\ Listed(timeouts') = L \ {User}
        /\ memp' \in 0..MEMP_NUM_SYS_TIMEOUT /\ lost' = lost /\ TimerPool'
      BY <1>2, <1>16, SysUntimeoutDisarms DEF L
  <2>2. /\ tcp_pcbs' \in BOOLEAN /\ tcpip_tcp_timer_active' \in BOOLEAN
        /\ tcp_pcbs' => tcpip_tcp_timer_active'
        /\ tcpip_tcp_timer_active' <=> TCP_TMR \in Listed(timeouts')
      BY <1>6, <1>10, <1>16, <2>1
  <2>3. \A i \in 1..Len(Startup) : Startup[i] \in Listed(timeouts') <=> i <= started'
      BY <1>1, <1>6, <1>8, <2>1
  <2>4. lost' = 1 => ARP_TMR \notin Listed(timeouts')
      BY <1>5, <2>1
  <2> QED BY <1>1, <1>3, <1>7, <2>1, <2>2, <2>3, <2>4, BusyStep
<1> QED BY <1>13, <1>14, <1>15, <1>16 DEF Message

LEMMA Stutter ==
    ASSUME IInv, UNCHANGED vars
    PROVE  IInv'
<1> USE DEF vars, list, table, tcp
<1>1. TypeOK' /\ TimerPool' /\ NeverEarly' /\ StartInv' /\ WaitInv'
    BY DEF IInv, TypeOK, TimerPool, NeverEarly, StartInv, WaitInv
<1>2. Unaccounted' = Unaccounted /\ Armed' = Armed
    BY DEF Unaccounted, Armed
<1>3. ListInv(timeouts', Unaccounted') /\ ArmedInv'
    BY <1>2 DEF IInv, ArmedInv
<1> QED BY <1>1, <1>3 DEF IInv

\* The inductive invariant of the timers: every operation on the list, the pool
\* and the flags keeps it, and so does the passing of time at any point.
THEOREM TimersInvariance == Spec => []IInv
<1>1. IInv /\ [Next]_vars => IInv'
  <2> SUFFICES ASSUME IInv, [Next]_vars PROVE IInv'
      OBVIOUS
  <2>1. CASE low_level_init \/ Scheduled \/ Fetch \/ TimedOut \/ Received
      BY <2>1, QuietActions
  <2>2. CASE ethernetif_init
      BY <2>2, EthernetifInitStep
  <2>3. CASE ThreadStart
      BY <2>3, QuietActions, ThreadStartStep
  <2>4. CASE Account
      BY <2>4, AccountStep
  <2>5. CASE UnlinkFirst
      BY <2>5, UnlinkFirstStep
  <2>6. CASE Handler
      BY <2>6, HandlerStep
  <2>7. CASE Message
      BY <2>7, MessageStep
  <2>8. CASE Tick
      BY <2>8, TickStep
  <2>9. CASE UNCHANGED vars
      BY <2>9, Stutter
  <2> QED BY <2>1, <2>2, <2>3, <2>4, <2>5, <2>6, <2>7, <2>8, <2>9 DEF Next, tcpip_thread
<1> QED BY <1>1, InitInv, PTL DEF Spec

\* The timers' state keeps its types: in particular no relative time becomes
\* negative when sys_mbox_fetch accounts for a wait that ended late.
THEOREM TimerTypes == Spec => []TypeOK
<1>1. IInv => TypeOK
    BY DEF IInv
<1> QED BY <1>1, TimersInvariance, PTL

\* No handler is called before its delay has really passed, whatever is inserted,
\* cancelled or accounted for late.
THEOREM TimersNeverEarly == Spec => []NeverEarly
<1>1. IInv => NeverEarly
    BY DEF IInv
<1> QED BY <1>1, TimersInvariance, PTL

\* Whenever sys_timeout is called the pool has an element, also when the one of
\* ethernetif_init was lost.
THEOREM TimerElementFound == Spec => []ElementFound
<1>1. IInv => ElementFound
  <2> SUFFICES ASSUME IInv, Arming PROVE memp > 0
      BY DEF ElementFound
  <2>1. /\ ListInv(timeouts, Unaccounted) /\ TimerPool /\ memp \in Nat /\ lost \in Nat
        /\ lost = 1 => ARP_TMR \notin Armed
      BY PoolAssumption DEF IInv, TypeOK, ArmedInv
  <2>2. ASSUME NEW h \in Handlers, h \notin Listed(timeouts),
               lost = 1 => ARP_TMR \notin Listed(timeouts) \cup {h}
        PROVE  memp > 0
      BY <2>1, <2>2, PoolHasRoom
  <2>3. Listed(timeouts) \subseteq Armed
      BY DEF Armed
  <2>4. /\ {ARP_TMR, TCP_TMR, User} \subseteq Handlers
        /\ ARP_TMR # TCP_TMR /\ ARP_TMR # User
      BY StartupAssumption DEF Handlers, ARP_TMR, TCP_TMR
  <2>5. CASE pc = "netif"
    <3>1. ARP_TMR \notin Listed(timeouts) /\ lost = 0
        BY <2>5 DEF IInv, StartInv, Listed
    <3> QED BY <2>2, <2>4, <3>1
  <2>6. CASE pc = "start" /\ pxCurrentTCB = "tcpip_thread" /\ started < Len(Startup)
    <3>1. PICK n \in 1..Len(Startup) : n = started + 1 /\ ~ (n <= started)
        BY <2>6, Types
    <3>2. Startup[n] \in Handlers /\ Startup[n] # ARP_TMR
        BY <3>1, Types, StartupAssumption DEF Handlers
    <3>3. Startup[n] \notin Armed
        BY <3>1 DEF IInv, ArmedInv
    <3> QED BY <2>1, <2>2, <2>3, <3>2, <3>3
  <2>7. CASE pc = "handler"
    <3>1. running.h \in Handlers
        BY Types, TimerFields
    <3>2. running.h \notin Listed(timeouts) /\ Armed = Listed(timeouts) \cup {running.h}
        BY <2>7 DEF IInv, ArmedInv, Armed
    <3> QED BY <2>1, <2>2, <3>1, <3>2
  <2>8. CASE pc = "msg" /\ ~tcpip_tcp_timer_active
    <3>1. TCP_TMR \notin Armed
        BY <2>8 DEF IInv, ArmedInv
    <3> QED BY <2>1, <2>2, <2>3, <2>4, <3>1
  <2>9. CASE pc = "msg" /\ Pending(User) = {}
    <3>1. User \notin Listed(timeouts)
        BY <2>9 DEF Pending, Listed
    <3> QED BY <2>1, <2>2, <2>3, <2>4, <3>1
  <2> QED BY <2>5, <2>6, <2>7, <2>8, <2>9 DEF Arming
<1> QED BY <1>1, TimersInvariance, PTL

\* A handler is in the list as often as the invariant says: once or never.
LEMMA PendingCount ==
    ASSUME IInv, NEW h
    PROVE  Cardinality(Pending(h)) = IF h \in Listed(timeouts) THEN 1 ELSE 0
<1>1. \A i, j \in DOMAIN timeouts : timeouts[i].h = timeouts[j].h => i = j
    BY DEF IInv, ListInv
<1>2. CASE h \in Listed(timeouts)
  <2>1. PICK k \in DOMAIN timeouts : timeouts[k].h = h
      BY <1>2 DEF Listed
  <2>2. Pending(h) = {k}
      BY <1>1, <2>1 DEF Pending
  <2> QED BY <1>2, <2>2, FS_Singleton
<1>3. CASE h \notin Listed(timeouts)
  <2>1. Pending(h) = {}
      BY <1>3 DEF Pending, Listed
  <2> QED BY <1>3, <2>1, FS_EmptySet
<1> QED BY <1>2, <1>3

LEMMA ArmedCount ==
    ASSUME IInv, NEW h
    PROVE  Cardinality(Pending(h)) + (IF Calling(h) THEN 1 ELSE 0) = IF h \in Armed THEN 1 ELSE 0
<1>1. Cardinality(Pending(h)) = IF h \in Listed(timeouts) THEN 1 ELSE 0
    BY PendingCount
<1>2. ~ (Calling(h) /\ h \in Listed(timeouts))
    BY DEF Calling, IInv, ArmedInv
<1>3. h \in Armed <=> h \in Listed(timeouts) \/ Calling(h)
    BY DEF Armed, Calling
<1> QED BY <1>1, <1>2, <1>3

\* While there are pcbs the TCP timer runs, and it never runs twice.
THEOREM TcpTimerAlwaysArmed == Spec => []TcpTimerArmed
<1>1. IInv => TcpTimerArmed
  <2> SUFFICES ASSUME IInv PROVE TcpTimerArmed
      OBVIOUS
  <2>1. Cardinality(Pending(TCP_TMR)) + (IF Calling(TCP_TMR) THEN 1 ELSE 0)
          = IF TCP_TMR \in Armed THEN 1 ELSE 0
      BY ArmedCount
  <2>2. (tcp_pcbs => tcpip_tcp_timer_active) /\ (tcpip_tcp_timer_active <=> TCP_TMR \in Armed)
      BY DEF IInv, ArmedInv
  <2> QED BY <2>1, <2>2 DEF TcpTimerArmed
<1> QED BY <1>1, TimersInvariance, PTL

\* A timer that tcpip_thread armed is never dropped and never doubled: it is in
\* the list or its handler is being called, whatever other timers do.
THEOREM PeriodicAlwaysArmed == Spec => []PeriodicArmed
<1>1. IInv => PeriodicArmed
  <2> SUFFICES ASSUME IInv, NEW i \in 1..started
               PROVE  Cardinality(Pending(Startup[i])) + (IF Calling(Startup[i]) THEN 1 ELSE 0) = 1
      BY DEF PeriodicArmed
  <2>1. Cardinality(Pending(Startup[i])) + (IF Calling(Startup[i]) THEN 1 ELSE 0)
          = IF Startup[i] \in Armed THEN 1 ELSE 0
      BY ArmedCount
  <2>2. i \in 1..Len(Startup) /\ i <= started
      BY Types
  <2>3. Startup[i] \in Armed
      BY <2>2 DEF IInv, ArmedInv
  <2> QED BY <2>1, <2>3
<1> QED BY <1>1, TimersInvariance, PTL

=============================================================================

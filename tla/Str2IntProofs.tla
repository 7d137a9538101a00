---------------------------- MODULE Str2IntProofs ----------------------------
(***************************************************************************)
(* str2int reads a delimited number, for every buffer and width of int.    *)
(***************************************************************************)
EXTENDS Str2Int, FiniteSetTheorems, WellFoundedInduction, TLAPS

\* Equal but for a multiple of the 2^32 values of int.
Modulus == 2 * (INT_MAX + 1)
Congruent(a, b) == \E q \in Int : a = b + q * Modulus

\* The sign that the first j characters of a request make.
Factor(p, j) == IF Cardinality(Minuses(p, j)) % 2 = 0 THEN 1 ELSE -1

\* What result will be when the digits of request p behind place j are read.
Outcome(p, j, r) ==
    LET s == SignsEnd(p)
        e == DigitsEnd(p)
    IN  r * Places(e - s)[e - j] + Endings(p, s, e)[e - j]
Magnitude(p) == Endings(p, SignsEnd(p), DigitsEnd(p))[DigitsEnd(p) - SignsEnd(p)]

(***************************************************************************)
(* Arithmetic of int                                                       *)
(***************************************************************************)
LEMMA ModulusIs == Modulus \in Nat \ {0} /\ INT_MIN \in Int
BY Str2IntAssumption DEF Modulus, INT_MIN

LEMMA Division ==
    ASSUME NEW x \in Int, NEW m \in Nat \ {0}
    PROVE  \E u \in Int : \E r \in 0 .. m - 1 : x = u * m + r /\ r = x % m
<1>1. PICK u \in Int : u = x \div m
    OBVIOUS
<1>2. PICK r \in 0 .. m - 1 : r = x % m
    OBVIOUS
<1>3. x = m * u + r
    BY <1>1, <1>2
<1>4. m * u = u * m
    OBVIOUS
<1>5. x = u * m + r
    BY ONLY <1>3, <1>4
<1> QED BY <1>2, <1>5

LEMMA WrapIs ==
    ASSUME NEW x \in Int
    PROVE  Wrap(x) \in Ints /\ Wrap(x) \in Int /\ Congruent(Wrap(x), x)
<1> DEFINE y == x - INT_MIN
<1>1. y \in Int
    BY ModulusIs
<1>2. PICK m \in Nat \ {0} : m = Modulus
    BY ModulusIs
<1>3. PICK n \in Int : n = INT_MIN
    BY ModulusIs
<1>4. y = x - n
    BY <1>3
<1> HIDE DEF y
<1>5. PICK u \in Int, r \in 0 .. m - 1 : y = u * m + r /\ r = y % m
    BY <1>1, Division
<1>6. Wrap(x) = r + n
    BY <1>2, <1>3, <1>5 DEF Wrap, y, Modulus
<1>7. r + n \in Ints /\ r + n \in Int
    BY <1>2, <1>3, <1>5, Str2IntAssumption DEF Ints, INT_MIN, Modulus
<1>8. r + n = x + (-u) * m
  <2>1. x - n = u * m + r
      BY <1>4, <1>5
  <2>2. (-u) * m = -(u * m) /\ u * m \in Int /\ r \in Int
      OBVIOUS
  <2> QED BY ONLY <2>1, <2>2
<1>9. -u \in Int
    OBVIOUS
<1> QED BY <1>2, <1>6, <1>7, <1>8, <1>9 DEF Congruent

\* The remainder is unique.
LEMMA RemainderUnique ==
    ASSUME NEW m \in Nat \ {0}, NEW q \in Int, NEW r \in 0 .. m - 1, NEW t \in 0 .. m - 1,
           r = t + q * m
    PROVE  r = t
<1>1. CASE q >= 1
  <2>1. q * m >= m
      BY <1>1
  <2> QED BY <2>1
<1>2. CASE q <= -1
  <2>1. q * m <= -m
      BY <1>2
  <2> QED BY <2>1
<1>3. CASE q = 0
    BY <1>3
<1> QED BY <1>1, <1>2, <1>3

LEMMA WrapCongruent ==
    ASSUME NEW a \in Int, NEW b \in Int, Congruent(a, b)
    PROVE  Wrap(a) = Wrap(b)
<1> DEFINE x == a - INT_MIN
           y == b - INT_MIN
<1>1. x \in Int /\ y \in Int
    BY ModulusIs
<1>2. PICK q \in Int : a = b + q * Modulus
    BY DEF Congruent
<1>3. q * Modulus \in Int
    BY ModulusIs
<1>4. x = y + q * Modulus
    BY <1>2, <1>3, ModulusIs
<1> HIDE DEF x, y
<1>5. PICK u \in Int, r \in 0 .. Modulus - 1 : x = u * Modulus + r /\ r = x % Modulus
    BY <1>1, ModulusIs, Division
<1>6. PICK v \in Int, t \in 0 .. Modulus - 1 : y = v * Modulus + t /\ t = y % Modulus
    BY <1>1, ModulusIs, Division
<1>7. PICK m \in Nat \ {0} : m = Modulus
    BY ModulusIs
<1>8. u * m + r = v * m + t + q * m /\ r \in 0 .. m - 1 /\ t \in 0 .. m - 1
    BY <1>4, <1>5, <1>6, <1>7
<1>9. (v + q - u) * m = v * m + q * m - u * m
    BY ONLY <1>7
<1>10. u * m \in Int /\ v * m \in Int /\ q * m \in Int /\ r \in Int /\ t \in Int
    BY <1>8
<1>11. r = t + (v + q - u) * m
    BY ONLY <1>8, <1>9, <1>10
<1>12. v + q - u \in Int
    OBVIOUS
<1>13. r = t
    BY <1>8, <1>11, <1>12, RemainderUnique
<1> QED BY <1>5, <1>6, <1>13 DEF Wrap, x, y, Modulus

\* Sums and products with a factor respect congruence.
LEMMA CongruentLinear ==
    ASSUME NEW a \in Int, NEW b \in Int, NEW c \in Int, NEW d \in Int, Congruent(a, b)
    PROVE  Congruent(a * c + d, b * c + d)
<1>1. PICK q \in Int : a = b + q * Modulus
    BY DEF Congruent
<1>2. PICK m \in Int : m = Modulus
    BY ModulusIs
<1>3. a = b + q * m
    BY <1>1, <1>2
<1>4. a * c + d = (b * c + d) + (q * c) * m
    BY ONLY <1>3
<1>5. q * c \in Int
    OBVIOUS
<1> QED BY <1>2, <1>4, <1>5 DEF Congruent

LEMMA CongruentTransitive ==
    ASSUME NEW a \in Int, NEW b \in Int, NEW c \in Int, Congruent(a, b), Congruent(b, c)
    PROVE  Congruent(a, c)
<1>1. PICK q \in Int : a = b + q * Modulus
    BY DEF Congruent
<1>2. PICK t \in Int : b = c + t * Modulus
    BY DEF Congruent
<1>3. PICK m \in Int : m = Modulus
    BY ModulusIs
<1>4. a = c + (q + t) * m
    BY <1>1, <1>2, <1>3
<1>5. q + t \in Int
    OBVIOUS
<1> QED BY <1>3, <1>4, <1>5 DEF Congruent

(***************************************************************************)
(* Induction over positions                                                *)
(***************************************************************************)
LEMMA LeastPosition ==
    ASSUME NEW S \in SUBSET Nat, S # {}
    PROVE  \E x \in S : \A y \in S : x <= y
<1>1. PICK x \in S : \A y \in S : ~ (<<y, x>> \in OpToRel(<, Nat))
    BY NatLessThanWellFounded, WFMin
<1>2. \A y \in S : ~ (y < x)
    BY <1>1 DEF OpToRel
<1> QED BY <1>2

LEMMA GreatestPosition ==
    ASSUME NEW n \in Nat, NEW S \in SUBSET (0 .. n), S # {}
    PROVE  Max(S) \in S /\ \A y \in S : y <= Max(S)
<1> DEFINE Gap == {n - y : y \in S}
<1>1. Gap \in SUBSET Nat /\ Gap # {}
  <2>1. \A y \in S : n - y \in Nat
      OBVIOUS
  <2> QED BY <2>1
<1> HIDE DEF Gap
<1>2. PICK g \in Gap : \A z \in Gap : g <= z
    BY <1>1, LeastPosition
<1>3. PICK x \in S : g = n - x
    BY <1>2 DEF Gap
<1>4. \A y \in S : x >= y
    BY <1>2, <1>3 DEF Gap
<1> QED BY <1>4 DEF Max

\* Where a claim fails first, it holds one place earlier.
LEMMA FirstFailing ==
    ASSUME NEW n \in Nat, NEW Bad \in SUBSET (0 .. n), Bad # {}, 0 \notin Bad
    PROVE  \E k \in Bad : k \in 1 .. n /\ k - 1 \in 0 .. n /\ k - 1 \notin Bad
<1>1. PICK k \in Bad : \A y \in Bad : k <= y
    BY LeastPosition
<1>2. k \in 1 .. n /\ k - 1 \in 0 .. n
    OBVIOUS
<1>3. k - 1 \notin Bad
    BY <1>1, <1>2
<1> QED BY <1>2, <1>3

\* f starts with c and goes from place to place as step says.
Recurs(f, n, c, step) ==
    /\ f \in [0 .. n -> Int]
    /\ f[0] = c
    /\ \A k \in 1 .. n : f[k] = step[k][f[k - 1]]

LEMMA RecurrenceExtends ==
    ASSUME NEW n \in Nat, NEW c \in Int, NEW step,
           \A k \in 1 .. n + 1 : \A x \in Int : step[k][x] \in Int,
           NEW f, Recurs(f, n, c, step)
    PROVE  \E g : Recurs(g, n + 1, c, step)
<1> DEFINE g == [k \in 0 .. n + 1 |-> IF k = n + 1 THEN step[n + 1][f[n]] ELSE f[k]]
<1>1. f \in [0 .. n -> Int] /\ f[0] = c /\ \A k \in 1 .. n : f[k] = step[k][f[k - 1]]
    BY DEF Recurs
<1>2. step[n + 1][f[n]] \in Int
  <2>1. f[n] \in Int /\ n + 1 \in 1 .. n + 1
      BY <1>1
  <2> QED BY <2>1
<1>3. \A k \in 0 .. n + 1 : k = n + 1 \/ k \in 0 .. n
    OBVIOUS
<1>4. \A k \in 0 .. n + 1 : g[k] \in Int
    BY <1>1, <1>2, <1>3
<1>5. g[n + 1] = step[n + 1][f[n]] /\ \A k \in 0 .. n : g[k] = f[k]
    OBVIOUS
<1>6. g \in [0 .. n + 1 -> Int]
    BY <1>4
<1> HIDE DEF g
<1>7. ASSUME NEW k \in 1 .. n + 1 PROVE g[k] = step[k][g[k - 1]]
  <2>1. k - 1 \in 0 .. n
      OBVIOUS
  <2>2. CASE k = n + 1
    <3>1. k - 1 = n
        BY <2>2
    <3> QED BY <1>5, <2>1, <2>2, <3>1
  <2>3. CASE k # n + 1
    <3>1. k \in 1 .. n /\ k \in 0 .. n
        BY <2>3
    <3> QED BY <1>1, <1>5, <2>1, <3>1
  <2> QED BY <2>2, <2>3
<1>8. g[0] = c
    BY <1>1, <1>5
<1> QED BY <1>6, <1>7, <1>8 DEF Recurs

LEMMA RecurrenceHolds ==
    ASSUME NEW n \in Nat, NEW c \in Int, NEW step,
           \A k \in 1 .. n : \A x \in Int : step[k][x] \in Int
    PROVE  \E f : Recurs(f, n, c, step)
<1> DEFINE Bad == {k \in 0 .. n : ~ \E f : Recurs(f, k, c, step)}
<1>1. Bad \in SUBSET (0 .. n) /\ \A k \in 0 .. n : k \in Bad <=> ~ \E f : Recurs(f, k, c, step)
    OBVIOUS
<1>2. \E f : Recurs(f, 0, c, step)
  <2>1. Recurs([k \in 0 .. 0 |-> c], 0, c, step)
      BY DEF Recurs
  <2> QED BY <2>1
<1> HIDE DEF Bad
<1>3. ASSUME Bad # {} PROVE FALSE
  <2>1. 0 \notin Bad
      BY <1>1, <1>2
  <2>2. PICK k \in Bad : k \in 1 .. n /\ k - 1 \in 0 .. n /\ k - 1 \notin Bad
      BY <1>1, <1>3, <2>1, FirstFailing
  <2>3. PICK j \in Nat : j = k - 1
      BY <2>2
  <2>4. j + 1 = k /\ \A i \in 1 .. j + 1 : \A x \in Int : step[i][x] \in Int
      BY <2>2, <2>3
  <2>5. PICK f : Recurs(f, j, c, step)
      BY <1>1, <2>2, <2>3
  <2>6. \E g : Recurs(g, j + 1, c, step)
      BY <2>4, <2>5, RecurrenceExtends
  <2> QED BY <1>1, <2>2, <2>4, <2>6
<1>4. n \in 0 .. n
    OBVIOUS
<1> QED BY <1>1, <1>3, <1>4

\* g is a function of the positions up to n.
OverPositions(g, n) == g = [k \in 0 .. n |-> g[k]]

\* Two functions that agree at 0, and at every place if they do one earlier.
LEMMA Agree ==
    ASSUME NEW n \in Nat, NEW f, NEW g,
           OverPositions(f, n), OverPositions(g, n),
           f[0] = g[0],
           \A k \in 1 .. n : f[k - 1] = g[k - 1] => f[k] = g[k]
    PROVE  f = g
<1> DEFINE Bad == {k \in 0 .. n : f[k] # g[k]}
<1>1. Bad \in SUBSET (0 .. n) /\ \A k \in 0 .. n : k \in Bad <=> f[k] # g[k]
    OBVIOUS
<1> HIDE DEF Bad
<1>2. ASSUME Bad # {} PROVE FALSE
  <2>1. 0 \notin Bad
      BY <1>1
  <2>2. PICK k \in Bad : k \in 1 .. n /\ k - 1 \in 0 .. n /\ k - 1 \notin Bad
      BY <1>1, <1>2, <2>1, FirstFailing
  <2> QED BY <1>1, <2>2
<1>3. \A k \in 0 .. n : f[k] = g[k]
    BY <1>1, <1>2
<1> QED BY <1>3 DEF OverPositions

(***************************************************************************)
(* The reference                                                           *)
(***************************************************************************)
LEMMA PlacesAre ==
    ASSUME NEW n \in Nat
    PROVE  /\ Places(n) \in [0 .. n -> Int]
           /\ Places(n)[0] = 1
           /\ \A k \in 1 .. n : Places(n)[k] = 10 * Places(n)[k - 1]
<1> DEFINE step == [k \in 1 .. n |-> [x \in Int |-> 10 * x]]
           P(g) == g = [k \in 0 .. n |-> IF k = 0 THEN 1 ELSE 10 * g[k - 1]]
<1>1. \A k \in 1 .. n : \A x \in Int : step[k][x] = 10 * x /\ step[k][x] \in Int
    OBVIOUS
<1> HIDE DEF step
<1>2. PICK f : Recurs(f, n, 1, step)
  <2>1. \A k \in 1 .. n : \A x \in Int : step[k][x] \in Int
      BY <1>1
  <2>2. 1 \in Int
      OBVIOUS
  <2> QED BY ONLY n \in Nat, <2>1, <2>2, RecurrenceHolds, Zenon
<1>3. f \in [0 .. n -> Int] /\ f[0] = 1
    BY <1>2 DEF Recurs
<1>4. \A k \in 1 .. n : f[k] = 10 * f[k - 1]
  <2> TAKE k \in 1 .. n
  <2>1. f[k] = step[k][f[k - 1]] /\ f[k - 1] \in Int
      BY <1>2, <1>3 DEF Recurs
  <2> QED BY <1>1, <2>1
<1>5. OverPositions(f, n) /\ \A k \in 0 .. n : k = 0 \/ k \in 1 .. n
    BY <1>3 DEF OverPositions
<1>6. P(f)
    BY <1>3, <1>4, <1>5 DEF OverPositions
<1>7. Places(n) = CHOOSE g : P(g)
    BY DEF Places
<1> HIDE DEF P
<1>8. P(Places(n))
    BY <1>6, <1>7
<1> DEFINE d == Places(n)
<1>9. d = [k \in 0 .. n |-> IF k = 0 THEN 1 ELSE 10 * d[k - 1]]
    BY <1>8 DEF P
<1> HIDE DEF d
<1>10. d[0] = 1 /\ \A k \in 1 .. n : d[k] = 10 * d[k - 1]
  <2>1. \A k \in 0 .. n : d[k] = IF k = 0 THEN 1 ELSE 10 * d[k - 1]
      BY <1>9
  <2> QED BY <2>1
<1>11. OverPositions(d, n)
    BY <1>9 DEF OverPositions
<1>12. d = f
    BY <1>3, <1>4, <1>5, <1>10, <1>11, Agree
<1> QED BY <1>3, <1>4, <1>12 DEF d

LEMMA EndingsAre ==
    ASSUME NEW s \in Nat, NEW e \in Nat, s <= e, NEW p, \A i \in s + 1 .. e : p[i] \in Int
    PROVE  /\ Endings(p, s, e) \in [0 .. e - s -> Int]
           /\ Endings(p, s, e)[0] = 0
           /\ \A k \in 1 .. e - s :
                 Endings(p, s, e)[k] =
                     Endings(p, s, e)[k - 1] + (p[e - k + 1] - 48) * Places(e - s)[k - 1]
<1> DEFINE n == e - s
           step == [k \in 1 .. n |->
                       [x \in Int |-> x + (p[e - k + 1] - 48) * Places(n)[k - 1]]]
           P(g) == g = [k \in 0 .. n |-> IF k = 0 THEN 0
                           ELSE g[k - 1] + (p[e - k + 1] - 48) * Places(n)[k - 1]]
<1>1. n \in Nat
    OBVIOUS
<1>2. \A k \in 1 .. n : \A x \in Int :
        /\ step[k][x] = x + (p[e - k + 1] - 48) * Places(n)[k - 1]
        /\ step[k][x] \in Int
  <2> TAKE k \in 1 .. n
  <2> TAKE x \in Int
  <2>1. e - k + 1 \in s + 1 .. e /\ k - 1 \in 0 .. n
      OBVIOUS
  <2>2. p[e - k + 1] \in Int /\ Places(n)[k - 1] \in Int
      BY <1>1, <2>1, PlacesAre
  <2>3. x + (p[e - k + 1] - 48) * Places(n)[k - 1] \in Int
      BY ONLY <2>2, x \in Int
  <2> QED BY <2>3
<1> HIDE DEF step, n
<1>3. PICK f : Recurs(f, n, 0, step)
    BY <1>1, <1>2, RecurrenceHolds
<1>4. f \in [0 .. n -> Int] /\ f[0] = 0
    BY <1>3 DEF Recurs
<1>5. \A k \in 1 .. n : f[k] = f[k - 1] + (p[e - k + 1] - 48) * Places(n)[k - 1]
  <2> TAKE k \in 1 .. n
  <2>1. f[k] = step[k][f[k - 1]] /\ f[k - 1] \in Int
      BY <1>1, <1>3, <1>4 DEF Recurs
  <2> QED BY <1>2, <2>1
<1>6. OverPositions(f, n) /\ \A k \in 0 .. n : k = 0 \/ k \in 1 .. n
    BY <1>1, <1>4 DEF OverPositions
<1>7. P(f)
  <2>1. \A k \in 0 .. n : f[k] = IF k = 0 THEN 0
                           ELSE f[k - 1] + (p[e - k + 1] - 48) * Places(n)[k - 1]
      BY <1>1, <1>4, <1>5, <1>6
  <2> QED BY <1>6, <2>1 DEF OverPositions
<1>8. Endings(p, s, e) = CHOOSE g : P(g)
    BY DEF Endings, n
<1> HIDE DEF P
<1>9. P(Endings(p, s, e))
    BY <1>7, <1>8
<1> DEFINE d == Endings(p, s, e)
<1>10. d = [k \in 0 .. n |-> IF k = 0 THEN 0
                ELSE d[k - 1] + (p[e - k + 1] - 48) * Places(n)[k - 1]]
    BY <1>9 DEF P
<1> HIDE DEF d
<1>11. d[0] = 0 /\ \A k \in 1 .. n : d[k] = d[k - 1] + (p[e - k + 1] - 48) * Places(n)[k - 1]
  <2>1. \A k \in 0 .. n : d[k] = IF k = 0 THEN 0
                ELSE d[k - 1] + (p[e - k + 1] - 48) * Places(n)[k - 1]
      BY <1>10
  <2> QED BY <1>1, <2>1
<1>12. OverPositions(d, n)
    BY <1>10 DEF OverPositions
<1>13. d[0] = f[0] /\ \A k \in 1 .. n : d[k - 1] = f[k - 1] => d[k] = f[k]
    BY <1>4, <1>5, <1>11
<1>14. d = f
    BY <1>1, <1>6, <1>12, <1>13, Agree
<1> QED BY <1>4, <1>5, <1>14 DEF d, n

\* The signs of a request end at the first character that is none.
LEMMA SignsEndIs ==
    ASSUME NEW n \in Nat, NEW p, Len(p) = n
    PROVE  /\ SignsEnd(p) \in 0 .. n
           /\ \A i \in 1 .. SignsEnd(p) : IsSign(p[i])
           /\ SignsEnd(p) < n => ~IsSign(p[SignsEnd(p) + 1])
<1> DEFINE S == {s \in 0 .. n : \A i \in 1 .. s : IsSign(p[i])}
<1>1. S \in SUBSET (0 .. n) /\ 0 \in S
    OBVIOUS
<1>2. SignsEnd(p) = Max(S)
    BY DEF SignsEnd
<1>3. SignsEnd(p) \in S /\ \A y \in S : y <= SignsEnd(p)
    BY <1>1, <1>2, GreatestPosition
<1> DEFINE s == SignsEnd(p)
<1> HIDE DEF s
<1>4. s \in 0 .. n /\ (\A i \in 1 .. s : IsSign(p[i])) /\ s + 1 \notin S
    BY <1>3 DEF s
<1>5. s < n => ~IsSign(p[s + 1])
  <2> SUFFICES ASSUME s < n, IsSign(p[s + 1]) PROVE FALSE
      OBVIOUS
  <2>1. \A i \in 1 .. s + 1 : i = s + 1 \/ i \in 1 .. s
      BY <1>4
  <2>2. s + 1 \in 0 .. n /\ \A i \in 1 .. s + 1 : IsSign(p[i])
      BY <1>4, <2>1
  <2> QED BY <1>4, <2>2
<1> QED BY <1>4, <1>5 DEF s

\* ... and so do its digits.
LEMMA DigitsEndIs ==
    ASSUME NEW n \in Nat, NEW p, Len(p) = n, \A i \in 1 .. n : p[i] \in 0 .. 255
    PROVE  /\ DigitsEnd(p) \in SignsEnd(p) .. n /\ DigitsEnd(p) \in Nat
           /\ \A i \in SignsEnd(p) + 1 .. DigitsEnd(p) : IsDigit(p[i])
           /\ DigitsEnd(p) < n => ~IsDigit(p[DigitsEnd(p) + 1])
<1> DEFINE s == SignsEnd(p)
           S == {e \in s .. n : \A i \in s + 1 .. e : p[i] \in 48 .. 57}
<1>1. s \in 0 .. n
    BY SignsEndIs
<1> HIDE DEF s
<1>2. S \in SUBSET (0 .. n) /\ s \in S
    BY <1>1
<1>3. DigitsEnd(p) = Max(S)
    BY DEF DigitsEnd, s
<1>a. \A i : i \in S => i \in s .. n /\ \A k \in s + 1 .. i : p[k] \in 48 .. 57
    OBVIOUS
<1>b. \A i \in s .. n : (\A k \in s + 1 .. i : p[k] \in 48 .. 57) => i \in S
    OBVIOUS
<1> HIDE DEF S
<1>4. DigitsEnd(p) \in S /\ \A y \in S : y <= DigitsEnd(p)
    BY <1>2, <1>3, GreatestPosition
<1> DEFINE e == DigitsEnd(p)
<1> HIDE DEF e
<1>5. e \in s .. n /\ e \in Nat /\ (\A i \in s + 1 .. e : p[i] \in 48 .. 57) /\ e + 1 \notin S
    BY <1>1, <1>a, <1>4 DEF e
<1>6. \A i \in s + 1 .. e : IsDigit(p[i])
    BY <1>5 DEF IsDigit
<1>7. e < n => ~IsDigit(p[e + 1])
  <2> SUFFICES ASSUME e < n, IsDigit(p[e + 1]) PROVE FALSE
      OBVIOUS
  <2>1. \A i \in s + 1 .. e + 1 : i = e + 1 \/ i \in s + 1 .. e
      BY <1>1, <1>5
  <2>2. p[e + 1] \in 48 .. 57
    <3>1. e + 1 \in 1 .. n
        BY <1>1, <1>5
    <3>2. PICK c \in 0 .. 255 : c = p[e + 1]
        BY <3>1
    <3>3. c >= 48 /\ c <= 57
        BY <3>2 DEF IsDigit
    <3>4. c \in 48 .. 57
        BY ONLY <3>3
    <3> QED BY ONLY <3>2, <3>4, Zenon
  <2>3. e + 1 \in s .. n /\ \A i \in s + 1 .. e + 1 : p[i] \in 48 .. 57
      BY <1>1, <1>5, <2>1, <2>2
  <2> QED BY <1>b, <1>5, <2>3
<1> QED BY <1>5, <1>6, <1>7 DEF s, e

LEMMA FactorStep ==
    ASSUME NEW p, NEW j \in Nat
    PROVE  /\ Factor(p, 0) = 1
           /\ Factor(p, j) \in {1, -1}
           /\ Factor(p, j + 1) = IF p[j + 1] = 45 THEN Factor(p, j) * (-1) ELSE Factor(p, j)
<1> DEFINE M == Minuses(p, j)
           N == Minuses(p, j + 1)
<1>1. Minuses(p, 0) = {}
    BY DEF Minuses
<1>2. Factor(p, 0) = 1
    BY <1>1, FS_EmptySet DEF Factor
<1>3. IsFiniteSet(M) /\ Cardinality(M) \in Nat
  <2>1. M \subseteq 1 .. j /\ IsFiniteSet(1 .. j)
      BY FS_Interval DEF Minuses
  <2>2. IsFiniteSet(M)
      BY <2>1, FS_Subset
  <2> QED BY <2>2, FS_CardinalityType
<1>4. CASE p[j + 1] = 45
  <2>1. N = M \cup {j + 1} /\ j + 1 \notin M
      BY <1>4 DEF Minuses
  <2> HIDE DEF M, N
  <2>2. Cardinality(N) = Cardinality(M) + 1
      BY <1>3, <2>1, FS_AddElement
  <2>3. PICK c \in Nat : c = Cardinality(M)
      BY <1>3
  <2>4. (c + 1) % 2 = 0 <=> c % 2 # 0
      OBVIOUS
  <2> QED BY <1>2, <1>4, <2>2, <2>3, <2>4 DEF Factor, M, N
<1>5. CASE p[j + 1] # 45
  <2>1. N = M
      BY <1>5 DEF Minuses
  <2> QED BY <1>2, <1>5, <2>1 DEF Factor
<1> QED BY <1>4, <1>5

\* A number is its sign times its magnitude.
LEMMA ValueIs ==
    ASSUME NEW p, SignsEnd(p) \in Nat, Magnitude(p) \in Int
    PROVE  Value(p) = Magnitude(p) * Factor(p, SignsEnd(p)) + 0
<1>1. Value(p) = IF Cardinality(Minuses(p, SignsEnd(p))) % 2 = 0
                   THEN Magnitude(p) ELSE -Magnitude(p)
    BY DEF Value, Magnitude
<1>2. PICK m \in Int : m = Magnitude(p)
    OBVIOUS
<1>3. m * 1 + 0 = m /\ m * (-1) + 0 = -m
    OBVIOUS
<1> QED BY <1>1, <1>2, <1>3 DEF Factor

(***************************************************************************)
(* The loops of str2int                                                    *)
(***************************************************************************)
LEMMA PuissIs ==
    ASSUME NEW b \in Buffer
    PROVE  /\ Puiss(b)[0] = 1
           /\ \A k \in 1 .. BufLen :
                 Puiss(b)[k] = IF b[k] = 45 THEN Puiss(b)[k - 1] * (-1) ELSE Puiss(b)[k - 1]
<1> DEFINE n == BufLen
           step == [k \in 1 .. n |-> [x \in Int |-> IF b[k] = 45 THEN x * (-1) ELSE x]]
           P(g) == g = [k \in 0 .. n |-> IF k = 0 THEN 1
                           ELSE IF b[k] = 45 THEN g[k - 1] * (-1) ELSE g[k - 1]]
<1>1. n \in Nat
    BY Str2IntAssumption
<1>2. \A k \in 1 .. n : \A x \in Int :
        step[k][x] = (IF b[k] = 45 THEN x * (-1) ELSE x) /\ step[k][x] \in Int
    OBVIOUS
<1> HIDE DEF step, n
<1>3. PICK f : Recurs(f, n, 1, step)
    BY <1>1, <1>2, RecurrenceHolds
<1>4. f \in [0 .. n -> Int] /\ f[0] = 1
    BY <1>3 DEF Recurs
<1>5. \A k \in 1 .. n : f[k] = IF b[k] = 45 THEN f[k - 1] * (-1) ELSE f[k - 1]
  <2> TAKE k \in 1 .. n
  <2>1. f[k] = step[k][f[k - 1]] /\ f[k - 1] \in Int
      BY <1>1, <1>3, <1>4 DEF Recurs
  <2> QED BY <1>2, <2>1
<1>6. \A k \in 0 .. n : k = 0 \/ k \in 1 .. n
    BY <1>1
<1>7. P(f)
  <2>1. \A k \in 0 .. n : f[k] = IF k = 0 THEN 1
                           ELSE IF b[k] = 45 THEN f[k - 1] * (-1) ELSE f[k - 1]
      BY <1>4, <1>5, <1>6
  <2>2. f = [k \in 0 .. n |-> f[k]]
      BY <1>4
  <2> QED BY <2>1, <2>2
<1>8. Puiss(b) = CHOOSE g : P(g)
    BY DEF Puiss, n
<1> HIDE DEF P
<1>9. P(Puiss(b))
    BY <1>7, <1>8
<1> DEFINE d == Puiss(b)
<1>10. d = [k \in 0 .. n |-> IF k = 0 THEN 1
                ELSE IF b[k] = 45 THEN d[k - 1] * (-1) ELSE d[k - 1]]
    BY <1>9 DEF P
<1> HIDE DEF d
<1>11. \A k \in 0 .. n : d[k] = IF k = 0 THEN 1
                ELSE IF b[k] = 45 THEN d[k - 1] * (-1) ELSE d[k - 1]
    BY <1>10
<1> QED BY <1>1, <1>11 DEF d, n

LEMMA ResultIs ==
    ASSUME NEW b \in Buffer, NEW s \in 0 .. BufLen
    PROVE  /\ Result(b, s)[0] = 0
           /\ \A k \in 0 .. BufLen - s : Result(b, s)[k] \in Int
           /\ \A k \in 1 .. BufLen - s :
                 Result(b, s)[k] = Wrap(Result(b, s)[k - 1] * 10 + (b[s + k] - 48))
<1> DEFINE n == BufLen - s
           step == [k \in 1 .. n |-> [x \in Int |-> Wrap(x * 10 + (b[s + k] - 48))]]
           P(g) == g = [k \in 0 .. n |-> IF k = 0 THEN 0
                           ELSE Wrap(g[k - 1] * 10 + (b[s + k] - 48))]
<1>1. n \in Nat
    BY Str2IntAssumption
<1>2. \A k \in 1 .. n : \A x \in Int :
        step[k][x] = Wrap(x * 10 + (b[s + k] - 48)) /\ step[k][x] \in Int
  <2> TAKE k \in 1 .. n
  <2> TAKE x \in Int
  <2>1. s + k \in 1 .. BufLen
      BY Str2IntAssumption
  <2>2. b[s + k] \in 0 .. 255
      BY <2>1 DEF Buffer
  <2>3. x * 10 + (b[s + k] - 48) \in Int
      BY ONLY <2>2, x \in Int
  <2> QED BY <2>3, WrapIs
<1> HIDE DEF step, n
<1>3. PICK f : Recurs(f, n, 0, step)
  <2>1. \A k \in 1 .. n : \A x \in Int : step[k][x] \in Int
      BY <1>2
  <2> QED BY <1>1, <2>1, RecurrenceHolds
<1>4. f \in [0 .. n -> Int] /\ f[0] = 0
    BY <1>3 DEF Recurs
<1>5. \A k \in 1 .. n : f[k] = Wrap(f[k - 1] * 10 + (b[s + k] - 48))
  <2> TAKE k \in 1 .. n
  <2>1. f[k] = step[k][f[k - 1]] /\ f[k - 1] \in Int
      BY <1>1, <1>3, <1>4 DEF Recurs
  <2> QED BY <1>2, <2>1
<1>6. OverPositions(f, n) /\ \A k \in 0 .. n : k = 0 \/ k \in 1 .. n
    BY <1>1, <1>4 DEF OverPositions
<1>7. P(f)
  <2>1. \A k \in 0 .. n : f[k] = IF k = 0 THEN 0 ELSE Wrap(f[k - 1] * 10 + (b[s + k] - 48))
      BY <1>4, <1>5, <1>6
  <2> QED BY <1>6, <2>1 DEF OverPositions
<1>8. Result(b, s) = CHOOSE g : P(g)
    BY DEF Result, n
<1> HIDE DEF P
<1>9. P(Result(b, s))
    BY <1>7, <1>8
<1> DEFINE d == Result(b, s)
<1>10. d = [k \in 0 .. n |-> IF k = 0 THEN 0 ELSE Wrap(d[k - 1] * 10 + (b[s + k] - 48))]
    BY <1>9 DEF P
<1> HIDE DEF d
<1>11. \A k \in 0 .. n : d[k] = IF k = 0 THEN 0 ELSE Wrap(d[k - 1] * 10 + (b[s + k] - 48))
    BY <1>10
<1>12. d[0] = 0 /\ \A k \in 1 .. n : d[k] = Wrap(d[k - 1] * 10 + (b[s + k] - 48))
    BY <1>1, <1>11
<1>13. OverPositions(d, n)
    BY <1>10 DEF OverPositions
<1>14. d[0] = f[0] /\ \A k \in 1 .. n : d[k - 1] = f[k - 1] => d[k] = f[k]
    BY <1>4, <1>5, <1>12
<1>15. d = f
    BY <1>1, <1>6, <1>13, <1>14, Agree
<1> QED BY <1>4, <1>12, <1>15 DEF d, n

\* A loop that passes over exactly the first j bytes ends there.
LEMMA LeastIs ==
    ASSUME NEW S \in SUBSET Nat, NEW j \in S, \A k \in S : j <= k
    PROVE  Min(S) = j
<1>1. Min(S) \in S /\ \A k \in S : Min(S) <= k
    BY DEF Min
<1>2. PICK m \in Nat : m = Min(S)
    BY <1>1
<1> QED BY <1>1, <1>2


(***************************************************************************)
(* A delimited number                                                      *)
(***************************************************************************)
LEMMA PayloadIs ==
    ASSUME NEW f \in Fragment
    PROVE  /\ BufLen \in Nat /\ f.buf \in Buffer
           /\ f.len \in Nat /\ f.len >= 1 /\ f.len <= BufLen
           /\ Len(Payload(f)) = f.len
           /\ \A i \in 1 .. f.len : Payload(f)[i] = f.buf[i] /\ f.buf[i] \in 0 .. 255
<1>1. /\ BufLen \in Nat /\ f.buf \in Buffer
      /\ f.len \in Nat /\ f.len >= 1 /\ f.len <= BufLen
    BY Str2IntAssumption DEF Fragment
<1>2. \A i \in 1 .. f.len : i \in 1 .. BufLen
    BY <1>1
<1>3. \A i \in 1 .. f.len : f.buf[i] \in 0 .. 255
    BY <1>1, <1>2 DEF Buffer
<1> QED BY <1>1, <1>3 DEF Payload

\* What the reference says of a payload, in terms of the buffer.
LEMMA Ends ==
    ASSUME NEW f \in Fragment
    PROVE  LET s == SignsEnd(Payload(f))
               e == DigitsEnd(Payload(f))
           IN  /\ s \in Nat /\ e \in Nat /\ s <= e /\ e <= f.len
               /\ \A i \in 1 .. s : IsSign(f.buf[i])
               /\ \A i \in s + 1 .. e : IsDigit(f.buf[i])
               /\ s < f.len => ~IsSign(f.buf[s + 1])
               /\ e < f.len => ~IsDigit(f.buf[e + 1])
<1> DEFINE p == Payload(f)
           s == SignsEnd(p)
           e == DigitsEnd(p)
<1>1. /\ f.len \in Nat /\ Len(p) = f.len
      /\ \A i \in 1 .. f.len : p[i] = f.buf[i] /\ f.buf[i] \in 0 .. 255
    BY PayloadIs
<1> HIDE DEF p
<1>2. /\ s \in 0 .. f.len
      /\ \A i \in 1 .. s : IsSign(p[i])
      /\ s < f.len => ~IsSign(p[s + 1])
    BY <1>1, SignsEndIs
<1>3. \A i \in 1 .. f.len : p[i] \in 0 .. 255
    BY <1>1
<1>4. /\ e \in s .. f.len /\ e \in Nat
      /\ \A i \in s + 1 .. e : IsDigit(p[i])
      /\ e < f.len => ~IsDigit(p[e + 1])
    BY <1>1, <1>3, DigitsEndIs
<1> HIDE DEF s, e
<1>5. s \in Nat /\ e \in Nat /\ s <= e /\ e <= f.len
    BY <1>1, <1>2, <1>4
<1>6. \A i \in 1 .. s : IsSign(f.buf[i])
  <2>1. \A i \in 1 .. s : i \in 1 .. f.len
      BY <1>1, <1>5
  <2> QED BY <1>1, <1>2, <2>1
<1>7. \A i \in s + 1 .. e : IsDigit(f.buf[i])
  <2>1. \A i \in s + 1 .. e : i \in 1 .. f.len
      BY <1>1, <1>5
  <2> QED BY <1>1, <1>4, <2>1
<1>8. s < f.len => ~IsSign(f.buf[s + 1])
  <2>1. s < f.len => s + 1 \in 1 .. f.len
      BY <1>1, <1>5
  <2> QED BY <1>1, <1>2, <2>1
<1>9. e < f.len => ~IsDigit(f.buf[e + 1])
  <2>1. e < f.len => e + 1 \in 1 .. f.len
      BY <1>1, <1>5
  <2> QED BY <1>1, <1>4, <2>1
<1> QED BY <1>5, <1>6, <1>7, <1>8, <1>9 DEF s, e, p

\* Both loops stop inside the buffer, where the reference says.
LEMMA LoopsEnd ==
    ASSUME NEW f \in Fragment, Delimited(f)
    PROVE  /\ SignLoop(f.buf) = SignsEnd(Payload(f))
           /\ DigitLoop(f.buf, SignLoop(f.buf)) = DigitsEnd(Payload(f))
           /\ DigitsEnd(Payload(f)) < BufLen
<1> DEFINE b == f.buf
           s == SignsEnd(Payload(f))
           e == DigitsEnd(Payload(f))
           S == {k \in 0 .. BufLen : k < BufLen => ~IsSign(b[k + 1])}
           D == {k \in s .. BufLen : k < BufLen => ~IsDigit(b[k + 1])}
<1>1. /\ s \in Nat /\ e \in Nat /\ s <= e /\ e <= f.len
      /\ \A i \in 1 .. s : IsSign(b[i])
      /\ \A i \in s + 1 .. e : IsDigit(b[i])
      /\ s < f.len => ~IsSign(b[s + 1])
      /\ e < f.len => ~IsDigit(b[e + 1])
    BY Ends
<1>2. BufLen \in Nat /\ f.len \in Nat /\ f.len <= BufLen
    BY PayloadIs
<1>3. e < f.len \/ (f.len < BufLen /\ b[f.len + 1] = 0)
    BY DEF Delimited
<1>4. SignLoop(b) = Min(S)
    BY DEF SignLoop
<1>5. SignLoop(b) = s => DigitLoop(b, SignLoop(b)) = Min(D)
    BY DEF DigitLoop
<1> HIDE DEF s, e
<1>6. e < BufLen /\ ~IsDigit(b[e + 1]) /\ ~IsSign(b[s + 1])
  <2>1. CASE e < f.len
      BY <1>1, <1>2, <2>1
  <2>2. CASE e = f.len /\ f.len < BufLen /\ b[f.len + 1] = 0
    <3>1. ~IsDigit(b[e + 1]) /\ ~IsSign(b[e + 1])
        BY <2>2 DEF IsDigit, IsSign
    <3>2. s < f.len \/ s = e
        BY <1>1, <1>2, <2>2
    <3> QED BY <1>1, <1>2, <2>2, <3>1, <3>2
  <2> QED BY <1>1, <1>2, <1>3, <2>1, <2>2
<1>7. Min(S) = s
  <2>1. S \in SUBSET Nat /\ s \in S
      BY <1>1, <1>2, <1>6
  <2>2. \A k \in S : s <= k
    <3> SUFFICES ASSUME NEW k \in S, k < s PROVE FALSE
        BY <1>1, <2>1
    <3>1. k \in Nat /\ k + 1 \in 1 .. s /\ k < BufLen
        BY <1>1, <1>2
    <3> QED BY <1>1, <3>1
  <2> HIDE DEF S
  <2> QED BY <2>1, <2>2, LeastIs
<1>8. Min(D) = e
  <2>1. D \in SUBSET Nat /\ e \in D
      BY <1>1, <1>2, <1>6
  <2>2. \A k \in D : e <= k
    <3> SUFFICES ASSUME NEW k \in D, k < e PROVE FALSE
        BY <1>1, <2>1
    <3>1. k \in Nat /\ k + 1 \in s + 1 .. e /\ k < BufLen
        BY <1>1, <1>2
    <3> QED BY <1>1, <3>1
  <2> HIDE DEF D
  <2> QED BY <2>1, <2>2, LeastIs
<1> QED BY <1>4, <1>5, <1>6, <1>7, <1>8 DEF s, e

\* What is still to be read: all of the number after the signs, nothing after
\* the digits, and in between a digit moves from the rest into the result.
LEMMA OutcomeIs ==
    ASSUME NEW f \in Fragment, NEW r \in Int
    PROVE  LET s == SignsEnd(Payload(f))
               e == DigitsEnd(Payload(f))
           IN  /\ Magnitude(Payload(f)) \in Int
               /\ Outcome(Payload(f), s, 0) = Magnitude(Payload(f))
               /\ Outcome(Payload(f), e, r) = r
               /\ \A j \in s .. e : Outcome(Payload(f), j, r) \in Int
               /\ \A j \in s .. e - 1 :
                     Outcome(Payload(f), j + 1, r * 10 + (f.buf[j + 1] - 48)) = Outcome(Payload(f), j, r)
<1> DEFINE s == SignsEnd(Payload(f))
           e == DigitsEnd(Payload(f))
           P == Places(e - s)
           E == Endings(Payload(f), s, e)
<1>1. s \in Nat /\ e \in Nat /\ s <= e /\ e <= f.len /\ f.len \in Nat
    BY Ends, PayloadIs
<1>2. \A i \in 1 .. f.len : Payload(f)[i] = f.buf[i] /\ f.buf[i] \in 0 .. 255
    BY PayloadIs
<1>3. \A j : \A x : Outcome(Payload(f), j, x) = x * P[e - j] + E[e - j]
    BY DEF Outcome
<1>4. Magnitude(Payload(f)) = E[e - s]
    BY DEF Magnitude
<1> HIDE DEF s, e
<1>5. e - s \in Nat
    BY <1>1
<1>6. \A i \in s + 1 .. e : Payload(f)[i] = f.buf[i] /\ f.buf[i] \in Int /\ Payload(f)[i] \in Int
  <2>1. \A i \in s + 1 .. e : i \in 1 .. f.len
      BY <1>1
  <2> QED BY <1>2, <2>1
<1>7. /\ P \in [0 .. e - s -> Int] /\ P[0] = 1
      /\ \A k \in 1 .. e - s : P[k] = 10 * P[k - 1]
    BY <1>5, PlacesAre
<1>8. /\ E \in [0 .. e - s -> Int] /\ E[0] = 0
      /\ \A k \in 1 .. e - s : E[k] = E[k - 1] + (Payload(f)[e - k + 1] - 48) * P[k - 1]
  <2>1. PICK p : p = Payload(f)
      OBVIOUS
  <2>2. \A i \in s + 1 .. e : p[i] \in Int
      BY <1>6, <2>1
  <2>3. /\ Endings(p, s, e) \in [0 .. e - s -> Int] /\ Endings(p, s, e)[0] = 0
        /\ \A k \in 1 .. e - s : Endings(p, s, e)[k] =
              Endings(p, s, e)[k - 1] + (p[e - k + 1] - 48) * Places(e - s)[k - 1]
      BY <1>1, <2>2, EndingsAre
  <2> QED BY <2>1, <2>3
<1> HIDE DEF P, E
<1>9. Magnitude(Payload(f)) \in Int
    BY <1>4, <1>5, <1>8
<1>10. Outcome(Payload(f), s, 0) = Magnitude(Payload(f))
  <2>1. P[e - s] \in Int /\ E[e - s] \in Int
      BY <1>5, <1>7, <1>8
  <2>2. 0 * P[e - s] + E[e - s] = E[e - s]
      BY ONLY <2>1
  <2> QED BY <1>3, <1>4, <2>2
<1>11. Outcome(Payload(f), e, r) = r
  <2>1. e - e = 0 /\ r * 1 + 0 = r
      BY <1>1
  <2> QED BY <1>3, <1>7, <1>8, <2>1
<1>12. ASSUME NEW j \in s .. e PROVE Outcome(Payload(f), j, r) \in Int
  <2>1. e - j \in 0 .. e - s
      BY <1>1
  <2>2. P[e - j] \in Int /\ E[e - j] \in Int
      BY <1>7, <1>8, <2>1
  <2>3. r * P[e - j] + E[e - j] \in Int
      BY ONLY <2>2, r \in Int
  <2> QED BY <1>3, <2>3
<1>13. ASSUME NEW j \in s .. e - 1
       PROVE  Outcome(Payload(f), j + 1, r * 10 + (f.buf[j + 1] - 48)) = Outcome(Payload(f), j, r)
  <2>1. e - j \in 1 .. e - s /\ e - (e - j) + 1 = j + 1 /\ j + 1 \in s + 1 .. e
      BY <1>1
  <2>2. PICK k \in 1 .. e - s : k = e - j
      BY <2>1
  <2>3. e - (j + 1) = k - 1 /\ k - 1 \in 0 .. e - s /\ k \in 0 .. e - s
      BY <1>1, <2>2
  <2>4. PICK d \in Int : d = f.buf[j + 1]
      BY <1>6, <2>1
  <2>5. PICK a \in Int : a = P[k - 1]
      BY <1>7, <2>3
  <2>6. PICK b \in Int : b = E[k - 1]
      BY <1>8, <2>3
  <2>7. P[k] = 10 * a
      BY <1>7, <2>5
  <2>8. E[k] = b + (d - 48) * a
    <3>1. Payload(f)[e - k + 1] = d
        BY <1>6, <2>1, <2>2, <2>4
    <3> QED BY <1>8, <2>5, <2>6, <3>1
  <2>9. Outcome(Payload(f), j + 1, r * 10 + (f.buf[j + 1] - 48)) = (r * 10 + (d - 48)) * a + b
      BY <1>3, <2>3, <2>4, <2>5, <2>6
  <2>10. Outcome(Payload(f), j, r) = r * (10 * a) + (b + (d - 48) * a)
      BY <1>3, <2>2, <2>7, <2>8
  <2>11. (r * 10 + (d - 48)) * a + b = r * (10 * a) + (b + (d - 48) * a)
      BY ONLY r \in Int
  <2> QED BY <2>9, <2>10, <2>11
<1> QED BY <1>9, <1>10, <1>11, <1>12, <1>13 DEF s, e

\* puiss after the signs.
LEMMA SignRight ==
    ASSUME NEW f \in Fragment
    PROVE  Puiss(f.buf)[SignsEnd(Payload(f))] = Factor(Payload(f), SignsEnd(Payload(f)))
<1> DEFINE p == Payload(f)
           s == SignsEnd(p)
           d == Puiss(f.buf)
           Bad == {k \in 0 .. s : d[k] # Factor(p, k)}
<1>1. s \in Nat /\ s <= f.len /\ f.len \in Nat /\ f.len <= BufLen /\ BufLen \in Nat
    BY Ends, PayloadIs
<1>2. \A i \in 1 .. f.len : p[i] = f.buf[i]
    BY PayloadIs
<1>3. /\ d[0] = 1
      /\ \A k \in 1 .. BufLen : d[k] = IF f.buf[k] = 45 THEN d[k - 1] * (-1) ELSE d[k - 1]
    BY PayloadIs, PuissIs
<1> HIDE DEF p, s, d
<1>4. Bad \in SUBSET (0 .. s) /\ \A k \in 0 .. s : k \in Bad <=> d[k] # Factor(p, k)
    OBVIOUS
<1> HIDE DEF Bad
<1>5. ASSUME Bad # {} PROVE FALSE
  <2>1. 0 \notin Bad
    <3>1. Factor(p, 0) = 1
        BY FactorStep
    <3> QED BY <1>3, <1>4, <3>1
  <2>2. PICK k \in Bad : k \in 1 .. s /\ k - 1 \in 0 .. s /\ k - 1 \notin Bad
      BY <1>1, <1>4, <1>5, <2>1, FirstFailing
  <2>3. PICK j \in Nat : j = k - 1 /\ j + 1 = k
      BY <2>2
  <2>4. k \in 1 .. f.len /\ k \in 1 .. BufLen /\ k \in 0 .. s
      BY <1>1, <2>2
  <2>5. p[k] = f.buf[k]
      BY <1>2, <2>4
  <2>6. d[j] = Factor(p, j)
      BY <1>4, <2>2, <2>3
  <2>7. d[k] = IF p[k] = 45 THEN Factor(p, j) * (-1) ELSE Factor(p, j)
      BY <1>3, <2>3, <2>4, <2>5, <2>6
  <2>8. d[k] = Factor(p, k)
      BY <2>3, <2>7, FactorStep
  <2> QED BY <1>4, <2>4, <2>8
<1>6. s \in 0 .. s
    BY <1>1
<1> QED BY <1>4, <1>5, <1>6 DEF p, s, d

\* The sum of the digits behind place j, to the width of int.
LEMMA OutcomeCongruent ==
    ASSUME NEW f \in Fragment, NEW j \in SignsEnd(Payload(f)) .. DigitsEnd(Payload(f)),
           NEW x \in Int, NEW y \in Int, Congruent(x, y)
    PROVE  Congruent(Outcome(Payload(f), j, x), Outcome(Payload(f), j, y))
<1> DEFINE p == Payload(f)
           s == SignsEnd(p)
           e == DigitsEnd(p)
           P == Places(e - s)
           E == Endings(p, s, e)
<1>1. s \in Nat /\ e \in Nat /\ s <= e /\ e <= f.len /\ f.len \in Nat
    BY Ends, PayloadIs
<1>2. \A i \in 1 .. f.len : p[i] = f.buf[i] /\ f.buf[i] \in 0 .. 255
    BY PayloadIs
<1>3. \A z : Outcome(p, j, z) = z * P[e - j] + E[e - j]
    BY DEF Outcome
<1>4. j \in s .. e
    OBVIOUS
<1> HIDE DEF p, s, e
<1>5. e - s \in Nat /\ e - j \in 0 .. e - s
    BY <1>1, <1>4
<1>6. \A i \in s + 1 .. e : p[i] \in Int
  <2>1. \A i \in s + 1 .. e : i \in 1 .. f.len
      BY <1>1
  <2> QED BY <1>2, <2>1
<1>7. P \in [0 .. e - s -> Int]
    BY <1>5, PlacesAre
<1>8. E \in [0 .. e - s -> Int]
    BY <1>1, <1>6, EndingsAre
<1> HIDE DEF P, E
<1>9. P[e - j] \in Int /\ E[e - j] \in Int
    BY <1>5, <1>7, <1>8
<1>10. Congruent(x * P[e - j] + E[e - j], y * P[e - j] + E[e - j])
    BY <1>9, CongruentLinear
<1> QED BY <1>3, <1>10 DEF p

\* result after the digits: with every digit the rest of the number shrinks and
\* what it will come to stays the same.
LEMMA ResultRight ==
    ASSUME NEW f \in Fragment
    PROVE  LET s == SignsEnd(Payload(f))
               r == Result(f.buf, s)[DigitsEnd(Payload(f)) - s]
           IN  r \in Int /\ Congruent(r, Magnitude(Payload(f)))
<1> DEFINE p == Payload(f)
           s == SignsEnd(p)
           e == DigitsEnd(p)
           m == Magnitude(p)
           d == Result(f.buf, s)
           Bad == {k \in 0 .. e - s : ~Congruent(Outcome(p, s + k, d[k]), m)}
<1>1. s \in Nat /\ e \in Nat /\ s <= e /\ e <= f.len /\ f.len \in Nat /\ f.len <= BufLen
      /\ BufLen \in Nat
    BY Ends, PayloadIs
<1>2. \A i \in 1 .. f.len : f.buf[i] \in 0 .. 255
    BY PayloadIs
<1>3. s \in 0 .. BufLen /\ e - s \in Nat /\ e - s <= BufLen - s
    BY <1>1
<1>4. /\ d[0] = 0
      /\ \A k \in 0 .. BufLen - s : d[k] \in Int
      /\ \A k \in 1 .. BufLen - s : d[k] = Wrap(d[k - 1] * 10 + (f.buf[s + k] - 48))
    BY <1>3, PayloadIs, ResultIs
<1>5. /\ m \in Int /\ Outcome(p, s, 0) = m
      /\ \A r \in Int :
            /\ Outcome(p, e, r) = r
            /\ \A j \in s .. e : Outcome(p, j, r) \in Int
            /\ \A j \in s .. e - 1 :
                  Outcome(p, j + 1, r * 10 + (f.buf[j + 1] - 48)) = Outcome(p, j, r)
  <2>1. 0 \in Int
      OBVIOUS
  <2> QED BY <2>1, OutcomeIs
<1>6. \A j \in s .. e : \A x \in Int : \A y \in Int :
        Congruent(x, y) => Congruent(Outcome(p, j, x), Outcome(p, j, y))
    BY OutcomeCongruent
<1> HIDE DEF p, s, e, m, d
<1>7. Bad \in SUBSET (0 .. e - s)
      /\ \A k \in 0 .. e - s : k \in Bad <=> ~Congruent(Outcome(p, s + k, d[k]), m)
    OBVIOUS
<1> HIDE DEF Bad
<1>8. ASSUME Bad # {} PROVE FALSE
  <2>1. 0 \notin Bad
    <3>1. s + 0 = s /\ 0 \in 0 .. e - s
        BY <1>1, <1>3
    <3>2. Congruent(m, m)
      <4>1. PICK n \in Int : n = Modulus
          BY ModulusIs
      <4>2. m = m + 0 * n /\ 0 \in Int
          BY <1>5
      <4> QED BY <4>1, <4>2 DEF Congruent
    <3> QED BY <1>4, <1>5, <1>7, <3>1, <3>2
  <2>2. PICK k \in Bad : k \in 1 .. e - s /\ k - 1 \in 0 .. e - s /\ k - 1 \notin Bad
      BY <1>3, <1>7, <1>8, <2>1, FirstFailing
  <2>3. PICK j \in s .. e - 1 : j = s + (k - 1) /\ j + 1 = s + k
      BY <1>1, <2>2
  <2>4. j \in s .. e /\ j + 1 \in s .. e /\ k \in 0 .. e - s
      BY <1>1, <2>2, <2>3
  <2>5. d[k - 1] \in Int /\ d[k] \in Int /\ k \in 1 .. BufLen - s
      BY <1>1, <1>3, <1>4, <2>2
  <2>6. f.buf[j + 1] \in 0 .. 255
    <3>1. j + 1 \in 1 .. f.len
        BY <1>1, <2>4
    <3> QED BY <1>2, <3>1
  <2>7. PICK r \in Int : r = d[k - 1] * 10 + (f.buf[j + 1] - 48)
      BY <2>5, <2>6
  <2>8. d[k] = Wrap(r)
      BY <1>4, <2>3, <2>5, <2>7
  <2>9. Congruent(d[k], r)
      BY <2>8, WrapIs
  <2>10. Congruent(Outcome(p, j + 1, d[k]), Outcome(p, j + 1, r))
      BY <1>6, <2>4, <2>5, <2>9
  <2>11. Outcome(p, j + 1, r) = Outcome(p, j, d[k - 1])
      BY <1>5, <2>3, <2>5, <2>7
  <2>12. Congruent(Outcome(p, j, d[k - 1]), m)
      BY <1>7, <2>2, <2>3
  <2>13. Outcome(p, j + 1, d[k]) \in Int /\ Outcome(p, j + 1, r) \in Int
      BY <1>5, <2>4, <2>5
  <2>14. Congruent(Outcome(p, j + 1, d[k]), m)
      BY <1>5, <2>10, <2>11, <2>12, <2>13, CongruentTransitive
  <2> QED BY <1>7, <2>3, <2>4, <2>14
<1>9. e - s \in 0 .. e - s /\ s + (e - s) = e /\ d[e - s] \in Int
    BY <1>1, <1>3, <1>4
<1>10. Congruent(Outcome(p, e, d[e - s]), m)
    BY <1>7, <1>8, <1>9
<1>11. Outcome(p, e, d[e - s]) = d[e - s]
    BY <1>5, <1>9
<1> QED BY <1>9, <1>10, <1>11 DEF p, s, e, m, d

\* str2int (json.c), given any buffer and any length of the payload: a number
\* that ends in the payload, or at padding, is read as itself modulo the width
\* of int, and nothing behind the buffer is read.
THEOREM DelimitedParsed ==
    ASSUME NEW f \in Fragment, Delimited(f)
    PROVE  str2int(f.buf) = {Wrap(Value(Payload(f)))}
<1> DEFINE p == Payload(f)
           s == SignsEnd(p)
           e == DigitsEnd(p)
           r == Result(f.buf, s)[e - s]
           m == Magnitude(p)
<1>1. SignLoop(f.buf) = s /\ DigitLoop(f.buf, SignLoop(f.buf)) = e /\ e < BufLen
    BY LoopsEnd
<1>2. s \in Nat /\ e \in Nat /\ BufLen \in Nat
    BY Ends, PayloadIs
<1>3. Puiss(f.buf)[s] = Factor(p, s) /\ Factor(p, s) \in {1, -1}
    BY <1>2, SignRight, FactorStep
<1>4. r \in Int /\ Congruent(r, m)
    BY ResultRight
<1>5. m \in Int
  <2>1. 0 \in Int
      OBVIOUS
  <2> QED BY <2>1, OutcomeIs
<1>6. Value(p) = m * Factor(p, s) + 0
    BY <1>2, <1>5, ValueIs
<1>7. str2int(f.buf) = {Wrap(r * Factor(p, s))}
  <2>1. e # BufLen
      BY <1>1, <1>2
  <2> QED BY <1>1, <1>3, <2>1 DEF str2int
<1> HIDE DEF r, m, p, s, e
<1>8. PICK c \in Int : c = Factor(p, s)
    BY <1>3
<1>9. Congruent(r * c + 0, m * c + 0)
  <2>1. 0 \in Int
      OBVIOUS
  <2> QED BY ONLY <1>4, <1>5, <2>1, c \in Int, CongruentLinear, Zenon
<1>10. r * c + 0 \in Int /\ m * c + 0 \in Int /\ r * c + 0 = r * c
    BY <1>4, <1>5
<1>11. Wrap(r * c + 0) = Wrap(m * c + 0)
    BY <1>9, <1>10, WrapCongruent
<1> QED BY <1>6, <1>7, <1>8, <1>10, <1>11 DEF p

\* Wrap leaves an int alone.
LEMMA WrapInt ==
    ASSUME NEW x \in Ints
    PROVE  Wrap(x) = x
<1>1. PICK n \in Int : n = INT_MIN
    BY ModulusIs
<1>2. PICK m \in Nat \ {0} : m = Modulus
    BY ModulusIs
<1>3. x \in Int /\ x - n \in 0 .. m - 1
    BY <1>1, <1>2, Str2IntAssumption DEF Ints, INT_MIN, Modulus
<1>4. (x - n) % m = x - n
    BY <1>3
<1> QED BY <1>1, <1>2, <1>3, <1>4 DEF Wrap, Modulus

\* A delimited number that an int can hold is returned as it is, the least int
\* too, whose digits alone do not fit (str2int applies the sign last).
THEOREM IntsParsedExactly ==
    ASSUME NEW f \in Fragment, Delimited(f), Value(Payload(f)) \in Ints
    PROVE  str2int(f.buf) = {Value(Payload(f))}
BY DelimitedParsed, WrapInt

==============================================================================

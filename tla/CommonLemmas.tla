---------------------------- MODULE CommonLemmas ----------------------------
(***************************************************************************)
(* Facts about numbers, finite sets and recursive functions that the       *)
(* proofs of several components rest on.  Induction is stated for sets,    *)
(* which are instantiated by a set where a theorem for operators would     *)
(* need one.                                                               *)
(***************************************************************************)
EXTENDS Integers, FiniteSets, FiniteSetTheorems, TLAPS

-----------------------------------------------------------------------------
(* Induction and recursion *)

\* Numbers that are below n, with all that are smaller than one of them, are
\* the first ones.
LEMMA InitialSegment ==
  ASSUME NEW n \in Nat, NEW K \in SUBSET (0 .. n), \A k \in K : 0 .. k \subseteq K
  PROVE  /\ Cardinality(K) \in 0 .. n + 1
         /\ K = 0 .. Cardinality(K) - 1
<1> DEFINE c == Cardinality(K)
<1>1. IsFiniteSet(K) /\ c \in Nat /\ c <= n + 1
  <2>1. IsFiniteSet(0 .. n) /\ Cardinality(0 .. n) = n + 1
    BY FS_Interval
  <2>2. IsFiniteSet(K) /\ c <= Cardinality(0 .. n)
    BY <2>1, FS_Subset
  <2> QED BY <2>1, <2>2, FS_CardinalityType
<1> HIDE DEF c
<1>2. \A k \in K : k < c
  <2> SUFFICES ASSUME NEW k \in K PROVE k < c
    OBVIOUS
  <2>1. Cardinality(0 .. k) <= c
    BY <1>1, FS_Subset DEF c
  <2>2. Cardinality(0 .. k) = k + 1
    BY FS_Interval
  <2> QED BY <1>1, <2>1, <2>2
<1>3. K = 0 .. c - 1
  <2>1. K \in SUBSET (0 .. c - 1)
    BY <1>1, <1>2
  <2>2. CASE K = {}
    <3>1. c = 0
      BY <2>2, FS_EmptySet DEF c
    <3> QED BY <2>2, <3>1
  <2>3. CASE K # {}
    <3>0. PICK k \in K : TRUE
      BY <2>3
    <3>1. c > 0
      BY <1>1, <1>2, <3>0
    <3>2. Cardinality(0 .. c - 1) = c /\ IsFiniteSet(0 .. c - 1)
      BY <1>1, <3>1, FS_Interval
    <3> QED BY <2>1, <3>2, FS_Subset DEF c
  <2> QED BY <2>2, <2>3
<1> QED BY <1>1, <1>3 DEF c

\* A set of numbers with 0 and the successor of each of its members has all.
LEMMA SetInduction ==
  ASSUME NEW S, 0 \in S, \A k \in Nat : k \in S => k + 1 \in S
  PROVE  \A n \in Nat : n \in S
<1> SUFFICES ASSUME NEW n \in Nat PROVE n \in S
  OBVIOUS
<1> DEFINE K == {k \in 0 .. n : 0 .. k \subseteq S}
           c == Cardinality(K)
<1>1. c \in 0 .. n + 1 /\ K = 0 .. c - 1
  <2>1. K \in SUBSET (0 .. n) /\ \A k \in K : 0 .. k \subseteq K
    OBVIOUS
  <2> HIDE DEF K
  <2> QED BY <2>1, InitialSegment
<1>2. 0 \in K
  OBVIOUS
<1> HIDE DEF c
<1>3. c - 1 \in K /\ c \notin K
  <2> HIDE DEF K
  <2> QED BY <1>1, <1>2
<1>4. CASE c <= n
  <2>1. c \in 0 .. n /\ c \in S
    BY <1>1, <1>3, <1>4
  <2>2. 0 .. c \subseteq S
    BY <1>1, <1>3, <2>1
  <2> QED BY <1>3, <2>1, <2>2
<1>5. CASE c > n
  BY <1>1, <1>3, <1>5
<1> QED BY <1>1, <1>4, <1>5

\* What gives the next value from a number and the last value.
StepsOn(V) == [Nat \X V -> V]

\* A function defined by recursion on the numbers exists.
LEMMA RecursiveFunction ==
  ASSUME NEW V, NEW a \in V, NEW step \in StepsOn(V)
  PROVE  \E f \in [Nat -> V] :
           f[0] = a /\ \A k \in Nat : f[k + 1] = step[<<k + 1, f[k]>>]
<1>0. step \in [Nat \X V -> V]
  BY DEF StepsOn
<1> DEFINE Rec(g, n) == \A k \in 0 .. n : g[k] = IF k = 0 THEN a ELSE step[<<k, g[k - 1]>>]
           S == {n \in Nat : \E g \in [0 .. n -> V] : Rec(g, n)}
<1>1. 0 \in S
  <2>1. [k \in 0 .. 0 |-> a] \in [0 .. 0 -> V] /\ Rec([k \in 0 .. 0 |-> a], 0)
    OBVIOUS
  <2> QED BY <2>1
<1>2. ASSUME NEW n \in Nat, n \in S PROVE n + 1 \in S
  <2>1. PICK g \in [0 .. n -> V] : Rec(g, n)
    BY <1>2
  <2> DEFINE h == [k \in 0 .. n + 1 |-> IF k = n + 1 THEN step[<<n + 1, g[n]>>] ELSE g[k]]
  <2>2. step[<<n + 1, g[n]>>] \in V
    BY <1>0
  <2>3. h \in [0 .. n + 1 -> V]
    BY <2>2
  <2>4. ASSUME NEW k \in 0 .. n + 1
        PROVE  h[k] = IF k = 0 THEN a ELSE step[<<k, h[k - 1]>>]
    <3>1. CASE k = n + 1
      <4>1. h[k] = step[<<n + 1, g[n]>>] /\ k # 0 /\ h[k - 1] = g[n]
        BY <3>1
      <4> QED BY <3>1, <4>1
    <3>2. CASE k # n + 1
      <4>1. k \in 0 .. n /\ h[k] = g[k] /\ (k # 0 => h[k - 1] = g[k - 1])
        BY <3>2
      <4> QED BY <2>1, <4>1
    <3> QED BY <3>1, <3>2
  <2>5. Rec(h, n + 1)
    <3> HIDE DEF h
    <3> QED BY <2>4
  <2> HIDE DEF h, Rec
  <2> QED BY <2>3, <2>5
<1>3. \A n \in Nat : n \in S
  <2> HIDE DEF S
  <2> QED BY <1>1, <1>2, SetInduction
<1> DEFINE G(n) == CHOOSE g \in [0 .. n -> V] : Rec(g, n)
           f == [n \in Nat |-> G(n)[n]]
<1>4. ASSUME NEW n \in Nat PROVE G(n) \in [0 .. n -> V] /\ Rec(G(n), n)
  <2>1. \E g \in [0 .. n -> V] : Rec(g, n)
    BY <1>3
  <2> HIDE DEF Rec
  <2> QED BY <2>1
<1>5. ASSUME NEW n \in Nat, NEW m \in Nat, m <= n,
             NEW g \in [0 .. n -> V], Rec(g, n), NEW h \in [0 .. m -> V], Rec(h, m)
      PROVE  \A k \in 0 .. m : g[k] = h[k]
  <2> DEFINE T == {k \in Nat : k <= m => g[k] = h[k]}
  <2>1. 0 \in T
    <3>1. 0 \in 0 .. n /\ 0 \in 0 .. m
      BY <1>5
    <3>2. g[0] = a
      BY <1>5, <3>1
    <3>3. h[0] = a
      BY <1>5, <3>1
    <3> QED BY <3>2, <3>3
  <2>2. ASSUME NEW k \in Nat, k \in T PROVE k + 1 \in T
    <3> SUFFICES ASSUME k + 1 <= m PROVE g[k + 1] = h[k + 1]
      OBVIOUS
    <3>1. g[k] = h[k] /\ k + 1 \in 0 .. n /\ k + 1 \in 0 .. m /\ (k + 1) - 1 = k /\ k + 1 # 0
      BY <1>5, <2>2
    <3>2. g[k + 1] = step[<<k + 1, g[k]>>]
      BY <1>5, <3>1
    <3>3. h[k + 1] = step[<<k + 1, h[k]>>]
      BY <1>5, <3>1
    <3> QED BY <3>1, <3>2, <3>3
  <2>3. \A k \in Nat : k \in T
    <3> HIDE DEF T
    <3> QED BY <2>1, <2>2, SetInduction
  <2> QED BY <2>3
<1> HIDE DEF G
<1>6. f \in [Nat -> V]
  BY <1>4
<1>7. ASSUME NEW k \in Nat
      PROVE  f[k] = IF k = 0 THEN a ELSE step[<<k, f[k - 1]>>]
  <2>1. G(k) \in [0 .. k -> V] /\ Rec(G(k), k) /\ k \in 0 .. k /\ f[k] = G(k)[k]
    BY <1>4
  <2>2. CASE k = 0
    BY <2>1, <2>2
  <2>3. CASE k # 0
    <3>1. k - 1 \in Nat /\ k - 1 <= k /\ k - 1 \in 0 .. k - 1
      BY <2>3
    <3>2. G(k - 1) \in [0 .. k - 1 -> V] /\ Rec(G(k - 1), k - 1)
      BY <1>4, <3>1
    <3>3. G(k)[k - 1] = G(k - 1)[k - 1]
      <4> HIDE DEF Rec
      <4> QED BY <1>5, <2>1, <3>1, <3>2
    <3>4. G(k)[k] = step[<<k, G(k)[k - 1]>>]
      BY <2>1, <2>3
    <3> QED BY <2>1, <2>3, <3>1, <3>3, <3>4
  <2> QED BY <2>2, <2>3
<1> HIDE DEF f
<1>8. f[0] = a
  BY <1>7
<1>9. ASSUME NEW k \in Nat PROVE f[k + 1] = step[<<k + 1, f[k]>>]
  <2>1. k + 1 \in Nat /\ k + 1 # 0 /\ (k + 1) - 1 = k
    OBVIOUS
  <2> QED BY <1>7, <2>1
<1> QED BY <1>6, <1>8, <1>9

-----------------------------------------------------------------------------
(* Arithmetic *)

\* Division with a remainder.
LEMMA DivMod ==
  ASSUME NEW d \in Nat \ {0}, NEW a \in Nat
  PROVE  /\ a \div d \in Nat /\ a % d \in 0 .. d - 1
         /\ a = (a \div d) * d + (a % d)
OBVIOUS

\* Quotient and remainder are unique.
LEMMA DivUnique ==
  ASSUME NEW d \in Nat \ {0}, NEW q \in Nat, NEW p \in Nat,
         NEW r \in 0 .. d - 1, NEW s \in 0 .. d - 1, q * d + r = p * d + s
  PROVE  q = p /\ r = s
<1>1. CASE q < p
  <2>1. (q + 1) * d <= p * d
    BY <1>1
  <2> QED BY <2>1
<1>2. CASE p < q
  <2>1. (p + 1) * d <= q * d
    BY <1>2
  <2> QED BY <2>1
<1> QED BY <1>1, <1>2

\* A number keeps its remainder when a multiple is added.
LEMMA ModUnique ==
  ASSUME NEW d \in Nat \ {0}, NEW a \in Int, NEW q \in Int, NEW r \in 0 .. d - 1,
         a = d * q + r
  PROVE  a % d = r
<1> DEFINE p == a \div d
           s == a % d
<1>1. p \in Int /\ s \in 0 .. d - 1 /\ a = d * p + s
  OBVIOUS
<1> HIDE DEF p, s
<1>2. CASE q < p
  <2>1. d * (q + 1) <= d * p
    BY <1>1, <1>2
  <2>2. d * (q + 1) = d * q + d
    OBVIOUS
  <2> DEFINE x == d * q
             y == d * p
  <2>3. x \in Int /\ y \in Int /\ x + d <= y /\ x + r = y + s
    BY <1>1, <2>1, <2>2
  <2> HIDE DEF x, y
  <2> QED BY <1>1, <2>3
<1>3. CASE p < q
  <2>1. d * (p + 1) <= d * q
    BY <1>1, <1>3
  <2>2. d * (p + 1) = d * p + d
    BY <1>1
  <2> DEFINE x == d * q
             y == d * p
  <2>3. x \in Int /\ y \in Int /\ y + d <= x /\ x + r = y + s
    BY <1>1, <2>1, <2>2
  <2> HIDE DEF x, y
  <2> QED BY <1>1, <2>3
<1>4. CASE p = q
  <2> DEFINE x == d * q
  <2>1. x \in Int /\ x + r = x + s
    BY <1>1, <1>4
  <2> HIDE DEF x
  <2> QED BY <1>1, <2>1 DEF s
<1> QED BY <1>1, <1>2, <1>3, <1>4

\* Reducing a summand does not change the remainder of a sum.
LEMMA ModPlus ==
  ASSUME NEW d \in Nat \ {0}, NEW a \in Int, NEW b \in Int
  PROVE  /\ ((a % d) + b) % d = (a + b) % d
         /\ (b + (a % d)) % d = (a + b) % d
<1> DEFINE p == a \div d
           s == a % d
           q == (s + b) \div d
           r == (s + b) % d
<1>1. p \in Int /\ s \in 0 .. d - 1 /\ a = d * p + s
  OBVIOUS
<1> HIDE DEF p, s
<1>2. q \in Int /\ r \in 0 .. d - 1 /\ s + b = d * q + r
  BY <1>1
<1> HIDE DEF q, r
<1>3. a + b = d * (p + q) + r /\ p + q \in Int
  <2> DEFINE x == d * p
             y == d * q
  <2>1. x \in Int /\ y \in Int /\ d * (p + q) = x + y
    BY <1>1, <1>2
  <2>2. a = x + s /\ s + b = y + r
    BY <1>1, <1>2
  <2> HIDE DEF x, y
  <2>3. a + b = (x + y) + r
    BY <1>1, <1>2, <2>1, <2>2
  <2> QED BY <1>1, <1>2, <2>1, <2>3
<1>4. (a + b) % d = r
  <2>1. a + b \in Int
    OBVIOUS
  <2> QED BY <1>2, <1>3, <2>1, ModUnique
<1>5. b + s = s + b
  BY <1>1
<1> QED BY <1>4, <1>5 DEF r, s

\* As many blocks of d as round n up hold n.
LEMMA CeilingCovers ==
  ASSUME NEW d \in Nat \ {0}, NEW n \in Nat, NEW e \in 0 .. n - 1
  PROVE  e \div d \in 0 .. (n + d - 1) \div d - 1
<1> DEFINE m == (n + d - 1) \div d
           q == e \div d
<1>1. m \in Nat /\ (n + d - 1) % d \in 0 .. d - 1
      /\ n + d - 1 = m * d + ((n + d - 1) % d)
  <2>1. n + d - 1 \in Nat
    OBVIOUS
  <2> QED BY <2>1, DivMod
<1>2. q \in Nat /\ e % d \in 0 .. d - 1 /\ e = q * d + (e % d)
  <2>1. e \in Nat
    OBVIOUS
  <2> QED BY <2>1, DivMod
<1>3. n <= m * d
  <2> DEFINE s == (n + d - 1) % d
             x == m * d
  <2>1. x \in Nat /\ s \in 0 .. d - 1 /\ n + d - 1 = x + s
    BY <1>1
  <2> HIDE DEF s, x
  <2>2. n <= x
    BY <2>1
  <2> QED BY <2>2 DEF x
<1>4. CASE q >= m
  <2>1. q * d >= m * d
    <3> HIDE DEF q, m
    <3> QED BY <1>4, <1>1, <1>2
  <2>2. q * d <= e
    <3> DEFINE x == q * d
               s == e % d
    <3>1. x \in Nat /\ s \in Nat /\ e = x + s
      BY <1>2
    <3> HIDE DEF x, s
    <3>2. x <= e
      BY <3>1
    <3> QED BY <3>2 DEF x
  <2> QED BY <2>1, <2>2, <1>3, <1>1, <1>2
<1>5. CASE q < m
  BY <1>5, <1>1, <1>2
<1> QED BY <1>1, <1>2, <1>4, <1>5

\* Reads of a group of T threads, R each, and the elements of its block.
LEMMA BlockIndex ==
  ASSUME NEW T \in Nat \ {0}, NEW R \in Nat \ {0}
  PROVE  /\ T * R \in Nat \ {0}
         /\ \A t \in 0 .. T - 1, i \in 0 .. R - 1 : i * T + t \in 0 .. T * R - 1
         /\ \A b \in 0 .. T * R - 1 : b \div T \in 0 .. R - 1
<1>1. T * R \in Nat \ {0}
  OBVIOUS
<1>2. ASSUME NEW t \in 0 .. T - 1, NEW i \in 0 .. R - 1
      PROVE  i * T + t \in 0 .. T * R - 1
  <2>1. (i + 1) * T <= R * T
    OBVIOUS
  <2>2. i * T + T <= T * R
    BY <2>1
  <2>3. i * T \in Nat
    OBVIOUS
  <2> QED BY <2>2, <2>3, <1>1
<1>3. ASSUME NEW b \in 0 .. T * R - 1
      PROVE  b \div T \in 0 .. R - 1
  <2> DEFINE q == b \div T
  <2>1. q \in Nat /\ b % T \in 0 .. T - 1 /\ b = q * T + (b % T)
    <3>1. b \in Nat
      BY <1>1
    <3> QED BY <3>1, DivMod
  <2>2. CASE q >= R
    <3>1. q * T >= R * T
      <4> HIDE DEF q
      <4> QED BY <2>1, <2>2
    <3> HIDE DEF q
    <3> QED BY <3>1, <2>1, <1>1
  <2>3. CASE q < R
    BY <2>1, <2>3
  <2> QED BY <2>1, <2>2, <2>3
<1> QED BY <1>1, <1>2, <1>3

-----------------------------------------------------------------------------
(* Powers of two: a set of k elements has 2 ^ k subsets *)

LEMMA PowerOfTwo ==
  ASSUME NEW k \in Nat
  PROVE  2 ^ k \in Nat \ {0} /\ 2 ^ (k + 1) = 2 * 2 ^ k
<1> DEFINE A == SUBSET (1 .. k)
           B == SUBSET (1 .. k + 1)
           W == {s \cup {k + 1} : s \in A}
<1>1. IsFiniteSet(1 .. k) /\ Cardinality(1 .. k) = k
  BY FS_Interval
<1>2. IsFiniteSet(1 .. k + 1) /\ Cardinality(1 .. k + 1) = k + 1
  BY FS_Interval
<1>3. IsFiniteSet(A) /\ Cardinality(A) = 2 ^ k
  BY <1>1, FS_SUBSET
<1>4. IsFiniteSet(B) /\ Cardinality(B) = 2 ^ (k + 1)
  BY <1>2, FS_SUBSET
<1>5. B = A \cup W
  <2>0. 1 .. k \subseteq 1 .. k + 1 /\ k + 1 \in 1 .. k + 1
    OBVIOUS
  <2>1. A \subseteq B /\ W \subseteq B
    <3>1. A \subseteq B
      BY <2>0
    <3>2. ASSUME NEW s \in A PROVE s \cup {k + 1} \in B
      BY <2>0
    <3> QED BY <3>1, <3>2
  <2>2. ASSUME NEW s \in B, s \notin A PROVE s \in W
    <3>1. s \ {k + 1} \in A /\ s = (s \ {k + 1}) \cup {k + 1}
      BY <2>2
    <3> QED BY <3>1
  <2> QED BY <2>1, <2>2
<1>6. A \cap W = {}
  OBVIOUS
<1> DEFINE f == [s \in A |-> s \cup {k + 1}]
<1>7. f \in Bijection(A, W)
  <2>1. f \in Surjection(A, W)
    BY DEF Surjection
  <2>2. f \in Injection(A, W)
    <3>1. ASSUME NEW s \in A, NEW t \in A, f[s] = f[t] PROVE s = t
      BY <3>1
    <3>2. f \in [A -> W]
      OBVIOUS
    <3> QED BY <3>1, <3>2 DEF Injection, IsInjective
  <2> QED BY <2>1, <2>2 DEF Bijection
<1> HIDE DEF A, B, W, f
<1>8. IsFiniteSet(W) /\ Cardinality(W) = Cardinality(A)
  BY <1>3, <1>7, FS_Bijection DEF ExistsBijection
<1>9. Cardinality(B) = Cardinality(A) + Cardinality(W) - Cardinality(A \cap W)
  BY <1>3, <1>5, <1>8, FS_Union
<1>10. Cardinality(A \cap W) = 0
  BY <1>6, FS_EmptySet
<1>11. Cardinality(A) \in Nat
  BY <1>3, FS_CardinalityType
<1>12. Cardinality(A) # 0
  <2>1. {} \in A
    BY DEF A
  <2> QED BY <1>3, <2>1, FS_EmptySet
<1> QED BY <1>3, <1>4, <1>8, <1>9, <1>10, <1>11, <1>12

LEMMA ZerothPower ==
  2 ^ 0 = 1
<1>1. IsFiniteSet({}) /\ Cardinality({}) = 0
  BY FS_EmptySet
<1>2. Cardinality(SUBSET {}) = 2 ^ 0
  BY <1>1, FS_SUBSET
<1>3. SUBSET {} = {{}} /\ Cardinality({{}}) = 1
  BY FS_Singleton
<1> QED BY <1>2, <1>3

\* No power of two has to be named to bound a number.
LEMMA PowerAbove ==
  ASSUME NEW n \in Nat
  PROVE  n < 2 ^ n
<1> DEFINE S == {k \in Nat : k < 2 ^ k}
<1>1. 0 \in S
  <2>1. 2 ^ 0 \in Nat \ {0}
    BY PowerOfTwo
  <2> QED BY <2>1
<1>2. ASSUME NEW k \in Nat, k \in S PROVE k + 1 \in S
  <2>1. 2 ^ k \in Nat \ {0} /\ 2 ^ (k + 1) = 2 * 2 ^ k
    BY PowerOfTwo
  <2> QED BY <1>2, <2>1
<1>3. \A k \in Nat : k \in S
  <2> HIDE DEF S
  <2> QED BY <1>1, <1>2, SetInduction
<1> QED BY <1>3

\* Larger exponents give larger powers.
LEMMA PowersGrow ==
  ASSUME NEW j \in Nat, NEW k \in Nat, j <= k
  PROVE  2 ^ j <= 2 ^ k
<1> DEFINE S == {d \in Nat : 2 ^ j <= 2 ^ (j + d)}
<1>1. 0 \in S
  <2>1. 2 ^ j \in Nat \ {0} /\ j + 0 = j
    BY PowerOfTwo
  <2> QED BY <2>1
<1>2. ASSUME NEW d \in Nat, d \in S PROVE d + 1 \in S
  <2>1. /\ j + d \in Nat /\ j + (d + 1) = (j + d) + 1
        /\ 2 ^ j \in Nat
    BY PowerOfTwo
  <2>2. 2 ^ (j + d) \in Nat /\ 2 ^ ((j + d) + 1) = 2 * 2 ^ (j + d)
    BY <2>1, PowerOfTwo
  <2>3. 2 ^ j <= 2 ^ ((j + d) + 1)
    BY <1>2, <2>1, <2>2
  <2> QED BY <2>1, <2>3
<1>3. \A d \in Nat : d \in S
  <2> HIDE DEF S
  <2> QED BY <1>1, <1>2, SetInduction
<1>4. k - j \in Nat /\ j + (k - j) = k
  OBVIOUS
<1>5. k - j \in S
  <2> HIDE DEF S
  <2> QED BY <1>3, <1>4
<1> QED BY <1>4, <1>5

\* As many doublings of 1 as start below n reach n.
LEMMA DoublingsReach ==
  ASSUME NEW n \in Nat \ {0}
  PROVE  LET r == Cardinality({k \in 0 .. n - 1 : 2 ^ k < n})
         IN  r \in Nat /\ n <= 2 ^ r
<1> DEFINE K == {k \in 0 .. n - 1 : 2 ^ k < n}
           r == Cardinality(K)
<1>1. ASSUME NEW k \in K, NEW j \in 0 .. k PROVE j \in K
  <2>1. 2 ^ j <= 2 ^ k
    BY PowersGrow
  <2>2. 2 ^ j \in Nat /\ 2 ^ k \in Nat
    BY PowerOfTwo
  <2> QED BY <2>1, <2>2
<1>2. r \in 0 .. n /\ K = 0 .. r - 1
  <2>1. n - 1 \in Nat /\ (n - 1) + 1 = n
    OBVIOUS
  <2>2. K \in SUBSET (0 .. n - 1)
    OBVIOUS
  <2>3. \A k \in K : 0 .. k \subseteq K
    BY <1>1
  <2> HIDE DEF K
  <2> QED BY <2>1, <2>2, <2>3, InitialSegment
<1> HIDE DEF r
<1>3. r \in Nat /\ 2 ^ r \in Nat
  BY <1>2, PowerOfTwo
<1>4. r \notin K
  BY <1>2
<1>5. ASSUME r <= n - 1 PROVE n <= 2 ^ r
  BY <1>2, <1>3, <1>4, <1>5
<1>6. ASSUME r = n PROVE n <= 2 ^ r
  BY <1>3, <1>6, PowerAbove
<1>7. n <= 2 ^ r
  <2> HIDE DEF K
  <2>1. r <= n - 1 \/ r = n
    BY <1>2
  <2> QED BY <1>5, <1>6, <2>1
<1> QED BY <1>3, <1>7 DEF r

\* Powers of two multiply by adding the exponents.
LEMMA PowerOfSum ==
  ASSUME NEW j \in Nat, NEW k \in Nat
  PROVE  2 ^ (j + k) = 2 ^ j * 2 ^ k
<1> DEFINE S == {d \in Nat : 2 ^ (j + d) = 2 ^ j * 2 ^ d}
<1>1. 0 \in S
  <2>1. 2 ^ j \in Nat \ {0} /\ j + 0 = j /\ 2 ^ 0 = 1
    BY PowerOfTwo, ZerothPower
  <2> QED BY <2>1
<1>2. ASSUME NEW d \in Nat, d \in S PROVE d + 1 \in S
  <2> DEFINE a == 2 ^ j
             b == 2 ^ d
             p == 2 ^ (j + d)
  <2>1. j + d \in Nat /\ j + (d + 1) = (j + d) + 1
    OBVIOUS
  <2>2. 2 ^ (d + 1) = 2 * b /\ 2 ^ ((j + d) + 1) = 2 * p
    BY <2>1, PowerOfTwo
  <2>3. a \in Nat /\ b \in Nat /\ p \in Nat
    BY <2>1, PowerOfTwo
  <2>4. p = a * b
    BY <1>2
  <2>5. 2 ^ (j + (d + 1)) = 2 * p
    BY <2>1, <2>2
  <2> HIDE DEF a, b, p
  <2>6. 2 * p = a * (2 * b)
    BY <2>3, <2>4
  <2>7. 2 ^ (j + (d + 1)) = a * 2 ^ (d + 1)
    BY <2>2, <2>5, <2>6
  <2> QED BY <2>7 DEF a
<1>3. \A d \in Nat : d \in S
  <2> HIDE DEF S
  <2> QED BY <1>1, <1>2, SetInduction
<1>4. k \in S
  <2> HIDE DEF S
  <2> QED BY <1>3
<1> QED BY <1>4

\* Dividing twice.
LEMMA DivDiv ==
  ASSUME NEW d \in Nat \ {0}, NEW e \in Nat \ {0}, NEW a \in Nat
  PROVE  a \div (d * e) = (a \div d) \div e
<1> DEFINE q == a \div d
           r == a % d
           p == q \div e
           s == q % e
           m == d * e
           u == a \div m
           v == a % m
<1>1. q \in Nat /\ r \in 0 .. d - 1 /\ a = q * d + r
  BY DivMod
<1>2. p \in Nat /\ s \in 0 .. e - 1 /\ q = p * e + s
  <2> HIDE DEF q
  <2> QED BY <1>1, DivMod
<1>3. m \in Nat \ {0}
  OBVIOUS
<1>4. u \in Nat /\ v \in 0 .. m - 1 /\ a = u * m + v
  <2> HIDE DEF m
  <2> QED BY <1>3, DivMod
<1> HIDE DEF q, r, p, s, u, v
<1>5. s * d + r \in 0 .. m - 1
  <2>1. (s + 1) * d <= e * d
    BY <1>2
  <2>2. s * d + d <= m /\ s * d \in Nat
    BY <1>2, <2>1
  <2> QED BY <1>1, <1>3, <2>2
<1>6. a = p * m + (s * d + r)
  <2>1. q * d = p * (d * e) + s * d
    BY <1>2
  <2> QED BY <1>1, <1>2, <2>1
<1>7. u = p
  <2> HIDE DEF m
  <2>1. u * m + v = p * m + (s * d + r)
    BY <1>4, <1>6
  <2> DEFINE w == s * d + r
  <2>2. w \in 0 .. m - 1 /\ u * m + v = p * m + w
    BY <1>5, <2>1
  <2> HIDE DEF w
  <2> QED BY <1>2, <1>3, <1>4, <2>2, DivUnique
<1> QED BY <1>7 DEF u, p, q

\* The remainder of a product is made of a digit and a remainder.
LEMMA ModOfProduct ==
  ASSUME NEW d \in Nat \ {0}, NEW e \in Nat \ {0}, NEW a \in Nat
  PROVE  a % (d * e) = ((a \div d) % e) * d + (a % d)
<1> DEFINE q == a \div d
           r == a % d
           p == q \div e
           s == q % e
           m == d * e
<1>1. q \in Nat /\ r \in 0 .. d - 1 /\ a = q * d + r
  BY DivMod
<1>2. p \in Nat /\ s \in 0 .. e - 1 /\ q = p * e + s
  <2> HIDE DEF q
  <2> QED BY <1>1, DivMod
<1>3. m \in Nat \ {0}
  OBVIOUS
<1> HIDE DEF q, r, p, s
<1>5. s * d + r \in 0 .. m - 1
  <2>1. (s + 1) * d <= e * d
    BY <1>2
  <2>2. s * d + d <= m /\ s * d \in Nat
    BY <1>2, <2>1
  <2> QED BY <1>1, <1>3, <2>2
<1>6. a = m * p + (s * d + r)
  <2>1. q * d = (d * e) * p + s * d
    BY <1>2
  <2> QED BY <1>1, <1>2, <2>1
<1>7. a % m = s * d + r
  <2> DEFINE w == s * d + r
  <2>1. w \in 0 .. m - 1 /\ a = m * p + w
    BY <1>5, <1>6
  <2> HIDE DEF w, m
  <2>2. a % m = w
    BY <1>2, <1>3, <2>1, ModUnique
  <2> QED BY <2>2 DEF w
<1> QED BY <1>7 DEF r, s, q

\* The larger digit decides.
LEMMA DigitDecides ==
  ASSUME NEW d \in Nat \ {0}, NEW a \in Nat, NEW b \in Nat, a < b,
         NEW r \in 0 .. d - 1, NEW s \in Nat
  PROVE  a * d + r < b * d + s
<1>1. (a + 1) * d <= b * d
  OBVIOUS
<1>2. (a + 1) * d = a * d + d /\ a * d \in Nat /\ b * d \in Nat
  OBVIOUS
<1> QED BY <1>1, <1>2

\* A set of numbers has a least one.
LEMMA LeastNumber ==
  ASSUME NEW K \in SUBSET Nat, NEW n \in K
  PROVE  \E k \in K : \A j \in K : k <= j
<1> SUFFICES ASSUME \A k \in K : \E j \in K : j < k PROVE FALSE
  OBVIOUS
<1> DEFINE S == {m \in Nat : \A j \in 0 .. m : j \notin K}
<1>1. 0 \in S
  OBVIOUS
<1>2. ASSUME NEW m \in Nat, m \in S PROVE m + 1 \in S
  <2>1. \A j \in 0 .. m : j \notin K
    BY <1>2
  <2>2. m + 1 \notin K
    BY <2>1
  <2> QED BY <2>1, <2>2
<1>3. \A m \in Nat : m \in S
  <2> HIDE DEF S
  <2> QED BY <1>1, <1>2, SetInduction
<1>4. n \in S
  <2> HIDE DEF S
  <2> QED BY <1>3
<1> QED BY <1>4

\* A number is below another if dividing by it gives nothing.
LEMMA DivSmall ==
  ASSUME NEW d \in Nat \ {0}, NEW a \in Nat
  PROVE  a \div d = 0 <=> a < d
<1> DEFINE q == a \div d
           r == a % d
<1>1. q \in Nat /\ r \in 0 .. d - 1 /\ a = q * d + r
  BY DivMod
<1> HIDE DEF q, r
<1>2. q = 0 => a < d
  BY <1>1
<1>3. ASSUME q # 0 PROVE a >= d
  <2>1. 1 * d <= q * d
    BY <1>1, <1>3
  <2> QED BY <1>1, <2>1
<1> QED BY <1>1, <1>2, <1>3 DEF q

\* How many of n numbers are smaller than that of c, or equal and before it.
RankOf(D, n, c) ==
  Cardinality({b \in 0 .. n - 1 : D[b] < D[c]})
    + Cardinality({b \in 0 .. n - 1 : b < c /\ D[b] = D[c]})

\* Numbered by what comes before them, elements get every number once.
LEMMA Ranks ==
  ASSUME NEW n \in Nat, NEW D \in [0 .. n - 1 -> Int], NEW r,
         \A c \in 0 .. n - 1 : r[c] = RankOf(D, n, c)
  PROVE  /\ \A c \in 0 .. n - 1 : r[c] \in 0 .. n - 1
         /\ \A b, c \in 0 .. n - 1 :
              r[b] < r[c] <=> D[b] < D[c] \/ (D[b] = D[c] /\ b < c)
         /\ \A b, c \in 0 .. n - 1 : r[b] = r[c] => b = c
<1> DEFINE S == 0 .. n - 1
           Below(c) == {b \in S : D[b] < D[c]}
           Beside(c) == {b \in S : b < c /\ D[b] = D[c]}
           Before(c) == {b \in S : D[b] < D[c] \/ (D[b] = D[c] /\ b < c)}
<1>1. IsFiniteSet(S) /\ Cardinality(S) = n
  <2>1. IsFiniteSet(S) /\ Cardinality(S) = IF 0 > n - 1 THEN 0 ELSE (n - 1) - 0 + 1
    BY FS_Interval
  <2> QED BY <2>1
<1>2. ASSUME NEW c \in S PROVE r[c] = Cardinality(Before(c)) /\ IsFiniteSet(Before(c))
  <2> DEFINE A == Below(c)
             B == Beside(c)
             E == Before(c)
  <2>1. A \subseteq S /\ B \subseteq S
    OBVIOUS
  <2>7. \A b \in S : D[b] \in Int
    OBVIOUS
  <2>8. A \cap B = {}
    BY <2>7
  <2>9. A \cup B = E
    OBVIOUS
  <2>2. r[c] = Cardinality(A) + Cardinality(B)
    BY DEF RankOf
  <2> HIDE DEF A, B, S, E
  <2>3. IsFiniteSet(A) /\ IsFiniteSet(B)
    BY <1>1, <2>1, FS_Subset
  <2>4. /\ IsFiniteSet(A \cup B)
        /\ Cardinality(A \cup B) = Cardinality(A) + Cardinality(B) - Cardinality({})
    BY <2>8, <2>3, FS_Union
  <2>5. Cardinality({}) = 0
    BY FS_EmptySet
  <2>6. Cardinality(A) \in Nat /\ Cardinality(B) \in Nat
    BY <2>3, FS_CardinalityType
  <2>10. IsFiniteSet(E) /\ Cardinality(E) = Cardinality(A) + Cardinality(B) - 0
    BY <2>9, <2>4, <2>5
  <2>11. Cardinality(E) = Cardinality(A) + Cardinality(B)
    BY <2>10, <2>6
  <2>12. r[c] = Cardinality(E)
    BY <2>11, <2>2
  <2> QED BY <2>10, <2>12 DEF E
<1>3. ASSUME NEW c \in S PROVE r[c] \in S
  <2> DEFINE T == S \ {c}
             B == Before(c)
  <2>1. B \subseteq T
    OBVIOUS
  <2>2. c \in S
    OBVIOUS
  <2> HIDE DEF S
  <2>3. IsFiniteSet(T) /\ Cardinality(T) = n - 1
    BY <1>1, <2>2, FS_RemoveElement
  <2> HIDE DEF T, B
  <2>4. Cardinality(B) <= n - 1 /\ IsFiniteSet(B)
    BY <2>1, <2>3, FS_Subset
  <2>5. Cardinality(B) \in Nat
    BY <2>4, FS_CardinalityType
  <2>6. r[c] = Cardinality(B)
    BY <1>2, <2>2 DEF B
  <2>7. Cardinality(B) \in 0 .. n - 1
    BY <2>4, <2>5
  <2> QED BY <2>6, <2>7 DEF S
<1>4. ASSUME NEW b \in S, NEW c \in S, D[b] < D[c] \/ (D[b] = D[c] /\ b < c)
      PROVE  r[b] < r[c]
  <2> DEFINE A == Before(b)
             B == Before(c)
             C == A \cup {b}
  <2>1. C \subseteq B /\ b \notin A
    <3>1. A \subseteq B
      <4> SUFFICES ASSUME NEW a \in A PROVE a \in B
        OBVIOUS
      <4>1. D[a] \in Int /\ D[b] \in Int /\ D[c] \in Int /\ a \in Int /\ b \in Int /\ c \in Int
        OBVIOUS
      <4>2. a \in S /\ (D[a] < D[b] \/ (D[a] = D[b] /\ a < b))
        OBVIOUS
      <4>3. D[a] < D[c] \/ (D[a] = D[c] /\ a < c)
        BY <1>4, <4>1, <4>2
      <4> QED BY <4>2, <4>3
    <3>2. b \in B
      BY <1>4
    <3>3. b \notin A
      OBVIOUS
    <3> QED BY <3>1, <3>2, <3>3
  <2>2. /\ r[b] = Cardinality(A) /\ IsFiniteSet(A)
        /\ r[c] = Cardinality(B) /\ IsFiniteSet(B)
    BY <1>2
  <2> HIDE DEF A, B
  <2>3. IsFiniteSet(C) /\ Cardinality(C) = Cardinality(A) + 1
    BY <2>1, <2>2, FS_AddElement
  <2> HIDE DEF C
  <2>4. Cardinality(C) <= Cardinality(B)
    BY <2>1, <2>2, FS_Subset
  <2>5. Cardinality(A) \in Nat /\ Cardinality(B) \in Nat
    BY <2>2, FS_CardinalityType
  <2> QED BY <2>2, <2>3, <2>4, <2>5
<1>5. ASSUME NEW b \in S, NEW c \in S
      PROVE  \/ b = c
             \/ D[b] < D[c] \/ (D[b] = D[c] /\ b < c)
             \/ D[c] < D[b] \/ (D[c] = D[b] /\ c < b)
  <2>1. D[b] \in Int /\ D[c] \in Int /\ b \in Int /\ c \in Int
    OBVIOUS
  <2> QED BY <2>1
<1>6. \A c \in S : r[c] \in Int
  <2> HIDE DEF S
  <2> QED BY <1>3 DEF S
<1>7. ASSUME NEW b \in S, NEW c \in S, r[b] < r[c]
      PROVE  D[b] < D[c] \/ (D[b] = D[c] /\ b < c)
  <2>1. r[b] \in Int /\ r[c] \in Int
    BY <1>6
  <2>2. b # c /\ ~(r[c] < r[b])
    BY <1>7, <2>1
  <2> QED BY <1>4, <1>5, <2>2
<1>8. ASSUME NEW b \in S, NEW c \in S, r[b] = r[c]
      PROVE  b = c
  <2>1. r[b] \in Int /\ r[c] \in Int
    BY <1>6
  <2>2. ~(r[b] < r[c]) /\ ~(r[c] < r[b])
    BY <1>8, <2>1
  <2> QED BY <1>4, <1>5, <2>2
<1> QED BY <1>3, <1>4, <1>7, <1>8

\* A one-to-one function from n numbers to them reaches them all.
LEMMA OneToOneIsOnto ==
  ASSUME NEW n \in Nat, NEW f \in [0 .. n - 1 -> 0 .. n - 1],
         \A a, b \in 0 .. n - 1 : f[a] = f[b] => a = b
  PROVE  \A c \in 0 .. n - 1 : \E a \in 0 .. n - 1 : f[a] = c
<1> DEFINE S == 0 .. n - 1
           T == {f[a] : a \in S}
<1>1. IsFiniteSet(S) /\ Cardinality(S) = n
  <2>1. IsFiniteSet(S) /\ Cardinality(S) = IF 0 > n - 1 THEN 0 ELSE (n - 1) - 0 + 1
    BY FS_Interval
  <2> QED BY <2>1
<1>2. T \subseteq S
  OBVIOUS
<1>3. f \in Bijection(S, T)
  BY DEF Bijection, Injection, Surjection, IsInjective
<1> HIDE DEF S, T
<1>4. IsFiniteSet(T) /\ Cardinality(T) = Cardinality(S)
  <2>1. ExistsBijection(S, T)
    BY <1>3 DEF ExistsBijection
  <2> QED BY <1>1, <2>1, FS_Bijection
<1>5. T = S
  BY <1>1, <1>2, <1>4, FS_Subset
<1> QED BY <1>5 DEF S, T

\* The members of S whose key is not above that of a.
UpToKey(S, key, a) == {b \in S : key[b] <= key[a]}

\* Numbered by how many have no higher key, members with keys of their own get
\* every number from 1 on once.
LEMMA Numbering ==
  ASSUME NEW S, IsFiniteSet(S), NEW key \in [S -> Int],
         \A a, b \in S : key[a] = key[b] => a = b,
         NEW rank, \A a \in S : rank[a] = Cardinality(UpToKey(S, key, a))
  PROVE  /\ \A a \in S : rank[a] \in 1 .. Cardinality(S)
         /\ \A a, b \in S : rank[a] = rank[b] => a = b
         /\ \A i \in 1 .. Cardinality(S) : \E a \in S : rank[a] = i
<1>1. ASSUME NEW a \in S
      PROVE  /\ IsFiniteSet(UpToKey(S, key, a))
             /\ rank[a] \in 1 .. Cardinality(S)
  <2> DEFINE A == UpToKey(S, key, a)
  <2>1. A \subseteq S /\ a \in A
    BY DEF UpToKey
  <2>2. rank[a] = Cardinality(A)
    OBVIOUS
  <2> HIDE DEF A
  <2>3. IsFiniteSet(A) /\ Cardinality(A) <= Cardinality(S)
    BY <2>1, FS_Subset
  <2>4. Cardinality(A) \in Nat /\ Cardinality(S) \in Nat
    BY <2>3, FS_CardinalityType
  <2>5. Cardinality(A) # 0
    BY <2>1, <2>3, FS_EmptySet
  <2>6. Cardinality(A) \in 1 .. Cardinality(S)
    BY <2>3, <2>4, <2>5
  <2> QED BY <2>2, <2>3, <2>6 DEF A
<1>2. ASSUME NEW a \in S, NEW b \in S, key[a] < key[b]
      PROVE  rank[a] < rank[b]
  <2> DEFINE A == UpToKey(S, key, a)
             B == UpToKey(S, key, b)
             C == A \cup {b}
  <2>1. \A c \in S : key[c] \in Int
    OBVIOUS
  <2>2. C \subseteq B /\ b \notin A
    BY <1>2, <2>1 DEF UpToKey
  <2>3. rank[a] = Cardinality(A) /\ rank[b] = Cardinality(B)
    OBVIOUS
  <2>4. IsFiniteSet(A) /\ IsFiniteSet(B)
    BY <1>1
  <2> HIDE DEF A, B
  <2>5. IsFiniteSet(C) /\ Cardinality(C) = Cardinality(A) + 1
    BY <2>2, <2>4, FS_AddElement
  <2> HIDE DEF C
  <2>6. Cardinality(C) <= Cardinality(B)
    BY <2>2, <2>4, FS_Subset
  <2>7. Cardinality(A) \in Nat /\ Cardinality(B) \in Nat
    BY <2>4, FS_CardinalityType
  <2> QED BY <2>3, <2>5, <2>6, <2>7
<1>3. ASSUME NEW a \in S, NEW b \in S, rank[a] = rank[b]
      PROVE  a = b
  <2>1. key[a] \in Int /\ key[b] \in Int
    OBVIOUS
  <2>2. \A i : i \in 1 .. Cardinality(S) => ~(i < i)
    OBVIOUS
  <2>3. ~(key[a] < key[b]) /\ ~(key[b] < key[a])
    BY <1>1, <1>2, <1>3, <2>2
  <2>4. key[a] = key[b]
    BY <2>1, <2>3
  <2> QED BY <2>4
<1>4. ASSUME NEW i \in 1 .. Cardinality(S) PROVE \E a \in S : rank[a] = i
  <2> DEFINE f == [a \in S |-> rank[a]]
             T == 1 .. Cardinality(S)
  <2>1. f \in [S -> T] /\ \A a, b \in S : f[a] = f[b] => a = b
    BY <1>1, <1>3
  <2>2. Cardinality(S) \in Nat
    BY FS_CardinalityType
  <2>3. IsFiniteSet(T) /\ Cardinality(T) = Cardinality(S)
    <3> DEFINE n == Cardinality(S)
    <3> HIDE DEF n
    <3>1. IsFiniteSet(1 .. n) /\ Cardinality(1 .. n) = IF 1 > n THEN 0 ELSE n - 1 + 1
      BY <2>2, FS_Interval DEF n
    <3>2. Cardinality(1 .. n) = n
      BY <2>2, <3>1 DEF n
    <3> QED BY <3>1, <3>2 DEF n
  <2>4. i \in T /\ \A a \in S : f[a] = rank[a]
    OBVIOUS
  <2> HIDE DEF f, T
  <2>5. f \in Injection(S, T)
    BY <2>1 DEF Injection, IsInjective
  <2>6. f \in Surjection(S, T)
    BY <2>3, <2>5, FS_Injection
  <2>7. \E a \in S : f[a] = i
    BY <2>4, <2>6 DEF Surjection
  <2> QED BY <2>4, <2>7
<1> QED BY <1>1, <1>3, <1>4

-----------------------------------------------------------------------------
(* Sums *)

\* The sum of the first n numbers of c.
SumOfFirst(c, n) ==
  LET sum[i \in 0 .. n] == IF i = 0 THEN 0 ELSE sum[i - 1] + c[i]
  IN  sum[n]

\* Sums are taken number by number.
LEMMA SumSteps ==
  ASSUME NEW n \in Nat, NEW c \in [1 .. n -> Nat]
  PROVE  /\ SumOfFirst(c, 0) = 0
         /\ \A k \in 0 .. n : SumOfFirst(c, k) \in Nat
         /\ \A k \in 1 .. n : SumOfFirst(c, k) = SumOfFirst(c, k - 1) + c[k]
<1> DEFINE step == [p \in Nat \X Nat |-> IF p[1] \in 1 .. n THEN p[2] + c[p[1]] ELSE 0]
<1>1. step \in StepsOn(Nat)
  <2>1. \A k \in 1 .. n : c[k] \in Nat
    OBVIOUS
  <2> QED BY <2>1 DEF StepsOn
<1>2. PICK g \in [Nat -> Nat] : g[0] = 0 /\ \A k \in Nat : g[k + 1] = step[<<k + 1, g[k]>>]
  <2> DEFINE a == 0
             V == Nat
  <2>1. a \in V /\ step \in StepsOn(V)
    BY <1>1
  <2> HIDE DEF a, V, step
  <2>2. \E g \in [Nat -> V] : g[0] = a /\ \A k \in Nat : g[k + 1] = step[<<k + 1, g[k]>>]
    BY <2>1, RecursiveFunction
  <2> QED BY <2>2 DEF a, V
<1>3. ASSUME NEW k \in 1 .. n PROVE g[k - 1] \in Nat /\ g[k] = g[k - 1] + c[k]
  <2>1. k - 1 \in Nat /\ (k - 1) + 1 = k /\ k \in Nat
    OBVIOUS
  <2>2. g[k] = step[<<k, g[k - 1]>>] /\ g[k - 1] \in Nat
    BY <1>2, <2>1
  <2>3. <<k, g[k - 1]>> \in Nat \X Nat
    BY <2>1, <2>2
  <2>4. step[<<k, g[k - 1]>>] = g[k - 1] + c[k]
    BY <2>3
  <2> QED BY <2>2, <2>4
<1> HIDE DEF step
<1>4. ASSUME NEW k \in 0 .. n PROVE SumOfFirst(c, k) = g[k]
  <2> DEFINE f[i \in 0 .. k] == IF i = 0 THEN 0 ELSE f[i - 1] + c[i]
             h == [i \in 0 .. k |-> g[i]]
  <2>1. h = [i \in 0 .. k |-> IF i = 0 THEN 0 ELSE h[i - 1] + c[i]]
    <3>1. ASSUME NEW i \in 0 .. k PROVE h[i] = IF i = 0 THEN 0 ELSE h[i - 1] + c[i]
      <4>1. CASE i = 0
        BY <1>2, <4>1
      <4>2. CASE i # 0
        <5>1. i \in 1 .. n /\ i - 1 \in 0 .. k
          BY <4>2
        <5> QED BY <1>3, <4>2, <5>1
      <4> QED BY <4>1, <4>2
    <3> QED BY <3>1
  <2>2. f = [i \in 0 .. k |-> IF i = 0 THEN 0 ELSE f[i - 1] + c[i]]
    <3> HIDE DEF h
    <3>1. \E u : u = [i \in 0 .. k |-> IF i = 0 THEN 0 ELSE u[i - 1] + c[i]]
      BY <2>1
    <3> QED BY <3>1
  <2>3. SumOfFirst(c, k) = f[k]
    BY DEF SumOfFirst
  <2> HIDE DEF f, h
  <2> DEFINE S == {i \in Nat : i \in 0 .. k => f[i] = g[i]}
  <2>4. 0 \in S
    BY <1>2, <2>2
  <2>5. ASSUME NEW i \in Nat, i \in S PROVE i + 1 \in S
    <3> SUFFICES ASSUME i + 1 \in 0 .. k PROVE f[i + 1] = g[i + 1]
      OBVIOUS
    <3>1. i \in 0 .. k /\ i + 1 # 0 /\ (i + 1) - 1 = i /\ i + 1 \in 1 .. n
      OBVIOUS
    <3>2. f[i + 1] = f[i] + c[i + 1]
      BY <2>2, <3>1
    <3> QED BY <1>3, <2>5, <3>1, <3>2
  <2>6. \A i \in Nat : i \in S
    <3> HIDE DEF S
    <3> QED BY <2>4, <2>5, SetInduction
  <2> QED BY <2>3, <2>6
<1> QED BY <1>2, <1>3, <1>4

\* What sums are bounded by when the numbers are.
LEMMA SumsGrow ==
  ASSUME NEW n \in Nat, NEW c \in [1 .. n -> Nat], NEW j \in 0 .. n, NEW k \in j .. n
  PROVE  SumOfFirst(c, j) <= SumOfFirst(c, k)
<1> DEFINE S == {i \in Nat : j + i <= n => SumOfFirst(c, j) <= SumOfFirst(c, j + i)}
<1>1. /\ \A i \in 0 .. n : SumOfFirst(c, i) \in Nat
      /\ \A i \in 1 .. n : SumOfFirst(c, i) = SumOfFirst(c, i - 1) + c[i] /\ c[i] \in Nat
  BY SumSteps
<1>2. 0 \in S
  BY <1>1
<1>3. ASSUME NEW i \in Nat, i \in S PROVE i + 1 \in S
  <2> SUFFICES ASSUME j + (i + 1) <= n
               PROVE  SumOfFirst(c, j) <= SumOfFirst(c, j + (i + 1))
    OBVIOUS
  <2> DEFINE m == j + i
  <2>1. m \in 0 .. n /\ m + 1 \in 1 .. n /\ (m + 1) - 1 = m /\ j + (i + 1) = m + 1
    OBVIOUS
  <2>2. SumOfFirst(c, j) <= SumOfFirst(c, m)
    BY <1>3
  <2> HIDE DEF m
  <2>3. SumOfFirst(c, m + 1) = SumOfFirst(c, m) + c[m + 1] /\ c[m + 1] \in Nat
    BY <1>1, <2>1
  <2>4. SumOfFirst(c, m) \in Nat /\ SumOfFirst(c, j) \in Nat
    BY <1>1, <2>1
  <2> QED BY <2>1, <2>2, <2>3, <2>4
<1>4. \A i \in Nat : i \in S
  <2> HIDE DEF S
  <2> QED BY <1>2, <1>3, SetInduction
<1>5. k - j \in S
  BY <1>4
<1>6. j + (k - j) = k
  OBVIOUS
<1> QED BY <1>5, <1>6

\* The part of M with number k, and the parts up to it.
PartOf(M, number, k) == {m \in M : number[m] = k}
PartsTo(M, number, k) == {m \in M : number[m] \in 1 .. k}

\* A set of numbered things has no less members than its parts together have.
LEMMA PartsFit ==
  ASSUME NEW n \in Nat, NEW c \in [1 .. n -> Nat],
         NEW M, IsFiniteSet(M), NEW number \in [M -> Int],
         \A k \in 1 .. n : c[k] <= Cardinality(PartOf(M, number, k))
  PROVE  SumOfFirst(c, n) <= Cardinality(M)
<1> DEFINE U(k) == PartsTo(M, number, k)
           S == {k \in Nat : k <= n => SumOfFirst(c, k) <= Cardinality(U(k))}
<1>1. /\ SumOfFirst(c, 0) = 0
      /\ \A i \in 0 .. n : SumOfFirst(c, i) \in Nat
      /\ \A i \in 1 .. n : SumOfFirst(c, i) = SumOfFirst(c, i - 1) + c[i] /\ c[i] \in Nat
  BY SumSteps
<1>2. \A k : U(k) \subseteq M
  BY DEF PartsTo
<1>3. 0 \in S
  <2>1. U(0) = {}
    BY DEF PartsTo
  <2>2. Cardinality(U(0)) = 0
    BY <2>1, FS_EmptySet
  <2> QED BY <1>1, <2>2
<1>4. ASSUME NEW k \in Nat, k \in S PROVE k + 1 \in S
  <2> SUFFICES ASSUME k + 1 <= n
               PROVE  SumOfFirst(c, k + 1) <= Cardinality(U(k + 1))
    OBVIOUS
  <2> DEFINE A == U(k)
             B == PartOf(M, number, k + 1)
             C == U(k + 1)
  <2>1. C = A \cup B /\ A \cap B = {} /\ A \subseteq M /\ B \subseteq M
    BY DEF PartOf, PartsTo
  <2>2. SumOfFirst(c, k) <= Cardinality(A)
    BY <1>4
  <2>3. c[k + 1] <= Cardinality(B)
    OBVIOUS
  <2> HIDE DEF A, B, C
  <2>4. IsFiniteSet(A) /\ IsFiniteSet(B)
    BY <2>1, FS_Subset
  <2>5. Cardinality(C) = Cardinality(A) + Cardinality(B) - 0
    BY <2>1, <2>4, FS_Union, FS_EmptySet
  <2>6. Cardinality(A) \in Nat /\ Cardinality(B) \in Nat
    BY <2>4, FS_CardinalityType
  <2>7. k + 1 \in 1 .. n /\ (k + 1) - 1 = k /\ k \in 0 .. n
    OBVIOUS
  <2>8. SumOfFirst(c, k + 1) = SumOfFirst(c, k) + c[k + 1] /\ c[k + 1] \in Nat
        /\ SumOfFirst(c, k) \in Nat
    BY <1>1, <2>7
  <2>9. SumOfFirst(c, k + 1) <= Cardinality(C)
    BY <2>2, <2>3, <2>5, <2>6, <2>8
  <2> QED BY <2>9 DEF C
<1>5. n \in S
  <2>1. \A k \in Nat : k \in S
    <3> HIDE DEF S
    <3> QED BY <1>3, <1>4, SetInduction
  <2> QED BY <2>1
<1>6. Cardinality(U(n)) <= Cardinality(M) /\ Cardinality(U(n)) \in Nat /\ Cardinality(M) \in Nat
  <2> DEFINE A == U(n)
  <2>1. A \subseteq M
    BY DEF PartsTo
  <2> HIDE DEF A
  <2>2. IsFiniteSet(A) /\ Cardinality(A) <= Cardinality(M)
    BY <2>1, FS_Subset
  <2> QED BY <2>2, FS_CardinalityType DEF A
<1>7. SumOfFirst(c, n) \in Nat
  BY <1>1
<1>8. SumOfFirst(c, n) <= Cardinality(U(n))
  BY <1>5
<1> HIDE DEF U, S
<1> QED BY <1>6, <1>7, <1>8

-----------------------------------------------------------------------------
(* Folds over finite sets *)

\* What holds of a finite set if it holds of the set without any of its members.
LEMMA SubsetInduction ==
  ASSUME NEW S, IsFiniteSet(S), NEW P,
         \A s \in SUBSET S : (\A x \in s : s \ {x} \in P) => s \in P
  PROVE  \A s \in SUBSET S : s \in P
<1> DEFINE T == {n \in Nat : \A s \in SUBSET S : Cardinality(s) = n => s \in P}
<1>1. \A s \in SUBSET S : IsFiniteSet(s) /\ Cardinality(s) \in Nat
  BY FS_Subset, FS_CardinalityType
<1>2. 0 \in T
  <2> SUFFICES ASSUME NEW s \in SUBSET S, Cardinality(s) = 0 PROVE s \in P
    OBVIOUS
  <2>1. s = {}
    BY <1>1, FS_EmptySet
  <2> QED BY <2>1
<1>3. ASSUME NEW n \in Nat, n \in T PROVE n + 1 \in T
  <2> SUFFICES ASSUME NEW s \in SUBSET S, Cardinality(s) = n + 1 PROVE s \in P
    OBVIOUS
  <2>1. ASSUME NEW x \in s PROVE s \ {x} \in P
    <3>1. Cardinality(s \ {x}) = Cardinality(s) - 1
      BY <1>1, FS_RemoveElement
    <3>2. Cardinality(s \ {x}) = n /\ s \ {x} \in SUBSET S
      BY <3>1
    <3> QED BY <1>3, <3>2
  <2> QED BY <2>1
<1>4. \A n \in Nat : n \in T
  <2> HIDE DEF T
  <2> QED BY <1>2, <1>3, SetInduction
<1> QED BY <1>1, <1>4

\* Any member of a set, always the same one.
OneOf(s) == CHOOSE x \in s : TRUE

\* What gives the next value from a member and the last value.
FoldSteps(I, V) == [I \X V -> V]

\* The value for s, if f has the values for its parts.
NextFold(f, a, step, s) == IF s = {} THEN a ELSE step[<<OneOf(s), f[s \ {OneOf(s)}]>>]

\* f has the fold of every part of S.
FoldsOn(f, S, a, step) == f = [s \in SUBSET S |-> NextFold(f, a, step, s)]

SetFold(S, a, step) == (CHOOSE f : FoldsOn(f, S, a, step))[S]

LEMMA OneOfMember == \A s : s # {} => OneOf(s) \in s
  BY DEF OneOf

\* The function that is defined by the recursion exists.
LEMMA FoldExists ==
  ASSUME NEW I, NEW V, NEW a \in V, NEW step \in FoldSteps(I, V),
         NEW S \in SUBSET I, IsFiniteSet(S)
  PROVE  \E f : FoldsOn(f, S, a, step)
<1> DEFINE W == [SUBSET S -> V]
           next == [p \in Nat \X W |-> [s \in SUBSET S |-> NextFold(p[2], a, step, s)]]
           none == [s \in SUBSET S |-> a]
<1>1. none \in W
  OBVIOUS
<1>2. ASSUME NEW w \in W, NEW s \in SUBSET S PROVE NextFold(w, a, step, s) \in V
  <2>1. CASE s = {}
    BY <2>1 DEF NextFold
  <2>2. CASE s # {}
    <3>1. OneOf(s) \in I /\ w[s \ {OneOf(s)}] \in V
      BY <2>2, OneOfMember
    <3> QED BY <2>2, <3>1 DEF NextFold, FoldSteps
  <2> QED BY <2>1, <2>2
<1>3. next \in StepsOn(W)
  <2>1. ASSUME NEW p \in Nat \X W
        PROVE  [s \in SUBSET S |-> NextFold(p[2], a, step, s)] \in W
    BY <1>2
  <2> HIDE DEF W
  <2> QED BY <2>1 DEF StepsOn
<1>4. PICK h \in [Nat -> W] :
        h[0] = none /\ \A k \in Nat : h[k + 1] = next[<<k + 1, h[k]>>]
  <2> HIDE DEF W, next, none
  <2> QED BY <1>1, <1>3, RecursiveFunction
<1>5. ASSUME NEW k \in Nat, NEW s \in SUBSET S
      PROVE  h[k + 1][s] = NextFold(h[k], a, step, s)
  <2>1. <<k + 1, h[k]>> \in Nat \X W
    <3> HIDE DEF W
    <3> QED OBVIOUS
  <2>2. next[<<k + 1, h[k]>>] = [r \in SUBSET S |-> NextFold(h[k], a, step, r)]
    <3> HIDE DEF W
    <3> QED BY <2>1
  <2> HIDE DEF next
  <2> QED BY <1>4, <2>2
<1> DEFINE f == [s \in SUBSET S |-> h[Cardinality(s)][s]]
<1>6. ASSUME NEW s \in SUBSET S PROVE f[s] = NextFold(f, a, step, s)
  <2>1. IsFiniteSet(s)
    BY FS_Subset
  <2>2. CASE s = {}
    <3>1. Cardinality(s) = 0
      BY <2>2, FS_EmptySet
    <3>2. h[0][s] = a
      BY <1>4
    <3> QED BY <2>2, <3>1, <3>2 DEF NextFold
  <2>3. CASE s # {}
    <3> DEFINE r == s \ {OneOf(s)}
               k == Cardinality(r)
    <3>1. OneOf(s) \in s /\ r \in SUBSET S /\ IsFiniteSet(r)
      BY <2>1, <2>3, OneOfMember, FS_Subset
    <3>2. k \in Nat /\ Cardinality(s) = k + 1
      <4>1. Cardinality(r) = Cardinality(s) - 1
        BY <2>1, <3>1, FS_RemoveElement
      <4>2. Cardinality(s) \in Nat /\ Cardinality(r) \in Nat
        BY <2>1, <3>1, FS_CardinalityType
      <4> QED BY <4>1, <4>2
    <3>3. f[r] = h[k][r]
      BY <3>1
    <3> HIDE DEF f, k
    <3>4. h[k + 1][s] = NextFold(h[k], a, step, s)
      BY <1>5, <3>2
    <3>5. NextFold(h[k], a, step, s) = NextFold(f, a, step, s)
      BY <3>3, <2>3 DEF NextFold
    <3> QED BY <3>2, <3>4, <3>5 DEF f
  <2> QED BY <2>2, <2>3
<1>7. f = [s \in SUBSET S |-> f[s]]
  OBVIOUS
<1> HIDE DEF f
<1>8. FoldsOn(f, S, a, step)
  BY <1>6, <1>7 DEF FoldsOn
<1> QED BY <1>8

\* Where the value without a member is one of V, f takes a step for the member.
StepsAlong(f, S, V, step) ==
  \A s \in SUBSET S : s # {} /\ f[s \ {OneOf(s)}] \in V =>
    f[s] = step[<<OneOf(s), f[s \ {OneOf(s)}]>>]

\* Such a function has the folds, and they are of V.
LEMMA FoldFollows ==
  ASSUME NEW I, NEW V, NEW a \in V, NEW step \in FoldSteps(I, V),
         NEW S \in SUBSET I, IsFiniteSet(S), NEW f,
         f = [s \in SUBSET S |-> f[s]], f[{}] = a, StepsAlong(f, S, V, step)
  PROVE  FoldsOn(f, S, a, step) /\ \A s \in SUBSET S : f[s] \in V
<1> DEFINE P == {s \in SUBSET S : f[s] \in V}
<1>1. ASSUME NEW s \in SUBSET S, \A x \in s : s \ {x} \in P PROVE s \in P
  <2>1. CASE s = {}
    BY <2>1
  <2>2. CASE s # {}
    <3>1. OneOf(s) \in I /\ f[s \ {OneOf(s)}] \in V
      BY <1>1, <2>2, OneOfMember
    <3>2. step[<<OneOf(s), f[s \ {OneOf(s)}]>>] \in V
      BY <3>1 DEF FoldSteps
    <3> QED BY <2>2, <3>1, <3>2 DEF StepsAlong
  <2> QED BY <2>1, <2>2
<1>2. \A s \in SUBSET S : s \in P
  <2> HIDE DEF P
  <2> QED BY <1>1, SubsetInduction
<1>3. ASSUME NEW s \in SUBSET S PROVE f[s] = NextFold(f, a, step, s)
  <2>1. s # {} => f[s \ {OneOf(s)}] \in V
    BY <1>2, OneOfMember
  <2> QED BY <2>1 DEF NextFold, StepsAlong
<1> QED BY <1>2, <1>3 DEF FoldsOn

\* There is one such function, and it is the same on every set.
LEMMA FoldUnique ==
  ASSUME NEW I, NEW V, NEW a \in V, NEW step \in FoldSteps(I, V),
         NEW S \in SUBSET I, IsFiniteSet(S), NEW f, FoldsOn(f, S, a, step),
         NEW T \in SUBSET S, NEW g, FoldsOn(g, T, a, step)
  PROVE  \A s \in SUBSET T : f[s] = g[s]
<1> DEFINE P == {s \in SUBSET T : f[s] = g[s]}
<1>1. ASSUME NEW s \in SUBSET T, \A x \in s : s \ {x} \in P PROVE s \in P
  <2>1. f[s] = NextFold(f, a, step, s) /\ g[s] = NextFold(g, a, step, s)
    BY DEF FoldsOn
  <2>2. s # {} => f[s \ {OneOf(s)}] = g[s \ {OneOf(s)}]
    BY <1>1, OneOfMember
  <2>3. NextFold(f, a, step, s) = NextFold(g, a, step, s)
    BY <2>2 DEF NextFold
  <2> QED BY <2>1, <2>3
<1>2. IsFiniteSet(T)
  BY FS_Subset
<1>3. \A s \in SUBSET T : s \in P
  <2> HIDE DEF P
  <2> QED BY <1>1, <1>2, SubsetInduction
<1> QED BY <1>3

\* The order in which two members are taken makes no difference.
Commutes(step, I, V) ==
  \A i, j \in I : \A v \in V :
    step[<<i, step[<<j, v>>]>>] = step[<<j, step[<<i, v>>]>>]

\* The value of a function with the folds.
LEMMA FoldOfFunction ==
  ASSUME NEW I, NEW V, NEW a \in V, NEW step \in FoldSteps(I, V),
         NEW S \in SUBSET I, IsFiniteSet(S), NEW f, FoldsOn(f, S, a, step)
  PROVE  \A T \in SUBSET S : SetFold(T, a, step) = f[T] /\ f[T] \in V
<1>1. SUFFICES ASSUME NEW T \in SUBSET S PROVE SetFold(T, a, step) = f[T] /\ f[T] \in V
  OBVIOUS
<1>2. IsFiniteSet(T) /\ T \in SUBSET I
  BY FS_Subset
<1>3. \E g : FoldsOn(g, T, a, step)
  BY <1>2, FoldExists
<1> DEFINE g == CHOOSE g : FoldsOn(g, T, a, step)
<1>4. FoldsOn(g, T, a, step)
  BY <1>3
<1>5. SetFold(T, a, step) = g[T]
  BY DEF SetFold
<1> HIDE DEF g
<1>6. f[T] = g[T]
  BY <1>4, FoldUnique
<1>7. \A s \in SUBSET S : f[s] = NextFold(f, a, step, s)
  BY DEF FoldsOn
<1>8. f = [s \in SUBSET S |-> f[s]] /\ f[{}] = a
  BY <1>7 DEF FoldsOn, NextFold
<1>9. StepsAlong(f, S, V, step)
  BY <1>7 DEF NextFold, StepsAlong
<1>10. FoldsOn(f, S, a, step) /\ \A s \in SUBSET S : f[s] \in V
  <2>1. f = [s \in SUBSET S |-> f[s]]
    BY <1>8
  <2>2. f[{}] = a
    BY <1>8
  <2> QED BY <2>1, <2>2, <1>9, FoldFollows
<1> QED BY <1>5, <1>6, <1>10

\* A fold over no member, and over one member more.
LEMMA FoldSteady ==
  ASSUME NEW I, NEW V, NEW a \in V, NEW step \in FoldSteps(I, V), Commutes(step, I, V)
  PROVE  /\ SetFold({}, a, step) = a
         /\ \A S \in SUBSET I : IsFiniteSet(S) =>
              /\ SetFold(S, a, step) \in V
              /\ \A i \in I \ S : SetFold(S \cup {i}, a, step) = step[<<i, SetFold(S, a, step)>>]
<1>1. SetFold({}, a, step) = a
  <2>1. IsFiniteSet({}) /\ {} \in SUBSET I
    BY FS_EmptySet
  <2>2. PICK f : FoldsOn(f, {}, a, step)
    BY <2>1, FoldExists
  <2>3. SetFold({}, a, step) = f[{}]
    BY <2>1, <2>2, FoldOfFunction
  <2>4. f[{}] = a
    BY <2>2 DEF FoldsOn, NextFold
  <2> QED BY <2>3, <2>4
<1>2. ASSUME NEW S \in SUBSET I, IsFiniteSet(S) PROVE SetFold(S, a, step) \in V
  <2>1. PICK f : FoldsOn(f, S, a, step)
    BY <1>2, FoldExists
  <2> QED BY <1>2, <2>1, FoldOfFunction
<1>3. ASSUME NEW S \in SUBSET I, IsFiniteSet(S), NEW i \in I \ S
      PROVE  SetFold(S \cup {i}, a, step) = step[<<i, SetFold(S, a, step)>>]
  <2> DEFINE U == S \cup {i}
  <2>1. IsFiniteSet(U) /\ U \in SUBSET I
    BY <1>3, FS_AddElement
  <2>2. PICK f : FoldsOn(f, U, a, step)
    BY <2>1, FoldExists
  <2>3. \A s \in SUBSET U : f[s] = NextFold(f, a, step, s)
    BY <2>2 DEF FoldsOn
  <2>4. \A s \in SUBSET U : SetFold(s, a, step) = f[s] /\ f[s] \in V
    <3> HIDE DEF U
    <3> QED BY <2>1, <2>2, FoldOfFunction
  <2> DEFINE P == {s \in SUBSET U : \A j \in U \ s : f[s \cup {j}] = step[<<j, f[s]>>]}
  <2>5. ASSUME NEW s \in SUBSET U, \A x \in s : s \ {x} \in P PROVE s \in P
    <3> SUFFICES ASSUME NEW j \in U \ s PROVE f[s \cup {j}] = step[<<j, f[s]>>]
      OBVIOUS
    <3> DEFINE u == s \cup {j}
               x == OneOf(u)
    <3>1. x \in u /\ u \in SUBSET U /\ u # {}
      BY OneOfMember
    <3>2. f[u] = step[<<x, f[u \ {x}]>>]
      BY <2>3, <3>1 DEF NextFold
    <3> HIDE DEF x
    <3>3. CASE x = j
      <4>1. u \ {x} = s
        BY <3>3
      <4> QED BY <3>2, <3>3, <4>1
    <3>4. CASE x # j
      <4> DEFINE r == s \ {x}
      <4>1. x \in s /\ r \in P /\ u \ {x} = r \cup {j} /\ r \cup {x} = s
        BY <2>5, <3>1, <3>4
      <4>2. j \in U \ r /\ x \in U \ r /\ r \in SUBSET U
        BY <3>1, <4>1
      <4>3. f[r \cup {j}] = step[<<j, f[r]>>] /\ f[r \cup {x}] = step[<<x, f[r]>>]
        BY <4>1, <4>2
      <4>4. f[r] \in V
        BY <2>4, <4>2
      <4> HIDE DEF r, u, P
      <4>5. step[<<x, step[<<j, f[r]>>]>>] = step[<<j, step[<<x, f[r]>>]>>]
        <5>1. x \in I /\ j \in I
          BY <2>1, <4>2
        <5> QED BY <4>4, <5>1 DEF Commutes
      <4>6. f[u] = step[<<j, f[s]>>]
        BY <3>2, <4>1, <4>3, <4>5
      <4> QED BY <4>6 DEF u
    <3> QED BY <3>3, <3>4
  <2>6. \A s \in SUBSET U : s \in P
    <3> HIDE DEF P, U
    <3> QED BY <2>1, <2>5, SubsetInduction
  <2>7. f[S \cup {i}] = step[<<i, f[S]>>]
    BY <1>3, <2>6
  <2> QED BY <2>4, <2>7
<1> QED BY <1>1, <1>2, <1>3

-----------------------------------------------------------------------------
(* Folds of the values of a function, in any order and in any groups *)

\* m combines values of V in any order and grouping; e adds nothing.
Monoid(m, V, e) ==
  /\ e \in V /\ m \in [V \X V -> V]
  /\ \A a, b \in V : m[<<a, b>>] = m[<<b, a>>]
  /\ \A a, b, c \in V : m[<<a, m[<<b, c>>]>>] = m[<<m[<<a, b>>], c>>]
  /\ \A a \in V : m[<<a, e>>] = a

Adding(m, V, f) == [q \in (DOMAIN f) \X V |-> m[<<f[q[1]], q[2]>>]]

\* The values f[i] of the members i of S, combined.
FoldOf(m, V, e, f, S) == SetFold(S, e, Adding(m, V, f))

\* No value, and one value more.
LEMMA FoldOfFacts ==
  ASSUME NEW V, NEW e, NEW m, Monoid(m, V, e), NEW I, NEW f \in [I -> V]
  PROVE  /\ FoldOf(m, V, e, f, {}) = e
         /\ \A S \in SUBSET I : IsFiniteSet(S) =>
              /\ FoldOf(m, V, e, f, S) \in V
              /\ \A i \in I \ S :
                   FoldOf(m, V, e, f, S \cup {i}) = m[<<f[i], FoldOf(m, V, e, f, S)>>]
<1> DEFINE step == Adding(m, V, f)
<1>1. e \in V /\ m \in [V \X V -> V]
  BY DEF Monoid
<1>2. DOMAIN f = I /\ \A i \in I : f[i] \in V
  OBVIOUS
<1>3. \A i \in I, x \in V : step[<<i, x>>] = m[<<f[i], x>>]
  BY <1>2 DEF Adding
<1>4. step \in FoldSteps(I, V)
  BY <1>1, <1>2 DEF Adding, FoldSteps
<1> HIDE DEF step
<1>5. Commutes(step, I, V)
  <2> SUFFICES ASSUME NEW i \in I, NEW j \in I, NEW x \in V
               PROVE  step[<<i, step[<<j, x>>]>>] = step[<<j, step[<<i, x>>]>>]
    BY DEF Commutes
  <2> DEFINE a == f[i]
             b == f[j]
  <2>1. a \in V /\ b \in V
    BY <1>2
  <2> HIDE DEF a, b
  <2>2. step[<<i, x>>] = m[<<a, x>>] /\ step[<<j, x>>] = m[<<b, x>>]
    BY <1>3 DEF a, b
  <2>3. m[<<a, x>>] \in V /\ m[<<b, x>>] \in V /\ m[<<a, b>>] = m[<<b, a>>]
    BY <1>1, <2>1 DEF Monoid
  <2>4. /\ step[<<i, m[<<b, x>>]>>] = m[<<a, m[<<b, x>>]>>]
        /\ step[<<j, m[<<a, x>>]>>] = m[<<b, m[<<a, x>>]>>]
    BY <1>3, <2>3 DEF a, b
  <2>5. /\ m[<<a, m[<<b, x>>]>>] = m[<<m[<<a, b>>], x>>]
        /\ m[<<b, m[<<a, x>>]>>] = m[<<m[<<b, a>>], x>>]
    BY <2>1 DEF Monoid
  <2> QED BY <2>2, <2>3, <2>4, <2>5
<1>6. /\ SetFold({}, e, step) = e
      /\ \A S \in SUBSET I : IsFiniteSet(S) =>
           /\ SetFold(S, e, step) \in V
           /\ \A i \in I \ S : SetFold(S \cup {i}, e, step) = step[<<i, SetFold(S, e, step)>>]
  BY <1>1, <1>4, <1>5, FoldSteady
<1>7. \A S : FoldOf(m, V, e, f, S) = SetFold(S, e, step)
  BY DEF FoldOf, step
<1>8. ASSUME NEW S \in SUBSET I, IsFiniteSet(S)
      PROVE  /\ FoldOf(m, V, e, f, S) \in V
             /\ \A i \in I \ S :
                  FoldOf(m, V, e, f, S \cup {i}) = m[<<f[i], FoldOf(m, V, e, f, S)>>]
  <2>1. SetFold(S, e, step) \in V
    BY <1>6, <1>8
  <2>2. ASSUME NEW i \in I \ S
        PROVE  FoldOf(m, V, e, f, S \cup {i}) = m[<<f[i], FoldOf(m, V, e, f, S)>>]
    <3>1. SetFold(S \cup {i}, e, step) = step[<<i, SetFold(S, e, step)>>]
      BY <1>6, <1>8
    <3>2. step[<<i, SetFold(S, e, step)>>] = m[<<f[i], SetFold(S, e, step)>>]
      BY <1>3, <2>1
    <3> QED BY <1>7, <3>1, <3>2
  <2> QED BY <1>7, <2>1, <2>2
<1> QED BY <1>6, <1>7, <1>8

\* One value.
LEMMA FoldOfOne ==
  ASSUME NEW V, NEW e, NEW m, Monoid(m, V, e), NEW I, NEW f \in [I -> V], NEW i \in I
  PROVE  FoldOf(m, V, e, f, {i}) = f[i]
<1>1. FoldOf(m, V, e, f, {}) = e
  BY FoldOfFacts
<1>2. \A S \in SUBSET I : IsFiniteSet(S) => \A k \in I \ S :
        FoldOf(m, V, e, f, S \cup {k}) = m[<<f[k], FoldOf(m, V, e, f, S)>>]
  BY FoldOfFacts
<1>3. f[i] \in V /\ m[<<f[i], e>>] = f[i]
  BY DEF Monoid
<1>4. {} \cup {i} = {i} /\ {} \in SUBSET I /\ i \in I \ {} /\ IsFiniteSet({})
  BY FS_EmptySet
<1> QED BY <1>1, <1>2, <1>3, <1>4

\* Two values.
LEMMA FoldOfTwo ==
  ASSUME NEW V, NEW e, NEW m, Monoid(m, V, e), NEW I, NEW f \in [I -> V],
         NEW i \in I, NEW j \in I, i # j
  PROVE  FoldOf(m, V, e, f, {i, j}) = m[<<f[i], f[j]>>]
<1>1. \A S \in SUBSET I : IsFiniteSet(S) => \A k \in I \ S :
        FoldOf(m, V, e, f, S \cup {k}) = m[<<f[k], FoldOf(m, V, e, f, S)>>]
  BY FoldOfFacts
<1>2. FoldOf(m, V, e, f, {j}) = f[j]
  BY FoldOfOne
<1>3. {j} \cup {i} = {i, j} /\ {j} \in SUBSET I /\ i \in I \ {j} /\ IsFiniteSet({j})
  BY FS_Singleton
<1> QED BY <1>1, <1>2, <1>3

\* b gives each member of S another name in T, where g has its value of f.
Renames(b, S, T, f, g) ==
  /\ b \in [S -> T]
  /\ \A x, y \in S : b[x] = b[y] => x = y
  /\ \A y \in T : \E x \in S : b[x] = y
  /\ \A x \in S : g[b[x]] = f[x]

\* Values under other names.
LEMMA FoldMapped ==
  ASSUME NEW V, NEW e, NEW m, Monoid(m, V, e),
         NEW I, NEW f \in [I -> V], NEW S \in SUBSET I, IsFiniteSet(S),
         NEW J, NEW g \in [J -> V], NEW T \in SUBSET J,
         NEW b, Renames(b, S, T, f, g)
  PROVE  FoldOf(m, V, e, f, S) = FoldOf(m, V, e, g, T)
<1>0. /\ b \in [S -> T]
      /\ \A x, y \in S : b[x] = b[y] => x = y
      /\ \A y \in T : \E x \in S : b[x] = y
      /\ \A x \in S : g[b[x]] = f[x]
  BY DEF Renames
<1> DEFINE F(s) == FoldOf(m, V, e, f, s)
           G(s) == FoldOf(m, V, e, g, s)
           Image(s) == {b[x] : x \in s}
           P == {s \in SUBSET S : IsFiniteSet(Image(s)) /\ F(s) = G(Image(s))}
<1>1. /\ F({}) = e
      /\ \A s \in SUBSET I : IsFiniteSet(s) => \A i \in I \ s : F(s \cup {i}) = m[<<f[i], F(s)>>]
  BY FoldOfFacts
<1>2. /\ G({}) = e
      /\ \A s \in SUBSET J : IsFiniteSet(s) => \A i \in J \ s : G(s \cup {i}) = m[<<g[i], G(s)>>]
  BY FoldOfFacts
<1>3. \A s \in SUBSET S : IsFiniteSet(s)
  BY FS_Subset
<1> HIDE DEF F, G
<1>4. ASSUME NEW s \in SUBSET S, \A x \in s : s \ {x} \in P PROVE s \in P
  <2>1. CASE s = {}
    <3>1. Image(s) = {}
      BY <2>1
    <3> QED BY <1>1, <1>2, <2>1, <3>1, FS_EmptySet
  <2>2. CASE s # {}
    <3>1. PICK x \in s : TRUE
      BY <2>2
    <3> DEFINE r == s \ {x}
    <3>2. r \in P /\ r \in SUBSET S /\ r \cup {x} = s /\ x \in I \ r
      BY <1>4, <3>1
    <3>3. Image(s) = Image(r) \cup {b[x]}
      BY <3>1
    <3>4. b[x] \in J \ Image(r) /\ Image(r) \in SUBSET J
      BY <1>0, <3>1
    <3>5. IsFiniteSet(Image(r)) /\ F(r) = G(Image(r))
      BY <3>2
    <3> HIDE DEF r, Image
    <3>6. F(s) = m[<<f[x], F(r)>>]
      BY <1>1, <1>3, <3>2
    <3>7. G(Image(s)) = m[<<g[b[x]], G(Image(r))>>]
      BY <1>2, <3>3, <3>4, <3>5
    <3>8. IsFiniteSet(Image(s))
      BY <3>3, <3>5, FS_AddElement
    <3>9. g[b[x]] = f[x]
      BY <1>0, <3>1
    <3> QED BY <3>5, <3>6, <3>7, <3>8, <3>9
  <2> QED BY <2>1, <2>2
<1>5. \A s \in SUBSET S : s \in P
  <2> HIDE DEF P
  <2> QED BY <1>4, SubsetInduction
<1>6. Image(S) = T
  BY <1>0
<1> QED BY <1>5, <1>6 DEF F, G

\* Values in two groups.
LEMMA FoldUnion ==
  ASSUME NEW V, NEW e, NEW m, Monoid(m, V, e), NEW I, NEW f \in [I -> V],
         NEW S \in SUBSET I, IsFiniteSet(S), NEW T \in SUBSET I, IsFiniteSet(T),
         S \cap T = {}
  PROVE  FoldOf(m, V, e, f, S \cup T)
           = m[<<FoldOf(m, V, e, f, S), FoldOf(m, V, e, f, T)>>]
<1> DEFINE F(s) == FoldOf(m, V, e, f, s)
           P == {s \in SUBSET T : F(S \cup s) = m[<<F(S), F(s)>>]}
<1>1. /\ F({}) = e
      /\ \A s \in SUBSET I : IsFiniteSet(s) =>
           F(s) \in V /\ \A i \in I \ s : F(s \cup {i}) = m[<<f[i], F(s)>>]
  BY FoldOfFacts
<1>2. /\ \A a, b \in V : m[<<a, b>>] = m[<<b, a>>]
      /\ \A a, b, c \in V : m[<<a, m[<<b, c>>]>>] = m[<<m[<<a, b>>], c>>]
      /\ \A a \in V : m[<<a, e>>] = a
  BY DEF Monoid
<1> HIDE DEF F
<1>3. ASSUME NEW s \in SUBSET T, \A x \in s : s \ {x} \in P PROVE s \in P
  <2>1. CASE s = {}
    <3>1. S \cup s = S
      BY <2>1
    <3> QED BY <1>1, <1>2, <2>1, <3>1
  <2>2. CASE s # {}
    <3>1. PICK x \in s : TRUE
      BY <2>2
    <3> DEFINE r == s \ {x}
               U == S \cup r
    <3>2. r \in P /\ r \in SUBSET I /\ r \cup {x} = s /\ x \in I \ r
      BY <1>3, <3>1
    <3>3. U \in SUBSET I /\ U \cup {x} = S \cup s /\ x \in I \ U
      BY <3>1, <3>2
    <3>4. IsFiniteSet(r) /\ IsFiniteSet(U)
      <4>1. IsFiniteSet(r)
        BY FS_Subset
      <4> HIDE DEF r
      <4> QED BY <4>1, FS_Union
    <3>5. F(U) = m[<<F(S), F(r)>>]
      BY <3>2
    <3> HIDE DEF r, U
    <3>6. F(s) = m[<<f[x], F(r)>>] /\ F(S \cup s) = m[<<f[x], F(U)>>]
      BY <1>1, <3>2, <3>3, <3>4
    <3>7. F(S) \in V /\ F(r) \in V /\ f[x] \in V
      BY <1>1, <3>2, <3>4
    <3>8. m[<<f[x], m[<<F(S), F(r)>>]>>] = m[<<F(S), m[<<f[x], F(r)>>]>>]
      <4> DEFINE a == f[x]
                 c == F(S)
                 d == F(r)
      <4>1. a \in V /\ c \in V /\ d \in V
        BY <3>7
      <4> HIDE DEF a, c, d
      <4>2. m[<<a, m[<<c, d>>]>>] = m[<<m[<<a, c>>], d>>]
        BY <1>2, <4>1
      <4>3. m[<<c, m[<<a, d>>]>>] = m[<<m[<<c, a>>], d>>]
        BY <1>2, <4>1
      <4>4. m[<<a, c>>] = m[<<c, a>>]
        BY <1>2, <4>1
      <4> QED BY <4>2, <4>3, <4>4 DEF a, c, d
    <3> QED BY <3>5, <3>6, <3>8
  <2> QED BY <2>1, <2>2
<1>4. \A s \in SUBSET T : s \in P
  <2> HIDE DEF P
  <2> QED BY <1>3, SubsetInduction
<1>5. T \in P
  BY <1>4
<1> QED BY <1>5 DEF F

\* Values in parts numbered by the members of K.
LEMMA FoldParts ==
  ASSUME NEW V, NEW e, NEW m, Monoid(m, V, e), NEW I, NEW f \in [I -> V],
         NEW S \in SUBSET I, IsFiniteSet(S),
         NEW K, IsFiniteSet(K), NEW number \in [S -> K],
         NEW h \in [K -> V], \A k \in K : h[k] = FoldOf(m, V, e, f, PartOf(S, number, k))
  PROVE  FoldOf(m, V, e, f, S) = FoldOf(m, V, e, h, K)
<1> DEFINE F(s) == FoldOf(m, V, e, f, s)
           H(s) == FoldOf(m, V, e, h, s)
           Of(s) == {i \in S : number[i] \in s}
           P == {s \in SUBSET K : F(Of(s)) = H(s)}
<1>1. F({}) = e /\ \A s \in SUBSET I : IsFiniteSet(s) => F(s) \in V
  BY FoldOfFacts
<1>2. /\ H({}) = e
      /\ \A s \in SUBSET K : IsFiniteSet(s) => \A i \in K \ s : H(s \cup {i}) = m[<<h[i], H(s)>>]
  BY FoldOfFacts
<1>3. \A a, b \in V : m[<<a, b>>] = m[<<b, a>>]
  BY DEF Monoid
<1>4. \A s \in SUBSET S : IsFiniteSet(s) /\ s \in SUBSET I
  BY FS_Subset
<1>5. \A s, t \in SUBSET S : s \cap t = {} => F(s \cup t) = m[<<F(s), F(t)>>]
  <2> SUFFICES ASSUME NEW s \in SUBSET S, NEW t \in SUBSET S, s \cap t = {}
               PROVE  F(s \cup t) = m[<<F(s), F(t)>>]
    OBVIOUS
  <2>1. s \in SUBSET I /\ t \in SUBSET I
    OBVIOUS
  <2>2. IsFiniteSet(s) /\ IsFiniteSet(t)
    BY <1>4
  <2>3. FoldOf(m, V, e, f, s \cup t) = m[<<FoldOf(m, V, e, f, s), FoldOf(m, V, e, f, t)>>]
    BY <2>1, <2>2, FoldUnion
  <2> QED BY <2>3
<1>6. \A k \in K : h[k] = F(PartOf(S, number, k)) /\ h[k] \in V
  OBVIOUS
<1> HIDE DEF F, H
<1>7. ASSUME NEW s \in SUBSET K, \A x \in s : s \ {x} \in P PROVE s \in P
  <2>1. CASE s = {}
    <3>1. Of(s) = {}
      BY <2>1
    <3> QED BY <1>1, <1>2, <2>1, <3>1
  <2>2. CASE s # {}
    <3>1. PICK k \in s : TRUE
      BY <2>2
    <3> DEFINE r == s \ {k}
               A == Of(r)
               B == PartOf(S, number, k)
    <3>2. r \in P /\ r \in SUBSET K /\ r \cup {k} = s /\ k \in K \ r
      BY <1>7, <3>1
    <3>3. A \in SUBSET S /\ B \in SUBSET S /\ A \cap B = {} /\ A \cup B = Of(s)
      BY <3>1 DEF PartOf
    <3>4. F(A) = H(r)
      BY <3>2
    <3>5. IsFiniteSet(r)
      BY <3>2, FS_Subset
    <3>6. h[k] = F(B) /\ h[k] \in V /\ F(A) \in V
      BY <1>1, <1>4, <1>6, <3>2, <3>3
    <3> HIDE DEF A, B, Of, r
    <3>7. F(Of(s)) = m[<<F(A), F(B)>>]
      BY <1>5, <3>3
    <3>8. H(s) = m[<<h[k], H(r)>>]
      BY <1>2, <3>2, <3>5
    <3> QED BY <1>3, <3>4, <3>6, <3>7, <3>8
  <2> QED BY <2>1, <2>2
<1>8. \A s \in SUBSET K : s \in P
  <2> HIDE DEF P
  <2> QED BY <1>7, SubsetInduction
<1>9. Of(K) = S /\ K \in P
  BY <1>8
<1> QED BY <1>9 DEF F, H

\* Values that add nothing.
LEMMA FoldNeutral ==
  ASSUME NEW V, NEW e, NEW m, Monoid(m, V, e), NEW I, NEW f \in [I -> V],
         NEW S \in SUBSET I, IsFiniteSet(S), NEW T \in SUBSET S,
         \A i \in S \ T : f[i] = e
  PROVE  FoldOf(m, V, e, f, S) = FoldOf(m, V, e, f, T)
<1> DEFINE F(s) == FoldOf(m, V, e, f, s)
           R == S \ T
           P == {s \in SUBSET R : F(T \cup s) = F(T)}
<1>1. \A s \in SUBSET I : IsFiniteSet(s) =>
        F(s) \in V /\ \A i \in I \ s : F(s \cup {i}) = m[<<f[i], F(s)>>]
  BY FoldOfFacts
<1>2. \A a \in V : m[<<e, a>>] = a
  BY DEF Monoid
<1>3. \A s \in SUBSET S : IsFiniteSet(s) /\ s \in SUBSET I
  BY FS_Subset
<1> HIDE DEF F
<1>4. ASSUME NEW s \in SUBSET R, \A x \in s : s \ {x} \in P PROVE s \in P
  <2>1. CASE s = {}
    <3>1. T \cup s = T
      BY <2>1
    <3> QED BY <3>1
  <2>2. CASE s # {}
    <3>1. PICK x \in s : TRUE
      BY <2>2
    <3> DEFINE r == s \ {x}
               U == T \cup r
    <3>2. r \in P /\ U \in SUBSET S /\ U \cup {x} = T \cup s /\ x \in I \ U /\ f[x] = e
      BY <1>4, <3>1
    <3>3. F(U) = F(T)
      BY <3>2
    <3> HIDE DEF r, U
    <3>4. F(T \cup s) = m[<<e, F(U)>>] /\ F(U) \in V
      BY <1>1, <1>3, <3>2
    <3> QED BY <1>2, <3>3, <3>4
  <2> QED BY <2>1, <2>2
<1>5. IsFiniteSet(R)
  BY <1>3
<1>6. \A s \in SUBSET R : s \in P
  <2> HIDE DEF P, R
  <2> QED BY <1>4, <1>5, SubsetInduction
<1>7. R \in P /\ T \cup R = S
  BY <1>6
<1> QED BY <1>7 DEF F

=============================================================================

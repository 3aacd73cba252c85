------------------------------ MODULE Inductions ------------------------------
(***************************************************************************)
(* Induction and recursion without operators as parameters: a statement    *)
(* about all numbers, or about all finite sets, is the set of those that   *)
(* satisfy it, and the value of a recursive function is a set's element.   *)
(* The other modules with proofs use these lemmas for what folds and       *)
(* recursive functions compute.  And what they need of division.           *)
(***************************************************************************)
EXTENDS Integers, FiniteSets, FiniteSetTheorems, WellFoundedInduction, TLAPS

Less == {p \in Nat \X Nat : p[1] < p[2]}

(* Every nonempty set of natural numbers has a least element. *)
LEMMA LeastNumber ==
  ASSUME NEW T, T \subseteq Nat, T # {}
  PROVE  \E x \in T : \A y \in T : x <= y
<1>1. IsWellFoundedOn(Less, Nat)
  BY NatLessThanWellFounded DEF OpToRel, Less
<1>2. PICK x \in T : \A y \in T : ~ (<<y, x>> \in Less)
  BY <1>1, WFMin
<1>3. ASSUME NEW y \in T PROVE x <= y
  <2>1. x \in Nat /\ y \in Nat
    OBVIOUS
  <2>2. ~ (y < x)
    BY <1>2, <2>1 DEF Less
  <2>. QED BY <2>1, <2>2
<1>. QED BY <1>3

(* A set with 0 and with the successor of each number in it has all numbers. *)
LEMMA NumberInduction ==
  ASSUME NEW T, 0 \in T, \A n \in Nat : n \in T => n + 1 \in T
  PROVE  \A n \in Nat : n \in T
<1>. DEFINE Rest == Nat \ T
<1>1. SUFFICES ASSUME Rest # {} PROVE FALSE
  OBVIOUS
<1>2. PICK x \in Rest : \A y \in Rest : x <= y
  BY <1>1, LeastNumber
<1>3. x # 0 /\ x - 1 \in Nat /\ ~ (x - 1 \in Rest)
  BY <1>2
<1>. QED BY <1>2, <1>3

(* A set with the empty set, and with each of its elements that is extended by one element
   of S, has S. *)
LEMMA FiniteSetInduction ==
  ASSUME NEW S, IsFiniteSet(S), NEW T, {} \in T,
         \A A \in SUBSET S : \A x \in S \ A : A \in T => A \cup {x} \in T
  PROVE  S \in T
<1>. DEFINE Rest == {A \in SUBSET S : A \notin T}
<1>1. SUFFICES ASSUME Rest # {} PROVE FALSE
  OBVIOUS
<1>2. Rest \subseteq FiniteSubsetsOf(S)
  BY FS_FiniteSubsetsOfFinite
<1>3. IsWellFoundedOn(StrictSubsetOrdering(S), FiniteSubsetsOf(S))
  BY FS_StrictSubsetOrderingWellFounded
<1>4. PICK A \in Rest : \A B \in Rest : ~ (<<B, A>> \in StrictSubsetOrdering(S))
  BY <1>1, <1>2, <1>3, WFMin
<1>5. PICK x \in A : TRUE
  BY <1>4
<1>6. A \ {x} \in SUBSET S /\ x \in S \ (A \ {x}) /\ (A \ {x}) \cup {x} = A
  BY <1>4, <1>5
<1>7. <<A \ {x}, A>> \in StrictSubsetOrdering(S)
  BY <1>4, <1>5, <1>6 DEF StrictSubsetOrdering
<1>8. A \ {x} \in T
  BY <1>4, <1>6, <1>7
<1>. QED BY <1>4, <1>6, <1>8

(* A function is defined by its first value and by a step from each value to the next. *)
IsRecursive(f, V, v, step) ==
  f \in [Nat -> V] /\ f[0] = v /\ \A n \in Nat : f[n + 1] = step[<<n, f[n]>>]

LEMMA RecursionExists ==
  ASSUME NEW V, NEW v \in V, NEW step \in [Nat \X V -> V]
  PROVE  \E f : IsRecursive(f, V, v, step)
<1>. DEFINE Starts(n, f) ==
              f \in [Nat -> V] /\ f[0] = v
              /\ \A k \in Nat : k < n => f[k + 1] = step[<<k, f[k]>>]
            T == {n \in Nat : \E f \in [Nat -> V] : Starts(n, f)}
<1>1. 0 \in T
  <2>1. Starts(0, [i \in Nat |-> v])
    OBVIOUS
  <2>. QED BY <2>1
<1>2. ASSUME NEW n \in Nat, n \in T PROVE n + 1 \in T
  <2>1. PICK f \in [Nat -> V] : Starts(n, f)
    BY <1>2
  <2>. DEFINE g == [f EXCEPT ![n + 1] = step[<<n, f[n]>>]]
  <2>2. g \in [Nat -> V] /\ g[0] = v
    BY <2>1
  <2>3. ASSUME NEW k \in Nat, k < n + 1 PROVE g[k + 1] = step[<<k, g[k]>>]
    <3>1. g[k] = f[k]
      BY <2>3
    <3>2. CASE k = n
      BY <3>1, <3>2, <2>1
    <3>3. CASE k < n
      <4>1. g[k + 1] = f[k + 1]
        BY <3>3, <2>1
      <4>. QED BY <4>1, <3>1, <3>3, <2>1
    <3>. QED BY <2>3, <3>2, <3>3
  <2>4. Starts(n + 1, g)
    <3>. HIDE DEF g
    <3>. QED BY <2>2, <2>3
  <2>. HIDE DEF g, Starts
  <2>. QED BY <2>2, <2>4
<1>3. \A n \in Nat : n \in T
  <2>. HIDE DEF T
  <2>. QED BY <1>1, <1>2, NumberInduction
<1>4. ASSUME NEW n \in Nat, NEW m \in Nat, n <= m, NEW f, NEW g, Starts(n, f), Starts(m, g)
      PROVE  f[n] = g[n]
  <2>. DEFINE U == {k \in Nat : k <= n => f[k] = g[k]}
  <2>1. 0 \in U
    BY <1>4
  <2>2. ASSUME NEW k \in Nat, k \in U PROVE k + 1 \in U
    <3>1. CASE k + 1 <= n
      <4>1. k < n /\ k < m /\ f[k] = g[k]
        BY <3>1, <2>2, <1>4
      <4>2. f[k + 1] = step[<<k, f[k]>>] /\ g[k + 1] = step[<<k, g[k]>>]
        BY <4>1, <1>4
      <4>. QED BY <4>1, <4>2
    <3>2. CASE ~ (k + 1 <= n)
      BY <3>2
    <3>. QED BY <3>1, <3>2
  <2>3. \A k \in Nat : k \in U
    <3>. HIDE DEF U
    <3>. QED BY <2>1, <2>2, NumberInduction
  <2>. QED BY <2>3
<1>. DEFINE Start(n) == CHOOSE f \in [Nat -> V] : Starts(n, f)
            h == [n \in Nat |-> Start(n)[n]]
<1>5. ASSUME NEW n \in Nat PROVE Start(n) \in [Nat -> V] /\ Starts(n, Start(n))
  <2>1. \E f \in [Nat -> V] : Starts(n, f)
    BY <1>3
  <2>. HIDE DEF Starts
  <2>. QED BY <2>1
<1>6. h \in [Nat -> V]
  BY <1>5
<1>7. h[0] = v
  BY <1>5
<1>8. ASSUME NEW n \in Nat PROVE h[n + 1] = step[<<n, h[n]>>]
  <2>1. n + 1 \in Nat /\ n <= n + 1 /\ n < n + 1
    OBVIOUS
  <2>2. Start(n)[n] = Start(n + 1)[n]
    <3>. HIDE DEF Starts, Start
    <3>. QED BY <1>4, <1>5, <2>1
  <2>3. Start(n + 1)[n + 1] = step[<<n, Start(n + 1)[n]>>]
    <3>1. Starts(n + 1, Start(n + 1))
      BY <1>5, <2>1
    <3>. HIDE DEF Start
    <3>. QED BY <3>1, <2>1
  <2>4. h[n + 1] = Start(n + 1)[n + 1] /\ h[n] = Start(n)[n]
    BY <2>1
  <2>. HIDE DEF h, Start
  <2>. QED BY <2>2, <2>3, <2>4
<1>. HIDE DEF h
<1>. QED BY <1>6, <1>7, <1>8 DEF IsRecursive

(* The same for the numbers up to n. *)
IsRecursiveUpTo(n, f, V, v, step) ==
  f \in [0 .. n -> V] /\ f[0] = v /\ \A i \in 1 .. n : f[i] = step[<<i, f[i - 1]>>]

LEMMA BoundedRecursion ==
  ASSUME NEW V, NEW v \in V, NEW n \in Nat, NEW step \in [(1 .. n) \X V -> V]
  PROVE  \E f : IsRecursiveUpTo(n, f, V, v, step)
<1> DEFINE nxt == [p \in Nat \X V |-> IF p[1] + 1 \in 1 .. n THEN step[<<p[1] + 1, p[2]>>] ELSE v]
<1>1. nxt \in [Nat \X V -> V]
  <2> SUFFICES ASSUME NEW p \in Nat \X V, p[1] + 1 \in 1 .. n PROVE step[<<p[1] + 1, p[2]>>] \in V
    OBVIOUS
  <2>1. <<p[1] + 1, p[2]>> \in (1 .. n) \X V
    OBVIOUS
  <2> QED
    BY <2>1
<1>2. \A m \in Nat : \A x \in V : m + 1 \in 1 .. n => nxt[<<m, x>>] = step[<<m + 1, x>>]
  OBVIOUS
<1> HIDE DEF nxt
<1>0. PICK next \in [Nat \X V -> V] :
        \A m \in Nat : \A x \in V : m + 1 \in 1 .. n => next[<<m, x>>] = step[<<m + 1, x>>]
  BY <1>1, <1>2
<1>3. \E g : IsRecursive(g, V, v, next)
  BY RecursionExists
<1>4. PICK g : g \in [Nat -> V] /\ g[0] = v /\ \A m \in Nat : g[m + 1] = next[<<m, g[m]>>]
  BY <1>3 DEF IsRecursive
<1> DEFINE f == [i \in 0 .. n |-> g[i]]
<1>5. f \in [0 .. n -> V] /\ f[0] = v
  BY <1>4
<1>6. ASSUME NEW i \in 1 .. n PROVE f[i] = step[<<i, f[i - 1]>>]
  <2>1. i - 1 \in Nat /\ (i - 1) + 1 = i /\ g[i - 1] \in V /\ i \in 0 .. n /\ i - 1 \in 0 .. n
    BY <1>4
  <2>2. g[(i - 1) + 1] = next[<<i - 1, g[i - 1]>>]
    BY <1>4, <2>1
  <2>3. next[<<i - 1, g[i - 1]>>] = step[<<i, g[i - 1]>>]
    BY <1>0, <2>1
  <2> QED
    BY <2>1, <2>2, <2>3
<1> QED
  BY <1>5, <1>6 DEF IsRecursiveUpTo

-----------------------------------------------------------------------------
(* A product grows with its second factor. *)
LEMMA ProductsGrow ==
  ASSUME NEW w \in Nat, NEW x \in Int, NEW y \in Int, x <= y
  PROVE  w * x <= w * y
<1> DEFINE T == {k \in Nat : k * x <= k * y}
<1>1. 0 \in T
  OBVIOUS
<1>2. ASSUME NEW k \in Nat, k \in T PROVE k + 1 \in T
  <2> DEFINE p == k * x
             q == k * y
  <2>1. (k + 1) * x = p + x /\ (k + 1) * y = q + y /\ p \in Int /\ q \in Int /\ p <= q
    BY <1>2
  <2>2. p + x <= q + y
    <3> HIDE DEF p, q
    <3> QED
      BY <2>1
  <2> HIDE DEF p, q
  <2> QED
    BY <2>1, <2>2
<1>3. \A k \in Nat : k \in T
  <2> HIDE DEF T
  <2> QED
    BY <1>1, <1>2, NumberInduction
<1> QED
  BY <1>3

(* The quotient and the remainder. *)
LEMMA Division ==
  ASSUME NEW a \in Nat, NEW w \in Nat \ {0}
  PROVE  /\ a \div w \in Nat /\ a % w \in Nat
         /\ a = w * (a \div w) + (a % w) /\ a % w < w
<1>1. a % w \in Nat /\ a % w < w
  OBVIOUS
<1>2. a \div w \in Int /\ a \div w >= 0
  <2>1. a \div w \in Int
    OBVIOUS
  <2>2. a \div w >= 0
    OBVIOUS
  <2> QED
    BY <2>1, <2>2
<1>3. a = w * (a \div w) + (a % w)
  OBVIOUS
<1> QED
  BY <1>1, <1>2, <1>3

(* A quotient grows with what is divided, and strictly up to a multiple. *)
LEMMA DivisionGrows ==
  ASSUME NEW a \in Nat, NEW b \in Nat, NEW w \in Nat \ {0}, a <= b
  PROVE  /\ a \div w <= b \div w
         /\ b % w = 0 /\ a < b => a \div w < b \div w
<1> DEFINE q == a \div w
           r == b \div w
           p == w * q
           s == w * r
           m == a % w
           n == b % w
<1>1. /\ q \in Nat /\ r \in Nat /\ p \in Int /\ s \in Int /\ m \in Nat /\ n \in Nat
      /\ a = p + m /\ b = s + n /\ m < w /\ n < w
  BY Division
<1>2. ASSUME r < q PROVE FALSE
  <2>1. w * (r + 1) <= p
    BY <1>1, <1>2, ProductsGrow
  <2>2. w * (r + 1) = s + w
    BY <1>1
  <2> HIDE DEF q, r, p, s, m, n
  <2> QED
    BY <1>1, <2>1, <2>2
<1>3. ASSUME n = 0, a < b, r <= q PROVE FALSE
  <2>1. s <= p
    BY <1>1, <1>3, ProductsGrow
  <2> HIDE DEF q, r, p, s, m, n
  <2> QED
    BY <1>1, <1>3, <2>1
<1> HIDE DEF q, r, p, s, m, n
<1>4. q <= r /\ (n = 0 /\ a < b => q < r)
  BY <1>1, <1>2, <1>3
<1> QED
  BY <1>4 DEF q, r, n

(* A multiple is divided without a remainder. *)
LEMMA DivisionOfMultiple ==
  ASSUME NEW n \in Nat, NEW w \in Nat \ {0}
  PROVE  (n * w) \div w = n
<1> DEFINE q == (n * w) \div w
           m == (n * w) % w
           p == w * q
           s == w * n
<1>1. n * w \in Nat /\ s \in Nat /\ n * w = s
  OBVIOUS
<1>2. q \in Nat /\ p \in Int /\ m \in Nat /\ s = p + m /\ m < w
  BY <1>1, Division
<1>3. ASSUME q < n PROVE FALSE
  <2>1. w * (q + 1) <= s /\ w * (q + 1) = p + w
    BY <1>2, <1>3, ProductsGrow
  <2> HIDE DEF q, m, p, s
  <2> QED
    BY <1>1, <1>2, <2>1
<1>4. ASSUME n < q PROVE FALSE
  <2>1. w * (n + 1) <= p /\ w * (n + 1) = s + w
    BY <1>2, <1>4, ProductsGrow
  <2> HIDE DEF q, m, p, s
  <2> QED
    BY <1>1, <1>2, <2>1
<1>5. q = n
  <2> HIDE DEF q
  <2> QED
    BY <1>2, <1>3, <1>4
<1> QED
  BY <1>5

(* A number is a multiple of w when it is some number of times w. *)
LEMMA MultipleOf ==
  ASSUME NEW w \in Nat \ {0}, NEW a \in Nat, a % w = 0
  PROVE  a \div w \in Nat /\ a = w * (a \div w)
<1> DEFINE q == a \div w
           p == w * q
           m == a % w
<1>1. q \in Nat /\ p \in Int /\ m \in Nat /\ a = p + m /\ m = 0
  BY Division
<1>2. a = p
  <2> HIDE DEF q, p, m
  <2> QED
    BY <1>1
<1> QED
  BY <1>1, <1>2

LEMMA TimesIsMultiple ==
  ASSUME NEW w \in Nat \ {0}, NEW q \in Nat
  PROVE  (w * q) % w = 0
<1> DEFINE a == w * q
           p == a \div w
           m == a % w
<1>1. a \in Nat
  OBVIOUS
<1> HIDE DEF a
<1>2. p \in Nat /\ m \in Nat /\ a = w * p + m /\ m < w
  BY <1>1, Division
<1> HIDE DEF p, m
<1> DEFINE b == w * p
           c == w * (p + 1)
           d == w * (q + 1)
<1>3. b \in Nat /\ c = b + w /\ d = a + w /\ a = b + m
  BY <1>2 DEF a
<1>4. p < q => c <= a
  <2>1. p < q => p + 1 <= q
    BY <1>2
  <2> QED
    BY <1>2, <2>1, ProductsGrow DEF a
<1>5. q < p => d <= b
  <2>1. q < p => q + 1 <= p
    BY <1>2
  <2> QED
    BY <1>2, <2>1, ProductsGrow
<1>6. p = q => b = a
  BY DEF a
<1> HIDE DEF b, c, d
<1>7. m = 0
  BY <1>1, <1>2, <1>3, <1>4, <1>5, <1>6
<1> QED
  BY <1>7 DEF m, a

(* A multiple of w is followed by w more before the next one. *)
LEMMA MultiplesApart ==
  ASSUME NEW w \in Nat \ {0}, NEW i \in Nat, NEW j \in Nat, i % w = 0, j % w = 0, i < j
  PROVE  i + w <= j
<1> DEFINE a == i \div w
           b == j \div w
<1>1. a \in Nat /\ i = w * a
  BY MultipleOf
<1>2. b \in Nat /\ j = w * b
  BY MultipleOf
<1>3. a < b
  BY DivisionGrows
<1> HIDE DEF a, b
<1>4. w * (a + 1) <= w * b
  BY <1>1, <1>2, <1>3, ProductsGrow
<1>5. w * (a + 1) = w * a + w
  BY <1>1
<1> QED
  BY <1>1, <1>2, <1>4, <1>5

(* The next multiple of w after a is a + w. *)
LEMMA NextMultiple ==
  ASSUME NEW w \in Nat \ {0}, NEW a \in Nat, a % w = 0
  PROVE  (a + w) % w = 0
<1> DEFINE q == a \div w
<1>1. q \in Nat /\ a = w * q
  BY MultipleOf
<1> HIDE DEF q
<1>2. w * (q + 1) = a + w
  BY <1>1
<1>3. (w * (q + 1)) % w = 0
  BY <1>1, TimesIsMultiple
<1> QED
  BY <1>2, <1>3

(* A multiple of a multiple of w is one of w. *)
LEMMA MultipleOfMultiple ==
  ASSUME NEW w \in Nat \ {0}, NEW b \in Nat \ {0}, NEW a \in Nat, b % w = 0, a % b = 0
  PROVE  a % w = 0
<1> DEFINE p == b \div w
           q == a \div b
<1>1. p \in Nat /\ b = w * p
  BY MultipleOf
<1>2. q \in Nat /\ a = b * q
  BY MultipleOf
<1> HIDE DEF p, q
<1>3. p * q \in Nat /\ a = w * (p * q)
  BY <1>1, <1>2
<1> QED
  BY <1>3, TimesIsMultiple
=============================================================================

--------------------------- MODULE BitArithmetic ---------------------------
(***************************************************************************)
(* Facts about numbers, about functions defined by recursion on them, and  *)
(* about the numbers that bit vectors stand for.                           *)
(***************************************************************************)
EXTENDS BitCircuits, FiniteSetTheorems, WellFoundedInduction, TLAPS

(* Division and remainder.                                                *)

(* Quotient and remainder of an integer.                                   *)
LEMMA DivMod ==
  ASSUME NEW u \in Int, NEW q \in Nat \ {0}
  PROVE  /\ u \div q \in Int
         /\ u % q \in 0 .. (q - 1)
         /\ u = q * (u \div q) + (u % q)
BY SMTT(30)

(* The remainder is determined by the number.                              *)
LEMMA RemainderUnique ==
  ASSUME NEW q \in Nat \ {0}, NEW m \in Int, NEW n \in Int,
         NEW s \in 0 .. (q - 1), NEW t \in 0 .. (q - 1),
         q * m + s = q * n + t
  PROVE  s = t
<1>1. CASE m = n
  BY <1>1
<1>2. CASE m > n
  <2>1. q * (m - n) >= q
    BY <1>2, SMTT(30)
  <2> QED BY <2>1, SMTT(30)
<1>3. CASE m < n
  <2>1. q * (n - m) >= q
    BY <1>3, SMTT(30)
  <2> QED BY <2>1, SMTT(30)
<1> QED BY <1>1, <1>2, <1>3

(* Reducing a summand first does not change a sum modulo q.                *)
LEMMA ModAdd ==
  ASSUME NEW u \in Int, NEW y \in Int, NEW q \in Nat \ {0}
  PROVE  ((u % q) + y) % q = (u + y) % q
<1> DEFINE r == u % q
           d == u \div q
           e == (r + y) \div q
           t == (r + y) % q
           g == (u + y) \div q
           s == (u + y) % q
<1>1. d \in Int /\ r \in 0 .. (q - 1) /\ u = q * d + r
  BY DivMod
<1>2. r + y \in Int /\ u + y \in Int
  BY <1>1
<1>3. e \in Int /\ t \in 0 .. (q - 1) /\ r + y = q * e + t
  BY <1>2, DivMod
<1>4. g \in Int /\ s \in 0 .. (q - 1) /\ u + y = q * g + s
  BY <1>2, DivMod
<1> HIDE DEF r, d, e, t, g, s
<1>5. q * (d + e) + t = q * g + s
  BY <1>1, <1>3, <1>4, SMTT(30)
<1>6. d + e \in Int
  BY <1>1, <1>3
<1>7. t = s
  BY <1>3, <1>4, <1>5, <1>6, RemainderUnique
<1> QED BY <1>7 DEF t, s, r

(* A residue is its own remainder.                                         *)
LEMMA ResidueMod ==
  ASSUME NEW q \in Nat \ {0}, NEW r \in 0 .. (q - 1)
  PROVE  r % q = r
<1>1. r % q \in 0 .. (q - 1) /\ r = q * (r \div q) + (r % q)
      /\ r \div q \in Int
  BY DivMod
<1>2. q * (r \div q) + (r % q) = q * 0 + r
  BY <1>1
<1> QED BY <1>1, <1>2, RemainderUnique

(* Multiples of the modulus do not count.                                  *)
LEMMA ModMultiple ==
  ASSUME NEW u \in Int, NEW k \in Int, NEW q \in Nat \ {0}
  PROVE  (u + q * k) % q = u % q
<1> DEFINE e == u \div q
           t == u % q
           v == u + q * k
           f == v \div q
           s == v % q
<1>1. e \in Int /\ t \in 0 .. (q - 1) /\ u = q * e + t
  BY DivMod
<1>2. v \in Int
  BY SMT
<1>3. f \in Int /\ s \in 0 .. (q - 1) /\ v = q * f + s
  BY <1>2, DivMod
<1>4. q * (e + k) = q * e + q * k /\ q * k \in Int
  BY <1>1, SMT
<1>5. v = u + q * k
  OBVIOUS
<1> HIDE DEF e, t, v, f, s
<1>6. q * (e + k) + t = q * f + s /\ e + k \in Int
  <2>1. q * e \in Int /\ q * f \in Int
    BY <1>1, <1>3
  <2> QED BY <1>1, <1>3, <1>4, <1>5, <2>1
<1>7. t = s
  BY <1>1, <1>3, <1>6, RemainderUnique
<1> QED BY <1>7 DEF t, s, v

(* The quotient is determined by any remainder below the divisor.          *)
LEMMA QuotientUnique ==
  ASSUME NEW q \in Nat \ {0}, NEW m \in Int, NEW r \in 0 .. (q - 1)
  PROVE  (q * m + r) \div q = m
<1> DEFINE u == q * m + r
           e == u \div q
           t == u % q
<1>1. u \in Int
  BY SMT
<1>2. e \in Int /\ t \in 0 .. (q - 1) /\ u = q * e + t
  BY <1>1, DivMod
<1>3. u = q * m + r
  OBVIOUS
<1> HIDE DEF u, e, t
<1>4. t = r
  BY <1>2, <1>3, RemainderUnique
<1>5. q * e = q * m
  <2>1. q * e \in Int /\ q * m \in Int
    BY <1>2
  <2> QED BY <1>2, <1>3, <1>4, <2>1
<1>6. e = m
  BY <1>2, <1>5, SMTT(30)
<1> QED BY <1>6 DEF e, u

-----------------------------------------------------------------------------
(* Induction, over a set instead of a predicate.                           *)
LEMMA SetInduction ==
  ASSUME NEW S, 0 \in S, \A n \in Nat : n \in S => n + 1 \in S
  PROVE  Nat \subseteq S
<1> DEFINE T == {n \in Nat : n \notin S}
           R == OpToRel(<, Nat)
<1> SUFFICES ASSUME T # {} PROVE FALSE
  OBVIOUS
<1>1. IsWellFoundedOn(R, Nat)
  BY NatLessThanWellFounded
<1>2. \A x, y \in Nat : x < y => <<x, y>> \in R
  BY DEF OpToRel
<1> HIDE DEF R
<1>3. PICK x \in T : \A y \in T : ~ (<<y, x>> \in R)
  BY <1>1, WFMin
<1>4. \A y \in Nat : y < x => y \in S
  BY <1>2, <1>3
<1>5. x # 0
  OBVIOUS
<1>6. x - 1 \in Nat /\ x - 1 < x /\ x = (x - 1) + 1
  BY <1>5
<1> QED BY <1>4, <1>6

-----------------------------------------------------------------------------
(* Functions defined by recursion on the naturals: f[0] is base, and step  *)
(* takes f[k] to f[k + 1].                                                 *)

Follows(f, base, step, n) ==
  f[0] = base /\ \A k \in 0 .. n - 1 : f[k + 1] = step[k][f[k]]

(* Two functions that follow the same recursion agree.                     *)
LEMMA RecursionUnique ==
  ASSUME NEW base, NEW step, NEW n \in Nat, NEW m \in Nat, NEW f, NEW g,
         Follows(f, base, step, n), Follows(g, base, step, m)
  PROVE  \A k \in Nat : k <= n /\ k <= m => f[k] = g[k]
<1> DEFINE S == {k \in Nat : k <= n /\ k <= m => f[k] = g[k]}
<1>1. 0 \in S
  BY DEF Follows
<1>2. ASSUME NEW k \in Nat, k \in S
      PROVE  k + 1 \in S
  <2> SUFFICES ASSUME k + 1 <= n, k + 1 <= m PROVE f[k + 1] = g[k + 1]
    OBVIOUS
  <2>1. f[k] = g[k] /\ k \in 0 .. n - 1 /\ k \in 0 .. m - 1
    BY <1>2
  <2> QED BY <2>1 DEF Follows
<1> HIDE DEF S
<1>3. Nat \subseteq S
  BY <1>1, <1>2, SetInduction
<1> QED BY <1>3 DEF S

(* One turn further.                                                       *)
LEMMA RecursionExtends ==
  ASSUME NEW S, NEW base \in S, NEW step \in [Nat -> [S -> S]],
         NEW n \in Nat, NEW f \in [0 .. n -> S], Follows(f, base, step, n)
  PROVE  \E g \in [0 .. n + 1 -> S] : Follows(g, base, step, n + 1)
<1> DEFINE g == [k \in 0 .. n + 1 |-> IF k = n + 1 THEN step[n][f[n]] ELSE f[k]]
<1>1. f[n] \in S
  OBVIOUS
<1>2. step[n][f[n]] \in S
  BY <1>1
<1>3. g \in [0 .. n + 1 -> S]
  BY <1>2
<1>4. g[0] = base
  BY DEF Follows
<1>5. ASSUME NEW k \in 0 .. n
      PROVE  g[k + 1] = step[k][g[k]]
  <2>1. CASE k = n
    BY <2>1
  <2>2. CASE k # n
    <3>1. k \in 0 .. n - 1
      BY <2>2
    <3>2. f[k + 1] = step[k][f[k]]
      BY <3>1 DEF Follows
    <3> QED BY <3>1, <3>2
  <2> QED BY <2>1, <2>2
<1> HIDE DEF g
<1>6. Follows(g, base, step, n + 1)
  BY <1>4, <1>5 DEF Follows
<1> QED BY <1>3, <1>6

(* The recursion defines a function up to any natural.                     *)
Recursion(S, base, step) == base \in S /\ step \in [Nat -> [S -> S]]

(* Up to any number there is a function that follows the recursion.        *)
LEMMA RecursionPartial ==
  ASSUME NEW S, NEW base, NEW step, Recursion(S, base, step)
  PROVE  \A n \in Nat : \E f \in [0 .. n -> S] : Follows(f, base, step, n)
<1> USE DEF Recursion
<1> DEFINE T == {n \in Nat : \E f \in [0 .. n -> S] : Follows(f, base, step, n)}
<1>1. 0 \in T
  <2> DEFINE f == [k \in 0 .. 0 |-> base]
  <2>1. f \in [0 .. 0 -> S] /\ f[0] = base
    OBVIOUS
  <2> HIDE DEF f
  <2>2. Follows(f, base, step, 0)
    BY <2>1 DEF Follows
  <2> QED BY <2>1, <2>2
<1>2. ASSUME NEW n \in Nat, n \in T
      PROVE  n + 1 \in T
  <2>1. PICK f \in [0 .. n -> S] : Follows(f, base, step, n)
    BY <1>2
  <2>2. \E g \in [0 .. n + 1 -> S] : Follows(g, base, step, n + 1)
    BY <2>1, RecursionExtends
  <2> QED BY <2>2
<1> HIDE DEF T
<1>3. Nat \subseteq T
  BY <1>1, <1>2, SetInduction
<1> QED BY <1>3 DEF T

(* The recursion defines a function on all naturals.                       *)
Solves(f, S, base, step) ==
  /\ f \in [Nat -> S]
  /\ f[0] = base /\ \A k \in Nat : f[k + 1] = step[k][f[k]]

(* Some function on all numbers satisfies the recursion.                   *)
LEMMA RecursionExists ==
  ASSUME NEW S, NEW base, NEW step, Recursion(S, base, step)
  PROVE  \E f : Solves(f, S, base, step)
<1> USE DEF Recursion
<1> DEFINE part == [n \in Nat |->
             CHOOSE f \in [0 .. n -> S] : Follows(f, base, step, n)]
           g == [n \in Nat |-> part[n][n]]
<1>1. \A n \in Nat : part[n] \in [0 .. n -> S]
                       /\ Follows(part[n], base, step, n)
  BY RecursionPartial
<1> HIDE DEF part
<1>2. g \in [Nat -> S]
  BY <1>1
<1>3. g[0] = base
  BY <1>1 DEF Follows
<1>4. ASSUME NEW k \in Nat
      PROVE  g[k + 1] = step[k][g[k]]
  <2>1. part[k + 1][k + 1] = step[k][part[k + 1][k]]
    <3>1. k \in 0 .. (k + 1) - 1
      OBVIOUS
    <3>2. Follows(part[k + 1], base, step, k + 1)
      BY <1>1
    <3> QED BY <3>1, <3>2 DEF Follows
  <2>2. part[k + 1][k] = part[k][k]
    <3>1. /\ Follows(part[k + 1], base, step, k + 1)
          /\ Follows(part[k], base, step, k)
      BY <1>1
    <3>2. k + 1 \in Nat /\ k <= k + 1 /\ k <= k
      OBVIOUS
    <3> DEFINE p == part[k + 1]
               r == part[k]
               m == k + 1
    <3>3. Follows(p, base, step, m) /\ Follows(r, base, step, k) /\ m \in Nat
      BY <3>1, <3>2
    <3> HIDE DEF g, p, r, m
    <3>4. \A j \in Nat : j <= m /\ j <= k => p[j] = r[j]
      BY <3>3, RecursionUnique
    <3> QED BY <3>2, <3>4 DEF p, r, m
  <2> QED BY <2>1, <2>2
<1> HIDE DEF g
<1> QED BY <1>2, <1>3, <1>4 DEF Solves

-----------------------------------------------------------------------------
(* Powers of two, by counting subsets.                                     *)

(* 2^n is a number: it counts the subsets of an n-element set.             *)
LEMMA PowersAreNumbers == \A n \in Nat : 2^n \in Nat
<1> TAKE n \in Nat
<1>1. IsFiniteSet(1 .. n) /\ Cardinality(1 .. n) = n
  BY FS_Interval
<1>2. IsFiniteSet(SUBSET (1 .. n)) /\ Cardinality(SUBSET (1 .. n)) = 2^n
  BY <1>1, FS_SUBSET
<1> QED BY <1>2, FS_CardinalityType

(* The empty set has one subset.                                           *)
LEMMA PowerOfZero == 2^0 = 1
<1>1. Cardinality(SUBSET {}) = 2^Cardinality({})
  BY FS_EmptySet, FS_SUBSET
<1>2. SUBSET {} = {{}}
  OBVIOUS
<1>3. Cardinality({{}}) = 1
  BY FS_Singleton
<1> QED BY <1>1, <1>2, <1>3, FS_EmptySet

(* The subsets of 1 .. n + 1 are those without n + 1, and as many with it. *)
LEMMA PowerDoubles == \A n \in Nat : 2^(n + 1) = 2 * 2^n
<1> TAKE n \in Nat
<1> DEFINE A == SUBSET (1 .. n)
           B == {s \in SUBSET (1 .. n + 1) : n + 1 \in s}
           C == SUBSET (1 .. n + 1)
           f == [s \in A |-> s \cup {n + 1}]
<1>1. IsFiniteSet(A) /\ Cardinality(A) = 2^n
  <2>1. IsFiniteSet(1 .. n) /\ Cardinality(1 .. n) = n
    BY FS_Interval
  <2> QED BY <2>1, FS_SUBSET
<1>2. IsFiniteSet(C) /\ Cardinality(C) = 2^(n + 1)
  <2>1. IsFiniteSet(1 .. n + 1) /\ Cardinality(1 .. n + 1) = n + 1
    BY FS_Interval
  <2> QED BY <2>1, FS_SUBSET
<1>3. f \in Bijection(A, B)
  <2>1. f \in [A -> B]
    OBVIOUS
  <2>2. \A s, t \in A : f[s] = f[t] => s = t
    OBVIOUS
  <2>3. \A t \in B : \E s \in A : f[s] = t
    <3> TAKE t \in B
    <3>1. t \ {n + 1} \in A /\ (t \ {n + 1}) \cup {n + 1} = t
      OBVIOUS
    <3> QED BY <3>1
  <2> HIDE DEF A, B, f
  <2> QED BY <2>1, <2>2, <2>3 DEF Bijection, Injection, Surjection, IsInjective
<1>4. IsFiniteSet(B) /\ Cardinality(B) = Cardinality(A)
  BY <1>1, <1>3, FS_Bijection DEF ExistsBijection
<1>5. C = A \cup B /\ A \cap B = {}
  OBVIOUS
<1> HIDE DEF A, B, C
<1>6. Cardinality(C) = Cardinality(A) + Cardinality(B) - Cardinality({})
  BY <1>1, <1>4, <1>5, FS_Union
<1> QED BY <1>1, <1>2, <1>4, <1>6, FS_EmptySet, PowersAreNumbers

(* 2^n is not 0, so it can be divided by.                                  *)
LEMMA PowerIsPositive == \A n \in Nat : 2^n \in Nat \ {0}
<1> DEFINE S == {n \in Nat : 2^n > 0}
<1>1. 0 \in S
  BY PowerOfZero
<1>2. \A n \in Nat : n \in S => n + 1 \in S
  BY PowerDoubles, PowersAreNumbers
<1> HIDE DEF S
<1>3. Nat \subseteq S
  BY <1>1, <1>2, SetInduction
<1> QED BY <1>3, PowersAreNumbers DEF S

(* Exponents add.                                                          *)
LEMMA PowerAdds ==
  \A m, n \in Nat : 2^(m + n) = 2^m * 2^n
<1> TAKE m, n0 \in Nat
<1> DEFINE S == {n \in Nat : 2^(m + n) = 2^m * 2^n}
<1>1. 0 \in S
  <2>1. 2^m * 1 = 2^m /\ m + 0 = m
    BY PowersAreNumbers
  <2> QED BY <2>1, PowerOfZero
<1>2. ASSUME NEW n \in Nat, n \in S
      PROVE  n + 1 \in S
  <2> DEFINE P == 2^m
             Q == 2^n
             R == 2^(m + n)
  <2>1. P \in Nat /\ Q \in Nat /\ R = P * Q
    BY <1>2, PowersAreNumbers
  <2>2. m + (n + 1) = (m + n) + 1 /\ m + n \in Nat
    OBVIOUS
  <2>3. 2^(m + (n + 1)) = 2 * R /\ 2^(n + 1) = 2 * Q
    BY <2>2, PowerDoubles
  <2> HIDE DEF P, Q, R
  <2>4. 2 * R = P * (2 * Q)
    BY <2>1, SMT
  <2> QED BY <2>3, <2>4 DEF P
<1> HIDE DEF S
<1>3. Nat \subseteq S
  BY <1>1, <1>2, SetInduction
<1> QED BY <1>3 DEF S

(* A wider word has no fewer values.                                       *)
LEMMA PowerGrows ==
  \A m, n \in Nat : m <= n => 2^m <= 2^n
<1> TAKE m, n \in Nat
<1> SUFFICES ASSUME m <= n PROVE 2^m <= 2^n
  OBVIOUS
<1> DEFINE P == 2^m
           Q == 2^(n - m)
<1>1. n - m \in Nat /\ m + (n - m) = n
  OBVIOUS
<1>2. 2^n = P * Q
  BY <1>1, PowerAdds
<1>3. P \in Nat /\ Q \in Nat \ {0}
  BY <1>1, PowerIsPositive
<1> HIDE DEF P, Q
<1>4. P <= P * Q
  BY <1>3, SMTT(30)
<1> QED BY <1>2, <1>4 DEF P

-----------------------------------------------------------------------------
(* The number of a bit vector.                                             *)

(* A bit is worth 0 or 1.                                                  *)
LEMMA BitIsNumber == \A b : Bit(b) \in {0, 1}
BY DEF Bit

(* The recursion of Value defines a function.                              *)
LEMMA ValueSum ==
  ASSUME NEW bits
  PROVE  \E f : f = [k \in Nat |->
           IF k = 0 THEN 0 ELSE f[k - 1] + Bit(bits[k - 1]) * 2^(k - 1)]
<1> DEFINE digit == [k \in Nat |-> Bit(bits[k]) * 2^k]
           step == [k \in Nat |-> [v \in Nat |-> v + digit[k]]]
<1>1. \A k \in Nat : digit[k] \in Nat
  <2> TAKE k \in Nat
  <2>1. 2^k \in Nat
    BY PowersAreNumbers
  <2>2. Bit(bits[k]) * 2^k \in Nat
    BY <2>1, BitIsNumber
  <2> QED BY <2>2
<1> HIDE DEF digit
<1>2. step \in [Nat -> [Nat -> Nat]]
  BY <1>1
<1>3. \A k, v \in Nat : step[k][v] = v + digit[k]
  OBVIOUS
<1> HIDE DEF step
<1>4. PICK f : Solves(f, Nat, 0, step)
  <2>1. Recursion(Nat, 0, step)
    BY <1>2 DEF Recursion
  <2> QED BY <2>1, RecursionExists
<1>5. \A k \in Nat \ {0} : f[k] = f[k - 1] + digit[k - 1]
  <2> TAKE k \in Nat \ {0}
  <2>1. k - 1 \in Nat /\ (k - 1) + 1 = k
    OBVIOUS
  <2> QED BY <1>3, <1>4, <2>1 DEF Solves
<1>6. \A k \in Nat \ {0} :
        f[k] = f[k - 1] + Bit(bits[k - 1]) * 2^(k - 1)
  <2> TAKE k \in Nat \ {0}
  <2>1. k - 1 \in Nat
    OBVIOUS
  <2>2. digit[k - 1] = Bit(bits[k - 1]) * 2^(k - 1)
    BY <2>1 DEF digit
  <2> QED BY <1>5, <2>2
<1>7. f = [k \in Nat |-> IF k = 0 THEN 0
                         ELSE f[k - 1] + Bit(bits[k - 1]) * 2^(k - 1)]
  BY <1>4, <1>6 DEF Solves
<1> QED BY <1>7

(* The value of a vector, bit by bit from the least significant one.       *)
LEMMA ValueRecursion ==
  ASSUME NEW bits
  PROVE  /\ Value(bits, 0) = 0
         /\ \A n \in Nat :
              Value(bits, n + 1) = Value(bits, n) + Bit(bits[n]) * 2^n
<1> DEFINE sum[k \in Nat] ==
             IF k = 0 THEN 0 ELSE sum[k - 1] + Bit(bits[k - 1]) * 2^(k - 1)
<1>1. sum = [k \in Nat |->
               IF k = 0 THEN 0 ELSE sum[k - 1] + Bit(bits[k - 1]) * 2^(k - 1)]
  BY ValueSum
<1>2. \A n : Value(bits, n) = sum[n]
  BY DEF Value
<1> HIDE DEF sum
<1>3. sum[0] = 0
  BY <1>1
<1>4. ASSUME NEW n \in Nat
      PROVE  sum[n + 1] = sum[n] + Bit(bits[n]) * 2^n
  <2>1. n + 1 \in Nat /\ n + 1 # 0 /\ (n + 1) - 1 = n
    OBVIOUS
  <2> QED BY <1>1, <2>1
<1> QED BY <1>2, <1>3, <1>4

(* n bits stand for a number below 2^n.                                    *)
LEMMA ValueBound ==
  ASSUME NEW bits
  PROVE  \A n \in Nat : Value(bits, n) \in 0 .. 2^n - 1
<1> DEFINE S == {n \in Nat : Value(bits, n) \in 0 .. 2^n - 1}
<1>1. 0 \in S
  BY ValueRecursion, PowerOfZero
<1>2. ASSUME NEW n \in Nat, n \in S
      PROVE  n + 1 \in S
  <2> DEFINE P == 2^n
             V == Value(bits, n)
             b == Bit(bits[n])
  <2>1. /\ P \in Nat /\ 2^(n + 1) = 2 * P /\ V \in 0 .. P - 1
        /\ Value(bits, n + 1) = V + b * P /\ b \in {0, 1}
    BY <1>2, ValueRecursion, PowerDoubles, PowersAreNumbers, BitIsNumber
  <2> HIDE DEF P, V, b
  <2>2. b * P \in {0, P}
    BY <2>1
  <2>3. V + b * P \in 0 .. 2 * P - 1
    BY <2>1, <2>2
  <2> QED BY <2>1, <2>3
<1> HIDE DEF S
<1>3. Nat \subseteq S
  BY <1>1, <1>2, SetInduction
<1> QED BY <1>3 DEF S

(* Only the bits below the width count.                                    *)
LEMMA ValueSame ==
  ASSUME NEW f, NEW g, NEW n \in Nat, \A k \in 0 .. n - 1 : f[k] = g[k]
  PROVE  \A m \in 0 .. n : Value(f, m) = Value(g, m)
<1> DEFINE S == {m \in Nat : m <= n => Value(f, m) = Value(g, m)}
<1>1. 0 \in S
  BY ValueRecursion
<1>2. ASSUME NEW m \in Nat, m \in S
      PROVE  m + 1 \in S
  <2> SUFFICES ASSUME m + 1 <= n PROVE Value(f, m + 1) = Value(g, m + 1)
    OBVIOUS
  <2>1. Value(f, m) = Value(g, m) /\ m \in 0 .. n - 1
    BY <1>2
  <2>2. f[m] = g[m]
    BY <2>1
  <2> QED BY <2>1, <2>2, ValueRecursion
<1> HIDE DEF S
<1>3. Nat \subseteq S
  BY <1>1, <1>2, SetInduction
<1> QED BY <1>3 DEF S

(* One more binary digit.                                                  *)
LEMMA NextDigit ==
  ASSUME NEW x \in Nat, NEW P \in Nat \ {0}
  PROVE  x % (2 * P) = (x % P) + Bit((x \div P) % 2 = 1) * P
<1> DEFINE D == x \div P
           R == x % P
           E == D \div 2
           d == D % 2
           b == Bit(d = 1)
           Q == 2 * P
           T == x % Q
           U == x \div Q
<1>1. D \in Int /\ R \in 0 .. P - 1 /\ x = P * D + R
  BY DivMod
<1>2. E \in Int /\ d \in 0 .. 1 /\ D = 2 * E + d
  BY <1>1, DivMod
<1>3. b = d
  BY <1>2 DEF Bit
<1>0. Q \in Nat \ {0}
  OBVIOUS
<1> HIDE DEF Q
<1>4. U \in Int /\ T \in 0 .. Q - 1 /\ x = Q * U + T
  BY <1>0, DivMod
<1> HIDE DEF D, R, E, d, b, T, U
<1>5. d * P \in {0, P}
  BY <1>2
<1>6. R + d * P \in 0 .. Q - 1
  BY <1>1, <1>5 DEF Q
<1>7. P * (2 * E + d) = Q * E + d * P
  BY <1>2, SMTT(30) DEF Q
<1>8. Q * E + (R + d * P) = Q * U + T
  <2>1. Q * E \in Int /\ Q * U \in Int
    BY <1>0, <1>2, <1>4
  <2> QED BY <1>1, <1>2, <1>4, <1>5, <1>7, <2>1
<1>9. R + d * P = T
  BY <1>0, <1>2, <1>4, <1>6, <1>8, RemainderUnique
<1> QED BY <1>3, <1>9 DEF T, R, b, d, D, Q

(* The bits put on the wires for a number stand for it.                    *)
LEMMA ValueOfConstant ==
  ASSUME NEW x \in Nat, NEW w \in Nat
  PROVE  /\ ConstantBits(w, x) \in Vectors(w)
         /\ Value(ConstantBits(w, x), w) = x % 2^w
<1> DEFINE v == ConstantBits(w, x)
           S == {n \in Nat : n <= w => Value(v, n) = x % 2^n}
<1>1. v \in Vectors(w)
  BY DEF ConstantBits, Vectors
<1>2. 0 \in S
  <2>1. x % 1 = 0
    BY DivMod
  <2> QED BY <2>1, ValueRecursion, PowerOfZero
<1>3. ASSUME NEW n \in Nat, n \in S
      PROVE  n + 1 \in S
  <2> SUFFICES ASSUME n + 1 <= w PROVE Value(v, n + 1) = x % 2^(n + 1)
    OBVIOUS
  <2> DEFINE P == 2^n
  <2>1. P \in Nat \ {0} /\ 2^(n + 1) = 2 * P
    BY PowerIsPositive, PowerDoubles
  <2>2. v[n] = ((x \div P) % 2 = 1)
    BY DEF ConstantBits
  <2>3. Value(v, n + 1) = Value(v, n) + Bit(v[n]) * P /\ Value(v, n) = x % P
    BY <1>3, ValueRecursion
  <2> HIDE DEF P, v
  <2>4. x % (2 * P) = (x % P) + Bit((x \div P) % 2 = 1) * P
    BY <2>1, NextDigit
  <2> QED BY <2>1, <2>2, <2>3, <2>4
<1> HIDE DEF S
<1>4. Nat \subseteq S
  BY <1>2, <1>3, SetInduction
<1> QED BY <1>1, <1>4 DEF S

-----------------------------------------------------------------------------
(* The gates of one bit position, and the loops over all of them.          *)

(* A full adder: what goes in comes out.                                   *)
LEMMA FullAdder ==
  ASSUME NEW l \in BOOLEAN, NEW r \in BOOLEAN, NEW c \in BOOLEAN
  PROVE  /\ SumBit(l, r, c) \in BOOLEAN
         /\ CarryBit(l, r, c) \in BOOLEAN
         /\ Bit(l) + Bit(r) + Bit(c)
              = Bit(SumBit(l, r, c)) + 2 * Bit(CarryBit(l, r, c))
<1> DEFINE s == SumBit(l, r, c)
           k == CarryBit(l, r, c)
<1>1. s \in BOOLEAN /\ k \in BOOLEAN
  BY DEF SumBit, CarryBit, BuildOr, Xor
<1>2. /\ s <=> ((l <=> r) <=> c)
      /\ k <=> (l /\ r) \/ (l /\ c) \/ (r /\ c)
  BY Zenon DEF SumBit, CarryBit, BuildOr, Xor
<1> HIDE DEF s, k
<1>3. Bit(l) + Bit(r) + Bit(c) = Bit(s) + 2 * Bit(k)
  BY <1>2 DEF Bit
<1> QED BY <1>1, <1>3 DEF s, k

(* A ripple-carry loop adds the two numbers and the carry it starts with.  *)
Ripples(l, r, c, s, w) ==
  /\ c[0] \in BOOLEAN
  /\ \A k \in 0 .. w - 1 : /\ l[k] \in BOOLEAN /\ r[k] \in BOOLEAN
                           /\ c[k + 1] = CarryBit(l[k], r[k], c[k])
                           /\ s[k] = SumBit(l[k], r[k], c[k])

LEMMA RippleSum ==
  ASSUME NEW w \in Nat, NEW l, NEW r, NEW c, NEW s, Ripples(l, r, c, s, w)
  PROVE  /\ \A k \in 0 .. w : c[k] \in BOOLEAN
         /\ \A k \in 0 .. w - 1 : s[k] \in BOOLEAN
         /\ Value(l, w) + Value(r, w) + Bit(c[0])
              = Value(s, w) + Bit(c[w]) * 2^w
<1> DEFINE Sums(n) == Value(l, n) + Value(r, n) + Bit(c[0])
                        = Value(s, n) + Bit(c[n]) * 2^n
           S == {n \in Nat : n <= w => c[n] \in BOOLEAN /\ Sums(n)}
<1>0. /\ c[0] \in BOOLEAN
      /\ \A k \in 0 .. w - 1 : /\ l[k] \in BOOLEAN /\ r[k] \in BOOLEAN
                               /\ c[k + 1] = CarryBit(l[k], r[k], c[k])
                               /\ s[k] = SumBit(l[k], r[k], c[k])
  BY DEF Ripples
<1>1. 0 \in S
  <2>1. Bit(c[0]) \in {0, 1}
    BY BitIsNumber
  <2> QED BY <1>0, <2>1, ValueRecursion, PowerOfZero
<1>2. ASSUME NEW n \in Nat, n \in S
      PROVE  n + 1 \in S
  <2> SUFFICES ASSUME n + 1 <= w PROVE c[n + 1] \in BOOLEAN /\ Sums(n + 1)
    OBVIOUS
  <2>1. n \in 0 .. w - 1 /\ c[n] \in BOOLEAN /\ Sums(n)
    BY <1>2
  <2>2. /\ c[n + 1] \in BOOLEAN
        /\ Bit(l[n]) + Bit(r[n]) + Bit(c[n]) = Bit(s[n]) + 2 * Bit(c[n + 1])
    <3>1. l[n] \in BOOLEAN /\ r[n] \in BOOLEAN
      BY <1>0, <2>1
    <3>2. s[n] = SumBit(l[n], r[n], c[n])
          /\ c[n + 1] = CarryBit(l[n], r[n], c[n])
      BY <1>0, <2>1
    <3> QED BY <2>1, <3>1, <3>2, FullAdder
  <2> DEFINE P == 2^n
             L == Value(l, n)
             R == Value(r, n)
             V == Value(s, n)
             x == Bit(l[n])
             y == Bit(r[n])
             z == Bit(s[n])
             C == Bit(c[n])
             D == Bit(c[n + 1])
             I == Bit(c[0])
  <2>3. /\ P \in Nat /\ 2^(n + 1) = 2 * P
        /\ L \in Nat /\ R \in Nat /\ V \in Nat
        /\ Value(l, n + 1) = L + x * P /\ Value(r, n + 1) = R + y * P
        /\ Value(s, n + 1) = V + z * P
        /\ x \in {0, 1} /\ y \in {0, 1} /\ z \in {0, 1} /\ C \in {0, 1}
        /\ D \in {0, 1} /\ I \in {0, 1}
    BY <2>1, PowersAreNumbers, PowerDoubles, ValueRecursion, ValueBound, BitIsNumber
  <2>4. x + y + C = z + 2 * D /\ L + R + I = V + C * P
    BY <2>1, <2>2
  <2> HIDE DEF P, L, R, V, x, y, z, C, D, I
  <2>5. (L + x * P) + (R + y * P) + I = (V + z * P) + D * (2 * P)
    BY <2>3, <2>4, SMTT(30)
  <2> QED BY <2>2, <2>3, <2>5 DEF D, I
<1> HIDE DEF S
<1>3. Nat \subseteq S
  BY <1>1, <1>2, SetInduction
<1>4. \A k \in 0 .. w : c[k] \in BOOLEAN
  BY <1>3 DEF S
<1>5. ASSUME NEW k \in 0 .. w - 1
      PROVE  s[k] \in BOOLEAN
  <2>1. c[k] \in BOOLEAN /\ l[k] \in BOOLEAN /\ r[k] \in BOOLEAN
    <3>1. k \in 0 .. w
      OBVIOUS
    <3> QED BY <1>0, <1>4, <3>1
  <2>2. s[k] = SumBit(l[k], r[k], c[k])
    BY <1>0
  <2> QED BY <2>1, <2>2, FullAdder
<1>6. Sums(w)
  BY <1>3 DEF S
<1> QED BY <1>4, <1>5, <1>6

(* The upper bits of a vector are the quotient, the lower ones the rest.   *)
LEMMA UpperBits ==
  ASSUME NEW bits, NEW s \in Nat, NEW w \in Nat, NEW upper,
         \A k \in 0 .. w - 1 : upper[k] = bits[s + k]
  PROVE  Value(bits, s + w) = 2^s * Value(upper, w) + Value(bits, s)
<1> DEFINE S == {n \in Nat : n <= w =>
                   Value(bits, s + n) = 2^s * Value(upper, n) + Value(bits, s)}
<1>1. 0 \in S
  <2>1. Value(upper, 0) = 0 /\ s + 0 = s /\ 2^s \in Nat
        /\ Value(bits, s) \in Nat
    BY ValueRecursion, ValueBound, PowersAreNumbers
  <2> DEFINE P == 2^s
             V == Value(bits, s)
  <2> HIDE DEF P, V
  <2>2. V = P * 0 + V
    BY <2>1 DEF P, V
  <2> QED BY <2>1, <2>2 DEF P, V
<1>2. ASSUME NEW n \in Nat, n \in S
      PROVE  n + 1 \in S
  <2> SUFFICES ASSUME n + 1 <= w
               PROVE  Value(bits, s + (n + 1))
                        = 2^s * Value(upper, n + 1) + Value(bits, s)
    OBVIOUS
  <2> DEFINE P == 2^s
             Q == 2^n
             U == Value(upper, n)
             V == Value(bits, s)
             W == Value(bits, s + n)
             b == Bit(upper[n])
  <2>1. /\ P \in Nat /\ Q \in Nat /\ U \in Nat /\ V \in Nat /\ b \in {0, 1}
        /\ 2^(s + n) = P * Q
    <3>1. P \in Nat /\ Q \in Nat
      BY PowersAreNumbers
    <3>2. U \in 0 .. Q - 1 /\ V \in 0 .. P - 1
      BY ValueBound
    <3>3. 2^(s + n) = P * Q
      BY PowerAdds
    <3>4. b \in {0, 1}
      BY BitIsNumber
    <3> HIDE DEF P, Q, U, V, b
    <3> QED BY <3>1, <3>2, <3>3, <3>4
  <2>2. W = P * U + V
    BY <1>2
  <2>3. s + (n + 1) = (s + n) + 1 /\ s + n \in Nat /\ n \in 0 .. w - 1
    OBVIOUS
  <2>4. upper[n] = bits[s + n]
    BY <2>3
  <2>5. /\ Value(upper, n + 1) = U + b * Q
        /\ Value(bits, (s + n) + 1) = W + b * (P * Q)
    BY <2>1, <2>3, <2>4, ValueRecursion
  <2> HIDE DEF P, Q, U, V, W, b
  <2>6. (P * U + V) + b * (P * Q) = P * (U + b * Q) + V
    BY <2>1, SMTT(30)
  <2> QED BY <2>2, <2>3, <2>5, <2>6 DEF P, V
<1> HIDE DEF S
<1>3. Nat \subseteq S
  BY <1>1, <1>2, SetInduction
<1> QED BY <1>3 DEF S

(* A number and the bits that are still to come, one bit further.          *)
LEMMA PrefixGrows ==
  ASSUME NEW bits, NEW p \in Nat, NEW x \in Nat, NEW number,
         number = x * 2^(p + 1) + Value(bits, p + 1)
  PROVE  number = (2 * x + Bit(bits[p])) * 2^p + Value(bits, p)
<1> DEFINE P == 2^p
           V == Value(bits, p)
           b == Bit(bits[p])
<1>1. /\ P \in Nat /\ 2^(p + 1) = 2 * P /\ V \in Nat /\ b \in {0, 1}
      /\ Value(bits, p + 1) = V + b * P
  BY PowersAreNumbers, PowerDoubles, ValueBound, ValueRecursion, BitIsNumber
<1> HIDE DEF P, V, b
<1>2. number = x * (2 * P) + (V + b * P)
  BY <1>1
<1>3. x * (2 * P) + (V + b * P) = (2 * x + b) * P + V
  BY <1>1, SMTT(30)
<1> QED BY <1>2, <1>3 DEF P, V, b

(* Negating a bit takes its worth from 1.                                  *)
LEMMA FlippedBit == \A b \in BOOLEAN : Bit(~b) = 1 - Bit(b)
BY DEF Bit

(* The inverted operand of a subtraction.                                  *)
LEMMA ValueInverted ==
  ASSUME NEW w \in Nat, NEW r \in Vectors(w), NEW inverse,
         \A k \in 0 .. w - 1 : inverse[k] = ~r[k]
  PROVE  Value(inverse, w) = 2^w - 1 - Value(r, w)
<1> DEFINE S == {n \in Nat : n <= w =>
                   Value(inverse, n) + Value(r, n) = 2^n - 1}
<1>1. 0 \in S
  BY ValueRecursion, PowerOfZero
<1>2. ASSUME NEW n \in Nat, n \in S
      PROVE  n + 1 \in S
  <2> SUFFICES ASSUME n + 1 <= w
               PROVE  Value(inverse, n + 1) + Value(r, n + 1) = 2^(n + 1) - 1
    OBVIOUS
  <2> DEFINE P == 2^n
             R == Value(r, n)
             V == Value(inverse, n)
             y == Bit(r[n])
             z == Bit(inverse[n])
  <2>1. z = 1 - y
    <3>1. n \in 0 .. w - 1
      OBVIOUS
    <3>2. r[n] \in BOOLEAN /\ inverse[n] = ~r[n]
      BY <3>1 DEF Vectors
    <3>3. Bit(inverse[n]) = Bit(~r[n])
      BY <3>2
    <3> QED BY <3>2, <3>3, FlippedBit
  <2>2. /\ P \in Nat /\ 2^(n + 1) = 2 * P /\ R \in Nat /\ V \in Nat
        /\ Value(r, n + 1) = R + y * P /\ Value(inverse, n + 1) = V + z * P
        /\ y \in {0, 1} /\ z \in {0, 1}
    BY PowersAreNumbers, PowerDoubles, ValueRecursion, ValueBound, BitIsNumber
  <2>3. V + R = P - 1
    BY <1>2
  <2> HIDE DEF P, R, V, y, z
  <2>4. z * P = P - y * P /\ y * P \in Nat
    BY <2>1, <2>2
  <2> QED BY <2>2, <2>3, <2>4
<1> HIDE DEF S
<1>3. Nat \subseteq S
  BY <1>1, <1>2, SetInduction
<1>4. Value(inverse, w) + Value(r, w) = 2^w - 1
  BY <1>3 DEF S
<1> QED BY <1>4, ValueBound, PowersAreNumbers

(* What the comparator's gates say about one position.                     *)
LEMMA ComparatorGates ==
  ASSUME NEW g \in BOOLEAN, NEW e \in BOOLEAN, NEW l \in BOOLEAN,
         NEW r \in BOOLEAN
  PROVE  /\ GreaterHere(g, e, l, r) \in BOOLEAN
         /\ EqualHere(e, l, r) \in BOOLEAN
         /\ GreaterUpTo(g, l, r) \in BOOLEAN
         /\ GreaterHere(g, e, l, r) <=> (g \/ (e /\ l /\ ~r))
         /\ EqualHere(e, l, r) <=> (e /\ (l <=> r))
         /\ GreaterUpTo(g, l, r) <=> ((l /\ ~r) \/ ((l <=> r) /\ g))
<1>1. /\ GreaterHere(g, e, l, r) \in BOOLEAN
      /\ EqualHere(e, l, r) \in BOOLEAN
      /\ GreaterUpTo(g, l, r) \in BOOLEAN
  BY DEF GreaterHere, EqualHere, GreaterUpTo, BuildOr, Xor
<1>2. GreaterHere(g, e, l, r) <=> (g \/ (e /\ l /\ ~r))
  BY Zenon DEF GreaterHere, BuildOr, Xor
<1>3. EqualHere(e, l, r) <=> (e /\ (l <=> r))
  BY Zenon DEF EqualHere, Xor
<1>4. GreaterUpTo(g, l, r) <=> ((l /\ ~r) \/ ((l <=> r) /\ g))
  BY Zenon DEF GreaterUpTo, Xor
<1> QED BY <1>1, <1>2, <1>3, <1>4

(* The most significant bit decides, then the next one.                    *)
LEMMA MsbOrder ==
  ASSUME NEW x \in Nat, NEW y \in Nat, NEW l \in BOOLEAN, NEW r \in BOOLEAN
  PROVE  /\ (2 * x + Bit(l) > 2 * y + Bit(r))
              <=> (x > y \/ (x = y /\ l /\ ~r))
         /\ (2 * x + Bit(l) = 2 * y + Bit(r)) <=> (x = y /\ (l <=> r))
BY DEF Bit

(* A more significant bit overrules all the less significant ones.         *)
LEMMA LsbOrder ==
  ASSUME NEW x \in Nat, NEW y \in Nat, NEW w \in Nat, x < w, y < w,
         NEW l \in BOOLEAN, NEW r \in BOOLEAN
  PROVE  /\ (x + Bit(l) * w > y + Bit(r) * w)
              <=> ((l /\ ~r) \/ ((l <=> r) /\ x > y))
         /\ x + Bit(l) * w \in Nat /\ x + Bit(l) * w < 2 * w
         /\ y + Bit(r) * w \in Nat /\ y + Bit(r) * w < 2 * w
<1>1. \A b \in BOOLEAN : Bit(b) * w = IF b THEN w ELSE 0
  BY DEF Bit
<1>2. /\ Bit(l) * w = IF l THEN w ELSE 0
      /\ Bit(r) * w = IF r THEN w ELSE 0
  BY <1>1
<1> QED BY <1>2
=============================================================================

------------------------------- MODULE Powers -------------------------------
(***************************************************************************)
(* Powers by repeated multiplication, as the code makes them by shifts.    *)
(* The provers know nothing of the operator for powers, so that what is    *)
(* used of these is proved here, and what is used of division.             *)
(***************************************************************************)
EXTENDS Integers, WellFoundedInduction, TLAPS

(* PowersOf(b)[k] is b to the k.                                           *)
PowersOf(b) ==
    LET power[k \in Nat] == IF k = 0 THEN 1 ELSE b * power[k - 1]
    IN  power

-----------------------------------------------------------------------------

(* A nonempty set of naturals has a least element: induction, for sets.    *)
LEMMA LeastNatural ==
    ASSUME NEW T \in SUBSET Nat, T # {}
    PROVE  \E x \in T : \A y \in T : x =< y
<1>1. PICK x \in T : \A y \in T : <<y, x>> \notin OpToRel(<, Nat)
  BY WFMin, NatLessThanWellFounded, Zenon
<1>2. \A y \in T : ~(y < x)
  BY <1>1, Zenon DEF OpToRel
<1>. QED
  BY <1>2

(* A set with 0 that has the successors of its elements has all naturals.  *)
LEMMA Induction ==
    ASSUME NEW S, 0 \in S, \A n \in Nat : n \in S => n + 1 \in S
    PROVE  Nat \subseteq S
<1>. SUFFICES ASSUME Nat \ S # {}
              PROVE  FALSE
  OBVIOUS
<1>1. PICK x \in Nat \ S : \A y \in Nat \ S : x =< y
  BY LeastNatural
<1>2. x - 1 \in Nat /\ ~(x =< x - 1)
  BY <1>1
<1>3. x - 1 \in S
  BY <1>1, <1>2
<1>. QED
  BY <1>2, <1>3

(* A function that starts with a value and goes from each to the next.     *)
IsWay(G, V) == G \in [Nat -> [V -> V]]
GoesOnFrom(f, V, c, G) ==
    /\ f \in [Nat -> V] /\ f[0] = c
    /\ \A n \in Nat : f[n + 1] = G[n][f[n]]

(* There is one for any first value and any way.                           *)
LEMMA RecursionExists ==
    ASSUME NEW V, NEW c, c \in V, NEW G, IsWay(G, V)
    PROVE  \E f : GoesOnFrom(f, V, c, G)
<1>0. G \in [Nat -> [V -> V]]
  BY DEF IsWay
<1>. DEFINE IsUpTo(g, n) == /\ g \in [0 .. n -> V]
                            /\ g[0] = c
                            /\ \A k \in 0 .. n - 1 : g[k + 1] = G[k][g[k]]
            S == {n \in Nat : \E g : IsUpTo(g, n)}
<1>1. 0 \in S
  <2>. DEFINE g == [k \in 0 .. 0 |-> c]
  <2>1. IsUpTo(g, 0)
    OBVIOUS
  <2>. QED
    BY <2>1
<1>2. ASSUME NEW n \in Nat, n \in S
      PROVE  n + 1 \in S
  <2>1. PICK g : IsUpTo(g, n)
    BY <1>2
  <2>. DEFINE h == [k \in 0 .. n + 1 |-> IF k = n + 1 THEN G[n][g[n]] ELSE g[k]]
  <2>2. G[n][g[n]] \in V
    BY <1>0, <2>1
  <2>3. h \in [0 .. n + 1 -> V] /\ h[0] = c
    BY <2>1, <2>2
  <2>4. ASSUME NEW k \in 0 .. (n + 1) - 1
        PROVE  h[k + 1] = G[k][h[k]]
    <3>1. CASE k = n
      BY <2>1, <3>1
    <3>2. CASE k # n
      <4>1. k \in 0 .. n - 1 /\ k + 1 # n + 1 /\ k # n + 1 /\ k \in 0 .. n + 1 /\ k + 1 \in 0 .. n + 1
        BY <3>2
      <4>. QED
        BY <2>1, <4>1
    <3>. QED
      BY <3>1, <3>2
  <2>. HIDE DEF h
  <2>5. IsUpTo(h, n + 1)
    BY <2>3, <2>4
  <2>. HIDE DEF IsUpTo
  <2>. QED
    BY <2>5
<1>3. Nat \subseteq S
  <2>. HIDE DEF S
  <2>. QED
    BY <1>1, <1>2, Induction
<1>. DEFINE F(n) == CHOOSE g : IsUpTo(g, n)
            f == [n \in Nat |-> F(n)[n]]
<1>4. ASSUME NEW n \in Nat
      PROVE  IsUpTo(F(n), n)
  <2>1. \E g : IsUpTo(g, n)
    BY <1>3
  <2>. HIDE DEF IsUpTo
  <2>. QED
    BY <2>1
<1>. HIDE DEF F
<1>5. ASSUME NEW n \in Nat
      PROVE  F(n + 1)[n] = F(n)[n]
  <2>. DEFINE A == {k \in Nat : k =< n => F(n + 1)[k] = F(n)[k]}
  <2>1. IsUpTo(F(n), n) /\ IsUpTo(F(n + 1), n + 1)
    BY <1>4
  <2>2. 0 \in A
    BY <2>1
  <2>3. ASSUME NEW k \in Nat, k \in A
        PROVE  k + 1 \in A
    <3>. SUFFICES ASSUME k + 1 =< n
                  PROVE  F(n + 1)[k + 1] = F(n)[k + 1]
      OBVIOUS
    <3>1. F(n + 1)[k] = F(n)[k]
      BY <2>3
    <3>2. k \in 0 .. n - 1 /\ k \in 0 .. (n + 1) - 1
      OBVIOUS
    <3>3. F(n)[k + 1] = G[k][F(n)[k]] /\ F(n + 1)[k + 1] = G[k][F(n + 1)[k]]
      BY <2>1, <3>2
    <3>. QED
      BY <3>1, <3>3
  <2>4. Nat \subseteq A
    <3>. HIDE DEF A
    <3>. QED
      BY <2>2, <2>3, Induction
  <2>. QED
    BY <2>4
<1>6. ASSUME NEW n \in Nat
      PROVE  f[n] \in V /\ f[n + 1] = G[n][f[n]]
  <2>1. IsUpTo(F(n), n) /\ IsUpTo(F(n + 1), n + 1)
    BY <1>4
  <2>2. F(n + 1)[n] = F(n)[n]
    BY <1>5
  <2>3. n \in 0 .. (n + 1) - 1 /\ n + 1 \in Nat
    OBVIOUS
  <2>4. F(n + 1)[n + 1] = G[n][F(n + 1)[n]]
    BY <2>1, <2>3
  <2>. QED
    BY <2>1, <2>2, <2>3, <2>4
<1>7. f[0] = c
  BY <1>4
<1>8. f \in [Nat -> V]
  BY <1>6
<1>. QED
  BY <1>6, <1>7, <1>8 DEF GoesOnFrom

(* Of powers it is.                                                        *)
LEMMA PowersExist ==
    ASSUME NEW b \in Int
    PROVE  \E f : f = [k \in Nat |-> IF k = 0 THEN 1 ELSE b * f[k - 1]] /\ f \in [Nat -> Int]
<1>. DEFINE G == [n \in Nat |-> [x \in Int |-> b * x]]
<1>1. G \in [Nat -> [Int -> Int]]
  OBVIOUS
<1>2. \A n \in Nat, x \in Int : G[n][x] = b * x
  OBVIOUS
<1>. HIDE DEF G
<1>3. PICK f \in [Nat -> Int] : f[0] = 1 /\ \A n \in Nat : f[n + 1] = G[n][f[n]]
  <2>. DEFINE V == Int
              c == 1
  <2>1. c \in V /\ IsWay(G, V)
    BY <1>1 DEF IsWay
  <2>. HIDE DEF V, c
  <2>2. \E f : GoesOnFrom(f, V, c, G)
    BY <2>1, RecursionExists
  <2>. QED
    BY <2>2 DEF V, c, GoesOnFrom
<1>4. ASSUME NEW k \in Nat
      PROVE  f[k] = IF k = 0 THEN 1 ELSE b * f[k - 1]
  <2>1. CASE k = 0
    BY <1>3, <2>1
  <2>2. CASE k # 0
    <3>1. k - 1 \in Nat /\ (k - 1) + 1 = k
      BY <2>2
    <3>2. f[k - 1] \in Int /\ f[(k - 1) + 1] = G[k - 1][f[k - 1]]
      BY <1>3, <3>1
    <3>. QED
      BY <1>2, <2>2, <3>1, <3>2
  <2>. QED
    BY <2>1, <2>2
<1>5. f = [k \in Nat |-> IF k = 0 THEN 1 ELSE b * f[k - 1]]
  BY <1>4
<1>. QED
  BY <1>5

(* So that powers are what one expects of them.                            *)
LEMMA PowersType ==
    ASSUME NEW b \in Int
    PROVE  /\ PowersOf(b) \in [Nat -> Int]
           /\ PowersOf(b)[0] = 1
           /\ \A k \in Nat : PowersOf(b)[k + 1] = b * PowersOf(b)[k]
<1>. DEFINE Is(f) == f = [k \in Nat |-> IF k = 0 THEN 1 ELSE b * f[k - 1]]
<1>1. PICK f : Is(f) /\ f \in [Nat -> Int]
  BY PowersExist
<1>2. ASSUME NEW g, Is(g)
      PROVE  g = f
  <2>. DEFINE A == {k \in Nat : g[k] = f[k]}
  <2>1. 0 \in A
    BY <1>1, <1>2
  <2>2. ASSUME NEW k \in Nat, k \in A
        PROVE  k + 1 \in A
    <3>1. k + 1 \in Nat /\ k + 1 # 0 /\ (k + 1) - 1 = k
      OBVIOUS
    <3>2. g[k + 1] = b * g[k] /\ f[k + 1] = b * f[k]
      BY <1>1, <1>2, <3>1
    <3>. QED
      BY <2>2, <3>2
  <2>3. Nat \subseteq A
    <3>. HIDE DEF A
    <3>. QED
      BY <2>1, <2>2, Induction
  <2>. QED
    BY <1>1, <1>2, <2>3
<1>. DEFINE p == CHOOSE g : Is(g)
<1>3. Is(p)
  <2>. HIDE DEF Is
  <2>. QED
    BY <1>1
<1>4. PowersOf(b) = f
  <2>1. PowersOf(b) = p
    BY DEF PowersOf
  <2>. HIDE DEF p
  <2>. QED
    BY <1>2, <1>3, <2>1
<1>5. f[0] = 1 /\ \A k \in Nat : f[k + 1] = b * f[k]
  <2>. SUFFICES ASSUME NEW k \in Nat
                PROVE  f[0] = 1 /\ f[k + 1] = b * f[k]
    OBVIOUS
  <2>1. k + 1 \in Nat /\ k + 1 # 0 /\ (k + 1) - 1 = k
    OBVIOUS
  <2>. QED
    BY <1>1, <2>1
<1>. QED
  BY <1>1, <1>4, <1>5

(* The powers of a positive number are positive.                           *)
LEMMA PowersPositive ==
    ASSUME NEW b \in Nat \ {0}
    PROVE  \A k \in Nat : PowersOf(b)[k] \in Nat \ {0}
<1>. DEFINE S == {k \in Nat : PowersOf(b)[k] \in Nat \ {0}}
<1>0. PowersOf(b)[0] = 1 /\ \A k \in Nat : PowersOf(b)[k + 1] = b * PowersOf(b)[k]
  BY PowersType
<1>1. 0 \in S
  BY <1>0
<1>2. ASSUME NEW k \in Nat, k \in S
      PROVE  k + 1 \in S
  <2>. DEFINE power == PowersOf(b)[k]
  <2>1. power \in Nat \ {0} /\ PowersOf(b)[k + 1] = b * power
    BY <1>0, <1>2
  <2>. HIDE DEF power
  <2>2. b * power \in Nat \ {0}
    BY <2>1
  <2>. QED
    BY <2>1, <2>2
<1>3. Nat \subseteq S
  <2>. HIDE DEF S
  <2>. QED
    BY <1>1, <1>2, Induction
<1>. QED
  BY <1>3

(* So are those of 2.                                                      *)
LEMMA PowersOfTwo == \A k \in Nat : PowersOf(2)[k] \in Nat \ {0}
  BY PowersPositive

(* They grow, and from below any number.                                   *)
LEMMA PowersGrow ==
    /\ PowersOf(2)[0] = 1
    /\ \A k \in Nat : PowersOf(2)[k + 1] = 2 * PowersOf(2)[k]
    /\ \A k \in Nat : PowersOf(2)[k] > k
    /\ \A j, k \in Nat : j =< k => PowersOf(2)[j] =< PowersOf(2)[k]
<1>1. PowersOf(2)[0] = 1 /\ \A k \in Nat : PowersOf(2)[k + 1] = 2 * PowersOf(2)[k]
  BY PowersType
<1>2. \A k \in Nat : PowersOf(2)[k] \in Nat \ {0}
  BY PowersOfTwo
<1>. DEFINE P == PowersOf(2)
<1>. HIDE DEF P
<1>3. \A k \in Nat : P[k] > k
  <2>. DEFINE S == {k \in Nat : P[k] > k}
  <2>1. 0 \in S
    BY <1>1 DEF P
  <2>2. ASSUME NEW k \in Nat, k \in S
        PROVE  k + 1 \in S
    <3>1. P[k + 1] = 2 * P[k] /\ P[k] \in Nat /\ P[k] > k
      BY <1>1, <1>2, <2>2 DEF P
    <3>. QED
      BY <3>1
  <2>3. Nat \subseteq S
    <3>. HIDE DEF S
    <3>. QED
      BY <2>1, <2>2, Induction
  <2>. QED
    BY <2>3
<1>4. ASSUME NEW j \in Nat
      PROVE  \A k \in Nat : j =< k => P[j] =< P[k]
  <2>. DEFINE S == {k \in Nat : j =< k => P[j] =< P[k]}
  <2>1. 0 \in S
    <3>1. j =< 0 => j = 0
      OBVIOUS
    <3>2. P[0] \in Nat
      BY <1>2 DEF P
    <3>. QED
      BY <3>1, <3>2
  <2>2. ASSUME NEW k \in Nat, k \in S
        PROVE  k + 1 \in S
    <3>1. P[k + 1] = 2 * P[k] /\ P[k] \in Nat /\ P[k + 1] \in Nat /\ P[j] \in Nat
      BY <1>1, <1>2 DEF P
    <3>2. CASE j =< k
      BY <2>2, <3>1, <3>2
    <3>3. CASE j = k + 1
      BY <3>1, <3>3
    <3>4. CASE j > k + 1
      BY <3>4
    <3>. QED
      BY <3>2, <3>3, <3>4
  <2>3. Nat \subseteq S
    <3>. HIDE DEF S
    <3>. QED
      BY <2>1, <2>2, Induction
  <2>. QED
    BY <2>3
<1>. QED
  BY <1>1, <1>3, <1>4 DEF P

-----------------------------------------------------------------------------
(* Division                                                                *)

(* Quotient and remainder are what they are in a = q d + r.                *)
LEMMA QuotientIs ==
    ASSUME NEW d \in Nat \ {0}, NEW q \in Nat, NEW r \in Nat, r < d
    PROVE  ((q * d) + r) \div d = q /\ ((q * d) + r) % d = r
  OBVIOUS

(* Every number is of that form.                                           *)
LEMMA QuotientOf ==
    ASSUME NEW a \in Nat, NEW d \in Nat \ {0}
    PROVE  /\ a \div d \in Nat /\ a % d \in Nat /\ a % d < d
           /\ a = ((a \div d) * d) + (a % d)
  OBVIOUS

(* Dividing twice is dividing by the product.                              *)
LEMMA QuotientOfQuotient ==
    ASSUME NEW a \in Nat, NEW b \in Nat \ {0}, NEW c \in Nat \ {0}
    PROVE  a \div (c * b) = (a \div b) \div c
<1>. DEFINE x == a \div b
            r == a % b
            y == x \div c
            s == x % c
<1>1. x \in Nat /\ r \in Nat /\ r < b /\ a = (x * b) + r
  BY QuotientOf
<1>2. y \in Nat /\ s \in Nat /\ s < c /\ x = (y * c) + s
  BY <1>1, QuotientOf
<1>. HIDE DEF x, r, y, s
<1>3. a = (y * (c * b)) + ((s * b) + r)
  BY <1>1, <1>2
<1>4. c * b \in Nat \ {0} /\ (s * b) + r \in Nat /\ (s * b) + r < c * b
  <2>1. s + 1 =< c /\ (s + 1) * b = (s * b) + b
    BY <1>2
  <2>2. (s + 1) * b =< c * b
    BY <1>2, <2>1
  <2>. QED
    BY <1>1, <1>2, <2>1, <2>2
<1>. DEFINE d == c * b
            t == (s * b) + r
<1>5. d \in Nat \ {0} /\ t \in Nat /\ t < d /\ a = (y * d) + t
  BY <1>3, <1>4
<1>. HIDE DEF d, t
<1>6. a \div d = y
  BY <1>2, <1>5, QuotientIs
<1>. QED
  BY <1>6 DEF d, y, x

-----------------------------------------------------------------------------
(* Powers of sums, products and powers                                     *)

(* A product of powers of a number is the power of the sum.                *)
LEMMA PowersOfSum ==
    ASSUME NEW b \in Int, NEW j \in Nat, NEW k \in Nat
    PROVE  PowersOf(b)[j + k] = PowersOf(b)[j] * PowersOf(b)[k]
<1>. DEFINE P == PowersOf(b)
            S == {i \in Nat : P[j + i] = P[j] * P[i]}
<1>1. P[0] = 1 /\ \A i \in Nat : P[i] \in Int /\ P[i + 1] = b * P[i]
  BY PowersType
<1>. HIDE DEF P
<1>2. 0 \in S
  BY <1>1
<1>3. ASSUME NEW i \in Nat, i \in S
      PROVE  i + 1 \in S
  <2>1. P[i + 1] = b * P[i] /\ P[(j + i) + 1] = b * P[j + i] /\ j + (i + 1) = (j + i) + 1
    BY <1>1
  <2>2. P[j + i] = P[j] * P[i] /\ P[j] \in Int /\ P[i] \in Int
    BY <1>1, <1>3
  <2>3. b * (P[j] * P[i]) = P[j] * (b * P[i])
    BY <2>2
  <2>. QED
    BY <2>1, <2>2, <2>3
<1>4. Nat \subseteq S
  <2>. HIDE DEF S
  <2>. QED
    BY <1>2, <1>3, Induction
<1>. QED
  BY <1>4 DEF P

(* A power of a product is the product of the powers.                      *)
LEMMA PowersOfProduct ==
    ASSUME NEW a \in Int, NEW b \in Int, NEW k \in Nat
    PROVE  PowersOf(a * b)[k] = PowersOf(a)[k] * PowersOf(b)[k]
<1>. DEFINE A == PowersOf(a)
            B == PowersOf(b)
            c == a * b
            C == PowersOf(c)
            S == {i \in Nat : C[i] = A[i] * B[i]}
<1>1. /\ A[0] = 1 /\ \A i \in Nat : A[i] \in Int /\ A[i + 1] = a * A[i]
      /\ B[0] = 1 /\ \A i \in Nat : B[i] \in Int /\ B[i + 1] = b * B[i]
  BY PowersType
<1>2. c \in Int
  OBVIOUS
<1>. HIDE DEF c
<1>3. C[0] = 1 /\ \A i \in Nat : C[i] \in Int /\ C[i + 1] = c * C[i]
  BY <1>2, PowersType
<1>. HIDE DEF A, B, C
<1>4. 0 \in S
  BY <1>1, <1>3
<1>5. ASSUME NEW i \in Nat, i \in S
      PROVE  i + 1 \in S
  <2>1. C[i + 1] = (a * b) * (A[i] * B[i]) /\ A[i] \in Int /\ B[i] \in Int
    BY <1>1, <1>3, <1>5 DEF c
  <2>2. (a * b) * (A[i] * B[i]) = (a * A[i]) * (b * B[i])
    BY <2>1
  <2>. QED
    BY <1>1, <2>1, <2>2
<1>6. Nat \subseteq S
  <2>. HIDE DEF S
  <2>. QED
    BY <1>4, <1>5, Induction
<1>. QED
  BY <1>6 DEF A, B, C, c

(* A power of a power is the power of the product.                         *)
LEMMA PowersOfPower ==
    ASSUME NEW b \in Int, NEW j \in Nat, NEW k \in Nat
    PROVE  PowersOf(PowersOf(b)[j])[k] = PowersOf(b)[j * k]
<1>. DEFINE P == PowersOf(b)
            c == P[j]
            C == PowersOf(c)
            S == {i \in Nat : C[i] = P[j * i]}
<1>1. P[0] = 1 /\ \A i \in Nat : P[i] \in Int
  BY PowersType
<1>2. c \in Int
  BY <1>1
<1>. HIDE DEF c
<1>3. C[0] = 1 /\ \A i \in Nat : C[i + 1] = c * C[i]
  BY <1>2, PowersType
<1>4. \A i \in Nat : P[j + i] = P[j] * P[i]
  BY PowersOfSum
<1>. HIDE DEF P, C
<1>5. 0 \in S
  <2>1. j * 0 = 0
    OBVIOUS
  <2>. QED
    BY <1>1, <1>3, <2>1
<1>6. ASSUME NEW i \in Nat, i \in S
      PROVE  i + 1 \in S
  <2>1. j * (i + 1) = j + (j * i) /\ j * i \in Nat
    OBVIOUS
  <2>2. P[j + (j * i)] = c * P[j * i]
    BY <1>4, <2>1 DEF c
  <2>. QED
    BY <1>3, <1>6, <2>1, <2>2
<1>7. Nat \subseteq S
  <2>. HIDE DEF S
  <2>. QED
    BY <1>5, <1>6, Induction
<1>. QED
  BY <1>7 DEF P, C, c

(* Powers of 0 and of 1.                                                   *)
LEMMA PowersOfZeroAndOne ==
    ASSUME NEW k \in Nat
    PROVE  PowersOf(1)[k] = 1 /\ (k > 0 => PowersOf(0)[k] = 0)
<1>. DEFINE A == PowersOf(1)
            Z == PowersOf(0)
            S == {i \in Nat : A[i] = 1}
<1>1. A[0] = 1 /\ \A i \in Nat : A[i + 1] = 1 * A[i]
  BY PowersType
<1>2. \A i \in Nat : Z[i] \in Int /\ Z[i + 1] = 0 * Z[i]
  BY PowersType
<1>. HIDE DEF A, Z
<1>3. \A i \in Nat : i \in S => i + 1 \in S
  BY <1>1
<1>4. 0 \in S
  BY <1>1
<1>5. Nat \subseteq S
  <2>. HIDE DEF S
  <2>. QED
    BY <1>3, <1>4, Induction
<1>6. ASSUME k > 0
      PROVE  Z[k] = 0
  <2>1. k - 1 \in Nat /\ (k - 1) + 1 = k
    BY <1>6
  <2>2. Z[k - 1] \in Int /\ Z[(k - 1) + 1] = 0 * Z[k - 1]
    BY <1>2, <2>1
  <2>. QED
    BY <2>1, <2>2
<1>. QED
  BY <1>5, <1>6 DEF A, Z
=============================================================================

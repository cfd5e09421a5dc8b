------------------------- MODULE RsaNumbers_proofs -------------------------
(***************************************************************************)
(* The number theory of RSA that the proofs about keys and about messages  *)
(* share: lengths in bits, Bezout's lemma and the inverses that modInverse *)
(* finds, Euclid's lemma, Fermat's little theorem, and that exponents that *)
(* are inverses for both primes undo each other modulo the product.        *)
(*                                                                         *)
(* Fermat's theorem is shown by the product of the numbers below the       *)
(* prime: times a and reduced they are the same numbers in another order.  *)
(***************************************************************************)
EXTENDS RsaArithmetic, FiniteSetTheorems

-----------------------------------------------------------------------------
(* Lengths in bits                                                         *)

(* The length of a number is the one its place among the powers says.      *)
LEMMA BitLengthIs ==
    ASSUME NEW a \in Nat, NEW l \in Nat,
           a < PowersOf(2)[l], l > 0 => a >= PowersOf(2)[l - 1]
    PROVE  BitLength(a) = l
  <1>. DEFINE P == PowersOf(2)
              Is(k) == a < P[k] /\ (k > 0 => a >= P[k - 1])
  <1>1. \A k \in Nat : P[k] \in Nat /\ P[k] > k
    BY PowersOfTwo, PowersGrow
  <1>2. \A j, k \in Nat : j =< k => P[j] =< P[k]
    BY PowersGrow
  <1>. HIDE DEF P
  <1>3. Is(l)
    BY DEF P
  <1>4. l \in 0 .. a
    <2>1. CASE l = 0
      BY <2>1
    <2>2. CASE l > 0
      <3>1. l - 1 \in Nat /\ a >= P[l - 1]
        BY <1>3, <2>2
      <3>2. P[l - 1] \in Nat /\ P[l - 1] > l - 1
        BY <1>1, <3>1
      <3>. QED
        BY <2>2, <3>1, <3>2
    <2>. QED
      BY <2>1, <2>2
  <1>5. ASSUME NEW k \in 0 .. a, Is(k)
        PROVE  k = l
    <2>1. k \in Nat /\ P[k] \in Nat /\ P[l] \in Nat
      BY <1>1
    <2>2. ~ k < l
      <3>. SUFFICES ASSUME k < l
                    PROVE  FALSE
        OBVIOUS
      <3>1. l - 1 \in Nat /\ k =< l - 1 /\ l > 0
        BY <2>1
      <3>2. P[k] =< P[l - 1] /\ P[l - 1] \in Nat
        BY <1>1, <1>2, <2>1, <3>1
      <3>. QED
        BY <1>3, <1>5, <2>1, <3>1, <3>2
    <2>3. ~ l < k
      <3>. SUFFICES ASSUME l < k
                    PROVE  FALSE
        OBVIOUS
      <3>1. k - 1 \in Nat /\ l =< k - 1 /\ k > 0
        BY <2>1
      <3>2. P[l] =< P[k - 1] /\ P[k - 1] \in Nat
        BY <1>1, <1>2, <3>1
      <3>. QED
        BY <1>3, <1>5, <2>1, <3>1, <3>2
    <2>. QED
      BY <2>1, <2>2, <2>3
  <1>6. BitLength(a) = CHOOSE k \in 0 .. a : Is(k)
    BY DEF BitLength, P
  <1>. HIDE DEF Is
  <1>. QED
    BY <1>3, <1>4, <1>5, <1>6

(* Every number has a length.                                              *)
LEMMA BitLengthFits ==
    ASSUME NEW a \in Nat
    PROVE  /\ BitLength(a) \in Nat
           /\ a < PowersOf(2)[BitLength(a)]
           /\ BitLength(a) > 0 => a >= PowersOf(2)[BitLength(a) - 1]
  <1>. DEFINE P == PowersOf(2)
              T == {k \in Nat : a < P[k]}
  <1>1. \A k \in Nat : P[k] \in Nat /\ P[k] > k
    BY PowersOfTwo, PowersGrow
  <1>. HIDE DEF P
  <1>2. a \in T
    BY <1>1
  <1>3. PICK l \in T : \A k \in T : l =< k
    BY <1>2, LeastNatural
  <1>4. l > 0 => a >= P[l - 1]
    <2>. SUFFICES ASSUME l > 0
                  PROVE  a >= P[l - 1]
      OBVIOUS
    <2>1. l - 1 \in Nat /\ l - 1 \notin T /\ P[l - 1] \in Nat
      BY <1>1, <1>3
    <2>. QED
      BY <2>1
  <1>5. BitLength(a) = l
    BY <1>3, <1>4, BitLengthIs DEF P
  <1>. QED
    BY <1>3, <1>4, <1>5 DEF P

(* Bounds on the length are bounds on the number.                          *)
LEMMA BitLengthBounds ==
    ASSUME NEW a \in Nat, NEW l \in Nat
    PROVE  /\ BitLength(a) =< l => a < PowersOf(2)[l]
           /\ a < PowersOf(2)[l] => BitLength(a) =< l
           /\ l > 0 /\ a >= PowersOf(2)[l - 1] => BitLength(a) >= l
  <1>. DEFINE P == PowersOf(2)
              b == BitLength(a)
  <1>1. \A k \in Nat : P[k] \in Nat
    BY PowersOfTwo
  <1>2. \A j, k \in Nat : j =< k => P[j] =< P[k]
    BY PowersGrow
  <1>3. b \in Nat /\ a < P[b] /\ (b > 0 => a >= P[b - 1])
    BY BitLengthFits
  <1>. HIDE DEF P, b
  <1>4. b =< l => a < P[l]
    BY <1>1, <1>2, <1>3
  <1>5. a < P[l] => b =< l
    <2>. SUFFICES ASSUME a < P[l], b > l
                  PROVE  FALSE
      BY <1>3
    <2>1. b - 1 \in Nat /\ l =< b - 1 /\ b > 0
      BY <1>3
    <2>2. P[l] =< P[b - 1] /\ P[l] \in Nat /\ P[b - 1] \in Nat
      BY <1>1, <1>2, <2>1
    <2>. QED
      BY <1>3, <2>1, <2>2
  <1>6. l > 0 /\ a >= P[l - 1] => b >= l
    <2>. SUFFICES ASSUME l > 0, a >= P[l - 1], b < l
                  PROVE  FALSE
      BY <1>3
    <2>1. l - 1 \in Nat /\ b =< l - 1
      BY <1>3
    <2>2. P[b] =< P[l - 1] /\ P[b] \in Nat /\ P[l - 1] \in Nat
      BY <1>1, <1>2, <1>3, <2>1
    <2>. QED
      BY <1>3, <2>2
  <1>. QED
    BY <1>4, <1>5, <1>6 DEF P, b

-----------------------------------------------------------------------------
(* Divisors and inverses                                                   *)

(* A multiple leaves no remainder, and what leaves none is a multiple.     *)
LEMMA DividesMultiple ==
    ASSUME NEW d \in Nat \ {0}, NEW a \in Int
    PROVE  Divides(d, a) <=> \E c \in Int : a = d * c
  <1>1. ASSUME NEW c \in Int
        PROVE  (d * c) % d = 0
    OBVIOUS
  <1>2. a = (d * (a \div d)) + (a % d) /\ a \div d \in Int
    OBVIOUS
  <1>3. (\E c \in Int : a = d * c) => a % d = 0
    BY <1>1
  <1>4. a % d = 0 => a = d * (a \div d)
    BY <1>2
  <1>. QED
    BY <1>2, <1>3, <1>4 DEF Divides

(* Numbers with no common divisor have a combination that is 1: the least  *)
(* positive combination of the two divides both.                           *)
LEMMA Bezout ==
    ASSUME NEW a \in Nat \ {0}, NEW m \in Nat \ {0}, Coprime(m, a)
    PROVE  \E u, v \in Int : (u * a) + (v * m) = 1
  <1>. DEFINE Combined(x) == \E s, t \in Int : x = (s * a) + (t * m)
              T == {x \in Nat \ {0} : Combined(x)}
  <1>1. Combined(a) /\ Combined(m)
    <2>1. a = (1 * a) + (0 * m) /\ m = (0 * a) + (1 * m)
      OBVIOUS
    <2>. QED
      BY <2>1
  <1>. HIDE DEF Combined
  <1>2. a \in T
    BY <1>1
  <1>3. PICK g \in T : \A x \in T : g =< x
    BY <1>2, LeastNatural
  <1>4. g \in Nat \ {0} /\ g =< a /\ Combined(g)
    BY <1>2, <1>3
  <1>5. PICK u, v \in Int : g = (u * a) + (v * m)
    BY <1>4 DEF Combined
  <1>6. ASSUME NEW x \in Int, Combined(x)
        PROVE  x % g = 0
    <2>. DEFINE k == x \div g
                r == x % g
    <2>1. k \in Int /\ r \in 0 .. g - 1 /\ x = (g * k) + r
      BY <1>4
    <2>. HIDE DEF k, r
    <2>2. PICK s, t \in Int : x = (s * a) + (t * m)
      BY <1>6 DEF Combined
    <2>3. r = ((s - (u * k)) * a) + ((t - (v * k)) * m)
      BY <1>4, <1>5, <2>1, <2>2
    <2>4. s - (u * k) \in Int /\ t - (v * k) \in Int
      BY <2>1
    <2>5. Combined(r)
      BY <2>3, <2>4 DEF Combined
    <2>6. r # 0 => r \in T
      BY <2>1, <2>5, <1>4
    <2>. HIDE DEF T
    <2>7. r = 0
      BY <1>3, <1>4, <2>1, <2>6
    <2>. QED
      BY <2>7 DEF r
  <1>7. a % g = 0 /\ m % g = 0
    BY <1>1, <1>6
  <1>8. g \notin 2 .. a
    BY <1>7 DEF Coprime, Divides
  <1>9. g = 1
    BY <1>4, <1>8
  <1>. QED
    BY <1>5, <1>9

(* The inverse of a number that has no common divisor with the modulus.    *)
LEMMA InverseIs ==
    ASSUME NEW a \in Nat \ {0}, NEW m \in Nat \ {0}, Coprime(m, a)
    PROVE  \E k \in Nat : ModInverse(a, m) \in Nat /\ a * ModInverse(a, m) = 1 + (k * m)
  <1>. DEFINE factors == {k \in 0 .. a - 1 : Divides(a, 1 + (k * m))}
  <1>1. PICK u, v \in Int : (u * a) + (v * m) = 1
    BY Bezout
  <1>. DEFINE k == (-v) % a
              s == (-v) \div a
              w == u - (s * m)
  <1>2. k \in 0 .. a - 1 /\ s \in Int /\ -v = (a * s) + k
    OBVIOUS
  <1>. HIDE DEF k, s
  <1>3. w \in Int
    BY <1>2
  <1>4. 1 + (k * m) = a * w
    BY <1>1, <1>2
  <1>. HIDE DEF w
  <1>5. k \in factors
    <2>1. 1 + (k * m) \in Int
      BY <1>2
    <2>2. Divides(a, 1 + (k * m))
      BY <1>3, <1>4, <2>1, DividesMultiple
    <2>. QED
      BY <1>2, <2>2
  <1>. DEFINE f == Min(factors)
  <1>6. f \in factors
    <2>1. factors \subseteq 0 .. a - 1
      OBVIOUS
    <2>. HIDE DEF factors
    <2>3. factors \in SUBSET Nat /\ factors # {}
      BY <1>5, <2>1
    <2>2. \E x \in factors : \A y \in factors : x =< y
      BY <2>3, LeastNatural
    <2>. QED
      BY <2>2 DEF Min
  <1>. HIDE DEF f
  <1>7. f \in Nat /\ Divides(a, 1 + (f * m))
    BY <1>6
  <1>8. 1 + (f * m) \in Nat
    BY <1>7
  <1>9. PICK c \in Int : 1 + (f * m) = a * c
    BY <1>7, <1>8, DividesMultiple
  <1>10. ModInverse(a, m) = (1 + (f * m)) \div a
    BY <1>5 DEF ModInverse, f
  <1>11. (a * c) \div a = c
    OBVIOUS
  <1>12. ModInverse(a, m) = c
    BY <1>9, <1>10, <1>11
  <1>13. c \in Nat
    BY <1>8, <1>9
  <1>. QED
    BY <1>7, <1>9, <1>12, <1>13

(* What is 1 more than a multiple leaves 1.                                *)
LEMMA OneMore ==
    ASSUME NEW m \in Nat, m > 1, NEW x \in Int
    PROVE  (1 + (x * m)) % m = 1
  <1>1. \A k \in 0 .. m - 1 : ((x * m) + k) % m = k
    OBVIOUS
  <1>2. 1 \in 0 .. m - 1 /\ 1 + (x * m) = (x * m) + 1
    OBVIOUS
  <1>. QED
    BY <1>1, <1>2

(* A product that is one more than a multiple leaves one.                  *)
LEMMA InverseLeavesOne ==
    ASSUME NEW e \in Nat, NEW d \in Nat, NEW k \in Nat, NEW m \in Nat, m > 1,
           e * d = 1 + (k * m)
    PROVE  (e * d) % m = 1
  BY OneMore

(* Also when one of the factors is reduced first.                          *)
LEMMA ReducedInverse ==
    ASSUME NEW e \in Nat, NEW d \in Nat, NEW k \in Nat, NEW m \in Nat, m > 1,
           e * d = 1 + (k * m)
    PROVE  (e * (d % m)) % m = 1
  <1>. DEFINE c == d \div m
              r == d % m
  <1>1. c \in Int /\ r \in Nat /\ d = (m * c) + r
    OBVIOUS
  <1>. HIDE DEF c, r
  <1>3. e * r = 1 + ((k - (e * c)) * m)
    BY <1>1
  <1>4. k - (e * c) \in Int
    BY <1>1
  <1>5. (1 + ((k - (e * c)) * m)) % m = 1
    BY <1>4, OneMore
  <1>. QED
    BY <1>3, <1>5 DEF r

(* A prime has no divisor in common with a smaller number,                *)
LEMMA PrimeCoprime ==
    ASSUME NEW p \in Nat, IsPrime(p), NEW a \in Nat \ {0}, a < p
    PROVE  Coprime(p, a)
<1>. SUFFICES ASSUME NEW d \in 2 .. a, Divides(d, p)
              PROVE  FALSE
  BY DEF Coprime
<1>1. d \in Nat \ {0} /\ d < p /\ d > 1 /\ p > 1
  OBVIOUS
<1>2. PICK c \in Int : p = d * c
  BY <1>1, DividesMultiple
<1>3. c > 1 /\ c < p
  BY <1>1, <1>2
<1>4. CASE d * d =< p
  BY <1>1, <1>4 DEF IsPrime
<1>5. CASE d * d > p
  <2>1. c < d
    BY <1>1, <1>2, <1>3, <1>5
  <2>2. c * c =< p
    BY <1>1, <1>2, <1>3, <2>1
  <2>3. p = c * d
    BY <1>1, <1>2, <1>3
  <2>4. Divides(c, p)
    BY <1>1, <1>3, <2>3, DividesMultiple
  <2>. QED
    BY <1>3, <2>2, <2>4 DEF IsPrime
<1>. QED
  BY <1>1, <1>4, <1>5

(* so that two primes have none.                                           *)
LEMMA PrimesCoprime ==
    ASSUME NEW a \in Nat, NEW b \in Nat, IsPrime(a), IsPrime(b), b < a
    PROVE  Coprime(a, b)
<1>1. b \in Nat \ {0}
  BY DEF IsPrime
<1>. QED
  BY <1>1, PrimeCoprime

-----------------------------------------------------------------------------
(* Congruence                                                              *)

Congruent(a, b, m) == \E c \in Int : a = b + (m * c)

(* Numbers are congruent when they leave the same remainder.               *)
LEMMA CongruentIs ==
    ASSUME NEW m \in Nat \ {0}, NEW a \in Int, NEW b \in Int
    PROVE  Congruent(a, b, m) <=> a % m = b % m
<1>. DEFINE q == a \div m
            r == a % m
            s == b \div m
            t == b % m
<1>1. q \in Int /\ r \in 0 .. m - 1 /\ a = (m * q) + r
  OBVIOUS
<1>2. s \in Int /\ t \in 0 .. m - 1 /\ b = (m * s) + t
  OBVIOUS
<1>. HIDE DEF q, r, s, t
<1>3. ASSUME r = t
      PROVE  Congruent(a, b, m)
  <2>1. q - s \in Int /\ a = b + (m * (q - s))
    BY <1>1, <1>2, <1>3
  <2>. QED
    BY <2>1 DEF Congruent
<1>4. ASSUME NEW c \in Int, a = b + (m * c)
      PROVE  r = t
  <2>. DEFINE d == (q - s) - c
  <2>1. d \in Int /\ t - r = m * d
    BY <1>1, <1>2, <1>4
  <2>. HIDE DEF d
  <2>2. ~ d >= 1
    <3>. SUFFICES ASSUME d >= 1
                  PROVE  FALSE
      OBVIOUS
    <3>1. m * d >= m * 1
      BY <2>1
    <3>. QED
      BY <1>1, <1>2, <2>1, <3>1
  <2>3. ~ d =< -1
    <3>. SUFFICES ASSUME d =< -1
                  PROVE  FALSE
      OBVIOUS
    <3>1. m * d =< m * (-1)
      BY <2>1
    <3>. QED
      BY <1>1, <1>2, <2>1, <3>1
  <2>4. d = 0
    BY <2>1, <2>2, <2>3
  <2>5. m * 0 = 0
    OBVIOUS
  <2>. QED
    BY <1>1, <1>2, <2>1, <2>4, <2>5
<1>. QED
  BY <1>3, <1>4 DEF Congruent, r, t

(* A number and its remainder are.                                         *)
LEMMA CongruentReduced ==
    ASSUME NEW m \in Nat \ {0}, NEW a \in Int
    PROVE  /\ a % m \in Nat /\ a % m < m
           /\ Congruent(a % m, a, m) /\ Congruent(a, a % m, m) /\ Congruent(a, a, m)
<1>. DEFINE q == a \div m
            r == a % m
<1>1. q \in Int /\ r \in 0 .. m - 1 /\ a = (m * q) + r
  OBVIOUS
<1>. HIDE DEF q, r
<1>2. r = a + (m * (-q)) /\ a = r + (m * q) /\ -q \in Int /\ a = a + (m * 0)
  BY <1>1
<1>3. Congruent(r, a, m) /\ Congruent(a, r, m) /\ Congruent(a, a, m)
  BY <1>1, <1>2 DEF Congruent
<1>. QED
  BY <1>1, <1>3 DEF r

(* It is an equivalence,                                                   *)
LEMMA CongruentTransitive ==
    ASSUME NEW m \in Nat, NEW a \in Int, NEW b \in Int, NEW c \in Int,
           Congruent(a, b, m), Congruent(b, c, m)
    PROVE  Congruent(a, c, m)
<1>1. PICK x \in Int : a = b + (m * x)
  BY DEF Congruent
<1>2. PICK y \in Int : b = c + (m * y)
  BY DEF Congruent
<1>3. a = c + (m * (x + y)) /\ x + y \in Int
  BY <1>1, <1>2
<1>. QED
  BY <1>3 DEF Congruent

LEMMA CongruentSymmetric ==
    ASSUME NEW m \in Nat, NEW a \in Int, NEW b \in Int, Congruent(a, b, m)
    PROVE  Congruent(b, a, m)
<1>1. PICK x \in Int : a = b + (m * x)
  BY DEF Congruent
<1>2. b = a + (m * (-x)) /\ -x \in Int
  BY <1>1
<1>. QED
  BY <1>2 DEF Congruent

(* that products and powers respect,                                       *)
LEMMA CongruentProducts ==
    ASSUME NEW m \in Nat, NEW a \in Int, NEW b \in Int, NEW c \in Int, NEW d \in Int,
           Congruent(a, b, m), Congruent(c, d, m)
    PROVE  Congruent(a * c, b * d, m)
<1>1. PICK x \in Int : a = b + (m * x)
  BY DEF Congruent
<1>2. PICK y \in Int : c = d + (m * y)
  BY DEF Congruent
<1>. DEFINE z == ((x * d) + (b * y)) + (m * (x * y))
<1>3. z \in Int
  OBVIOUS
<1>4. a * c = (b + (m * x)) * (d + (m * y))
  BY <1>1, <1>2
<1>5. (b + (m * x)) * (d + (m * y)) = (b * d) + (m * z)
  OBVIOUS
<1>. QED
  BY <1>3, <1>4, <1>5 DEF Congruent

LEMMA CongruentPowers ==
    ASSUME NEW m \in Nat, NEW a \in Int, NEW b \in Int, Congruent(a, b, m), NEW k \in Nat
    PROVE  Congruent(PowersOf(a)[k], PowersOf(b)[k], m)
<1>. DEFINE A == PowersOf(a)
            B == PowersOf(b)
            S == {i \in Nat : Congruent(A[i], B[i], m)}
<1>1. /\ A[0] = 1 /\ \A i \in Nat : A[i] \in Int /\ A[i + 1] = a * A[i]
      /\ B[0] = 1 /\ \A i \in Nat : B[i] \in Int /\ B[i + 1] = b * B[i]
  BY PowersType
<1>. HIDE DEF A, B
<1>2. 0 \in S
  <2>1. 1 = 1 + (m * 0) /\ 0 \in Int
    OBVIOUS
  <2>2. Congruent(1, 1, m)
    BY <2>1, Zenon DEF Congruent
  <2>. QED
    BY <1>1, <2>2
<1>3. ASSUME NEW i \in Nat, i \in S
      PROVE  i + 1 \in S
  <2>1. A[i] \in Int /\ B[i] \in Int /\ Congruent(A[i], B[i], m)
    BY <1>1, <1>3
  <2>2. Congruent(a * A[i], b * B[i], m)
    BY <2>1, CongruentProducts
  <2>. QED
    BY <1>1, <2>2
<1>4. Nat \subseteq S
  <2>. HIDE DEF S
  <2>. QED
    BY <1>2, <1>3, Induction
<1>. QED
  BY <1>4 DEF A, B

-----------------------------------------------------------------------------
(* Primes                                                                  *)

(* Euclid's lemma: a prime that divides a product divides a factor.        *)
LEMMA Euclid ==
    ASSUME NEW p \in Nat, IsPrime(p), NEW a \in Int, NEW b \in Int,
           Congruent(a * b, 0, p), ~ Congruent(a, 0, p)
    PROVE  Congruent(b, 0, p)
<1>1. p \in Nat \ {0} /\ p > 1
  BY DEF IsPrime
<1>. DEFINE r == a % p
            q == a \div p
<1>2. q \in Int /\ r \in 0 .. p - 1 /\ a = (p * q) + r
  BY <1>1
<1>. HIDE DEF q, r
<1>3. r # 0
  <2>. SUFFICES ASSUME r = 0
                PROVE  FALSE
    OBVIOUS
  <2>1. a = 0 + (p * q)
    BY <1>2
  <2>. QED
    BY <1>2, <2>1 DEF Congruent
<1>4. r \in Nat \ {0} /\ r < p
  BY <1>2, <1>3
<1>5. Coprime(p, r)
  BY <1>4, PrimeCoprime
<1>6. PICK u, v \in Int : (u * r) + (v * p) = 1
  BY <1>1, <1>4, <1>5, Bezout
<1>7. PICK c \in Int : a * b = 0 + (p * c)
  BY DEF Congruent
<1>. DEFINE z == ((u * c) - (u * (q * b))) + (v * b)
<1>8. z \in Int
  BY <1>2
<1>9. r * b = p * (c - (q * b))
  <2>1. ((p * q) + r) * b = p * c
    BY <1>2, <1>7
  <2>2. ((p * q) + r) * b = (p * (q * b)) + (r * b) /\ p * (c - (q * b)) = (p * c) - (p * (q * b))
    BY <1>2
  <2>3. r * b \in Int /\ p * (q * b) \in Int
    BY <1>2
  <2>. QED
    BY <2>1, <2>2, <2>3
<1>10. b = (u * (r * b)) + (v * (p * b))
  <2>1. ((u * r) + (v * p)) * b = (u * (r * b)) + (v * (p * b))
    BY <1>2
  <2>. QED
    BY <1>6, <2>1
<1>11. u * (p * (c - (q * b))) = p * ((u * c) - (u * (q * b))) /\ v * (p * b) = p * (v * b)
  BY <1>2
<1>12. b = 0 + (p * z)
  <2>1. p * z = (p * ((u * c) - (u * (q * b)))) + (p * (v * b))
    BY <1>2
  <2>. QED
    BY <1>9, <1>10, <1>11, <2>1, <1>8
<1>. QED
  BY <1>8, <1>12 DEF Congruent

-----------------------------------------------------------------------------
(* Fermat's little theorem                                                 *)

(* ProductUpTo(S)[n] is the product of the numbers in S up to n.           *)
ProductUpTo(S) ==
    LET product[n \in Nat] == IF n = 0 THEN 1 ELSE product[n - 1] * (IF n \in S THEN n ELSE 1)
    IN  product

(* The recursion defines it.                                               *)
LEMMA ProductIs ==
    ASSUME NEW S
    PROVE  /\ ProductUpTo(S)[0] = 1
           /\ \A n \in Nat : ProductUpTo(S)[n] \in Nat
           /\ \A n \in Nat : ProductUpTo(S)[n + 1] =
                                ProductUpTo(S)[n] * (IF n + 1 \in S THEN n + 1 ELSE 1)
<1>. DEFINE G == [n \in Nat |-> [x \in Nat |-> x * (IF n + 1 \in S THEN n + 1 ELSE 1)]]
            Is(f) == f = [n \in Nat |-> IF n = 0 THEN 1 ELSE f[n - 1] * (IF n \in S THEN n ELSE 1)]
<1>1. G \in [Nat -> [Nat -> Nat]]
  OBVIOUS
<1>2. \A n \in Nat, x \in Nat : G[n][x] = x * (IF n + 1 \in S THEN n + 1 ELSE 1)
  OBVIOUS
<1>. HIDE DEF G
<1>3. PICK f \in [Nat -> Nat] : f[0] = 1 /\ \A n \in Nat : f[n + 1] = G[n][f[n]]
  <2>. DEFINE V == Nat
              c == 1
  <2>1. c \in V /\ IsWay(G, V)
    BY <1>1 DEF IsWay
  <2>. HIDE DEF V, c
  <2>2. \E f : GoesOnFrom(f, V, c, G)
    BY <2>1, RecursionExists
  <2>. QED
    BY <2>2 DEF V, c, GoesOnFrom
<1>4. ASSUME NEW n \in Nat
      PROVE  f[n] = IF n = 0 THEN 1 ELSE f[n - 1] * (IF n \in S THEN n ELSE 1)
  <2>1. CASE n = 0
    BY <1>3, <2>1
  <2>2. CASE n # 0
    <3>1. n - 1 \in Nat /\ (n - 1) + 1 = n
      BY <2>2
    <3>2. f[n - 1] \in Nat /\ f[(n - 1) + 1] = G[n - 1][f[n - 1]]
      BY <1>3, <3>1
    <3>. QED
      BY <1>2, <2>2, <3>1, <3>2
  <2>. QED
    BY <2>1, <2>2
<1>5. Is(f)
  BY <1>4
<1>. DEFINE P == CHOOSE g : Is(g)
<1>6. Is(P)
  <2>. HIDE DEF Is
  <2>. QED
    BY <1>5
<1>7. P = ProductUpTo(S)
  BY DEF ProductUpTo
<1>. HIDE DEF P
<1>8. P[0] = 1
  BY <1>6
<1>9. ASSUME NEW n \in Nat
      PROVE  P[n + 1] = P[n] * (IF n + 1 \in S THEN n + 1 ELSE 1)
  <2>1. n + 1 \in Nat /\ n + 1 # 0 /\ (n + 1) - 1 = n
    OBVIOUS
  <2>. QED
    BY <1>6, <2>1
<1>. DEFINE T == {n \in Nat : P[n] \in Nat}
<1>10. \A n \in Nat : n \in T => n + 1 \in T
  BY <1>9
<1>11. Nat \subseteq T
  <2>1. 0 \in T
    BY <1>8
  <2>. HIDE DEF T
  <2>. QED
    BY <1>10, <2>1, Induction
<1>. QED
  BY <1>7, <1>8, <1>9, <1>11

(* A further number is a further factor.                                   *)
LEMMA ProductAdds ==
    ASSUME NEW S, NEW x \in Nat \ {0}, x \notin S, NEW n \in Nat
    PROVE  ProductUpTo(S \cup {x})[n] = (IF n >= x THEN x ELSE 1) * ProductUpTo(S)[n]
<1>. DEFINE T == S \cup {x}
            A == ProductUpTo(S)
            B == ProductUpTo(T)
            R == {k \in Nat : B[k] = (IF k >= x THEN x ELSE 1) * A[k]}
<1>0. \A k \in Nat : k + 1 \in T <=> (k + 1 \in S \/ k + 1 = x)
  OBVIOUS
<1>. HIDE DEF T
<1>1. A[0] = 1 /\ \A k \in Nat : A[k] \in Nat /\ A[k + 1] = A[k] * (IF k + 1 \in S THEN k + 1 ELSE 1)
  BY ProductIs
<1>2. B[0] = 1 /\ \A k \in Nat : B[k] \in Nat /\ B[k + 1] = B[k] * (IF k + 1 \in T THEN k + 1 ELSE 1)
  BY ProductIs
<1>. HIDE DEF A, B
<1>3. 0 \in R
  BY <1>1, <1>2
<1>4. ASSUME NEW k \in Nat, k \in R
      PROVE  k + 1 \in R
  <2>1. A[k] \in Nat /\ B[k] = (IF k >= x THEN x ELSE 1) * A[k]
    BY <1>1, <1>4
  <2>2. CASE k + 1 = x
    <3>1. B[k + 1] = B[k] * x /\ A[k + 1] = A[k] * 1
      BY <1>0, <1>1, <1>2, <2>2
    <3>2. B[k] = 1 * A[k]
      BY <2>1, <2>2
    <3>3. B[k + 1] = x * A[k + 1]
      BY <2>1, <3>1, <3>2
    <3>. QED
      BY <2>2, <3>3
  <2>3. CASE k + 1 # x
    <3>. DEFINE y == IF k + 1 \in S THEN k + 1 ELSE 1
                z == IF k >= x THEN x ELSE 1
    <3>1. B[k + 1] = B[k] * y /\ A[k + 1] = A[k] * y /\ B[k] = z * A[k]
      BY <1>0, <1>1, <1>2, <2>1, <2>3
    <3>2. y \in Nat /\ z \in Nat /\ z = IF k + 1 >= x THEN x ELSE 1
      BY <2>3
    <3>. HIDE DEF y, z
    <3>3. (z * A[k]) * y = z * (A[k] * y)
      BY <2>1, <3>2
    <3>. QED
      BY <3>1, <3>2, <3>3
  <2>. QED
    BY <2>2, <2>3
<1>5. Nat \subseteq R
  <2>. HIDE DEF R
  <2>. QED
    BY <1>3, <1>4, Induction
<1>. QED
  BY <1>5 DEF A, B, T

(* What the numbers up to k leave, each times a.                           *)
Residues(a, p, k) == {(a * i) % p : i \in 1 .. k}

(* The residue of a further number is another one.                         *)
LEMMA ResiduesDiffer ==
    ASSUME NEW p \in Nat, IsPrime(p), NEW a \in Nat, ~ Congruent(a, 0, p),
           NEW k \in Nat, k + 1 < p
    PROVE  /\ Residues(a, p, k + 1) = Residues(a, p, k) \cup {(a * (k + 1)) % p}
           /\ (a * (k + 1)) % p \notin Residues(a, p, k)
           /\ (a * (k + 1)) % p \in 1 .. p - 1
<1>0. p \in Nat \ {0} /\ p > 1
  BY DEF IsPrime
<1>1. Residues(a, p, k + 1) = Residues(a, p, k) \cup {(a * (k + 1)) % p}
  <2>1. 1 .. k + 1 = (1 .. k) \cup {k + 1}
    OBVIOUS
  <2>. QED
    BY <2>1, Zenon DEF Residues
<1>2. ASSUME NEW i \in 0 .. k, (a * (k + 1)) % p = (a * i) % p
      PROVE  FALSE
  <2>1. a * (k + 1) \in Int /\ a * i \in Int /\ (k + 1) - i \in Int
    OBVIOUS
  <2>2. Congruent(a * (k + 1), a * i, p)
    BY <1>0, <1>2, <2>1, CongruentIs
  <2>3. PICK c \in Int : a * (k + 1) = (a * i) + (p * c)
    BY <2>2 DEF Congruent
  <2>4. a * ((k + 1) - i) = 0 + (p * c)
    BY <2>3
  <2>5. Congruent(a * ((k + 1) - i), 0, p)
    BY <2>4 DEF Congruent
  <2>6. Congruent((k + 1) - i, 0, p)
    BY <2>1, <2>5, Euclid
  <2>7. PICK d \in Int : (k + 1) - i = 0 + (p * d)
    BY <2>6 DEF Congruent
  <2>8. p * d > 0 /\ p * d < p
    BY <2>7
  <2>9. d =< 0 => p * d =< 0
    BY <1>0
  <2>10. d >= 1 => p * d >= p
    BY <1>0
  <2>. QED
    BY <2>8, <2>9, <2>10
<1>3. (a * (k + 1)) % p \notin Residues(a, p, k)
  <2>. SUFFICES ASSUME NEW i \in 1 .. k, (a * (k + 1)) % p = (a * i) % p
                PROVE  FALSE
    BY Zenon DEF Residues
  <2>1. i \in 0 .. k
    OBVIOUS
  <2>. QED
    BY <1>2, <2>1
<1>4. (a * (k + 1)) % p # 0
  <2>1. a * 0 = 0 /\ 0 % p = 0 /\ 0 \in 0 .. k
    BY <1>0
  <2>. QED
    BY <1>2, <2>1
<1>5. (a * (k + 1)) % p \in 0 .. p - 1
  <2>1. a * (k + 1) \in Nat
    OBVIOUS
  <2>. QED
    BY <1>0, <2>1
<1>. QED
  BY <1>1, <1>3, <1>4, <1>5

(* Of all numbers below a prime, the residues are the same numbers.        *)
LEMMA ResiduesAreAll ==
    ASSUME NEW p \in Nat, IsPrime(p), NEW a \in Nat, ~ Congruent(a, 0, p)
    PROVE  Residues(a, p, p - 1) = 1 .. p - 1
<1>0. p \in Nat \ {0} /\ p > 1
  BY DEF IsPrime
<1>. DEFINE R(k) == Residues(a, p, k)
            T == {k \in Nat : k < p => /\ R(k) \subseteq 1 .. p - 1
                                       /\ IsFiniteSet(R(k)) /\ Cardinality(R(k)) = k}
<1>1. 0 \in T
  <2>1. R(0) = {}
    BY DEF Residues
  <2>. QED
    BY <2>1, FS_EmptySet
<1>2. ASSUME NEW k \in Nat, k \in T
      PROVE  k + 1 \in T
  <2>. SUFFICES ASSUME k + 1 < p
                PROVE  /\ R(k + 1) \subseteq 1 .. p - 1
                       /\ IsFiniteSet(R(k + 1)) /\ Cardinality(R(k + 1)) = k + 1
    OBVIOUS
  <2>. DEFINE x == (a * (k + 1)) % p
  <2>1. R(k + 1) = R(k) \cup {x} /\ x \notin R(k) /\ x \in 1 .. p - 1
    BY ResiduesDiffer
  <2>2. R(k) \subseteq 1 .. p - 1 /\ IsFiniteSet(R(k)) /\ Cardinality(R(k)) = k
    BY <1>2
  <2>. HIDE DEF R, x
  <2>3. IsFiniteSet(R(k) \cup {x}) /\ Cardinality(R(k) \cup {x}) = Cardinality(R(k)) + 1
    BY <2>1, <2>2, FS_AddElement
  <2>. QED
    BY <2>1, <2>2, <2>3
<1>3. Nat \subseteq T
  <2>. HIDE DEF T
  <2>. QED
    BY <1>1, <1>2, Induction
<1>4. p - 1 \in Nat /\ p - 1 < p
  BY <1>0
<1>5. R(p - 1) \subseteq 1 .. p - 1 /\ Cardinality(R(p - 1)) = p - 1
  BY <1>3, <1>4
<1>6. IsFiniteSet(1 .. p - 1) /\ Cardinality(1 .. p - 1) = p - 1
  <2>1. 1 \in Int /\ p - 1 \in Int
    BY <1>0
  <2>2. IsFiniteSet(1 .. p - 1) /\ Cardinality(1 .. p - 1) = IF 1 > p - 1 THEN 0 ELSE (p - 1) - 1 + 1
    BY <2>1, FS_Interval, Zenon
  <2>. QED
    BY <1>0, <2>2
<1>. HIDE DEF R
<1>7. R(p - 1) = 1 .. p - 1
  BY <1>5, <1>6, FS_Subset
<1>. QED
  BY <1>7 DEF R

(* Their product is that of the numbers, times a power of a.               *)
LEMMA ProductOfResidues ==
    ASSUME NEW p \in Nat, IsPrime(p), NEW a \in Nat, ~ Congruent(a, 0, p), NEW k \in Nat, k < p
    PROVE  Congruent(ProductUpTo(Residues(a, p, k))[p - 1],
                     PowersOf(a)[k] * ProductUpTo(1 .. p - 1)[k], p)
<1>0. p \in Nat \ {0} /\ p > 1 /\ p - 1 \in Nat
  BY DEF IsPrime
<1>. DEFINE R(n) == Residues(a, p, n)
            B(n) == ProductUpTo(R(n))[p - 1]
            F == ProductUpTo(1 .. p - 1)
            P == PowersOf(a)
            T == {n \in Nat : n < p => Congruent(B(n), P[n] * F[n], p)}
<1>1. F[0] = 1 /\ \A n \in Nat : F[n] \in Nat
                  /\ F[n + 1] = F[n] * (IF n + 1 \in 1 .. p - 1 THEN n + 1 ELSE 1)
  BY ProductIs
<1>2. P[0] = 1 /\ \A n \in Nat : P[n] \in Int /\ P[n + 1] = a * P[n]
  <2>1. a \in Int
    OBVIOUS
  <2>. QED
    BY <2>1, PowersType
<1>3. \A n \in Nat : B(n) \in Nat
  BY <1>0, ProductIs
<1>. HIDE DEF F, P
<1>4. 0 \in T
  <2>. DEFINE N == ProductUpTo({})
              U == {n \in Nat : N[n] = 1}
  <2>1. N[0] = 1 /\ \A n \in Nat : N[n] \in Nat /\ N[n + 1] = N[n] * (IF n + 1 \in {} THEN n + 1 ELSE 1)
    BY ProductIs
  <2>. HIDE DEF N
  <2>2. \A n \in Nat : n \in U => n + 1 \in U
    BY <2>1
  <2>3. 0 \in U
    BY <2>1
  <2>4. Nat \subseteq U
    <3>. HIDE DEF U
    <3>. QED
      BY <2>2, <2>3, Induction
  <2>5. R(0) = {}
    BY DEF Residues
  <2>6. B(0) = 1
    BY <1>0, <2>4, <2>5 DEF N
  <2>7. 1 \in Int
    OBVIOUS
  <2>8. Congruent(1, 1, p)
    BY <1>0, <2>7, CongruentReduced
  <2>9. P[0] * F[0] = 1
    BY <1>1, <1>2
  <2>. HIDE DEF B
  <2>. QED
    BY <2>6, <2>8, <2>9
<1>5. ASSUME NEW n \in Nat, n \in T
      PROVE  n + 1 \in T
  <2>. SUFFICES ASSUME n + 1 < p
                PROVE  Congruent(B(n + 1), P[n + 1] * F[n + 1], p)
    OBVIOUS
  <2>. DEFINE x == (a * (n + 1)) % p
              y == a * (n + 1)
              z == P[n] * F[n]
  <2>1. R(n + 1) = R(n) \cup {x} /\ x \notin R(n) /\ x \in 1 .. p - 1
    BY ResiduesDiffer
  <2>2. B(n + 1) = x * B(n)
    <3>1. x \in Nat \ {0} /\ p - 1 >= x
      BY <1>0, <2>1
    <3>. HIDE DEF x, R
    <3>2. ProductUpTo(R(n) \cup {x})[p - 1] = (IF p - 1 >= x THEN x ELSE 1) * ProductUpTo(R(n))[p - 1]
      BY <1>0, <2>1, <3>1, ProductAdds
    <3>. QED
      BY <2>1, <3>1, <3>2
  <2>3. y \in Int /\ Congruent(x, y, p)
    BY <1>0, CongruentReduced
  <2>4. z \in Int /\ Congruent(B(n), z, p)
    BY <1>1, <1>2, <1>5
  <2>5. x \in Int /\ B(n) \in Int
    BY <1>3, <2>1
  <2>. HIDE DEF x, y, z, B
  <2>6. Congruent(x * B(n), y * z, p)
    BY <2>3, <2>4, <2>5, CongruentProducts
  <2>7. y * z = P[n + 1] * F[n + 1]
    <3>1. P[n + 1] = a * P[n] /\ F[n + 1] = F[n] * (n + 1) /\ P[n] \in Int /\ F[n] \in Int
      BY <1>0, <1>1, <1>2
    <3>2. (a * (n + 1)) * (P[n] * F[n]) = (a * P[n]) * (F[n] * (n + 1))
      BY <3>1
    <3>. QED
      BY <3>1, <3>2 DEF y, z
  <2>. QED
    BY <2>2, <2>6, <2>7
<1>6. Nat \subseteq T
  <2>. HIDE DEF T
  <2>. QED
    BY <1>4, <1>5, Induction
<1>. QED
  BY <1>6 DEF F, P

(* The prime does not divide their product.                                *)
LEMMA FactorialNotDivided ==
    ASSUME NEW p \in Nat, IsPrime(p), NEW k \in Nat, k < p
    PROVE  ~ Congruent(ProductUpTo(1 .. p - 1)[k], 0, p)
<1>0. p \in Nat \ {0} /\ p > 1
  BY DEF IsPrime
<1>. DEFINE F == ProductUpTo(1 .. p - 1)
            T == {n \in Nat : n < p => ~ Congruent(F[n], 0, p)}
<1>1. F[0] = 1 /\ \A n \in Nat : F[n] \in Nat
                  /\ F[n + 1] = F[n] * (IF n + 1 \in 1 .. p - 1 THEN n + 1 ELSE 1)
  BY ProductIs
<1>. HIDE DEF F
<1>2. ASSUME NEW n \in 1 .. p - 1
      PROVE  ~ Congruent(n, 0, p)
  <2>1. n \in Int /\ 0 \in Int /\ n % p = n /\ 0 % p = 0 /\ n # 0
    BY <1>0
  <2>. QED
    BY <1>0, <2>1, CongruentIs
<1>3. 0 \in T
  <2>1. 1 \in 1 .. p - 1
    BY <1>0
  <2>. QED
    BY <1>1, <1>2, <2>1
<1>4. ASSUME NEW n \in Nat, n \in T
      PROVE  n + 1 \in T
  <2>. SUFFICES ASSUME n + 1 < p, Congruent(F[n + 1], 0, p)
                PROVE  FALSE
    OBVIOUS
  <2>1. F[n + 1] = F[n] * (n + 1) /\ F[n] \in Int /\ ~ Congruent(F[n], 0, p)
    BY <1>0, <1>1, <1>4
  <2>2. n + 1 \in Int /\ n + 1 \in 1 .. p - 1
    OBVIOUS
  <2>3. Congruent(n + 1, 0, p)
    BY <2>1, <2>2, Euclid
  <2>. QED
    BY <1>2, <2>2, <2>3
<1>5. Nat \subseteq T
  <2>. HIDE DEF T
  <2>. QED
    BY <1>3, <1>4, Induction
<1>. QED
  BY <1>5 DEF F

(* Fermat's little theorem, on which RSA rests: raised to one less than a  *)
(* prime, a number that the prime does not divide leaves 1.                *)
THEOREM Fermat ==
    ASSUME NEW p \in Nat, IsPrime(p), NEW a \in Nat, ~ Congruent(a, 0, p)
    PROVE  Congruent(PowersOf(a)[p - 1], 1, p)
<1>0. p \in Nat \ {0} /\ p > 1 /\ p - 1 \in Nat /\ p - 1 < p
  BY DEF IsPrime
<1>. DEFINE F == ProductUpTo(1 .. p - 1)[p - 1]
            x == PowersOf(a)[p - 1]
<1>1. F \in Int /\ x \in Int
  <2>1. a \in Int
    OBVIOUS
  <2>2. x \in Int
    BY <1>0, <2>1, PowersType
  <2>3. F \in Nat
    BY <1>0, ProductIs
  <2>. QED
    BY <2>2, <2>3
<1>2. Residues(a, p, p - 1) = 1 .. p - 1
  BY ResiduesAreAll
<1>3. Congruent(F, x * F, p)
  BY <1>0, <1>2, ProductOfResidues
<1>4. ~ Congruent(F, 0, p)
  BY <1>0, FactorialNotDivided
<1>. HIDE DEF F, x
<1>5. PICK c \in Int : F = (x * F) + (p * c)
  BY <1>3 DEF Congruent
<1>6. F * (x - 1) = 0 + (p * (-c)) /\ -c \in Int /\ x - 1 \in Int
  <2>1. F * (x - 1) = (x * F) - F /\ p * (-c) = -(p * c) /\ x * F \in Int /\ p * c \in Int
    BY <1>1
  <2>. QED
    BY <1>1, <1>5, <2>1
<1>7. Congruent(F * (x - 1), 0, p)
  BY <1>6 DEF Congruent
<1>8. Congruent(x - 1, 0, p)
  BY <1>1, <1>4, <1>6, <1>7, Euclid
<1>9. PICK d \in Int : x - 1 = 0 + (p * d)
  BY <1>8 DEF Congruent
<1>10. x = 1 + (p * d)
  BY <1>1, <1>9
<1>. QED
  BY <1>10 DEF Congruent, x

(* Raised to 1 and any number of times that, every number leaves what it   *)
(* leaves itself.                                                          *)
LEMMA FermatForAll ==
    ASSUME NEW p \in Nat, IsPrime(p), NEW a \in Nat, NEW k \in Nat
    PROVE  Congruent(PowersOf(a)[1 + (k * (p - 1))], a, p)
<1>0. p \in Nat \ {0} /\ p > 1 /\ p - 1 \in Nat
  BY DEF IsPrime
<1>. DEFINE n == (p - 1) * k
            P == PowersOf(a)
<1>1. n \in Nat /\ 1 + (k * (p - 1)) = 1 + n
  BY <1>0
<1>2. P[1 + n] = a * P[n] /\ P[n] \in Int
  <2>1. 1 + n = n + 1 /\ a \in Int
    BY <1>1
  <2>. HIDE DEF n
  <2>2. P[n + 1] = a * P[n] /\ P[n] \in Int
    BY <1>1, <2>1, PowersType
  <2>. QED
    BY <2>1, <2>2
<1>3. Congruent(a, a, p)
  BY <1>0, CongruentReduced
<1>4. CASE Congruent(a, 0, p)
  <2>1. P[n] \in Int /\ 0 * P[n] = 0 /\ a \in Int /\ 0 \in Int
    BY <1>2
  <2>2. Congruent(P[n], P[n], p)
    BY <1>0, <2>1, CongruentReduced
  <2>. HIDE DEF P, n
  <2>3. Congruent(a * P[n], 0 * P[n], p)
    BY <1>4, <2>1, <2>2, CongruentProducts
  <2>4. Congruent(0, a, p)
    BY <1>0, <1>4, <2>1, CongruentSymmetric
  <2>5. a * P[n] \in Int
    BY <2>1
  <2>6. Congruent(a * P[n], a, p)
    BY <2>1, <2>3, <2>4, <2>5, CongruentTransitive
  <2>. QED
    BY <1>1, <1>2, <2>6 DEF P, n
<1>5. CASE ~ Congruent(a, 0, p)
  <2>. DEFINE x == P[p - 1]
  <2>1. x \in Int /\ Congruent(x, 1, p)
    BY <1>0, <1>5, PowersType, Fermat
  <2>2. P[n] = PowersOf(x)[k]
    BY <1>0, PowersOfPower
  <2>. HIDE DEF x
  <2>3. PowersOf(1)[k] = 1 /\ 1 \in Int
    BY PowersOfZeroAndOne
  <2>4. Congruent(PowersOf(x)[k], PowersOf(1)[k], p)
    BY <1>0, <2>1, <2>3, CongruentPowers
  <2>5. Congruent(P[n], 1, p)
    BY <2>2, <2>3, <2>4
  <2>. HIDE DEF P, n
  <2>6. Congruent(a * P[n], a * 1, p)
    BY <1>0, <1>2, <1>3, <2>3, <2>5, CongruentProducts
  <2>7. a * 1 = a
    OBVIOUS
  <2>. QED
    BY <1>1, <1>2, <2>6, <2>7 DEF P, n
<1>. QED
  BY <1>4, <1>5

(* Numbers congruent modulo two primes are so modulo their product.        *)
LEMMA CongruentForProduct ==
    ASSUME NEW p \in Nat, IsPrime(p), NEW q \in Nat, IsPrime(q), p # q,
           NEW a \in Int, NEW b \in Int, Congruent(a, b, p), Congruent(a, b, q)
    PROVE  Congruent(a, b, p * q)
<1>0. p \in Nat \ {0} /\ p > 1 /\ q \in Nat \ {0} /\ q > 1
  BY DEF IsPrime
<1>1. PICK c \in Int : a = b + (p * c)
  BY DEF Congruent
<1>2. PICK d \in Int : a = b + (q * d)
  BY DEF Congruent
<1>3. ~ Congruent(p, 0, q)
  <2>. SUFFICES ASSUME NEW x \in Int, p = 0 + (q * x)
                PROVE  FALSE
    BY DEF Congruent
  <2>1. x > 0
    BY <1>0
  <2>2. x # 1
    BY <1>0
  <2>3. x > 1
    BY <2>1, <2>2
  <2>4. q < p
    BY <1>0, <2>3
  <2>5. Coprime(p, q)
    BY <1>0, <2>4, PrimeCoprime
  <2>6. p = q * x
    BY <1>0
  <2>7. Divides(q, p) /\ Divides(q, q)
    <3>1. q = q * 1 /\ 1 \in Int
      BY <1>0
    <3>. QED
      BY <1>0, <2>6, <3>1, DividesMultiple
  <2>. QED
    BY <1>0, <2>5, <2>7 DEF Coprime
<1>4. p * c = 0 + (q * d)
  <2>1. p * c \in Int /\ q * d \in Int
    BY <1>0
  <2>. QED
    BY <1>1, <1>2, <2>1
<1>5. Congruent(p * c, 0, q)
  BY <1>4 DEF Congruent
<1>6. Congruent(c, 0, q)
  BY <1>3, <1>5, Euclid
<1>7. PICK x \in Int : c = 0 + (q * x)
  BY <1>6 DEF Congruent
<1>8. a = b + ((p * q) * x)
  <2>1. p * (q * x) = (p * q) * x
    BY <1>0
  <2>2. c = q * x
    BY <1>0, <1>7
  <2>. QED
    BY <1>1, <2>1, <2>2
<1>. QED
  BY <1>8 DEF Congruent

(* Two primes have no common divisor, whichever is larger.                 *)
LEMMA DifferentPrimesCoprime ==
    ASSUME NEW p \in Nat, IsPrime(p), NEW q \in Nat, IsPrime(q), p # q
    PROVE  Coprime(p, q)
<1>0. p > 1 /\ q > 1
  BY DEF IsPrime
<1>1. CASE q < p
  BY <1>1, PrimesCoprime
<1>2. CASE p < q
  <2>. SUFFICES ASSUME NEW d \in 2 .. q, Divides(d, p), Divides(d, q)
                PROVE  FALSE
    BY DEF Coprime
  <2>1. Coprime(q, p)
    BY <1>2, PrimesCoprime
  <2>2. d \notin 2 .. p
    BY <2>1 DEF Coprime
  <2>3. d > p
    BY <1>0, <2>2
  <2>4. p % d = p
    BY <1>0, <2>3
  <2>. QED
    BY <1>0, <2>4 DEF Divides
<1>. QED
  BY <1>1, <1>2

-----------------------------------------------------------------------------
(* The exponents of RSA                                                    *)

(* An exponent may be reduced modulo one less than a prime, if that does   *)
(* not leave 0.                                                            *)
LEMMA ReducedExponent ==
    ASSUME NEW p \in Nat, IsPrime(p), p > 2, NEW a \in Nat, NEW d \in Nat, d % (p - 1) # 0
    PROVE  Congruent(PowersOf(a)[d % (p - 1)], PowersOf(a)[d], p)
<1>. DEFINE m == p - 1
            c == d \div m
            s == d % m
            P == PowersOf(a)
<1>0. p \in Nat \ {0} /\ m \in Nat \ {0} /\ a \in Int
  OBVIOUS
<1>. HIDE DEF m
<1>1. c \in Nat /\ s \in Nat /\ d = (c * m) + s /\ c * m \in Nat
  BY <1>0
<1>2. s # 0
  BY DEF m
<1>. HIDE DEF c, s
<1>3. \A i \in Nat : P[i] \in Int
  BY <1>0, PowersType
<1>4. CASE Congruent(a, 0, p)
  <2>1. 0 \in Int /\ d > 0 /\ s > 0
    BY <1>1, <1>2
  <2>2. PowersOf(0)[d] = 0 /\ PowersOf(0)[s] = 0
    BY <1>1, <2>1, PowersOfZeroAndOne
  <2>3. Congruent(P[d], PowersOf(0)[d], p) /\ Congruent(P[s], PowersOf(0)[s], p)
    BY <1>0, <1>1, <1>4, <2>1, CongruentPowers
  <2>4. Congruent(P[d], 0, p) /\ Congruent(P[s], 0, p)
    BY <2>2, <2>3
  <2>5. Congruent(0, P[d], p)
    BY <1>3, <2>1, <2>4, CongruentSymmetric
  <2>. HIDE DEF P
  <2>6. Congruent(P[s], P[d], p)
    BY <1>1, <1>3, <2>1, <2>4, <2>5, CongruentTransitive
  <2>. QED
    BY <2>6 DEF P, s, m
<1>5. CASE ~ Congruent(a, 0, p)
  <2>. DEFINE x == P[m]
  <2>1. x \in Int /\ Congruent(x, 1, p)
    BY <1>0, <1>3, <1>5, Fermat DEF m
  <2>2. P[m * c] = PowersOf(x)[c]
    BY <1>0, <1>1, PowersOfPower
  <2>. HIDE DEF x
  <2>3. PowersOf(1)[c] = 1 /\ 1 \in Int
    BY <1>1, PowersOfZeroAndOne
  <2>4. Congruent(PowersOf(x)[c], PowersOf(1)[c], p)
    BY <1>0, <1>1, <2>1, <2>3, CongruentPowers
  <2>5. m * c \in Nat /\ m * c = c * m
    BY <1>0, <1>1
  <2>6. P[(m * c) + s] = P[m * c] * P[s]
    BY <1>0, <1>1, <2>5, PowersOfSum
  <2>. DEFINE y == P[m * c]
  <2>7. y \in Int /\ Congruent(y, 1, p) /\ P[s] \in Int /\ P[d] = y * P[s] /\ P[d] \in Int
    BY <1>1, <1>3, <2>2, <2>3, <2>4, <2>5, <2>6
  <2>. HIDE DEF y, P
  <2>8. Congruent(P[s], P[s], p)
    BY <1>0, <2>7, CongruentReduced
  <2>9. Congruent(y * P[s], 1 * P[s], p)
    BY <1>0, <2>3, <2>7, <2>8, CongruentProducts
  <2>10. 1 * P[s] = P[s]
    BY <2>7
  <2>11. Congruent(P[d], P[s], p)
    BY <2>7, <2>9, <2>10
  <2>12. Congruent(P[s], P[d], p)
    BY <1>0, <2>7, <2>11, CongruentSymmetric
  <2>. QED
    BY <2>12 DEF P, s, m
<1>. QED
  BY <1>4, <1>5

(* What the two exponents are to one another, and to each prime.           *)
Inverses(e, d, p, q) ==
    /\ p \in Nat /\ q \in Nat /\ IsPrime(p) /\ IsPrime(q) /\ p # q /\ p > 2 /\ q > 2
    /\ e \in Nat /\ d \in Nat /\ (e * d) % (p - 1) = 1 /\ (e * d) % (q - 1) = 1

LEMMA InversesForPrimes ==
    ASSUME NEW e, NEW d, NEW p, NEW q, Inverses(e, d, p, q)
    PROVE  /\ \E k \in Nat : e * d = 1 + (k * (p - 1))
           /\ \E k \in Nat : e * d = 1 + (k * (q - 1))
           /\ d % (p - 1) # 0 /\ d % (q - 1) # 0
<1>. DEFINE a == p - 1
            b == q - 1
            x == e * d
<1>1. a \in Nat /\ b \in Nat /\ a > 1 /\ b > 1 /\ x \in Nat /\ x % a = 1 /\ x % b = 1 /\ e \in Nat /\ d \in Nat
  BY DEF Inverses
<1>. HIDE DEF a, b, x
<1>2. ASSUME NEW t \in Nat, t > 1, x % t = 1
      PROVE  \E k \in Nat : x = 1 + (k * t)
  <2>1. x \div t \in Nat /\ x = ((x \div t) * t) + (x % t)
    BY <1>1, <1>2, QuotientOf
  <2>. DEFINE c == x \div t
  <2>2. c \in Nat /\ x = (c * t) + 1
    BY <1>2, <2>1
  <2>. HIDE DEF c
  <2>. QED
    BY <1>2, <2>2
<1>3. \E k \in Nat : x = 1 + (k * a)
  BY <1>1, <1>2
<1>4. \E k \in Nat : x = 1 + (k * b)
  BY <1>1, <1>2
<1>5. ASSUME NEW t \in Nat, t > 1, NEW k \in Nat, x = 1 + (k * t)
      PROVE  d % t # 0
  <2>. SUFFICES ASSUME d % t = 0
                PROVE  FALSE
    OBVIOUS
  <2>1. d = (t * (d \div t)) + (d % t) /\ d \div t \in Int
    BY <1>1, <1>5
  <2>. DEFINE i == d \div t
              j == (e * i) - k
  <2>2. i \in Int /\ d = t * i
    BY <1>5, <2>1
  <2>. HIDE DEF i
  <2>3. j \in Int
    BY <1>1, <1>5, <2>2
  <2>4. t * j = 1
    <3>1. e * (t * i) = 1 + (k * t)
      BY <1>5, <2>2 DEF x
    <3>2. t * j = (e * (t * i)) - (k * t) /\ e * (t * i) \in Int /\ k * t \in Int
      BY <1>1, <1>5, <2>2
    <3>. QED
      BY <3>1, <3>2
  <2>. HIDE DEF j
  <2>5. j >= 1 => t * j >= t
    BY <1>5, <2>3
  <2>6. j =< 0 => t * j =< 0
    BY <1>5, <2>3
  <2>. QED
    BY <1>5, <2>3, <2>4, <2>5, <2>6
<1>6. d % a # 0 /\ d % b # 0
  BY <1>1, <1>3, <1>4, <1>5
<1>. QED
  BY <1>3, <1>4, <1>6 DEF a, b, x

(* Raised to one exponent and to the other every number is itself again,   *)
(* modulo the product of the primes.                                       *)
LEMMA ExponentsUndo ==
    ASSUME NEW e, NEW d, NEW p, NEW q, Inverses(e, d, p, q), NEW a \in Nat
    PROVE  Congruent(PowersOf(a)[e * d], a, p * q)
<1>0. p \in Nat /\ q \in Nat /\ IsPrime(p) /\ IsPrime(q) /\ p # q /\ e * d \in Nat /\ a \in Int
  BY DEF Inverses
<1>1. PICK i \in Nat : e * d = 1 + (i * (p - 1))
  BY InversesForPrimes
<1>2. PICK j \in Nat : e * d = 1 + (j * (q - 1))
  BY InversesForPrimes
<1>3. Congruent(PowersOf(a)[1 + (i * (p - 1))], a, p)
  BY <1>0, FermatForAll
<1>4. Congruent(PowersOf(a)[1 + (j * (q - 1))], a, q)
  BY <1>0, FermatForAll
<1>. DEFINE x == PowersOf(a)[e * d]
<1>5. x \in Int
  BY <1>0, PowersType
<1>6. Congruent(x, a, p)
  BY <1>1, <1>3
<1>7. Congruent(x, a, q)
  BY <1>2, <1>4
<1>. HIDE DEF x
<1>8. Congruent(x, a, p * q)
  BY <1>0, <1>5, <1>6, <1>7, CongruentForProduct
<1>. QED
  BY <1>8 DEF x
=============================================================================

------------------------- MODULE RsaMessages_proofs -------------------------
(***************************************************************************)
(* RSA encryption and signatures, for any keys, messages, schemes, random  *)
(* octets and digest objects: what was made is accepted, and what is       *)
(* accepted is what the standard encodes.                                  *)
(*                                                                         *)
(* First the private operation, with remainders and blinding, is the power *)
(* that it should be, and the two operations undo each other (Fermat's     *)
(* theorem, from RsaNumbers_proofs). Then for each of PKCS#1 v1.5, OAEP    *)
(* and PSS: what is encoded is a block of the standard, a block of the     *)
(* standard is decoded to what it encodes, and nothing else is decoded.    *)
(* Masks come off because an exclusive or undoes itself, and octets are    *)
(* numbers and back. The inductive invariant MessageInv joins the two: the *)
(* octets that were made are a block for their data, raised to the         *)
(* exponent of the side that made them.                                    *)
(***************************************************************************)
EXTENDS RsaMessages, RsaNumbers_proofs, SequenceTheorems

-----------------------------------------------------------------------------
(* Powers of numbers modulo a number                                       *)

(* One step of square and multiply.                                        *)
LEMMA SquareAndMultiply ==
    ASSUME NEW b \in Nat, NEW i \in Nat \ {0}, NEW m \in Nat \ {0},
           NEW half, half = PowersOf(b)[i \div 2] % m
    PROVE  PowersOf(b)[i] % m =
            IF i % 2 = 0 THEN (half * half) % m ELSE (((half * half) % m) * (b % m)) % m
<1>. DEFINE P == PowersOf(b)
            h == i \div 2
            x == P[h]
            square == (half * half) % m
<1>1. h \in Nat /\ (i % 2 = 0 => i = h + h) /\ (i % 2 # 0 => i = (h + h) + 1)
  OBVIOUS
<1>. HIDE DEF h
<1>2. P[h] \in Int /\ P[h + h] \in Int /\ P[(h + h) + 1] = b * P[h + h] /\ P[(h + h) + 1] \in Int
  <2>1. b \in Int /\ h + h \in Nat /\ (h + h) + 1 \in Nat
    BY <1>1
  <2>. HIDE DEF h
  <2>. QED
    BY <1>1, <2>1, PowersType
<1>3. P[h + h] = x * x
  <2>1. b \in Int
    OBVIOUS
  <2>. QED
    BY <1>1, <2>1, PowersOfSum
<1>4. half \in Int /\ Congruent(half, x, m)
  <2>1. half = x % m
    BY DEF h
  <2>. HIDE DEF x
  <2>. QED
    BY <1>2, <2>1, CongruentReduced DEF x
<1>. HIDE DEF P
<1>5. x \in Int /\ x * x \in Int /\ half * half \in Int
  BY <1>2, <1>4
<1>. HIDE DEF x
<1>6. Congruent(half * half, x * x, m)
  BY <1>4, <1>5, CongruentProducts
<1>7. square = (x * x) % m
  BY <1>5, <1>6, CongruentIs
<1>8. CASE i % 2 = 0
  BY <1>1, <1>3, <1>7, <1>8 DEF P
<1>9. CASE i % 2 # 0
  <2>. DEFINE y == x * x
  <2>1. y \in Int /\ b \in Int /\ square = y % m
    BY <1>5, <1>7
  <2>. HIDE DEF y, square
  <2>2. square \in Int /\ b % m \in Int /\ Congruent(square, y, m) /\ Congruent(b % m, b, m)
    BY <2>1, CongruentReduced
  <2>3. Congruent(square * (b % m), y * b, m)
    BY <2>1, <2>2, CongruentProducts
  <2>4. square * (b % m) \in Int /\ y * b \in Int
    BY <2>1, <2>2
  <2>5. (square * (b % m)) % m = (y * b) % m
    BY <2>3, <2>4, CongruentIs
  <2>6. P[i] = y * b
    <3>1. b * y = y * b
      BY <2>1
    <3>. QED
      BY <1>1, <1>2, <1>3, <1>9, <3>1 DEF y
  <2>. QED
    BY <1>9, <2>5, <2>6 DEF P, square
<1>. QED
  BY <1>8, <1>9

(* modPow finds the power.                                                 *)
LEMMA ModPowIs ==
    ASSUME NEW b \in Nat, NEW n \in Nat, NEW m \in Nat \ {0}
    PROVE  ModPow(b, n, m) = PowersOf(b)[n] % m
<1>. DEFINE P == PowersOf(b)
            E(f, e) == IF e = 0 THEN 1 % m
                       ELSE IF e % 2 = 0 THEN (f[e \div 2] * f[e \div 2]) % m
                       ELSE (((f[e \div 2] * f[e \div 2]) % m) * (b % m)) % m
            Is(f) == f = [e \in 0 .. n |-> E(f, e)]
            power == CHOOSE f : Is(f)
<1>1. ModPow(b, n, m) = power[n]
  BY DEF ModPow
<1>2. P[0] = 1
  BY PowersType
<1>3. ASSUME NEW e \in 0 .. n, NEW f, e # 0 => f[e \div 2] = P[e \div 2] % m
      PROVE  P[e] % m = E(f, e)
  <2>1. CASE e = 0
    BY <1>2, <2>1
  <2>2. CASE e # 0
    <3>. DEFINE half == f[e \div 2]
    <3>1. half = P[e \div 2] % m /\ e \in Nat \ {0}
      BY <1>3, <2>2
    <3>2. E(f, e) = IF e % 2 = 0 THEN (half * half) % m ELSE (((half * half) % m) * (b % m)) % m
      BY <2>2
    <3>. HIDE DEF half
    <3>. QED
      BY <3>1, <3>2, SquareAndMultiply
  <2>. QED
    BY <2>1, <2>2
<1>4. \A e \in 0 .. n : e # 0 => e \div 2 \in 0 .. n /\ e \div 2 < e
  OBVIOUS
<1>. DEFINE g == [e \in 0 .. n |-> P[e] % m]
<1>5. Is(g)
  <2>1. ASSUME NEW e \in 0 .. n
        PROVE  g[e] = E(g, e)
    <3>1. e # 0 => g[e \div 2] = P[e \div 2] % m
      BY <1>4
    <3>. HIDE DEF g, E
    <3>2. P[e] % m = E(g, e)
      BY <1>3, <3>1
    <3>. QED
      BY <3>2 DEF g
  <2>2. g = [e \in 0 .. n |-> g[e]]
    OBVIOUS
  <2>. HIDE DEF g, E
  <2>. QED
    BY <2>1, <2>2
<1>6. Is(power)
  <2>. HIDE DEF Is, g
  <2>. QED
    BY <1>5
<1>. HIDE DEF power
<1>7. ASSUME NEW e \in 0 .. n, power[e] # P[e] % m
      PROVE  FALSE
  <2>. DEFINE T == {i \in 0 .. n : power[i] # P[i] % m}
  <2>1. T \in SUBSET Nat /\ e \in T
    BY <1>7
  <2>2. PICK i \in T : \A j \in T : i =< j
    BY <2>1, LeastNatural
  <2>3. i \in 0 .. n /\ (i # 0 => i \div 2 \in 0 .. n /\ i \div 2 < i)
    BY <1>4, <2>2
  <2>4. i # 0 => power[i \div 2] = P[i \div 2] % m
    BY <2>2, <2>3
  <2>. HIDE DEF E
  <2>5. P[i] % m = E(power, i)
    BY <1>3, <2>3, <2>4
  <2>6. power[i] = E(power, i)
    BY <1>6, <2>3
  <2>. QED
    BY <2>2, <2>5, <2>6
<1>. QED
  BY <1>1, <1>7 DEF P

(* What modPow finds is congruent to the power, and below the modulus.     *)
LEMMA ModPowCongruent ==
    ASSUME NEW b \in Nat, NEW n \in Nat, NEW m \in Nat \ {0}
    PROVE  /\ ModPow(b, n, m) \in Nat /\ ModPow(b, n, m) < m
           /\ PowersOf(b)[n] \in Int /\ Congruent(ModPow(b, n, m), PowersOf(b)[n], m)
<1>. DEFINE x == PowersOf(b)[n]
<1>1. x \in Int
  <2>1. b \in Int
    OBVIOUS
  <2>. QED
    BY <2>1, PowersType
<1>2. ModPow(b, n, m) = x % m
  BY ModPowIs
<1>. HIDE DEF x
<1>. QED
  BY <1>1, <1>2, CongruentReduced DEF x

-----------------------------------------------------------------------------
(* The private operation                                                   *)

(* What the Chinese remainders are put together of is congruent to each.   *)
LEMMA Recombined ==
    ASSUME NEW p \in Nat, IsPrime(p), NEW q \in Nat, IsPrime(q), p # q,
           NEW a \in Nat, NEW b \in Nat,
           NEW h, h = ((Lifted(a, b, p) - b) * ModInverse(q, p)) % p
    PROVE  h \in Nat /\ Congruent((h * q) + b, a, p) /\ Congruent((h * q) + b, b, q)
<1>0. p \in Nat \ {0} /\ q \in Nat \ {0} /\ Coprime(p, q)
  BY DifferentPrimesCoprime DEF IsPrime
<1>. DEFINE t == IF a >= b THEN 0 ELSE ((b - a) + (p - 1)) \div p
            i == ModInverse(q, p)
            x == Lifted(a, b, p) - b
<1>1. t \in Int /\ Lifted(a, b, p) = a + (p * t)
  <2>1. ((b - a) + (p - 1)) \div p \in Int
    BY <1>0
  <2>. QED
    BY <2>1 DEF Lifted
<1>2. PICK k \in Nat : i \in Nat /\ q * i = 1 + (k * p)
  BY <1>0, InverseIs
<1>. HIDE DEF t, i
<1>3. x \in Int /\ x = (a - b) + (p * t)
  BY <1>1
<1>. HIDE DEF x
<1>4. x * i \in Int /\ h = (x * i) % p
  BY <1>2, <1>3 DEF x, i
<1>5. h \in Nat /\ Congruent(h, x * i, p)
  BY <1>0, <1>4, CongruentReduced
<1>6. PICK c \in Int : h = (x * i) + (p * c)
  BY <1>5 DEF Congruent
<1>. DEFINE d == (x * k) + ((c * q) + t)
<1>7. (h * q) + b = a + (p * d)
  <2>1. h * q = ((x * i) * q) + ((p * c) * q)
    BY <1>2, <1>3, <1>6
  <2>2. (x * i) * q = x * (q * i) /\ (p * c) * q = p * (c * q)
    BY <1>2, <1>3
  <2>3. x * (1 + (k * p)) = x + (p * (x * k))
    BY <1>3
  <2>4. p * d = (p * (x * k)) + ((p * (c * q)) + (p * t))
    BY <1>1, <1>3
  <2>5. p * (x * k) \in Int /\ p * (c * q) \in Int /\ p * t \in Int
    BY <1>1, <1>3
  <2>. QED
    BY <1>2, <1>3, <2>1, <2>2, <2>3, <2>4, <2>5
<1>8. d \in Int
  BY <1>1, <1>3
<1>9. (h * q) + b = b + (q * h) /\ h \in Int
  BY <1>5
<1>. HIDE DEF d
<1>10. Congruent((h * q) + b, a, p)
  BY <1>7, <1>8 DEF Congruent
<1>11. Congruent((h * q) + b, b, q)
  BY <1>9 DEF Congruent
<1>. QED
  BY <1>5, <1>10, <1>11

(* With the numbers of a complete key, the power is found by its primes.   *)
LEMMA ByPrimes ==
    ASSUME NEW e, NEW d, NEW p, NEW q, Inverses(e, d, p, q), NEW b \in Nat,
           NEW mP, mP = ModPow(b, d % (p - 1), p), NEW mQ, mQ = ModPow(b, d % (q - 1), q),
           NEW h, h = ((Lifted(mP, mQ, p) - mQ) * ModInverse(q, p)) % p
    PROVE  (h * q) + mQ \in Nat /\ Congruent((h * q) + mQ, PowersOf(b)[d], p * q)
<1>0. /\ p \in Nat /\ q \in Nat /\ IsPrime(p) /\ IsPrime(q) /\ p # q /\ p > 2 /\ q > 2 /\ d \in Nat
      /\ p \in Nat \ {0} /\ q \in Nat \ {0} /\ d % (p - 1) \in Nat /\ d % (q - 1) \in Nat
  BY DEF Inverses
<1>. DEFINE x == PowersOf(b)[d]
            xP == PowersOf(b)[d % (p - 1)]
            xQ == PowersOf(b)[d % (q - 1)]
<1>1. mP \in Nat /\ xP \in Int /\ Congruent(mP, xP, p)
  BY <1>0, ModPowCongruent
<1>2. mQ \in Nat /\ xQ \in Int /\ Congruent(mQ, xQ, q)
  BY <1>0, ModPowCongruent
<1>3. d % (p - 1) # 0 /\ d % (q - 1) # 0
  BY InversesForPrimes
<1>4. Congruent(xP, x, p)
  BY <1>0, <1>3, ReducedExponent
<1>5. Congruent(xQ, x, q)
  BY <1>0, <1>3, ReducedExponent
<1>6. x \in Int
  BY <1>0, PowersType
<1>7. h \in Nat /\ Congruent((h * q) + mQ, mP, p) /\ Congruent((h * q) + mQ, mQ, q)
  BY <1>0, <1>1, <1>2, Recombined
<1>. HIDE DEF x, xP, xQ
<1>. DEFINE y == (h * q) + mQ
<1>8. y \in Nat
  BY <1>0, <1>2, <1>7
<1>9. Congruent(y, mP, p) /\ Congruent(y, mQ, q)
  BY <1>7
<1>. HIDE DEF y
<1>10. Congruent(y, xP, p) /\ Congruent(y, xQ, q)
  BY <1>0, <1>1, <1>2, <1>8, <1>9, CongruentTransitive
<1>11. Congruent(y, x, p) /\ Congruent(y, x, q)
  BY <1>0, <1>1, <1>2, <1>4, <1>5, <1>6, <1>8, <1>10, CongruentTransitive
<1>12. Congruent(y, x, p * q)
  <2>1. y \in Int
    BY <1>8
  <2>. QED
    BY <1>0, <1>6, <1>11, <2>1, CongruentForProduct
<1>. QED
  BY <1>8, <1>12 DEF y, x

(* What is raised instead of a.                                            *)
Blinded(a, r, e, n) == ((a % n) * ModPow(r, e, n)) % n

(* The blinding is a factor of what is raised, that goes away with its     *)
(* inverse.                                                                *)
LEMMA Unblinded ==
    ASSUME NEW e \in Nat, NEW d \in Nat, NEW n \in Nat \ {0},
           NEW r \in Nat \ {0}, Coprime(n, r), Congruent(PowersOf(r)[e * d], r, n), NEW a \in Nat,
           NEW y \in Nat, Congruent(y, PowersOf(Blinded(a, r, e, n))[d], n)
    PROVE  (y * ModInverse(r, n)) % n = PowersOf(a)[d] % n
<1>0. a \in Int /\ r \in Int
  OBVIOUS
<1>. DEFINE b == Blinded(a, r, e, n)
            i == ModInverse(r, n)
            f == ModPow(r, e, n)
            x == PowersOf(r)[e]
            z == a % n
            c == a * x
<1>1. PICK k \in Nat : i \in Nat /\ r * i = 1 + (k * n)
  BY <1>0, InverseIs
<1>2. f \in Int /\ x \in Int /\ Congruent(f, x, n)
  BY <1>0, ModPowCongruent
<1>3. z \in Int /\ Congruent(z, a, n)
  BY <1>0, CongruentReduced
<1>. HIDE DEF i, f, x, z
<1>4. Congruent(z * f, a * x, n) /\ z * f \in Int /\ c \in Int
  <2>1. z * f \in Int /\ c \in Int
    BY <1>0, <1>2, <1>3
  <2>2. n \in Nat
    OBVIOUS
  <2>3. Congruent(z * f, a * x, n)
    BY <1>0, <1>2, <1>3, <2>2, CongruentProducts
  <2>. QED
    BY <2>1, <2>3
<1>5. b = (z * f) % n
  BY DEF z, f, Blinded
<1>. HIDE DEF b
<1>6. b \in Int /\ Congruent(b, z * f, n)
  <2>. DEFINE s == z * f
  <2>1. s \in Int /\ b = s % n
    BY <1>4, <1>5
  <2>. HIDE DEF s
  <2>2. s % n \in Nat /\ Congruent(s % n, s, n)
    BY <2>1, CongruentReduced
  <2>3. b \in Nat /\ Congruent(b, s, n)
    BY <2>1, <2>2
  <2>. QED
    BY <2>3 DEF s
<1>7. Congruent(b, c, n)
  BY <1>0, <1>4, <1>6, CongruentTransitive
<1>. DEFINE A == PowersOf(a)[d]
            B == PowersOf(b)[d]
            C == PowersOf(c)[d]
            X == PowersOf(x)[d]
<1>8. A \in Int /\ B \in Int /\ C \in Int /\ X \in Int
  <2>. HIDE DEF c
  <2>. QED
    BY <1>0, <1>2, <1>4, <1>6, PowersType
<1>9. Congruent(B, C, n)
  <2>. HIDE DEF c
  <2>. QED
    BY <1>0, <1>4, <1>6, <1>7, CongruentPowers
<1>10. C = A * X
  BY <1>0, <1>2, PowersOfProduct
<1>11. X = PowersOf(r)[e * d]
  BY <1>0, PowersOfPower DEF x
<1>12. Congruent(X, r, n)
  BY <1>11
<1>. HIDE DEF A, B, C, X
<1>13. Congruent(A, A, n)
  BY <1>0, <1>8, CongruentReduced
<1>14. Congruent(A * X, A * r, n) /\ A * X \in Int /\ A * r \in Int
  BY <1>0, <1>8, <1>12, <1>13, CongruentProducts
<1>15. Congruent(y, B, n)
  BY DEF B, b
<1>16. Congruent(y, C, n)
  BY <1>0, <1>8, <1>9, <1>15, CongruentTransitive
<1>17. Congruent(y, A * X, n)
  BY <1>10, <1>16
<1>. DEFINE u == A * X
            v == A * r
<1>18. Congruent(y, v, n) /\ v \in Int
  <2>1. Congruent(y, u, n) /\ Congruent(u, v, n) /\ u \in Int /\ v \in Int
    BY <1>14, <1>17
  <2>. HIDE DEF u, v
  <2>. QED
    BY <1>0, <2>1, CongruentTransitive
<1>19. Congruent(i, i, n) /\ i \in Int
  BY <1>0, <1>1, CongruentReduced
<1>20. Congruent(y * i, v * i, n)
  <2>. HIDE DEF v
  <2>. QED
    BY <1>0, <1>18, <1>19, CongruentProducts
<1>21. v * i = A + (n * (A * k))
  <2>1. (A * r) * i = A * (r * i) /\ A * (1 + (k * n)) = A + (n * (A * k))
    BY <1>0, <1>1, <1>8
  <2>. QED
    BY <1>1, <2>1
<1>22. Congruent(v * i, A, n) /\ v * i \in Int /\ y * i \in Int
  <2>1. A * k \in Int /\ v * i \in Int /\ y * i \in Int
    BY <1>1, <1>8, <1>18
  <2>. HIDE DEF v
  <2>. QED
    BY <1>21, <2>1 DEF Congruent
<1>23. Congruent(y * i, A, n)
  <2>. DEFINE s == y * i
              t == v * i
  <2>1. Congruent(s, t, n) /\ Congruent(t, A, n) /\ s \in Int /\ t \in Int
    BY <1>20, <1>22
  <2>. HIDE DEF s, t
  <2>2. Congruent(s, A, n)
    BY <1>0, <1>8, <2>1, CongruentTransitive
  <2>. QED
    BY <2>2 DEF s
<1>24. (y * i) % n = A % n
  BY <1>0, <1>8, <1>22, <1>23, CongruentIs
<1>. QED
  BY <1>24 DEF i, A

-----------------------------------------------------------------------------
(* Private keys                                                            *)

(* The primes of a key, which it may not have itself.                      *)
IsOf(k, p, q) ==
    /\ Inverses(k.e, k.d, p, q) /\ k.n = p * q
    /\ HasPrimes(k) => /\ k.p = p /\ k.q = q
                       /\ k.dP \in {0, k.d % (p - 1)} /\ k.dQ \in {0, k.d % (q - 1)}
                       /\ k.qInv \in {0, ModInverse(q, p)}

LEMMA KeyHasPrimes ==
    ASSUME NEW k, IsPrivateKey(k)
    PROVE  /\ k.n \in Nat \ {0} /\ k.e \in Nat /\ k.d \in Nat
           /\ \E p, q : IsOf(k, p, q)
<1>1. k.n \in Nat /\ k.e \in Nat /\ k.d \in Nat
  BY DEF IsPrivateKey
<1>2. PICK p \in 3 .. k.n : \E q \in {k.n \div p} :
        /\ k.n = p * q /\ p # q /\ q > 2 /\ IsPrime(p) /\ IsPrime(q)
        /\ (k.e * k.d) % (p - 1) = 1 /\ (k.e * k.d) % (q - 1) = 1
        /\ HasPrimes(k) => /\ k.p = p /\ k.q = q
                           /\ k.dP \in {0, k.d % (p - 1)} /\ k.dQ \in {0, k.d % (q - 1)}
                           /\ k.qInv \in {0, ModInverse(q, p)}
  BY Zenon DEF IsPrivateKey
<1>. DEFINE q == k.n \div p
<1>3. /\ k.n = p * q /\ p # q /\ q > 2 /\ IsPrime(p) /\ IsPrime(q)
      /\ (k.e * k.d) % (p - 1) = 1 /\ (k.e * k.d) % (q - 1) = 1
      /\ HasPrimes(k) => /\ k.p = p /\ k.q = q
                         /\ k.dP \in {0, k.d % (p - 1)} /\ k.dQ \in {0, k.d % (q - 1)}
                         /\ k.qInv \in {0, ModInverse(q, p)}
  BY <1>2, Zenon
<1>4. p \in Nat /\ p > 2 /\ q \in Nat /\ k.n # 0
  BY <1>1
<1>. HIDE DEF q
<1>5. Inverses(k.e, k.d, p, q)
  BY <1>1, <1>3, <1>4 DEF Inverses
<1>6. IsOf(k, p, q)
  BY <1>3, <1>5, Zenon DEF IsOf
<1>. QED
  BY <1>1, <1>4, <1>6

(* What is added to a key makes it complete, and leaves it the same key.   *)
LEMMA CompletedIs ==
    ASSUME NEW k, IsPrivateKey(k), NEW p, NEW q, IsOf(k, p, q)
    PROVE  /\ Completed(k).n = k.n /\ Completed(k).e = k.e /\ Completed(k).d = k.d
           /\ Completed(k).p = k.p /\ Completed(k).q = k.q
           /\ HasPrimes(k) => /\ k.p = p /\ k.q = q
                              /\ Completed(k).dP = k.d % (p - 1) /\ Completed(k).dQ = k.d % (q - 1)
                              /\ Completed(k).qInv = ModInverse(q, p)
<1>1. k \in [n : Nat, e : Nat, d : Nat, p : Nat, q : Nat, dP : Nat, dQ : Nat, qInv : Nat]
  BY DEF IsPrivateKey
<1>2. CASE ~ HasPrimes(k)
  BY <1>2 DEF Completed
<1>3. CASE HasPrimes(k)
  <2>1. /\ k.p = p /\ k.q = q
        /\ k.dP \in {0, k.d % (p - 1)} /\ k.dQ \in {0, k.d % (q - 1)}
        /\ k.qInv \in {0, ModInverse(q, p)}
    BY <1>3, Zenon DEF IsOf
  <2>. DEFINE c == [k EXCEPT !.dP = IF @ = 0 THEN k.d % (k.p - 1) ELSE @,
                             !.dQ = IF @ = 0 THEN k.d % (k.q - 1) ELSE @,
                             !.qInv = IF @ = 0 THEN ModInverse(k.q, k.p) ELSE @]
  <2>2. Completed(k) = c
    BY <1>3 DEF Completed
  <2>3. c.n = k.n /\ c.e = k.e /\ c.d = k.d /\ c.p = k.p /\ c.q = k.q
    BY <1>1
  <2>4. /\ c.dP = IF k.dP = 0 THEN k.d % (k.p - 1) ELSE k.dP
        /\ c.dQ = IF k.dQ = 0 THEN k.d % (k.q - 1) ELSE k.dQ
        /\ c.qInv = IF k.qInv = 0 THEN ModInverse(k.q, k.p) ELSE k.qInv
    BY <1>1
  <2>. HIDE DEF c
  <2>5. c.dP = k.d % (p - 1) /\ c.dQ = k.d % (q - 1) /\ c.qInv = ModInverse(q, p)
    BY <2>1, <2>4
  <2>. QED
    BY <2>1, <2>2, <2>3, <2>5
<1>. QED
  BY <1>2, <1>3

LEMMA CompletedIsPrivateKey ==
    ASSUME NEW k, IsPrivateKey(k)
    PROVE  IsPrivateKey(Completed(k))
<1>1. k \in [n : Nat, e : Nat, d : Nat, p : Nat, q : Nat, dP : Nat, dQ : Nat, qInv : Nat]
  BY DEF IsPrivateKey
<1>2. CASE ~ HasPrimes(k)
  BY <1>2 DEF Completed
<1>3. CASE HasPrimes(k)
  <2>1. PICK p \in 3 .. k.n : \E q \in {k.n \div p} :
          /\ k.n = p * q /\ p # q /\ q > 2 /\ IsPrime(p) /\ IsPrime(q)
          /\ (k.e * k.d) % (p - 1) = 1 /\ (k.e * k.d) % (q - 1) = 1
          /\ HasPrimes(k) => /\ k.p = p /\ k.q = q
                             /\ k.dP \in {0, k.d % (p - 1)} /\ k.dQ \in {0, k.d % (q - 1)}
                             /\ k.qInv \in {0, ModInverse(q, p)}
    BY Zenon DEF IsPrivateKey
  <2>. DEFINE q == k.n \div p
              c == Completed(k)
  <2>2. /\ k.n = p * q /\ p # q /\ q > 2 /\ IsPrime(p) /\ IsPrime(q)
        /\ (k.e * k.d) % (p - 1) = 1 /\ (k.e * k.d) % (q - 1) = 1
        /\ k.p = p /\ k.q = q
    BY <1>3, <2>1, Zenon
  <2>3. q \in Nat /\ p \in Nat
    <3>1. k.n \in Nat
      BY <1>1
    <3>. QED
      BY <3>1
  <2>. HIDE DEF q
  <2>4. IsOf(k, p, q)
    <3>1. k.n \in Nat /\ k.e \in Nat /\ k.d \in Nat
      BY <1>1
    <3>2. Inverses(k.e, k.d, p, q)
      BY <2>2, <2>3, <3>1 DEF Inverses
    <3>. QED
      BY <2>1, <2>2, <3>2, Zenon DEF IsOf, q
  <2>5. /\ c.n = k.n /\ c.e = k.e /\ c.d = k.d /\ c.p = k.p /\ c.q = k.q
        /\ c.dP = k.d % (p - 1) /\ c.dQ = k.d % (q - 1) /\ c.qInv = ModInverse(q, p)
    BY <1>3, <2>4, CompletedIs
  <2>6. k.d % (p - 1) \in Nat /\ k.d % (q - 1) \in Nat /\ ModInverse(q, p) \in Nat
    <3>1. p \in Nat \ {0} /\ q \in Nat \ {0} /\ p - 1 \in Nat \ {0} /\ q - 1 \in Nat \ {0} /\ k.d \in Nat
      BY <1>1, <2>2, <2>3
    <3>2. Coprime(p, q)
      BY <2>2, <2>3, DifferentPrimesCoprime
    <3>. QED
      BY <3>1, <3>2, InverseIs
  <2>7. c \in [n : Nat, e : Nat, d : Nat, p : Nat, q : Nat, dP : Nat, dQ : Nat, qInv : Nat]
    <3>1. c = [k EXCEPT !.dP = c.dP, !.dQ = c.dQ, !.qInv = c.qInv]
      BY <1>1, <1>3 DEF Completed
    <3>2. c.dP \in Nat /\ c.dQ \in Nat /\ c.qInv \in Nat
      BY <2>5, <2>6
    <3>. HIDE DEF c
    <3>. QED
      BY <1>1, <3>1, <3>2
  <2>8. OctetLength(c.n) >= 3
    BY <2>5 DEF IsPrivateKey
  <2>. HIDE DEF c
  <2>9. /\ c.n = p * q /\ p # q /\ q > 2 /\ IsPrime(p) /\ IsPrime(q)
        /\ (c.e * c.d) % (p - 1) = 1 /\ (c.e * c.d) % (q - 1) = 1
        /\ c.p = p /\ c.q = q
        /\ c.dP \in {0, c.d % (p - 1)} /\ c.dQ \in {0, c.d % (q - 1)}
        /\ c.qInv \in {0, ModInverse(q, p)}
    BY <2>2, <2>5
  <2>10. p \in 3 .. c.n /\ q \in {c.n \div p}
    BY <2>1, <2>5 DEF q
  <2>. QED
    BY <2>7, <2>8, <2>9, <2>10, Zenon DEF IsPrivateKey, c
<1>. QED
  BY <1>2, <1>3

(* For every private key, with remainders or without, blinded or not, what *)
(* privatePow computes is the power.                                       *)
THEOREM PrivatePowIs ==
    ASSUME NEW k, IsPrivateKey(k), NEW a \in Nat, NEW r \in Nat, IsBlinding(r, k)
    PROVE  PrivatePow(a, k, r) = ModPow(a, k.d, k.n)
<1>0. k.n \in Nat \ {0} /\ k.e \in Nat /\ k.d \in Nat
  BY KeyHasPrimes
<1>1. CASE ~ HasPrimes(k)
  BY <1>1 DEF PrivatePow
<1>2. CASE HasPrimes(k)
  <2>1. PICK p, q : IsOf(k, p, q)
    BY KeyHasPrimes
  <2>. DEFINE c == Completed(k)
              n == k.n
              e == k.e
              d == k.d
              i == ModInverse(q, p)
              b == Blinded(a, r, e, n)
              mP == ModPow(b, d % (p - 1), p)
              mQ == ModPow(b, d % (q - 1), q)
              h == ((Lifted(mP, mQ, p) - mQ) * i) % p
              y == (h * q) + mQ
  <2>2. /\ c.n = n /\ c.e = e /\ c.d = d /\ c.p = p /\ c.q = q
        /\ c.dP = d % (p - 1) /\ c.dQ = d % (q - 1) /\ c.qInv = i
    BY <1>2, <2>1, CompletedIs
  <2>3. PrivatePow(a, k, r) = (y * ModInverse(r, n)) % n
    <3>1. PrivatePow(a, k, r) =
            LET blinded == ((a % c.n) * ModPow(r, c.e, c.n)) % c.n
                modP == ModPow(blinded, c.dP, c.p)
                modQ == ModPow(blinded, c.dQ, c.q)
                g == ((Lifted(modP, modQ, c.p) - modQ) * c.qInv) % c.p
            IN  (((g * c.q) + modQ) * ModInverse(r, c.n)) % c.n
      BY <1>2, Zenon DEF PrivatePow
    <3>. HIDE DEF c
    <3>. QED
      BY <2>2, <3>1 DEF Blinded
  <2>4. Inverses(e, d, p, q) /\ n = p * q
    BY <2>1 DEF IsOf
  <2>5. n \in Nat \ {0} /\ e \in Nat /\ d \in Nat /\ r \in Nat \ {0} /\ Coprime(n, r)
    BY <1>0 DEF IsBlinding
  <2>. HIDE DEF n, e, d, c
  <2>6. b \in Nat
    <3>1. a % n \in Int /\ ModPow(r, e, n) \in Int
      BY <2>5, ModPowCongruent, CongruentReduced
    <3>2. (a % n) * ModPow(r, e, n) \in Int
      BY <3>1
    <3>. QED
      BY <2>5, <3>2, CongruentReduced DEF Blinded
  <2>7. y \in Nat /\ Congruent(y, PowersOf(b)[d], p * q)
    <3>. HIDE DEF b
    <3>. QED
      BY <2>4, <2>6, ByPrimes
  <2>8. y \in Nat /\ Congruent(y, PowersOf(b)[d], n)
    BY <2>4, <2>7
  <2>9. Congruent(PowersOf(r)[e * d], r, n)
    BY <2>4, <2>5, ExponentsUndo
  <2>. HIDE DEF y
  <2>10. (y * ModInverse(r, n)) % n = PowersOf(a)[d] % n
    BY <2>5, <2>8, <2>9, Unblinded
  <2>11. ModPow(a, d, n) = PowersOf(a)[d] % n
    BY <2>5, ModPowIs
  <2>. QED
    BY <2>3, <2>10, <2>11 DEF n, d
<1>. QED
  BY <1>1, <1>2

(* For every private key, whatever exponents its maker chose, each of the  *)
(* two operations undoes the other on every number below n.                *)
THEOREM PowersUndo ==
    ASSUME NEW k, IsPrivateKey(k), NEW a \in Nat, a < k.n
    PROVE  /\ ModPow(ModPow(a, k.e, k.n), k.d, k.n) = a
           /\ ModPow(ModPow(a, k.d, k.n), k.e, k.n) = a
<1>0. k.n \in Nat \ {0} /\ k.e \in Nat /\ k.d \in Nat
  BY KeyHasPrimes
<1>1. PICK p, q : IsOf(k, p, q)
  BY KeyHasPrimes
<1>. DEFINE n == k.n
<1>2. Congruent(PowersOf(a)[k.e * k.d], a, n)
  BY <1>1, ExponentsUndo DEF IsOf
<1>. HIDE DEF n
<1>3. ASSUME NEW i \in Nat, NEW j \in Nat, Congruent(PowersOf(a)[i * j], a, n)
      PROVE  ModPow(ModPow(a, i, n), j, n) = a
  <2>0. n \in Nat \ {0} /\ a < n /\ a \in Int
    BY <1>0 DEF n
  <2>. DEFINE x == ModPow(a, i, n)
              y == PowersOf(a)[i]
  <2>1. x \in Nat /\ y \in Int /\ Congruent(x, y, n)
    BY <2>0, ModPowCongruent
  <2>2. PowersOf(y)[j] = PowersOf(a)[i * j]
    BY <2>0, PowersOfPower
  <2>. HIDE DEF x, y
  <2>3. Congruent(PowersOf(x)[j], PowersOf(y)[j], n) /\ PowersOf(x)[j] \in Int /\ PowersOf(y)[j] \in Int
    <3>1. x \in Int /\ n \in Nat
      BY <2>0, <2>1
    <3>. QED
      BY <2>1, <3>1, CongruentPowers, PowersType
  <2>4. Congruent(PowersOf(y)[j], a, n)
    BY <1>3, <2>2
  <2>. DEFINE s == PowersOf(x)[j]
              t == PowersOf(y)[j]
  <2>5. s \in Int /\ Congruent(s, t, n) /\ Congruent(t, a, n) /\ t \in Int
    BY <2>3, <2>4
  <2>. HIDE DEF s, t
  <2>6. Congruent(s, a, n)
    BY <2>0, <2>5, CongruentTransitive
  <2>7. s % n = a % n
    BY <2>0, <2>5, <2>6, CongruentIs
  <2>8. ModPow(x, j, n) = s % n
    BY <2>0, <2>1, ModPowIs DEF s
  <2>9. a % n = a
    BY <2>0
  <2>. QED
    BY <2>7, <2>8, <2>9 DEF x
<1>4. Congruent(PowersOf(a)[k.d * k.e], a, n)
  <2>1. k.d * k.e = k.e * k.d
    BY <1>0
  <2>. QED
    BY <1>2, <2>1
<1>. QED
  BY <1>0, <1>2, <1>3, <1>4 DEF n

-----------------------------------------------------------------------------
(* Numbers of octets                                                       *)

LEMMA OctetSizes ==
    /\ OctetSize \in Nat /\ OctetSize >= 4 /\ OctetSize \in Nat \ {0} /\ OctetSize \in Int
    /\ Octet = 0 .. OctetSize - 1 /\ 0 \in Octet /\ 1 \in Octet /\ 2 \in Octet
    /\ OctetBits \in Nat
<1>1. OctetBits \in Nat /\ OctetBits >= 2
  BY SchemesAssumption
<1>2. PowersOf(2)[2] = 4
  <2>1. PowersOf(2)[0 + 1] = 2 * PowersOf(2)[0] /\ PowersOf(2)[1 + 1] = 2 * PowersOf(2)[1]
    BY PowersGrow
  <2>. QED
    BY <2>1, PowersGrow
<1>3. PowersOf(2)[2] =< PowersOf(2)[OctetBits]
  BY <1>1, PowersGrow
<1>4. OctetSize \in Nat /\ OctetSize >= 4
  <2>1. PowersOf(2)[OctetBits] \in Nat
    BY <1>1, PowersOfTwo
  <2>. QED
    BY <1>2, <1>3, <2>1 DEF OctetSize
<1>5. Octet = 0 .. OctetSize - 1
  BY DEF Octet
<1>. QED
  BY <1>1, <1>4, <1>5

(* Powers of the size of an octet.                                         *)
LEMMA OctetPowers ==
    /\ PowersOf(OctetSize)[0] = 1
    /\ \A k \in Nat : /\ PowersOf(OctetSize)[k] \in Nat \ {0}
                      /\ PowersOf(OctetSize)[k + 1] = OctetSize * PowersOf(OctetSize)[k]
                      /\ PowersOf(OctetSize)[k] = PowersOf(2)[OctetBits * k]
<1>1. OctetSize \in Int /\ OctetSize \in Nat \ {0} /\ OctetBits \in Nat
  BY OctetSizes
<1>2. ASSUME NEW k \in Nat
      PROVE  PowersOf(OctetSize)[k] = PowersOf(2)[OctetBits * k]
  BY <1>1, PowersOfPower DEF OctetSize
<1>. QED
  BY <1>1, <1>2, PowersType, PowersPositive

(* The numbers of the first octets.                                        *)
Numbers(v, s) ==
    /\ v \in [0 .. Len(s) -> Nat] /\ v[0] = 0
    /\ \A i \in 0 .. Len(s) - 1 : v[i + 1] = (v[i] * OctetSize) + s[i + 1]

LEMMA NumberIs ==
    ASSUME NEW s \in Seq(Octet)
    PROVE  \E v : Numbers(v, s) /\ AsNumber(s) = v[Len(s)]
<1>. DEFINE n == Len(s)
            E(f, i) == IF i = 0 THEN 0 ELSE (f[i - 1] * OctetSize) + s[i]
            Is(f) == f = [i \in 0 .. n |-> E(f, i)]
            G == [i \in Nat |-> [x \in Nat |-> IF i < n THEN (x * OctetSize) + s[i + 1] ELSE 0]]
<1>0. n \in Nat /\ OctetSize \in Nat
  BY OctetSizes
<1>1. \A i \in 0 .. n - 1 : s[i + 1] \in Nat
  <2>1. \A i \in 1 .. n : s[i] \in 0 .. OctetSize - 1
    BY OctetSizes
  <2>. QED
    BY <1>0, <2>1
<1>. HIDE DEF n
<1>2. \A i \in Nat, x \in Nat : /\ G[i][x] \in Nat
                                /\ i < n => G[i][x] = (x * OctetSize) + s[i + 1]
  <2>. SUFFICES ASSUME NEW i \in Nat, NEW x \in Nat
                PROVE  G[i][x] \in Nat /\ (i < n => G[i][x] = (x * OctetSize) + s[i + 1])
    OBVIOUS
  <2>1. G[i][x] = IF i < n THEN (x * OctetSize) + s[i + 1] ELSE 0
    OBVIOUS
  <2>2. i < n => s[i + 1] \in Nat
    BY <1>0, <1>1
  <2>3. x * OctetSize \in Nat
    BY <1>0
  <2>. QED
    BY <2>1, <2>2, <2>3
<1>3. G \in [Nat -> [Nat -> Nat]]
  <2>1. \A i \in Nat : G[i] = [x \in Nat |-> G[i][x]]
    OBVIOUS
  <2>2. G = [i \in Nat |-> G[i]]
    OBVIOUS
  <2>. HIDE DEF G
  <2>3. \A i \in Nat : G[i] \in [Nat -> Nat]
    BY <1>2, <2>1
  <2>. QED
    BY <2>2, <2>3
<1>. HIDE DEF G
<1>4. PICK f \in [Nat -> Nat] : f[0] = 0 /\ \A i \in Nat : f[i + 1] = G[i][f[i]]
  <2>. DEFINE V == Nat
              c == 0
  <2>1. c \in V /\ IsWay(G, V)
    BY <1>3 DEF IsWay
  <2>. HIDE DEF V, c
  <2>2. \E f : GoesOnFrom(f, V, c, G)
    BY <2>1, RecursionExists
  <2>. QED
    BY <2>2 DEF V, c, GoesOnFrom
<1>. DEFINE g == [i \in 0 .. n |-> f[i]]
<1>5. ASSUME NEW i \in 0 .. n
      PROVE  g[i] = E(g, i)
  <2>1. CASE i = 0
    BY <1>4, <2>1
  <2>2. CASE i # 0
    <3>1. i - 1 \in Nat /\ (i - 1) + 1 = i /\ i - 1 < n /\ i - 1 \in 0 .. n
      BY <1>0, <2>2
    <3>2. f[i - 1] \in Nat /\ f[(i - 1) + 1] = G[i - 1][f[i - 1]]
      BY <1>4, <3>1
    <3>3. G[i - 1][f[i - 1]] = (f[i - 1] * OctetSize) + s[(i - 1) + 1]
      BY <1>2, <3>1, <3>2
    <3>. QED
      BY <2>2, <3>1, <3>2, <3>3
  <2>. QED
    BY <2>1, <2>2
<1>6. Is(g)
  <2>1. g = [i \in 0 .. n |-> g[i]]
    OBVIOUS
  <2>. HIDE DEF g, E
  <2>. QED
    BY <1>5, <2>1
<1>. DEFINE v == CHOOSE h : Is(h)
<1>7. Is(v)
  <2>. HIDE DEF Is, g
  <2>. QED
    BY <1>6
<1>8. AsNumber(s) = v[n]
  BY DEF AsNumber, n
<1>. HIDE DEF v
<1>9. v[0] = 0 /\ \A i \in 0 .. n - 1 : v[i + 1] = (v[i] * OctetSize) + s[i + 1]
  <2>1. v[0] = 0
    BY <1>0, <1>7
  <2>. SUFFICES ASSUME NEW i \in 0 .. n - 1
                PROVE  v[i + 1] = (v[i] * OctetSize) + s[i + 1]
    BY <2>1
  <2>2. i + 1 \in 0 .. n /\ i + 1 # 0 /\ (i + 1) - 1 = i
    BY <1>0
  <2>. QED
    BY <1>7, <2>2
<1>. DEFINE T == {i \in Nat : i =< n => v[i] \in Nat}
<1>10. ASSUME NEW i \in Nat, i \in T
       PROVE  i + 1 \in T
  <2>. SUFFICES ASSUME i + 1 =< n
                PROVE  v[i + 1] \in Nat
    OBVIOUS
  <2>1. i \in 0 .. n - 1 /\ v[i] \in Nat
    BY <1>0, <1>10
  <2>2. s[i + 1] \in Nat
    BY <1>1, <2>1
  <2>3. v[i + 1] = (v[i] * OctetSize) + s[i + 1]
    BY <1>9, <2>1
  <2>4. ASSUME NEW x \in Nat, NEW y \in Nat, NEW z \in Nat
        PROVE  (x * y) + z \in Nat
    BY SMTT(60)
  <2>5. (v[i] * OctetSize) + s[i + 1] \in Nat
    BY <1>0, <2>1, <2>2, <2>4
  <2>. QED
    BY <2>3, <2>5
<1>11. Nat \subseteq T
  <2>1. 0 \in T
    BY <1>9
  <2>. HIDE DEF T
  <2>. QED
    BY <1>10, <2>1, Induction
<1>12. v \in [0 .. n -> Nat]
  <2>1. v = [i \in 0 .. n |-> v[i]]
    BY <1>7
  <2>2. \A i \in 0 .. n : v[i] \in Nat
    BY <1>0, <1>11
  <2>. QED
    BY <2>1, <2>2
<1>. QED
  BY <1>8, <1>9, <1>12 DEF Numbers, n

(* What is left of a number without its last octets.                       *)
LEMMA NumberPrefix ==
    ASSUME NEW s \in Seq(Octet), NEW v, Numbers(v, s)
    PROVE  \A j \in Nat, i \in 0 .. Len(s) :
              i + j = Len(s) => /\ v[Len(s)] \div PowersOf(OctetSize)[j] = v[i]
                                /\ v[i] \in Nat
<1>. DEFINE n == Len(s)
            B == PowersOf(OctetSize)
            T == {j \in Nat : \A i \in 0 .. n : i + j = n => v[n] \div B[j] = v[i]}
<1>0. n \in Nat /\ OctetSize \in Nat \ {0}
  BY OctetSizes
<1>1. v \in [0 .. n -> Nat] /\ \A i \in 0 .. n - 1 : v[i + 1] = (v[i] * OctetSize) + s[i + 1]
  BY DEF Numbers
<1>2. \A i \in 1 .. n : s[i] \in 0 .. OctetSize - 1
  BY OctetSizes
<1>3. B[0] = 1 /\ \A k \in Nat : B[k] \in Nat \ {0} /\ B[k + 1] = OctetSize * B[k]
  BY OctetPowers
<1>. HIDE DEF n, B
<1>4. 0 \in T
  <2>1. v[n] \in Nat
    BY <1>0, <1>1
  <2>2. v[n] \div 1 = v[n]
    BY <2>1
  <2>3. \A i \in 0 .. n : i + 0 = n => i = n
    BY <1>0
  <2>. QED
    BY <1>3, <2>2, <2>3
<1>5. ASSUME NEW j \in Nat, j \in T
      PROVE  j + 1 \in T
  <2>. SUFFICES ASSUME NEW i \in 0 .. n, i + (j + 1) = n
                PROVE  v[n] \div B[j + 1] = v[i]
    OBVIOUS
  <2>1. i \in 0 .. n - 1 /\ i + 1 \in 0 .. n /\ (i + 1) + j = n /\ i + 1 \in 1 .. n
    BY <1>0
  <2>2. v[n] \div B[j] = v[i + 1]
    BY <1>5, <2>1
  <2>3. v[n] \in Nat /\ v[i] \in Nat /\ s[i + 1] \in 0 .. OctetSize - 1
    BY <1>0, <1>1, <1>2, <2>1
  <2>4. v[n] \div (OctetSize * B[j]) = (v[n] \div B[j]) \div OctetSize
    <3>1. v[n] \in Nat /\ OctetSize \in Nat \ {0} /\ B[j] \in Nat \ {0}
      BY <1>0, <1>3, <2>3
    <3>. QED
      BY <3>1, QuotientOfQuotient
  <2>5. ((v[i] * OctetSize) + s[i + 1]) \div OctetSize = v[i]
    <3>. DEFINE x == v[i]
                y == s[i + 1]
    <3>1. x \in Nat /\ OctetSize \in Nat \ {0} /\ y \in Nat /\ y < OctetSize
      BY <1>0, <2>3
    <3>. HIDE DEF x, y
    <3>2. ((x * OctetSize) + y) \div OctetSize = x
      BY <3>1, QuotientIs
    <3>. QED
      BY <3>2 DEF x, y
  <2>. QED
    BY <1>1, <1>3, <2>1, <2>2, <2>4, <2>5
<1>6. Nat \subseteq T
  <2>. HIDE DEF T
  <2>. QED
    BY <1>4, <1>5, Induction
<1>. QED
  BY <1>1, <1>6 DEF n, B

(* How large a number is whose first octet has a bound.                    *)
LEMMA NumberBound ==
    ASSUME NEW s \in Seq(Octet)
    PROVE  /\ AsNumber(s) \in Nat
           /\ AsNumber(s) < PowersOf(OctetSize)[Len(s)]
           /\ \A f \in Nat : Len(s) > 0 /\ s[1] < f => AsNumber(s) < f * PowersOf(OctetSize)[Len(s) - 1]
<1>. DEFINE n == Len(s)
            B == PowersOf(OctetSize)
<1>0. n \in Nat /\ OctetSize \in Nat \ {0}
  BY OctetSizes
<1>1. PICK v : Numbers(v, s) /\ AsNumber(s) = v[n]
  BY NumberIs
<1>2. v \in [0 .. n -> Nat] /\ v[0] = 0 /\ \A i \in 0 .. n - 1 : v[i + 1] = (v[i] * OctetSize) + s[i + 1]
  BY <1>1 DEF Numbers
<1>3. B[0] = 1 /\ \A k \in Nat : B[k] \in Nat \ {0} /\ B[k + 1] = OctetSize * B[k]
  BY OctetPowers
<1>4. \A j \in Nat, i \in 0 .. n : i + j = n => v[n] \div B[j] = v[i]
  BY <1>1, NumberPrefix
<1>5. \A i \in 1 .. n : s[i] \in Nat
  BY OctetSizes
<1>. HIDE DEF n, B
<1>6. v[n] \in Nat
  BY <1>0, <1>2
<1>7. ASSUME NEW a \in Nat, NEW b \in Nat \ {0}, NEW f \in Nat, a \div b < f
      PROVE  a < f * b
  <2>1. a = ((a \div b) * b) + (a % b) /\ a % b < b /\ a % b \in Nat /\ a \div b \in Nat
    BY QuotientOf
  <2>. DEFINE q == a \div b
  <2>2. q + 1 =< f /\ q \in Nat
    BY <2>1, <1>7
  <2>. HIDE DEF q
  <2>3. (q + 1) * b =< f * b /\ (q + 1) * b = (q * b) + b
    BY <2>2
  <2>4. q * b \in Nat /\ f * b \in Nat
    BY <2>2
  <2>. QED
    BY <2>1, <2>3, <2>4 DEF q
<1>8. v[n] < B[n]
  <2>1. v[n] \div B[n] = 0
    BY <1>0, <1>2, <1>4
  <2>2. v[n] < 1 * B[n]
    <3>1. v[n] \div B[n] < 1 /\ B[n] \in Nat \ {0} /\ 1 \in Nat
      BY <1>0, <1>3, <2>1
    <3>. QED
      BY <1>6, <1>7, <3>1
  <2>3. B[n] \in Nat
    BY <1>0, <1>3
  <2>4. 1 * B[n] = B[n]
    BY <2>3
  <2>. QED
    BY <2>2, <2>4
<1>9. ASSUME NEW f \in Nat, n > 0, s[1] < f
      PROVE  v[n] < f * B[n - 1]
  <2>1. n - 1 \in Nat /\ 1 \in 0 .. n /\ 1 + (n - 1) = n /\ 0 \in 0 .. n - 1 /\ 1 \in 1 .. n
    BY <1>0, <1>9
  <2>2. v[n] \div B[n - 1] = v[1]
    BY <1>4, <2>1
  <2>3. v[0 + 1] = (v[0] * OctetSize) + s[0 + 1]
    BY <1>2, <2>1
  <2>4. v[1] = s[1]
    BY <1>0, <1>2, <1>5, <2>1, <2>3
  <2>5. v[n] \div B[n - 1] < f /\ B[n - 1] \in Nat \ {0}
    BY <1>3, <1>9, <2>1, <2>2, <2>4
  <2>. QED
    BY <1>6, <1>7, <2>5
<1>. QED
  BY <1>1, <1>6, <1>8, <1>9 DEF n, B

(* The octets of the number of octets are these, with zeros in front.      *)
LEMMA OctetsOfNumber ==
    ASSUME NEW s \in Seq(Octet), NEW k \in Nat, k >= Len(s)
    PROVE  \A j \in 1 .. k : AsOctets(AsNumber(s), k)[j] =
                IF j =< k - Len(s) THEN 0 ELSE s[j - (k - Len(s))]
<1>. DEFINE n == Len(s)
            B == PowersOf(OctetSize)
<1>0. n \in Nat /\ OctetSize \in Nat \ {0}
  BY OctetSizes
<1>1. PICK v : Numbers(v, s) /\ AsNumber(s) = v[n]
  BY NumberIs
<1>2. v \in [0 .. n -> Nat] /\ \A i \in 0 .. n - 1 : v[i + 1] = (v[i] * OctetSize) + s[i + 1]
  BY <1>1 DEF Numbers
<1>3. \A i \in Nat : B[i] \in Nat \ {0}
  BY OctetPowers
<1>4. \A j \in Nat, i \in 0 .. n : i + j = n => v[n] \div B[j] = v[i]
  BY <1>1, NumberPrefix
<1>5. \A i \in 1 .. n : s[i] \in 0 .. OctetSize - 1
  BY OctetSizes
<1>6. v[n] < B[n] /\ v[n] \in Nat
  BY <1>1, NumberBound
<1>. SUFFICES ASSUME NEW j \in 1 .. k
              PROVE  AsOctets(AsNumber(s), k)[j] = IF j =< k - n THEN 0 ELSE s[j - (k - n)]
  OBVIOUS
<1>7. AsOctets(AsNumber(s), k)[j] = (v[n] \div B[k - j]) % OctetSize
  BY <1>1 DEF AsOctets
<1>. HIDE DEF n, B
<1>8. CASE j =< k - n
  <2>1. k - j \in Nat /\ k - j = n + ((k - j) - n) /\ (k - j) - n \in Nat
    BY <1>0, <1>8
  <2>. DEFINE e == (k - j) - n
  <2>2. B[k - j] = B[n] * B[e]
    <3>. HIDE DEF e
    <3>1. OctetSize \in Int /\ e \in Nat /\ k - j = n + e
      BY <1>0, <2>1 DEF e
    <3>2. B[n + e] = B[n] * B[e]
      BY <1>0, <3>1, PowersOfSum DEF B
    <3>. QED
      BY <3>1, <3>2
  <2>3. B[n] \in Nat \ {0} /\ B[e] \in Nat \ {0} /\ B[k - j] \in Nat \ {0}
    BY <1>0, <1>3, <2>1
  <2>. HIDE DEF e
  <2>4. B[n] * B[e] >= B[n]
    BY <2>3
  <2>5. v[n] < B[k - j]
    BY <1>6, <2>2, <2>3, <2>4
  <2>6. v[n] \div B[k - j] = 0
    BY <1>6, <2>3, <2>5
  <2>7. 0 % OctetSize = 0
    BY <1>0
  <2>. QED
    BY <1>7, <1>8, <2>6, <2>7
<1>9. CASE j > k - n
  <2>. DEFINE i == j - (k - n)
  <2>1. i \in 1 .. n /\ i \in 0 .. n /\ k - j \in Nat /\ i + (k - j) = n /\ i - 1 \in 0 .. n - 1 /\ (i - 1) + 1 = i
        /\ i - 1 \in 0 .. n
    BY <1>0, <1>9
  <2>. HIDE DEF i
  <2>2. v[n] \div B[k - j] = v[i]
    BY <1>4, <2>1
  <2>3. v[(i - 1) + 1] = (v[i - 1] * OctetSize) + s[(i - 1) + 1]
    BY <1>2, <2>1
  <2>4. v[i - 1] \in Nat /\ s[i] \in Nat /\ s[i] < OctetSize
    BY <1>0, <1>2, <1>5, <2>1
  <2>5. ((v[i - 1] * OctetSize) + s[i]) % OctetSize = s[i]
    BY <1>0, <2>4, QuotientIs
  <2>6. AsOctets(AsNumber(s), k)[j] = s[i]
    BY <1>7, <2>1, <2>2, <2>3, <2>5
  <2>. QED
    BY <1>0, <1>9, <2>6 DEF i
<1>. QED
  BY <1>0, <1>8, <1>9

(* So that octets come back from their number.                             *)
LEMMA OctetsComeBack ==
    ASSUME NEW s \in Seq(Octet)
    PROVE  AsOctets(AsNumber(s), Len(s)) = s
<1>. DEFINE n == Len(s)
<1>1. n \in Nat
  OBVIOUS
<1>2. \A j \in 1 .. n : AsOctets(AsNumber(s), n)[j] = IF j =< n - n THEN 0 ELSE s[j - (n - n)]
  BY <1>1, OctetsOfNumber
<1>3. \A j \in 1 .. n : ~ (j =< n - n) /\ j - (n - n) = j
  BY <1>1
<1>4. \A j \in 1 .. n : AsOctets(AsNumber(s), n)[j] = s[j]
  BY <1>2, <1>3
<1>5. AsOctets(AsNumber(s), n) = [j \in 1 .. n |-> AsOctets(AsNumber(s), n)[j]]
  BY DEF AsOctets
<1>6. s = [j \in 1 .. n |-> s[j]]
  OBVIOUS
<1>. HIDE DEF n
<1>7. AsOctets(AsNumber(s), n) = s
  BY <1>4, <1>5, <1>6
<1>. QED
  BY <1>7 DEF n

(* Octets of a number, and the number of these.                            *)
LEMMA OctetsType ==
    ASSUME NEW a \in Nat, NEW k \in Nat
    PROVE  AsOctets(a, k) \in Seq(Octet) /\ Len(AsOctets(a, k)) = k /\ DOMAIN AsOctets(a, k) = 1 .. k
<1>1. \A j \in 1 .. k : (a \div PowersOf(OctetSize)[k - j]) % OctetSize \in Octet
  <2>. SUFFICES ASSUME NEW j \in 1 .. k
                PROVE  (a \div PowersOf(OctetSize)[k - j]) % OctetSize \in Octet
    OBVIOUS
  <2>. DEFINE b == PowersOf(OctetSize)[k - j]
  <2>1. k - j \in Nat
    OBVIOUS
  <2>2. b \in Nat \ {0} /\ OctetSize \in Nat \ {0} /\ Octet = 0 .. OctetSize - 1
    BY <2>1, OctetPowers, OctetSizes
  <2>. HIDE DEF b
  <2>3. a \div b \in Nat
    BY <2>2, QuotientOf
  <2>4. (a \div b) % OctetSize \in 0 .. OctetSize - 1
    BY <2>2, <2>3
  <2>. QED
    BY <2>2, <2>4 DEF b
<1>2. AsOctets(a, k) \in [1 .. k -> Octet]
  BY <1>1 DEF AsOctets
<1>. QED
  BY <1>2

LEMMA NumberOfOctets ==
    ASSUME NEW a \in Nat, NEW k \in Nat, a < PowersOf(OctetSize)[k]
    PROVE  AsNumber(AsOctets(a, k)) = a
<1>. DEFINE s == AsOctets(a, k)
            B == PowersOf(OctetSize)
<1>0. s \in Seq(Octet) /\ Len(s) = k /\ OctetSize \in Nat \ {0}
  BY OctetsType, OctetSizes
<1>1. \A j \in 1 .. k : s[j] = (a \div B[k - j]) % OctetSize
  BY DEF AsOctets
<1>. HIDE DEF s
<1>2. PICK v : Numbers(v, s) /\ AsNumber(s) = v[k]
  BY <1>0, NumberIs
<1>3. v \in [0 .. k -> Nat] /\ v[0] = 0 /\ \A i \in 0 .. k - 1 : v[i + 1] = (v[i] * OctetSize) + s[i + 1]
  BY <1>0, <1>2 DEF Numbers
<1>4. B[0] = 1 /\ \A i \in Nat : B[i] \in Nat \ {0} /\ B[i + 1] = OctetSize * B[i]
  BY OctetPowers
<1>5. a < B[k]
  OBVIOUS
<1>. HIDE DEF B
<1>. DEFINE T == {i \in Nat : i =< k => v[i] = a \div B[k - i]}
<1>6. 0 \in T
  <2>1. k - 0 = k /\ B[k] \in Nat \ {0}
    BY <1>4
  <2>2. a \div B[k] = 0
    BY <1>5, <2>1
  <2>. QED
    BY <1>3, <2>1, <2>2
<1>7. ASSUME NEW i \in Nat, i \in T
      PROVE  i + 1 \in T
  <2>. SUFFICES ASSUME i + 1 =< k
                PROVE  v[i + 1] = a \div B[k - (i + 1)]
    OBVIOUS
  <2>. DEFINE j == k - (i + 1)
              x == a \div B[j]
  <2>1. j \in Nat /\ k - i = j + 1 /\ i \in 0 .. k - 1 /\ i + 1 \in 1 .. k
    OBVIOUS
  <2>2. v[i] = a \div B[j + 1] /\ v[i + 1] = (v[i] * OctetSize) + s[i + 1]
    BY <1>3, <1>7, <2>1
  <2>3. s[i + 1] = x % OctetSize
    BY <1>1, <2>1
  <2>. HIDE DEF j
  <2>4. B[j] \in Nat \ {0} /\ B[j + 1] = OctetSize * B[j]
    BY <1>4, <2>1
  <2>5. a \div (OctetSize * B[j]) = x \div OctetSize
    BY <1>0, <2>4, QuotientOfQuotient
  <2>6. x \in Nat
    BY <2>4, QuotientOf
  <2>. HIDE DEF x
  <2>7. x = ((x \div OctetSize) * OctetSize) + (x % OctetSize)
    BY <1>0, <2>6, QuotientOf
  <2>8. v[i] = x \div OctetSize
    BY <2>2, <2>4, <2>5
  <2>. QED
    BY <2>2, <2>3, <2>7, <2>8 DEF x, j
<1>8. Nat \subseteq T
  <2>. HIDE DEF T
  <2>. QED
    BY <1>6, <1>7, Induction
<1>9. k - k = 0 /\ a \div 1 = a
  OBVIOUS
<1>10. v[k] = a
  BY <1>4, <1>8, <1>9
<1>. QED
  BY <1>2, <1>10 DEF s

(* A number has just as many octets.                                       *)
LEMMA OctetLengthIs ==
    ASSUME NEW a \in Nat \ {0}
    PROVE  /\ BitLength(a) \in Nat \ {0} /\ OctetLength(a) \in Nat \ {0}
           /\ PowersOf(2)[BitLength(a) - 1] =< a
           /\ PowersOf(OctetSize)[OctetLength(a) - 1] =< a
           /\ a < PowersOf(OctetSize)[OctetLength(a)]
<1>. DEFINE b == BitLength(a)
            k == OctetLength(a)
            m == OctetBits
<1>0. m \in Nat /\ m >= 2
  BY SchemesAssumption
<1>1. b \in Nat /\ a < PowersOf(2)[b] /\ (b > 0 => a >= PowersOf(2)[b - 1])
  BY BitLengthFits
<1>2. b # 0
  BY <1>1, PowersGrow
<1>3. k = ((b + m) - 1) \div m
  BY DEF OctetLength, OctetsFor
<1>. HIDE DEF b, k, m
<1>. DEFINE c == (b + m) - 1
            r == c % m
<1>4. c \in Nat /\ m \in Nat \ {0}
  BY <1>0, <1>1, <1>2
<1>5. k \in Nat /\ r \in Nat /\ r < m /\ c = (k * m) + r
  BY <1>3, <1>4, QuotientOf
<1>6. k # 0
  <2>. SUFFICES ASSUME k = 0
                PROVE  FALSE
    OBVIOUS
  <2>1. 0 * m = 0
    BY <1>4
  <2>2. c = r
    BY <1>5, <2>1
  <2>. HIDE DEF r
  <2>. QED
    BY <1>0, <1>1, <1>2, <1>5, <2>2
<1>. HIDE DEF r
<1>7. m * k \in Nat /\ m * (k - 1) \in Nat /\ m * k >= b /\ m * (k - 1) =< b - 1 /\ k - 1 \in Nat /\ b - 1 \in Nat
  <2>1. k * m = m * k /\ m * (k - 1) = (m * k) - m /\ k - 1 \in Nat /\ m * k \in Nat
    BY <1>4, <1>5, <1>6
  <2>2. m * (k - 1) \in Nat
    BY <1>4, <2>1
  <2>. QED
    BY <1>0, <1>1, <1>2, <1>5, <2>1, <2>2
<1>8. PowersOf(2)[b] =< PowersOf(2)[m * k] /\ PowersOf(2)[m * (k - 1)] =< PowersOf(2)[b - 1]
  BY <1>1, <1>7, PowersGrow
<1>9. /\ PowersOf(2)[b] \in Nat /\ PowersOf(2)[m * k] \in Nat
      /\ PowersOf(2)[m * (k - 1)] \in Nat /\ PowersOf(2)[b - 1] \in Nat
  BY <1>1, <1>7, PowersOfTwo
<1>10. PowersOf(OctetSize)[k] = PowersOf(2)[m * k] /\ PowersOf(OctetSize)[k - 1] = PowersOf(2)[m * (k - 1)]
  BY <1>5, <1>7, OctetPowers DEF m
<1>. QED
  BY <1>1, <1>2, <1>5, <1>6, <1>8, <1>9, <1>10 DEF b, k

-----------------------------------------------------------------------------
(* Blocks of PKCS#1 v1.5                                                   *)

LEMMA Joined ==
    ASSUME NEW s \in Seq(Octet), NEW t \in Seq(Octet)
    PROVE  /\ s \o t \in Seq(Octet) /\ Len(s \o t) = Len(s) + Len(t)
           /\ \A i \in 1 .. Len(s) : (s \o t)[i] = s[i]
           /\ \A i \in 1 .. Len(t) : (s \o t)[Len(s) + i] = t[i]
<1>1. Len(s) \in Nat /\ Len(t) \in Nat
  OBVIOUS
<1>2. /\ s \o t \in Seq(Octet) /\ Len(s \o t) = Len(s) + Len(t)
      /\ \A i \in 1 .. Len(s) + Len(t) : (s \o t)[i] = IF i <= Len(s) THEN s[i] ELSE t[i - Len(s)]
  BY ConcatProperties
<1>3. \A i \in 1 .. Len(s) : i \in 1 .. Len(s) + Len(t) /\ i <= Len(s)
  BY <1>1
<1>4. \A i \in 1 .. Len(t) : /\ Len(s) + i \in 1 .. Len(s) + Len(t)
                             /\ ~ (Len(s) + i <= Len(s)) /\ (Len(s) + i) - Len(s) = i
  BY <1>1
<1>. QED
  BY <1>2, <1>3, <1>4

LEMMA Part ==
    ASSUME NEW s \in Seq(Octet), NEW i \in Nat \ {0}, NEW j \in Nat, j =< Len(s), i =< j + 1
    PROVE  /\ SubSeq(s, i, j) \in Seq(Octet) /\ Len(SubSeq(s, i, j)) = (j - i) + 1
           /\ \A l \in 1 .. (j - i) + 1 : SubSeq(s, i, j)[l] = s[(i + l) - 1]
<1>1. i \in Int /\ j \in Int /\ Len(s) \in Nat
  OBVIOUS
<1>2. \A l \in i .. j : s[l] \in Octet
  BY <1>1, ElementOfSeq
<1>3. /\ SubSeq(s, i, j) \in Seq(Octet)
      /\ Len(SubSeq(s, i, j)) = IF i <= j THEN j - i + 1 ELSE 0
      /\ \A l \in 1 .. j - i + 1 : SubSeq(s, i, j)[l] = s[i + l - 1]
  BY <1>1, <1>2, SubSeqProperties
<1>. QED
  BY <1>1, <1>3

(* The two parts of what is joined.                                        *)
LEMMA PartsOfJoined ==
    ASSUME NEW s \in Seq(Octet), NEW t \in Seq(Octet)
    PROVE  /\ SubSeq(s \o t, 1, Len(s)) = s
           /\ SubSeq(s \o t, Len(s) + 1, Len(s) + Len(t)) = t
<1>. DEFINE j == s \o t
            m == Len(s)
            n == Len(t)
<1>1. m \in Nat /\ n \in Nat
  OBVIOUS
<1>2. /\ j \in Seq(Octet) /\ Len(j) = m + n
      /\ \A i \in 1 .. m : j[i] = s[i]
      /\ \A i \in 1 .. n : j[m + i] = t[i]
  BY Joined
<1>. HIDE DEF j
<1>3. SubSeq(j, 1, m) = s
  <2>1. /\ SubSeq(j, 1, m) \in Seq(Octet) /\ Len(SubSeq(j, 1, m)) = (m - 1) + 1
        /\ \A l \in 1 .. (m - 1) + 1 : SubSeq(j, 1, m)[l] = j[(1 + l) - 1]
    <3>. DEFINE c == 1
    <3>1. c \in Nat \ {0} /\ m =< Len(j) /\ c =< m + 1
      BY <1>1, <1>2
    <3>. HIDE DEF c
    <3>2. /\ SubSeq(j, c, m) \in Seq(Octet) /\ Len(SubSeq(j, c, m)) = (m - c) + 1
          /\ \A l \in 1 .. (m - c) + 1 : SubSeq(j, c, m)[l] = j[(c + l) - 1]
      BY <1>1, <1>2, <3>1, Part
    <3>. QED
      BY <3>2 DEF c
  <2>2. (m - 1) + 1 = m /\ \A l \in 1 .. m : (1 + l) - 1 = l
    BY <1>1
  <2>3. Len(SubSeq(j, 1, m)) = m /\ \A l \in 1 .. m : SubSeq(j, 1, m)[l] = s[l]
    BY <1>2, <2>1, <2>2
  <2>. QED
    BY <2>1, <2>3, SeqEqual
<1>4. SubSeq(j, m + 1, m + n) = t
  <2>. DEFINE c == m + 1
              e == m + n
  <2>1. c \in Nat \ {0} /\ e \in Nat /\ e =< Len(j) /\ c =< e + 1
    BY <1>1, <1>2
  <2>2. (e - c) + 1 = n /\ \A l \in 1 .. n : (c + l) - 1 = m + l
    BY <1>1
  <2>. HIDE DEF c, e
  <2>3. /\ SubSeq(j, c, e) \in Seq(Octet) /\ Len(SubSeq(j, c, e)) = (e - c) + 1
        /\ \A l \in 1 .. (e - c) + 1 : SubSeq(j, c, e)[l] = j[(c + l) - 1]
    BY <1>2, <2>1, Part
  <2>4. Len(SubSeq(j, c, e)) = n /\ \A l \in 1 .. n : SubSeq(j, c, e)[l] = t[l]
    BY <1>2, <2>2, <2>3
  <2>5. SubSeq(j, c, e) = t
    BY <2>3, <2>4, SeqEqual
  <2>. QED
    BY <2>5 DEF c, e
<1>. QED
  BY <1>3, <1>4 DEF j

LEMMA RepeatedIs ==
    ASSUME NEW o \in Octet, NEW n \in Nat
    PROVE  /\ Repeated(o, n) \in Seq(Octet) /\ Len(Repeated(o, n)) = n
           /\ \A i \in 1 .. n : Repeated(o, n)[i] = o
<1>1. Repeated(o, n) \in [1 .. n -> Octet]
  BY DEF Repeated
<1>2. \A i \in 1 .. n : Repeated(o, n)[i] = o
  BY DEF Repeated
<1>. QED
  BY <1>1, <1>2

(* What is drawn again is not zero.                                        *)
LEMMA DrawnAre ==
    ASSUME NEW s \in Seq(Octet)
    PROVE  DrawnNonZero(s) \in Seq(Octet \ {0})
<1>. DEFINE n == Len(s)
            V == Seq(Octet \ {0})
            E(f, i) == IF i = 0 THEN <<>>
                       ELSE IF s[i] = 0 THEN f[i - 1] ELSE Append(f[i - 1], s[i])
            Is(f) == f = [i \in 0 .. n |-> E(f, i)]
            c == <<>>
            G == [i \in Nat |-> [x \in V |-> IF i < n THEN (IF s[i + 1] = 0 THEN x ELSE Append(x, s[i + 1])) ELSE x]]
<1>0. n \in Nat /\ c \in V
  OBVIOUS
<1>1. \A i \in 0 .. n - 1 : s[i + 1] \in Octet
  BY <1>0, ElementOfSeq
<1>. HIDE DEF n
<1>2. \A i \in Nat, x \in V : /\ G[i][x] \in V
                              /\ i < n => G[i][x] = IF s[i + 1] = 0 THEN x ELSE Append(x, s[i + 1])
  <2>. SUFFICES ASSUME NEW i \in Nat, NEW x \in V
                PROVE  /\ G[i][x] \in V
                       /\ i < n => G[i][x] = IF s[i + 1] = 0 THEN x ELSE Append(x, s[i + 1])
    OBVIOUS
  <2>1. G[i][x] = IF i < n THEN (IF s[i + 1] = 0 THEN x ELSE Append(x, s[i + 1])) ELSE x
    OBVIOUS
  <2>2. i < n => s[i + 1] \in Octet
    BY <1>0, <1>1
  <2>. QED
    BY <2>1, <2>2
<1>3. IsWay(G, V)
  <2>1. \A i \in Nat : G[i] = [x \in V |-> G[i][x]]
    OBVIOUS
  <2>2. G = [i \in Nat |-> G[i]]
    OBVIOUS
  <2>. HIDE DEF G, V
  <2>3. \A i \in Nat : G[i] \in [V -> V]
    BY <1>2, <2>1
  <2>. QED
    BY <2>2, <2>3 DEF IsWay
<1>. HIDE DEF G, V, c
<1>4. PICK f : GoesOnFrom(f, V, c, G)
  BY <1>0, <1>3, RecursionExists
<1>5. f \in [Nat -> V] /\ f[0] = c /\ \A i \in Nat : f[i + 1] = G[i][f[i]]
  BY <1>4 DEF GoesOnFrom
<1>. DEFINE g == [i \in 0 .. n |-> f[i]]
<1>6. ASSUME NEW i \in 0 .. n
      PROVE  g[i] = E(g, i)
  <2>1. CASE i = 0
    BY <1>5, <2>1 DEF c
  <2>2. CASE i # 0
    <3>1. i - 1 \in Nat /\ (i - 1) + 1 = i /\ i - 1 < n /\ i - 1 \in 0 .. n
      BY <1>0, <2>2
    <3>2. f[i - 1] \in V /\ f[(i - 1) + 1] = G[i - 1][f[i - 1]]
      BY <1>5, <3>1
    <3>3. G[i - 1][f[i - 1]] = IF s[(i - 1) + 1] = 0 THEN f[i - 1] ELSE Append(f[i - 1], s[(i - 1) + 1])
      BY <1>2, <3>1, <3>2
    <3>. QED
      BY <2>2, <3>1, <3>2, <3>3
  <2>. QED
    BY <2>1, <2>2
<1>7. Is(g)
  <2>1. g = [i \in 0 .. n |-> g[i]]
    OBVIOUS
  <2>. HIDE DEF g, E
  <2>. QED
    BY <1>6, <2>1
<1>. DEFINE v == CHOOSE h : Is(h)
<1>8. Is(v)
  <2>. HIDE DEF Is, g
  <2>. QED
    BY <1>7
<1>9. DrawnNonZero(s) = v[n]
  BY DEF DrawnNonZero, n
<1>. HIDE DEF v
<1>10. v[0] = c /\ \A i \in 0 .. n - 1 : v[i + 1] = IF s[i + 1] = 0 THEN v[i] ELSE Append(v[i], s[i + 1])
  <2>1. v[0] = c
    BY <1>0, <1>8 DEF c
  <2>. SUFFICES ASSUME NEW i \in 0 .. n - 1
                PROVE  v[i + 1] = IF s[i + 1] = 0 THEN v[i] ELSE Append(v[i], s[i + 1])
    BY <2>1
  <2>2. i + 1 \in 0 .. n /\ i + 1 # 0 /\ (i + 1) - 1 = i
    BY <1>0
  <2>. QED
    BY <1>8, <2>2
<1>. HIDE DEF Is
<1>. DEFINE T == {i \in Nat : i =< n => v[i] \in V}
<1>11. ASSUME NEW i \in Nat, i \in T
       PROVE  i + 1 \in T
  <2>. SUFFICES ASSUME i + 1 =< n
                PROVE  v[i + 1] \in V
    OBVIOUS
  <2>1. i \in 0 .. n - 1 /\ v[i] \in V
    BY <1>0, <1>11
  <2>2. s[i + 1] \in Octet
    BY <1>1, <2>1
  <2>3. v[i + 1] = IF s[i + 1] = 0 THEN v[i] ELSE Append(v[i], s[i + 1])
    BY <1>10, <2>1
  <2>. QED
    BY <2>1, <2>2, <2>3 DEF V
<1>12. Nat \subseteq T
  <2>1. 0 \in T
    BY <1>0, <1>10
  <2>. HIDE DEF T
  <2>. QED
    BY <1>11, <2>1, Induction
<1>13. v[n] \in V
  BY <1>0, <1>12
<1>. QED
  BY <1>9, <1>13 DEF V

LEMMA NonZeroIs ==
    ASSUME NEW s \in Seq(Octet), NEW n \in Nat, n =< Len(DrawnNonZero(s))
    PROVE  /\ NonZero(s, n) \in Seq(Octet) /\ Len(NonZero(s, n)) = n
           /\ \A i \in 1 .. n : NonZero(s, n)[i] # 0
<1>. DEFINE d == DrawnNonZero(s)
            c == 1
<1>1. d \in Seq(Octet \ {0})
  BY DrawnAre
<1>2. d \in Seq(Octet) /\ \A i \in 1 .. Len(d) : d[i] # 0
  <2>. HIDE DEF d
  <2>1. \A i \in 1 .. Len(d) : d[i] \in Octet \ {0}
    BY <1>1, ElementOfSeq
  <2>. QED
    BY <1>1, <2>1
<1>3. n =< Len(d) /\ c \in Nat \ {0} /\ c =< n + 1
  OBVIOUS
<1>4. NonZero(s, n) = SubSeq(d, c, n)
  BY DEF NonZero
<1>. HIDE DEF d, c
<1>5. /\ SubSeq(d, c, n) \in Seq(Octet) /\ Len(SubSeq(d, c, n)) = (n - c) + 1
      /\ \A l \in 1 .. (n - c) + 1 : SubSeq(d, c, n)[l] = d[(c + l) - 1]
  BY <1>2, <1>3, Part
<1>6. (n - c) + 1 = n /\ \A l \in 1 .. n : (c + l) - 1 = l /\ l \in 1 .. Len(d)
  <2>1. Len(d) \in Nat
    BY <1>2
  <2>. QED
    BY <1>3, <2>1 DEF c
<1>. QED
  BY <1>2, <1>4, <1>5, <1>6

(* Of four parts, of which two are single octets.                          *)
BlockOf(type, padding, message) == <<0, type>> \o padding \o <<0>> \o message

LEMMA BlockOfIs ==
    ASSUME NEW type \in Octet, NEW padding \in Seq(Octet), NEW message \in Seq(Octet)
    PROVE  LET em == BlockOf(type, padding, message)
               p == Len(padding)
           IN  /\ em \in Seq(Octet) /\ Len(em) = (p + 3) + Len(message)
               /\ em[1] = 0 /\ em[2] = type /\ em[p + 3] = 0
               /\ \A i \in 3 .. p + 2 : em[i] = padding[i - 2]
               /\ SubSeq(em, p + 4, Len(em)) = message
<1>. DEFINE p == Len(padding)
            a == <<0, type>>
            b == a \o padding
            z == <<0>>
            c == b \o z
            em == c \o message
<1>1. a \in Seq(Octet) /\ z \in Seq(Octet) /\ Len(a) = 2 /\ Len(z) = 1 /\ a[1] = 0 /\ a[2] = type /\ z[1] = 0
  <2>1. 0 \in Octet
    BY OctetSizes
  <2>. QED
    BY <2>1
<1>2. p \in Nat /\ Len(message) \in Nat
  OBVIOUS
<1>. HIDE DEF a, z, p
<1>3. /\ b \in Seq(Octet) /\ Len(b) = 2 + p
      /\ \A i \in 1 .. 2 : b[i] = a[i]
      /\ \A i \in 1 .. p : b[2 + i] = padding[i]
  <2>1. /\ b \in Seq(Octet) /\ Len(b) = Len(a) + Len(padding)
        /\ \A i \in 1 .. Len(a) : b[i] = a[i]
        /\ \A i \in 1 .. Len(padding) : b[Len(a) + i] = padding[i]
    BY <1>1, Joined
  <2>. HIDE DEF b
  <2>. QED
    BY <1>1, <2>1 DEF p
<1>. HIDE DEF b
<1>4. /\ c \in Seq(Octet) /\ Len(c) = (2 + p) + 1
      /\ \A i \in 1 .. 2 + p : c[i] = b[i]
      /\ c[(2 + p) + 1] = z[1]
  <2>1. /\ c \in Seq(Octet) /\ Len(c) = Len(b) + Len(z)
        /\ \A i \in 1 .. Len(b) : c[i] = b[i]
        /\ \A i \in 1 .. Len(z) : c[Len(b) + i] = z[i]
    BY <1>1, <1>3, Joined
  <2>2. 1 \in 1 .. Len(z)
    BY <1>1
  <2>. QED
    BY <1>1, <1>3, <2>1, <2>2
<1>. HIDE DEF c
<1>5. /\ em \in Seq(Octet) /\ Len(em) = Len(c) + Len(message)
      /\ \A i \in 1 .. Len(c) : em[i] = c[i]
      /\ SubSeq(em, Len(c) + 1, Len(c) + Len(message)) = message
  BY <1>4, Joined, PartsOfJoined
<1>6. BlockOf(type, padding, message) = em
  BY DEF BlockOf, em, c, b, a, z
<1>. HIDE DEF em
<1>7. Len(c) = p + 3 /\ Len(em) = (p + 3) + Len(message) /\ Len(c) + 1 = p + 4
  BY <1>2, <1>4, <1>5
<1>8. em[1] = 0 /\ em[2] = type /\ em[p + 3] = 0
  <2>1. 1 \in 1 .. Len(c) /\ 2 \in 1 .. Len(c) /\ p + 3 \in 1 .. Len(c)
        /\ 1 \in 1 .. 2 + p /\ 2 \in 1 .. 2 + p /\ (2 + p) + 1 = p + 3 /\ 1 \in 1 .. 2 /\ 2 \in 1 .. 2
    BY <1>2, <1>7
  <2>2. em[1] = c[1] /\ em[2] = c[2] /\ em[p + 3] = c[p + 3] /\ c[1] = b[1] /\ c[2] = b[2] /\ b[1] = a[1] /\ b[2] = a[2]
    BY <1>3, <1>4, <1>5, <2>1
  <2>. QED
    BY <1>1, <1>4, <2>1, <2>2
<1>9. ASSUME NEW i \in 3 .. p + 2
      PROVE  em[i] = padding[i - 2]
  <2>1. i \in 1 .. Len(c) /\ i \in 1 .. 2 + p /\ i - 2 \in 1 .. p /\ 2 + (i - 2) = i
    BY <1>2, <1>7
  <2>. QED
    BY <1>3, <1>4, <1>5, <2>1
<1>10. SubSeq(em, p + 4, Len(em)) = message
  BY <1>5, <1>7
<1>. QED
  BY <1>5, <1>6, <1>7, <1>8, <1>9, <1>10 DEF p

TypeOctets == {1, 2}

(* A block is made when the message fits, as the standard has it.          *)
LEMMA Encoded15 ==
    ASSUME NEW m \in Seq(Octet), NEW k \in Nat, NEW type \in TypeOctets, NEW stream \in Seq(Octet),
           Len(DrawnNonZero(stream)) >= k - 3
    PROVE  /\ (k - 3) - Len(m) < MinPadding => encodePkcs1v15(m, k, type, stream) = NoBlock
           /\ (k - 3) - Len(m) >= MinPadding =>
                \E em \in Seq(Octet) : /\ encodePkcs1v15(m, k, type, stream) = <<em>>
                                       /\ IsBlockOf(em, type, m, k)
<1>. DEFINE p == (k - 3) - Len(m)
            padding == IF type = 2 THEN NonZero(stream, p) ELSE Repeated(OctetSize - 1, p)
            em == BlockOf(type, padding, m)
<1>0. Len(m) \in Nat /\ p \in Int /\ type \in Octet /\ MinPadding \in Nat /\ p = k - 3 - Len(m)
  BY OctetSizes, SchemesAssumption DEF TypeOctets
<1>1. encodePkcs1v15(m, k, type, stream) = IF p < MinPadding THEN NoBlock ELSE <<em>>
  BY <1>0 DEF encodePkcs1v15, BlockOf
<1>. HIDE DEF em
<1>2. CASE p < MinPadding
  BY <1>0, <1>1, <1>2
<1>3. CASE p >= MinPadding
  <2>1. p \in Nat /\ p =< k - 3
    BY <1>0, <1>3
  <2>2. /\ padding \in Seq(Octet) /\ Len(padding) = p
        /\ \A i \in 1 .. p : IF type = 1 THEN padding[i] = OctetSize - 1 ELSE padding[i] # 0
    <3>. DEFINE l == Len(DrawnNonZero(stream))
    <3>1. CASE type = 2
      <4>1. l \in Nat /\ p =< l
        <5>1. l \in Nat
          <6>1. DrawnNonZero(stream) \in Seq(Octet \ {0})
            BY DrawnAre
          <6>. QED
            BY <6>1
        <5>. QED
          BY <2>1, <5>1
      <4>. HIDE DEF p
      <4>2. /\ NonZero(stream, p) \in Seq(Octet) /\ Len(NonZero(stream, p)) = p
            /\ \A i \in 1 .. p : NonZero(stream, p)[i] # 0
        BY <2>1, <4>1, NonZeroIs
      <4>. QED
        BY <3>1, <4>2
    <3>2. CASE type # 2
      <4>1. type = 1
        BY <3>2 DEF TypeOctets
      <4>2. OctetSize - 1 \in Octet
        BY OctetSizes
      <4>. HIDE DEF p
      <4>3. /\ Repeated(OctetSize - 1, p) \in Seq(Octet) /\ Len(Repeated(OctetSize - 1, p)) = p
            /\ \A i \in 1 .. p : Repeated(OctetSize - 1, p)[i] = OctetSize - 1
        BY <2>1, <4>2, RepeatedIs
      <4>. QED
        BY <3>2, <4>1, <4>3
    <3>. QED
      BY <3>1, <3>2
  <2>. HIDE DEF padding
  <2>3. /\ em \in Seq(Octet) /\ Len(em) = (p + 3) + Len(m)
        /\ em[1] = 0 /\ em[2] = type /\ em[p + 3] = 0
        /\ \A i \in 3 .. p + 2 : em[i] = padding[i - 2]
        /\ SubSeq(em, p + 4, Len(em)) = m
    <3>1. LET b == BlockOf(type, padding, m)
              l == Len(padding)
          IN  /\ b \in Seq(Octet) /\ Len(b) = (l + 3) + Len(m)
              /\ b[1] = 0 /\ b[2] = type /\ b[l + 3] = 0
              /\ \A i \in 3 .. l + 2 : b[i] = padding[i - 2]
              /\ SubSeq(b, l + 4, Len(b)) = m
      <4>1. type \in Octet /\ padding \in Seq(Octet)
        BY <1>0, <2>2
      <4>. HIDE DEF p
      <4>. QED
        BY <4>1, BlockOfIs, Zenon
    <3>2. Len(padding) = p /\ BlockOf(type, padding, m) = em
      BY <2>2 DEF em
    <3>. HIDE DEF p
    <3>. QED
      BY <3>1, <3>2
  <2>4. Len(em) = k
    BY <1>0, <2>3
  <2>5. \A i \in 3 .. p + 2 : IF type = 1 THEN em[i] = OctetSize - 1 ELSE em[i] # 0
    <3>. SUFFICES ASSUME NEW i \in 3 .. p + 2
                  PROVE  IF type = 1 THEN em[i] = OctetSize - 1 ELSE em[i] # 0
      OBVIOUS
    <3>1. i - 2 \in 1 .. p
      BY <2>1
    <3>. QED
      BY <2>2, <2>3, <3>1
  <2>6. IsBlockOf(em, type, m, k)
    <3>. HIDE DEF p
    <3>. QED
      BY <1>0, <1>3, <2>3, <2>4, <2>5 DEF IsBlockOf
  <2>. QED
    BY <1>0, <1>1, <1>3, <2>3, <2>6
<1>. QED
  BY <1>0, <1>2, <1>3

(* Whether octet i belongs to the padding.                                 *)
Pads(em, octet) == IF em[2] = 1 THEN octet = OctetSize - 1 ELSE octet # 0
PaddedTo(em, n) == \A i \in 3 .. n + 2 : Pads(em, em[i])

LEMMA PaddingLengthIs ==
    ASSUME NEW em \in Seq(Octet), Len(em) >= 3
    PROVE  /\ PaddingLength(em) \in 0 .. Len(em) - 3 /\ PaddedTo(em, PaddingLength(em))
           /\ \A n \in 0 .. Len(em) - 3 : PaddedTo(em, n) => n =< PaddingLength(em)
<1>. DEFINE l == Len(em) - 3
            S == {n \in 0 .. l : PaddedTo(em, n)}
            R == {i \in Nat : l - i \in S}
<1>1. l \in Nat
  OBVIOUS
<1>2. PaddingLength(em) = Max(S)
  BY DEF PaddingLength, PaddedTo, Pads
<1>. HIDE DEF l
<1>3. 0 \in S
  BY <1>1 DEF PaddedTo
<1>4. \A n \in S : n \in 0 .. l
  OBVIOUS
<1>5. \E i \in R : \A j \in R : i =< j
  <2>1. l - 0 = l /\ l - l = 0
    BY <1>1
  <2>2. l \in R
    BY <1>1, <1>3, <2>1
  <2>3. R \subseteq Nat /\ R # {}
    BY <2>2
  <2>. HIDE DEF R
  <2>. QED
    BY <2>3, LeastNatural
<1>. HIDE DEF S
<1>6. PICK i \in R : \A j \in R : i =< j
  BY <1>5
<1>7. \A n \in S : n =< l - i
  <2>. SUFFICES ASSUME NEW n \in S
                PROVE  n =< l - i
    OBVIOUS
  <2>1. l - n \in Nat /\ l - (l - n) = n /\ n \in Nat
    BY <1>1, <1>4
  <2>2. l - n \in R
    BY <2>1
  <2>3. i =< l - n
    BY <1>6, <2>2
  <2>. QED
    BY <1>1, <1>6, <2>1, <2>3
<1>8. \E x \in S : \A y \in S : x >= y
  <2>1. l - i \in S
    BY <1>6
  <2>2. \A y \in S : l - i >= y
    BY <1>1, <1>4, <1>6, <1>7
  <2>. QED
    BY <2>1, <2>2
<1>9. Max(S) \in S /\ \A y \in S : Max(S) >= y
  BY <1>8 DEF Max
<1>10. Max(S) \in 0 .. l
  BY <1>4, <1>9
<1>11. \A y \in S : y =< Max(S)
  BY <1>1, <1>4, <1>9, <1>10
<1>. QED
  BY <1>2, <1>9, <1>10, <1>11 DEF S, l

TypeFor(public) == IF public THEN 1 ELSE 2

(* What is read of a block is its message, and of no other octets anything.*)
LEMMA Decoded15 ==
    ASSUME NEW em \in Seq(Octet), NEW k \in Nat, k >= 3, Len(em) = k, NEW public \in BOOLEAN
    PROVE  /\ \A m \in Seq(Octet) : IsBlockOf(em, TypeFor(public), m, k) => decodePkcs1v15(em, k, public) = <<m>>
           /\ decodePkcs1v15(em, k, public) # NoBlock =>
                /\ decodePkcs1v15(em, k, public) = <<decodePkcs1v15(em, k, public)[1]>>
                /\ IsBlockOf(em, TypeFor(public), decodePkcs1v15(em, k, public)[1], k)
<1>. DEFINE t == TypeFor(public)
            p == PaddingLength(em)
            rest == SubSeq(em, p + 4, k)
            Good == /\ em[1] = 0 /\ em[2] = t /\ p >= MinPadding
                    /\ em[p + 3] = 0 /\ p = k - 3 - Len(rest)
<1>0. MinPadding \in Nat /\ OctetSize >= 4 /\ OctetSize \in Nat
  BY OctetSizes, SchemesAssumption
<1>1. decodePkcs1v15(em, k, public) = IF Good THEN <<rest>> ELSE NoBlock
  BY DEF decodePkcs1v15, LongEnough, TypeFor
<1>2. p \in 0 .. k - 3 /\ PaddedTo(em, p) /\ \A n \in 0 .. k - 3 : PaddedTo(em, n) => n =< p
  BY PaddingLengthIs
<1>3. t \in {1, 2}
  BY DEF TypeFor
<1>. HIDE DEF p, t
<1>4. rest \in Seq(Octet) /\ Len(rest) = (k - 3) - p
  <2>. DEFINE i == p + 4
  <2>1. i \in Nat \ {0} /\ i =< k + 1 /\ k =< Len(em) /\ (k - i) + 1 = (k - 3) - p
    BY <1>2
  <2>. HIDE DEF i
  <2>2. SubSeq(em, i, k) \in Seq(Octet) /\ Len(SubSeq(em, i, k)) = (k - i) + 1
    BY <2>1, Part
  <2>. QED
    BY <2>1, <2>2 DEF i
<1>5. ASSUME NEW m \in Seq(Octet), IsBlockOf(em, t, m, k)
      PROVE  decodePkcs1v15(em, k, public) = <<m>>
  <2>. DEFINE q == k - 3 - Len(m)
  <2>1. /\ q >= MinPadding /\ em[1] = 0 /\ em[2] = t /\ em[q + 3] = 0
        /\ \A i \in 3 .. q + 2 : IF t = 1 THEN em[i] = OctetSize - 1 ELSE em[i] # 0
        /\ SubSeq(em, q + 4, k) = m
    BY <1>5 DEF IsBlockOf
  <2>2. Len(m) \in Nat /\ q \in Int
    OBVIOUS
  <2>3. q \in 0 .. k - 3
    BY <1>0, <2>1, <2>2
  <2>. HIDE DEF q
  <2>4. PaddedTo(em, q)
    BY <2>1 DEF PaddedTo, Pads
  <2>5. q =< p
    BY <1>2, <2>3, <2>4
  <2>6. ~ Pads(em, em[q + 3])
    BY <1>0, <1>3, <2>1 DEF Pads
  <2>7. ~ (q < p)
    <3>. SUFFICES ASSUME q < p
                  PROVE  FALSE
      OBVIOUS
    <3>1. q + 3 \in 3 .. p + 2
      BY <1>2, <2>3
    <3>. QED
      BY <1>2, <2>6, <3>1 DEF PaddedTo
  <2>8. p = q
    BY <1>2, <2>3, <2>5, <2>7
  <2>9. rest = m
    BY <2>1, <2>8
  <2>10. Good
    BY <2>1, <2>8, <2>9 DEF q
  <2>. QED
    BY <1>1, <2>9, <2>10
<1>6. ASSUME Good
      PROVE  IsBlockOf(em, t, rest, k)
  <2>1. k - 3 - Len(rest) = p
    BY <1>6
  <2>2. \A i \in 3 .. p + 2 : IF t = 1 THEN em[i] = OctetSize - 1 ELSE em[i] # 0
    BY <1>2, <1>3, <1>6 DEF PaddedTo, Pads
  <2>. QED
    BY <1>6, <2>1, <2>2 DEF IsBlockOf
<1>7. NoBlock # <<rest>> /\ (<<rest>>)[1] = rest
  BY DEF NoBlock
<1>. HIDE DEF Good, rest
<1>. QED
  BY <1>1, <1>5, <1>6, <1>7 DEF t

-----------------------------------------------------------------------------
(* Exclusive or                                                            *)

LEMMA XorBitsIs ==
    \A a \in Nat, b \in Nat :
        /\ XorBits[0][a][b] = 0
        /\ \A n \in Nat : /\ XorBits[n][a][b] \in Nat
                          /\ XorBits[n + 1][a][b] = ((a + b) % 2) + (2 * XorBits[n][a \div 2][b \div 2])
<1>. DEFINE V == [Nat -> [Nat -> Nat]]
            E(f, n) == [a \in Nat |-> [b \in Nat |->
                            IF n = 0 THEN 0 ELSE ((a + b) % 2) + (2 * f[n - 1][a \div 2][b \div 2])]]
            Is(f) == f = [n \in Nat |-> E(f, n)]
            Step(x) == [a \in Nat |-> [b \in Nat |-> ((a + b) % 2) + (2 * x[a \div 2][b \div 2])]]
            c == [a \in Nat |-> [b \in Nat |-> 0]]
            G == [n \in Nat |-> [x \in V |-> Step(x)]]
<1>1. \A a \in Nat : a \div 2 \in Nat
  OBVIOUS
<1>2. ASSUME NEW x \in V
      PROVE  Step(x) \in V
  <2>1. ASSUME NEW a \in Nat, NEW b \in Nat
        PROVE  ((a + b) % 2) + (2 * x[a \div 2][b \div 2]) \in Nat
    <3>1. x[a \div 2][b \div 2] \in Nat
      BY <1>1
    <3>2. (a + b) % 2 \in Nat
      OBVIOUS
    <3>3. ASSUME NEW y \in Nat, NEW z \in Nat
          PROVE  y + (2 * z) \in Nat
      OBVIOUS
    <3>. QED
      BY <3>1, <3>2, <3>3
  <2>. QED
    BY <2>1
<1>3. c \in V
  OBVIOUS
<1>4. IsWay(G, V)
  <2>. HIDE DEF V, Step
  <2>. QED
    BY <1>2 DEF IsWay
<1>5. \A n \in Nat, x \in V : G[n][x] = Step(x)
  <2>. HIDE DEF V, Step
  <2>. QED
    OBVIOUS
<1>. HIDE DEF G, c
<1>6. PICK f : GoesOnFrom(f, V, c, G)
  <2>. HIDE DEF V
  <2>. QED
    BY <1>3, <1>4, RecursionExists
<1>7. f \in [Nat -> V] /\ f[0] = c /\ \A n \in Nat : f[n + 1] = G[n][f[n]]
  BY <1>6 DEF GoesOnFrom
<1>8. ASSUME NEW n \in Nat
      PROVE  f[n] = E(f, n)
  <2>1. CASE n = 0
    BY <1>7, <2>1 DEF c
  <2>2. CASE n # 0
    <3>1. n - 1 \in Nat /\ (n - 1) + 1 = n
      BY <2>2
    <3>2. f[n - 1] \in V /\ f[n] = G[n - 1][f[n - 1]]
      BY <1>7, <3>1
    <3>3. f[n] = Step(f[n - 1])
      <4>. HIDE DEF V, Step
      <4>. QED
        BY <1>5, <3>1, <3>2
    <3>4. E(f, n) = Step(f[n - 1])
      BY <2>2
    <3>. QED
      BY <3>3, <3>4
  <2>. QED
    BY <2>1, <2>2
<1>9. Is(f)
  <2>. HIDE DEF E
  <2>1. f = [n \in Nat |-> f[n]]
    BY <1>7
  <2>. QED
    BY <1>8, <2>1
<1>. DEFINE v == CHOOSE h : Is(h)
<1>10. Is(v)
  <2>. HIDE DEF Is
  <2>. QED
    BY <1>9
<1>11. XorBits = v
  BY DEF XorBits
<1>. HIDE DEF v
<1>12. \A n \in Nat : v[n] = E(v, n)
  <2>. HIDE DEF E
  <2>. QED
    BY <1>10
<1>13. v[0] = c
  BY <1>12 DEF c
<1>14. ASSUME NEW n \in Nat
       PROVE  v[n + 1] = Step(v[n])
  <2>1. n + 1 \in Nat /\ n + 1 # 0 /\ (n + 1) - 1 = n
    OBVIOUS
  <2>2. E(v, n + 1) = Step(v[(n + 1) - 1])
    BY <2>1
  <2>3. v[n + 1] = E(v, n + 1)
    <3>. HIDE DEF E
    <3>. QED
      BY <1>12, <2>1
  <2>. HIDE DEF Step, E
  <2>. QED
    BY <2>1, <2>2, <2>3
<1>. DEFINE T == {n \in Nat : v[n] \in V}
<1>15. Nat \subseteq T
  <2>. HIDE DEF V, Step
  <2>1. 0 \in T
    BY <1>3, <1>13
  <2>2. ASSUME NEW n \in Nat, n \in T
        PROVE  n + 1 \in T
    BY <1>2, <1>14, <2>2
  <2>. HIDE DEF T
  <2>. QED
    BY <2>1, <2>2, Induction
<1>16. \A n \in Nat : v[n] \in V
  <2>. HIDE DEF V
  <2>. QED
    BY <1>15
<1>17. ASSUME NEW a \in Nat, NEW b \in Nat
       PROVE  XorBits[0][a][b] = 0
  BY <1>11, <1>13 DEF c
<1>18. ASSUME NEW a \in Nat, NEW b \in Nat, NEW n \in Nat
       PROVE  /\ XorBits[n][a][b] \in Nat
              /\ XorBits[n + 1][a][b] = ((a + b) % 2) + (2 * XorBits[n][a \div 2][b \div 2])
  <2>1. v[n] \in V
    BY <1>16
  <2>2. v[n][a][b] \in Nat
    BY <2>1
  <2>3. Step(v[n])[a][b] = ((a + b) % 2) + (2 * v[n][a \div 2][b \div 2])
    OBVIOUS
  <2>. HIDE DEF Step
  <2>. QED
    BY <1>11, <1>14, <2>2, <2>3
<1>. QED
  BY <1>17, <1>18

(* A number is its lowest bit and the others.                              *)
LEMMA LowestBit ==
    ASSUME NEW r \in {0, 1}, NEW y \in Nat, NEW m \in Nat \ {0}
    PROVE  /\ (r + (2 * y)) % 2 = r /\ (r + (2 * y)) \div 2 = y
           /\ (r + (2 * y)) % (2 * m) = r + (2 * (y % m))
<1>1. (r + (2 * y)) % 2 = r /\ (r + (2 * y)) \div 2 = y
  OBVIOUS
<1>. DEFINE q == y \div m
            s == y % m
<1>2. q \in Nat /\ s \in Nat /\ s < m /\ y = (q * m) + s
  BY QuotientOf
<1>. HIDE DEF q, s
<1>3. r + (2 * y) = (q * (2 * m)) + (r + (2 * s))
  <2>1. q * m \in Nat /\ q * (2 * m) = 2 * (q * m)
    BY <1>2
  <2>. QED
    BY <1>2, <2>1
<1>4. 2 * m \in Nat \ {0} /\ r + (2 * s) \in Nat /\ r + (2 * s) < 2 * m
  BY <1>2
<1>5. ((q * (2 * m)) + (r + (2 * s))) % (2 * m) = r + (2 * s)
  BY <1>2, <1>4, QuotientIs
<1>. QED
  BY <1>1, <1>3, <1>5 DEF s

(* Of the low bits exclusive or is that of them, and it undoes itself.     *)
LEMMA XorBitsUndo ==
    \A n \in Nat, a \in Nat, b \in Nat :
        /\ XorBits[n][a][b] \in Nat /\ XorBits[n][a][b] < PowersOf(2)[n]
        /\ XorBits[n][XorBits[n][a][b]][b] = a % PowersOf(2)[n]
<1>. DEFINE X(n, a, b) == XorBits[n][a][b]
            P == PowersOf(2)
            Good(n, a, b) == X(n, a, b) < P[n] /\ X(n, X(n, a, b), b) = a % P[n]
            T == {n \in Nat : \A a \in Nat, b \in Nat : Good(n, a, b)}
<1>1. \A n \in Nat, a \in Nat, b \in Nat :
        X(0, a, b) = 0 /\ X(n, a, b) \in Nat /\ X(n + 1, a, b) = ((a + b) % 2) + (2 * X(n, a \div 2, b \div 2))
  BY XorBitsIs
<1>2. P[0] = 1 /\ \A n \in Nat : P[n] \in Nat \ {0} /\ P[n + 1] = 2 * P[n]
  BY PowersGrow, PowersOfTwo
<1>. HIDE DEF X, P
<1>3. 0 \in T
  <2>1. \A a \in Nat : a % 1 = 0
    OBVIOUS
  <2>2. \A a \in Nat, b \in Nat : Good(0, a, b)
    <3>. SUFFICES ASSUME NEW a \in Nat, NEW b \in Nat
                  PROVE  Good(0, a, b)
      OBVIOUS
    <3>1. 0 \in Nat
      OBVIOUS
    <3>2. X(0, a, b) = 0 /\ X(0, 0, b) = 0
      BY <1>1, <3>1
    <3>. QED
      BY <1>2, <2>1, <3>2
  <2>. HIDE DEF Good
  <2>. QED
    BY <2>2
<1>4. ASSUME NEW n \in Nat, n \in T
      PROVE  n + 1 \in T
  <2>. SUFFICES ASSUME NEW a \in Nat, NEW b \in Nat
                PROVE  Good(n + 1, a, b)
    OBVIOUS
  <2>. DEFINE u == a \div 2
              w == b \div 2
              r == (a + b) % 2
              y == X(n, u, w)
              x == r + (2 * y)
              B == P[n]
  <2>1. u \in Nat /\ w \in Nat /\ a = (a % 2) + (2 * u) /\ a % 2 \in {0, 1} /\ r \in {0, 1}
    OBVIOUS
  <2>2. y \in Nat /\ y < B /\ X(n, y, w) = u % B /\ B \in Nat \ {0} /\ P[n + 1] = 2 * B
    <3>. HIDE DEF u, w
    <3>. QED
      BY <1>1, <1>2, <1>4, <2>1
  <2>3. X(n + 1, a, b) = x
    BY <1>1
  <2>4. (r + b) % 2 = a % 2
    OBVIOUS
  <2>. HIDE DEF u, w, r, y, B
  <2>5. x \in Nat /\ x % 2 = r /\ x \div 2 = y
    <3>1. (r + (2 * y)) % 2 = r /\ (r + (2 * y)) \div 2 = y
      <4>. HIDE DEF x
      <4>. QED
        BY <2>1, <2>2, LowestBit
    <3>2. x \in Nat
      BY <2>1, <2>2
    <3>. QED
      BY <3>1, <3>2
  <2>6. x < 2 * B
    BY <2>1, <2>2
  <2>7. X(n + 1, x, b) = ((x + b) % 2) + (2 * X(n, y, w))
    <3>. HIDE DEF x
    <3>. QED
      BY <1>1, <2>5 DEF w
  <2>8. (x + b) % 2 = (r + b) % 2
    BY <2>1, <2>2
  <2>9. a % (2 * B) = (a % 2) + (2 * (u % B))
    <3>. DEFINE t == a % 2
    <3>1. t \in {0, 1} /\ a = t + (2 * u)
      BY <2>1
    <3>. HIDE DEF t
    <3>2. (t + (2 * u)) % (2 * B) = t + (2 * (u % B))
      BY <2>1, <2>2, <3>1, LowestBit
    <3>. QED
      BY <3>1, <3>2 DEF t
  <2>10. X(n + 1, x, b) = (a % 2) + (2 * (u % B))
    BY <2>2, <2>4, <2>7, <2>8
  <2>. HIDE DEF x
  <2>. QED
    BY <2>2, <2>3, <2>6, <2>9, <2>10
<1>5. Nat \subseteq T
  <2>. HIDE DEF T
  <2>. QED
    BY <1>3, <1>4, Induction
<1>. QED
  BY <1>1, <1>5 DEF X, P

LEMMA XorBitsLow ==
    ASSUME NEW j \in Nat
    PROVE  \A n \in Nat, a \in Nat, b \in Nat : XorBits[n + j][a][b] % PowersOf(2)[n] = XorBits[n][a][b]
<1>. DEFINE X(n, a, b) == XorBits[n][a][b]
            P == PowersOf(2)
            T == {n \in Nat : \A a \in Nat, b \in Nat : X(n + j, a, b) % P[n] = X(n, a, b)}
<1>1. \A n \in Nat, a \in Nat, b \in Nat :
        X(0, a, b) = 0 /\ X(n, a, b) \in Nat /\ X(n + 1, a, b) = ((a + b) % 2) + (2 * X(n, a \div 2, b \div 2))
  BY XorBitsIs
<1>2. P[0] = 1 /\ \A n \in Nat : P[n] \in Nat \ {0} /\ P[n + 1] = 2 * P[n]
  BY PowersGrow, PowersOfTwo
<1>. HIDE DEF X, P
<1>3. 0 \in T
  <2>1. \A a \in Nat : a % 1 = 0
    OBVIOUS
  <2>2. 0 + j \in Nat
    OBVIOUS
  <2>3. \A a \in Nat, b \in Nat : X(0 + j, a, b) % P[0] = X(0, a, b)
    <3>. SUFFICES ASSUME NEW a \in Nat, NEW b \in Nat
                  PROVE  X(0 + j, a, b) % P[0] = X(0, a, b)
      OBVIOUS
    <3>. DEFINE i == 0 + j
    <3>. HIDE DEF i
    <3>1. X(i, a, b) \in Nat /\ X(0, a, b) = 0
      BY <1>1, <2>2 DEF i
    <3>2. X(i, a, b) % 1 = 0
      BY <2>1, <3>1
    <3>. QED
      BY <1>2, <3>1, <3>2 DEF i
  <2>. QED
    BY <2>3
<1>4. ASSUME NEW n \in Nat, n \in T
      PROVE  n + 1 \in T
  <2>. SUFFICES ASSUME NEW a \in Nat, NEW b \in Nat
                PROVE  X((n + 1) + j, a, b) % P[n + 1] = X(n + 1, a, b)
    OBVIOUS
  <2>. DEFINE u == a \div 2
              w == b \div 2
              r == (a + b) % 2
              y == X(n + j, u, w)
              B == P[n]
  <2>1. u \in Nat /\ w \in Nat /\ r \in {0, 1} /\ n + j \in Nat /\ (n + 1) + j = (n + j) + 1
    OBVIOUS
  <2>2. X((n + j) + 1, a, b) = r + (2 * y) /\ X(n + 1, a, b) = r + (2 * X(n, u, w))
    <3>. DEFINE l == n + j
    <3>1. l \in Nat
      OBVIOUS
    <3>. HIDE DEF l
    <3>2. X(l + 1, a, b) = r + (2 * X(l, u, w))
      BY <1>1, <3>1, ZenonT(60)
    <3>3. X(n + 1, a, b) = r + (2 * X(n, u, w))
      BY <1>1, ZenonT(60)
    <3>. QED
      BY <3>2, <3>3 DEF l
  <2>. HIDE DEF u, w, r, B
  <2>3. y \in Nat /\ y % B = X(n, u, w) /\ B \in Nat \ {0} /\ P[n + 1] = 2 * B
    BY <1>1, <1>2, <1>4, <2>1 DEF B
  <2>. HIDE DEF y
  <2>4. (r + (2 * y)) % (2 * B) = r + (2 * (y % B))
    BY <2>1, <2>3, LowestBit
  <2>. QED
    BY <2>1, <2>2, <2>3, <2>4
<1>5. Nat \subseteq T
  <2>. HIDE DEF T
  <2>. QED
    BY <1>3, <1>4, Induction
<1>. QED
  BY <1>5 DEF X, P

(* Octet by octet, and done twice it is as if it was not.                  *)
LEMMA XorIs ==
    ASSUME NEW s \in Seq(Octet), NEW t \in Seq(Octet), Len(s) =< Len(t)
    PROVE  /\ Xor(s, t) \in Seq(Octet) /\ Len(Xor(s, t)) = Len(s)
           /\ \A i \in 1 .. Len(s) : Xor(s, t)[i] = XorBits[OctetBits][s[i]][t[i]]
           /\ Xor(Xor(s, t), t) = s
<1>. DEFINE n == Len(s)
            x == Xor(s, t)
<1>1. n \in Nat /\ DOMAIN s = 1 .. n /\ Len(t) \in Nat
  OBVIOUS
<1>2. ASSUME NEW i \in 1 .. n
      PROVE  /\ XorBits[OctetBits][s[i]][t[i]] \in Octet
             /\ XorBits[OctetBits][XorBits[OctetBits][s[i]][t[i]]][t[i]] = s[i]
  <2>1. i \in 1 .. Len(t)
    BY <1>1
  <2>2. s[i] \in Octet /\ t[i] \in Octet
    BY <2>1, ElementOfSeq
  <2>. DEFINE a == s[i]
              b == t[i]
  <2>3. a \in Nat /\ b \in Nat /\ a < OctetSize /\ OctetBits \in Nat /\ OctetSize \in Nat
    BY <2>2, OctetSizes
  <2>. HIDE DEF a, b
  <2>4. /\ XorBits[OctetBits][a][b] \in Nat /\ XorBits[OctetBits][a][b] < OctetSize
        /\ XorBits[OctetBits][XorBits[OctetBits][a][b]][b] = a % OctetSize
    BY <2>3, XorBitsUndo DEF OctetSize
  <2>5. a % OctetSize = a
    BY <2>3
  <2>. DEFINE c == XorBits[OctetBits][a][b]
  <2>6. c \in Octet
    <3>1. c \in Nat /\ c < OctetSize
      BY <2>4
    <3>. HIDE DEF c
    <3>2. c \in 0 .. OctetSize - 1
      BY <2>3, <3>1
    <3>. QED
      BY <3>2, OctetSizes
  <2>. QED
    BY <2>4, <2>5, <2>6 DEF a, b
<1>3. x = [i \in 1 .. n |-> XorBits[OctetBits][s[i]][t[i]]]
  BY <1>1 DEF Xor, XorOctet
<1>. HIDE DEF n, x
<1>4. x \in [1 .. n -> Octet]
  BY <1>2, <1>3
<1>5. x \in Seq(Octet) /\ Len(x) = n /\ DOMAIN x = 1 .. n
  BY <1>1, <1>4
<1>6. Xor(x, t) = [i \in 1 .. n |-> XorBits[OctetBits][x[i]][t[i]]]
  BY <1>5 DEF Xor, XorOctet
<1>7. \A i \in 1 .. n : XorBits[OctetBits][x[i]][t[i]] = s[i]
  BY <1>2, <1>3
<1>8. s = [i \in 1 .. n |-> s[i]]
  BY DEF n
<1>9. Xor(x, t) = s
  BY <1>6, <1>7, <1>8
<1>. QED
  BY <1>3, <1>5, <1>9 DEF n, x

-----------------------------------------------------------------------------
(* Masks.  Of a hash it matters here only how long it is: of any octets it *)
(* is octets, as many as the algorithm has.  This is a hypothesis and no   *)
(* assumption, for there is no end of octets to evaluate it on.            *)

HashesFit ==
    \A d \in DOMAIN Algorithms, s \in Seq(Octet) :
        Hash(Algorithms[d], s) \in Seq(Octet) /\ Len(Hash(Algorithms[d], s)) = LengthOf(d)

Held == [DOMAIN Algorithms -> Seq(Octet)]

(* Octet j of the mask that goes on for ever.                              *)
MaskOctet(d, seed, j) ==
    Hash(Algorithms[d], seed \o Counter((j - 1) \div LengthOf(d)))[((j - 1) % LengthOf(d)) + 1]

LEMMA SeedIs ==
    ASSUME NEW seed \in Seq(Octet), NEW i \in Nat
    PROVE  seed \o Counter(i) \in Seq(Octet)
<1>1. 4 \in Nat
  OBVIOUS
<1>2. Counter(i) \in Seq(Octet)
  BY <1>1, OctetsType DEF Counter
<1>. QED
  BY <1>2, Joined

LEMMA HashIs ==
    ASSUME HashesFit, NEW d \in DOMAIN Algorithms, NEW s \in Seq(Octet)
    PROVE  /\ Hash(Algorithms[d], s) \in Seq(Octet) /\ Len(Hash(Algorithms[d], s)) = LengthOf(d)
           /\ LengthOf(d) \in Nat \ {0}
  BY SchemesAssumption DEF HashesFit

(* Any number of rounds.                                                   *)
IsMasks(f, d, seed) ==
    /\ f \in [Nat -> Seq(Octet)] /\ f[0] = <<>>
    /\ \A i \in Nat : f[i + 1] = f[i] \o Hash(Algorithms[d], seed \o Counter(i))

LEMMA MasksExist ==
    ASSUME HashesFit, NEW d \in DOMAIN Algorithms, NEW seed \in Seq(Octet),
           NEW held \in Held, NEW length \in Nat
    PROVE  \E f : /\ IsMasks(f, d, seed)
                  /\ Mask(held, d, seed, length).octets = SubSeq(f[Rounds(length, d)], 1, length)
<1>. DEFINE H(i) == Hash(Algorithms[d], seed \o Counter(i))
            E(f, i) == IF i = 0 THEN <<>> ELSE f[i - 1] \o H(i - 1)
            Is(f) == f = [i \in Nat |-> E(f, i)]
            V == Seq(Octet)
            c == <<>>
            G == [i \in Nat |-> [x \in V |-> x \o H(i)]]
<1>1. \A i \in Nat : H(i) \in V
  <2>. SUFFICES ASSUME NEW i \in Nat
                PROVE  H(i) \in V
    OBVIOUS
  <2>1. seed \o Counter(i) \in Seq(Octet)
    BY SeedIs
  <2>. QED
    BY <2>1, HashIs
<1>2. Mask(held, d, seed, length).octets =
        LET masks[i \in Nat] == IF i = 0 THEN <<>>
                                ELSE masks[i - 1] \o Hash(Algorithms[d], seed \o Counter(i - 1))
        IN  SubSeq(masks[Rounds(length, d)], 1, length)
  BY DEF Mask
<1>. HIDE DEF H
<1>3. c \in V /\ \A i \in Nat, x \in V : x \o H(i) \in V
  BY <1>1, Joined
<1>. HIDE DEF V
<1>4. IsWay(G, V) /\ \A i \in Nat, x \in V : G[i][x] = x \o H(i)
  BY <1>3 DEF IsWay
<1>. HIDE DEF G, c
<1>5. PICK f : GoesOnFrom(f, V, c, G)
  BY <1>3, <1>4, RecursionExists
<1>6. f \in [Nat -> V] /\ f[0] = c /\ \A i \in Nat : f[i + 1] = f[i] \o H(i)
  BY <1>4, <1>5 DEF GoesOnFrom
<1>7. \A i \in Nat : f[i] = E(f, i)
  <2>. SUFFICES ASSUME NEW i \in Nat
                PROVE  f[i] = E(f, i)
    OBVIOUS
  <2>1. CASE i = 0
    BY <1>6, <2>1 DEF c
  <2>2. CASE i # 0
    <3>1. i - 1 \in Nat /\ (i - 1) + 1 = i
      BY <2>2
    <3>. QED
      BY <1>6, <2>2, <3>1
  <2>. QED
    BY <2>1, <2>2
<1>8. Is(f)
  <2>. HIDE DEF E
  <2>1. f = [i \in Nat |-> f[i]]
    BY <1>6
  <2>. QED
    BY <1>7, <2>1
<1>. DEFINE v == CHOOSE h : Is(h)
<1>9. Is(v)
  <2>. HIDE DEF Is
  <2>. QED
    BY <1>8
<1>10. Mask(held, d, seed, length).octets = SubSeq(v[Rounds(length, d)], 1, length)
  BY <1>2 DEF H
<1>. HIDE DEF v
<1>11. \A i \in Nat : v[i] = E(v, i)
  <2>. HIDE DEF E
  <2>. QED
    BY <1>9
<1>12. v[0] = <<>> /\ \A i \in Nat : v[i + 1] = v[i] \o H(i)
  <2>1. \A i \in Nat : i + 1 \in Nat /\ i + 1 # 0 /\ (i + 1) - 1 = i
    OBVIOUS
  <2>. QED
    BY <1>11, <2>1
<1>. DEFINE T == {i \in Nat : v[i] \in V}
<1>13. Nat \subseteq T
  <2>1. 0 \in T
    BY <1>3, <1>12 DEF c
  <2>2. ASSUME NEW i \in Nat, i \in T
        PROVE  i + 1 \in T
    <3>0. i + 1 \in Nat /\ v[i] \in V
      BY <2>2
    <3>1. v[i + 1] = v[i] \o H(i) /\ v[i] \in V
      <4>1. v[i + 1] = v[i] \o H(i)
        BY <1>12, Zenon
      <4>. QED
        BY <3>0, <4>1
    <3>2. v[i] \o H(i) \in V
      BY <1>3, <3>1
    <3>. QED
      BY <3>0, <3>1, <3>2
  <2>. HIDE DEF T
  <2>. QED
    BY <2>1, <2>2, Induction
<1>14. v \in [Nat -> V]
  <2>1. v = [i \in Nat |-> v[i]]
    BY <1>9
  <2>. QED
    BY <1>13, <2>1
<1>15. IsMasks(v, d, seed)
  BY <1>12, <1>14 DEF IsMasks, H, V
<1>. QED
  BY <1>10, <1>15

LEMMA MasksAre ==
    ASSUME HashesFit, NEW d \in DOMAIN Algorithms, NEW seed \in Seq(Octet), NEW f, IsMasks(f, d, seed)
    PROVE  \A i \in Nat : /\ f[i] \in Seq(Octet) /\ Len(f[i]) = i * LengthOf(d)
                          /\ \A j \in 1 .. Len(f[i]) : f[i][j] = MaskOctet(d, seed, j)
<1>. DEFINE h == LengthOf(d)
            H(i) == Hash(Algorithms[d], seed \o Counter(i))
            Good(s, i) == Len(s) = i * h /\ \A j \in 1 .. Len(s) : s[j] = H((j - 1) \div h)[((j - 1) % h) + 1]
            T == {i \in Nat : Good(f[i], i)}
<1>1. ASSUME NEW i \in Nat
      PROVE  H(i) \in Seq(Octet) /\ Len(H(i)) = h
  <2>1. seed \o Counter(i) \in Seq(Octet)
    BY SeedIs
  <2>. QED
    BY <2>1, HashIs
<1>2. h \in Nat \ {0}
  BY SchemesAssumption
<1>3. f \in [Nat -> Seq(Octet)] /\ f[0] = <<>> /\ \A i \in Nat : f[i + 1] = f[i] \o H(i)
  BY DEF IsMasks
<1>. HIDE DEF H, h
<1>4. 0 \in T
  <2>1. Len(f[0]) = 0 /\ 0 * h = 0
    BY <1>2, <1>3
  <2>. QED
    BY <2>1
<1>5. ASSUME NEW i \in Nat, i \in T
      PROVE  i + 1 \in T
  <2>. DEFINE s == f[i]
              t == f[i + 1]
              u == H(i)
              m == i * h
  <2>1. s \in Seq(Octet) /\ Len(s) = m /\ t = s \o u /\ u \in Seq(Octet) /\ Len(u) = h /\ m \in Nat
    <3>1. m \in Nat
      BY <1>2
    <3>2. s \in Seq(Octet) /\ t = s \o u
      BY <1>3
    <3>3. Len(s) = m
      BY <1>5
    <3>4. u \in Seq(Octet) /\ Len(u) = h
      BY <1>1
    <3>. QED
      BY <3>1, <3>2, <3>3, <3>4
  <2>2. \A j \in 1 .. m : s[j] = H((j - 1) \div h)[((j - 1) % h) + 1]
    BY <1>5, <2>1
  <2>3. /\ Len(s \o u) = Len(s) + Len(u)
        /\ \A j \in 1 .. Len(s) : (s \o u)[j] = s[j]
        /\ \A j \in 1 .. Len(u) : (s \o u)[Len(s) + j] = u[j]
    <3>. HIDE DEF s, u
    <3>. QED
      BY <2>1, Joined
  <2>4. (i + 1) * h = m + h
    BY <1>2
  <2>5. ASSUME NEW j \in 1 .. m + h
        PROVE  t[j] = H((j - 1) \div h)[((j - 1) % h) + 1]
    <3>1. CASE j =< m
      <4>. HIDE DEF s, t, u, m
      <4>1. j \in 1 .. m
        BY <2>1, <3>1
      <4>. QED
        BY <2>1, <2>2, <2>3, <4>1
    <3>2. CASE j > m
      <4>. DEFINE l == j - m
      <4>1. l \in 1 .. h /\ m + l = j /\ l - 1 \in Nat /\ l - 1 < h /\ j - 1 = m + (l - 1) /\ (l - 1) + 1 = l
        BY <1>2, <2>1, <3>2
      <4>2. t[j] = u[l]
        <5>. HIDE DEF s, t, u, m, l
        <5>. QED
          BY <2>1, <2>3, <4>1
      <4>3. ((i * h) + (l - 1)) \div h = i /\ ((i * h) + (l - 1)) % h = l - 1
        <5>. DEFINE r == l - 1
        <5>1. r \in Nat /\ r < h
          BY <4>1
        <5>. HIDE DEF r, l
        <5>2. ((i * h) + r) \div h = i /\ ((i * h) + r) % h = r
          BY <1>2, <5>1, QuotientIs
        <5>. QED
          BY <5>2 DEF r
      <4>4. (j - 1) \div h = i /\ ((j - 1) % h) + 1 = l
        <5>1. j - 1 = (i * h) + (l - 1)
          BY <4>1
        <5>. HIDE DEF l
        <5>. QED
          BY <4>1, <4>3, <5>1
      <4>. HIDE DEF l
      <4>. QED
        BY <4>2, <4>4
    <3>. QED
      BY <2>1, <3>1, <3>2, <1>2
  <2>6. Len(t) = m + h
    <3>. HIDE DEF s, t, u, m
    <3>. QED
      BY <2>1, <2>3
  <2>. QED
    BY <2>4, <2>5, <2>6
<1>6. Nat \subseteq T
  <2>. HIDE DEF T
  <2>. QED
    BY <1>4, <1>5, Induction
<1>. QED
  BY <1>3, <1>6 DEF MaskOctet, H, h

(* The mask is the standard's, whatever the object held.                   *)
LEMMA MaskIs ==
    ASSUME HashesFit, NEW d \in DOMAIN Algorithms, NEW seed \in Seq(Octet),
           NEW held \in Held, NEW length \in Nat \ {0}
    PROVE  /\ Mask(held, d, seed, length).octets = StandardMask(Algorithms[d], seed, length)
           /\ Mask(held, d, seed, length).digests \in Held
           /\ StandardMask(Algorithms[d], seed, length) \in Seq(Octet)
           /\ Len(StandardMask(Algorithms[d], seed, length)) = length
<1>. DEFINE h == LengthOf(d)
            n == Rounds(length, d)
            S == StandardMask(Algorithms[d], seed, length)
<1>1. h \in Nat \ {0}
  BY SchemesAssumption
<1>2. n \in Nat \ {0} /\ length =< n * h
  <2>. DEFINE a == (length + h) - 1
              q == a \div h
              r == a % h
  <2>1. n = q
    BY <1>1 DEF Rounds
  <2>2. a \in Nat /\ a >= h
    BY <1>1
  <2>3. q \in Nat /\ r \in Nat /\ r < h /\ a = (q * h) + r
    <3>. HIDE DEF a, h
    <3>. QED
      BY <1>1, <2>2, QuotientOf
  <2>. HIDE DEF q, r
  <2>4. q # 0
    <3>. SUFFICES ASSUME q = 0
                  PROVE  FALSE
      OBVIOUS
    <3>1. q * h = 0
      BY <1>1
    <3>. QED
      BY <1>1, <2>2, <2>3, <3>1
  <2>5. q * h \in Nat
    BY <1>1, <2>3
  <2>. QED
    BY <1>1, <2>1, <2>3, <2>4, <2>5
<1>3. PICK f : IsMasks(f, d, seed) /\ Mask(held, d, seed, length).octets = SubSeq(f[n], 1, length)
  BY MasksExist
<1>4. /\ f[n] \in Seq(Octet) /\ Len(f[n]) = n * h
      /\ \A j \in 1 .. Len(f[n]) : f[n][j] = MaskOctet(d, seed, j)
  <2>. HIDE DEF n, h
  <2>. QED
    BY <1>2, <1>3, MasksAre DEF h
<1>5. S = [j \in 1 .. length |-> MaskOctet(d, seed, j)]
  BY DEF StandardMask, MaskOctet, LengthOf
<1>6. /\ SubSeq(f[n], 1, length) \in Seq(Octet) /\ Len(SubSeq(f[n], 1, length)) = length
      /\ \A j \in 1 .. length : SubSeq(f[n], 1, length)[j] = MaskOctet(d, seed, j)
  <2>. DEFINE s == f[n]
              c == 1
              m == n * h
  <2>0. m \in Nat /\ length =< m
    BY <1>1, <1>2
  <2>. HIDE DEF m, n
  <2>1. s \in Seq(Octet) /\ length =< Len(s) /\ c \in Nat \ {0} /\ c =< length + 1 /\ Len(s) = m
    BY <1>4, <2>0 DEF m
  <2>. HIDE DEF s, c
  <2>2. /\ SubSeq(s, c, length) \in Seq(Octet) /\ Len(SubSeq(s, c, length)) = (length - c) + 1
        /\ \A l \in 1 .. (length - c) + 1 : SubSeq(s, c, length)[l] = s[(c + l) - 1]
    BY <2>1, Part
  <2>3. (length - c) + 1 = length /\ \A l \in 1 .. length : (c + l) - 1 = l /\ l \in 1 .. Len(s)
    BY <2>0, <2>1 DEF c
  <2>4. \A l \in 1 .. Len(s) : s[l] = MaskOctet(d, seed, l)
    BY <1>4 DEF s
  <2>5. \A l \in 1 .. length : SubSeq(s, c, length)[l] = MaskOctet(d, seed, l)
    BY <2>2, <2>3, <2>4
  <2>. QED
    BY <2>2, <2>3, <2>5 DEF s, c
<1>7. S \in Seq(Octet) /\ Len(S) = length /\ SubSeq(f[n], 1, length) = S
  <2>. DEFINE t == SubSeq(f[n], 1, length)
  <2>1. t \in Seq(Octet) /\ Len(t) = length /\ \A j \in 1 .. length : t[j] = MaskOctet(d, seed, j)
    BY <1>6
  <2>. HIDE DEF t, S
  <2>2. t = [j \in 1 .. length |-> t[j]]
    BY <2>1
  <2>3. t = S
    BY <1>5, <2>1, <2>2
  <2>. QED
    BY <2>1, <2>3 DEF t
<1>8. Mask(held, d, seed, length).digests \in Held
  <2>1. n - 1 \in Nat
    BY <1>2
  <2>2. seed \o Counter(n - 1) \in Seq(Octet)
    <3>. HIDE DEF n
    <3>. QED
      BY <2>1, SeedIs
  <2>3. Mask(held, d, seed, length).digests = [held EXCEPT ![d] = seed \o Counter(n - 1)]
    BY DEF Mask, Restarted
  <2>. QED
    BY <2>2, <2>3 DEF Held
<1>. QED
  BY <1>3, <1>7, <1>8

-----------------------------------------------------------------------------
(* What OAEP and PSS put together and take apart                           *)

LEMMA Single ==
    ASSUME NEW x \in Octet
    PROVE  <<x>> \in Seq(Octet) /\ Len(<<x>>) = 1 /\ (<<x>>)[1] = x
  OBVIOUS

Triplet(x, a, b) == <<x>> \o a \o b

LEMMA Triple ==
    ASSUME NEW x \in Octet, NEW a \in Seq(Octet), NEW b \in Seq(Octet)
    PROVE  LET em == Triplet(x, a, b)
           IN  /\ em \in Seq(Octet) /\ Len(em) = (Len(a) + Len(b)) + 1 /\ em[1] = x
               /\ SubSeq(em, 2, Len(a) + 1) = a /\ SubSeq(em, Len(a) + 2, Len(em)) = b
<1>. DEFINE z == <<x>>
            y == z \o a
            em == y \o b
            l == Len(a)
<1>1. z \in Seq(Octet) /\ Len(z) = 1 /\ z[1] = x /\ l \in Nat /\ Len(b) \in Nat
  BY Single
<1>. HIDE DEF z
<1>2. /\ y \in Seq(Octet) /\ Len(y) = 1 + l /\ y[1] = x
      /\ SubSeq(y, 1, 1) = z /\ SubSeq(y, 2, 1 + l) = a
      /\ \A i \in 1 .. l : y[1 + i] = a[i]
  <2>1. /\ y \in Seq(Octet) /\ Len(y) = Len(z) + Len(a)
        /\ \A i \in 1 .. Len(z) : y[i] = z[i]
        /\ \A i \in 1 .. Len(a) : y[Len(z) + i] = a[i]
        /\ SubSeq(y, 1, Len(z)) = z /\ SubSeq(y, Len(z) + 1, Len(z) + Len(a)) = a
    BY <1>1, Joined, PartsOfJoined
  <2>2. 1 \in 1 .. Len(z)
    BY <1>1
  <2>. HIDE DEF y
  <2>. QED
    BY <1>1, <2>1, <2>2
<1>. HIDE DEF y
<1>3. /\ em \in Seq(Octet) /\ Len(em) = Len(y) + Len(b)
      /\ \A i \in 1 .. Len(y) : em[i] = y[i]
      /\ SubSeq(em, Len(y) + 1, Len(y) + Len(b)) = b
  BY <1>2, Joined, PartsOfJoined
<1>4. em = Triplet(x, a, b)
  BY DEF z, y, Triplet
<1>. HIDE DEF em
<1>5. Len(em) = (l + Len(b)) + 1 /\ Len(y) + 1 = l + 2 /\ Len(y) + Len(b) = Len(em)
  BY <1>1, <1>2, <1>3
<1>6. em[1] = x
  <2>1. 1 \in 1 .. Len(y)
    BY <1>1, <1>2
  <2>. QED
    BY <1>2, <1>3, <2>1
<1>7. SubSeq(em, 2, l + 1) = a
  <2>. DEFINE i == 2
              j == l + 1
              s == SubSeq(em, i, j)
  <2>1. i \in Nat \ {0} /\ j \in Nat /\ j =< Len(em) /\ i =< j + 1 /\ (j - i) + 1 = l
    BY <1>1, <1>5
  <2>2. \A k \in 1 .. l : (i + k) - 1 = 1 + k /\ 1 + k \in 1 .. Len(y)
    BY <1>1, <1>2
  <2>. HIDE DEF i, j
  <2>3. s \in Seq(Octet) /\ Len(s) = (j - i) + 1 /\ \A k \in 1 .. (j - i) + 1 : s[k] = em[(i + k) - 1]
    BY <1>3, <2>1, Part
  <2>. HIDE DEF s
  <2>4. Len(s) = l /\ Len(s) = Len(a)
    BY <1>1, <2>1, <2>3
  <2>5. ASSUME NEW k \in 1 .. Len(s)
        PROVE  s[k] = a[k]
    <3>1. k \in 1 .. l /\ k \in 1 .. (j - i) + 1
      BY <2>1, <2>4
    <3>2. s[k] = em[1 + k] /\ 1 + k \in 1 .. Len(y)
      BY <2>2, <2>3, <3>1, Zenon
    <3>3. em[1 + k] = y[1 + k] /\ y[1 + k] = a[k]
      BY <1>2, <1>3, <3>1, <3>2, Zenon
    <3>. QED
      BY <3>2, <3>3
  <2>6. s = a
    BY <2>3, <2>4, <2>5, SeqEqual
  <2>. QED
    BY <2>6 DEF s, i, j
<1>8. SubSeq(em, l + 2, Len(em)) = b
  BY <1>3, <1>5
<1>. QED
  BY <1>3, <1>4, <1>5, <1>6, <1>7, <1>8

LEMMA TripleOf ==
    ASSUME NEW em \in Seq(Octet), NEW h \in Nat, h + 1 =< Len(em)
    PROVE  /\ em[1] \in Octet
           /\ SubSeq(em, 2, h + 1) \in Seq(Octet) /\ Len(SubSeq(em, 2, h + 1)) = h
           /\ SubSeq(em, h + 2, Len(em)) \in Seq(Octet) /\ Len(SubSeq(em, h + 2, Len(em))) = (Len(em) - h) - 1
           /\ em = <<em[1]>> \o SubSeq(em, 2, h + 1) \o SubSeq(em, h + 2, Len(em))
<1>. DEFINE n == Len(em)
            x == em[1]
            z == <<x>>
            a == SubSeq(em, 2, h + 1)
            b == SubSeq(em, h + 2, n)
            y == z \o a
            t == y \o b
<1>1. n \in Nat /\ x \in Octet
  BY ElementOfSeq
<1>. HIDE DEF x
<1>2. z \in Seq(Octet) /\ Len(z) = 1 /\ z[1] = x
  BY <1>1, Single
<1>. HIDE DEF z
<1>3. a \in Seq(Octet) /\ Len(a) = h /\ \A l \in 1 .. h : a[l] = em[1 + l]
  <2>. DEFINE i == 2
              j == h + 1
  <2>1. i \in Nat \ {0} /\ j \in Nat /\ j =< Len(em) /\ i =< j + 1 /\ (j - i) + 1 = h
    BY <1>1
  <2>2. \A l \in 1 .. h : (i + l) - 1 = 1 + l
    OBVIOUS
  <2>. HIDE DEF i, j
  <2>3. /\ SubSeq(em, i, j) \in Seq(Octet) /\ Len(SubSeq(em, i, j)) = (j - i) + 1
        /\ \A l \in 1 .. (j - i) + 1 : SubSeq(em, i, j)[l] = em[(i + l) - 1]
    BY <2>1, Part
  <2>4. /\ SubSeq(em, i, j) \in Seq(Octet) /\ Len(SubSeq(em, i, j)) = h
        /\ \A l \in 1 .. h : SubSeq(em, i, j)[l] = em[1 + l]
    BY <2>1, <2>2, <2>3
  <2>. QED
    BY <2>4 DEF i, j
<1>4. b \in Seq(Octet) /\ Len(b) = (n - h) - 1 /\ \A l \in 1 .. (n - h) - 1 : b[l] = em[(h + 1) + l]
  <2>. DEFINE i == h + 2
  <2>1. i \in Nat \ {0} /\ n =< Len(em) /\ i =< n + 1 /\ (n - i) + 1 = (n - h) - 1
    BY <1>1
  <2>2. \A l \in 1 .. (n - h) - 1 : (i + l) - 1 = (h + 1) + l
    OBVIOUS
  <2>. HIDE DEF i
  <2>3. /\ SubSeq(em, i, n) \in Seq(Octet) /\ Len(SubSeq(em, i, n)) = (n - i) + 1
        /\ \A l \in 1 .. (n - i) + 1 : SubSeq(em, i, n)[l] = em[(i + l) - 1]
    BY <1>1, <2>1, Part
  <2>4. /\ SubSeq(em, i, n) \in Seq(Octet) /\ Len(SubSeq(em, i, n)) = (n - h) - 1
        /\ \A l \in 1 .. (n - h) - 1 : SubSeq(em, i, n)[l] = em[(h + 1) + l]
    BY <2>1, <2>2, <2>3
  <2>. QED
    BY <2>4 DEF i
<1>. HIDE DEF a, b
<1>5. /\ y \in Seq(Octet) /\ Len(y) = Len(z) + Len(a)
      /\ \A i \in 1 .. Len(z) : y[i] = z[i]
      /\ \A i \in 1 .. Len(a) : y[Len(z) + i] = a[i]
  BY <1>2, <1>3, Joined
<1>. HIDE DEF y
<1>6. /\ t \in Seq(Octet) /\ Len(t) = Len(y) + Len(b)
      /\ \A i \in 1 .. Len(y) : t[i] = y[i]
      /\ \A i \in 1 .. Len(b) : t[Len(y) + i] = b[i]
  BY <1>4, <1>5, Joined
<1>. HIDE DEF t
<1>7. Len(t) = n
  BY <1>1, <1>2, <1>3, <1>4, <1>5, <1>6
<1>8. ASSUME NEW i \in 1 .. n
      PROVE  t[i] = em[i]
  <2>1. CASE i = 1
    <3>1. i \in 1 .. Len(z) /\ i \in 1 .. Len(y)
      BY <1>1, <1>2, <1>3, <1>5, <2>1
    <3>. QED
      BY <1>2, <1>5, <1>6, <2>1, <3>1 DEF x
  <2>2. CASE i > 1 /\ i =< h + 1
    <3>. DEFINE l == i - 1
    <3>1. l \in 1 .. h /\ 1 + l = i /\ i \in 1 .. Len(y)
      BY <1>1, <1>2, <1>3, <1>5, <2>2
    <3>. HIDE DEF l
    <3>2. y[Len(z) + l] = a[l] /\ a[l] = em[1 + l]
      BY <1>3, <1>5, <3>1
    <3>. QED
      BY <1>2, <1>6, <3>1, <3>2
  <2>3. CASE i > h + 1
    <3>. DEFINE l == i - (h + 1)
    <3>1. l \in 1 .. (n - h) - 1 /\ (h + 1) + l = i /\ Len(y) + l = i
      BY <1>1, <1>2, <1>3, <1>5, <2>3
    <3>. HIDE DEF l
    <3>2. t[Len(y) + l] = b[l] /\ b[l] = em[(h + 1) + l]
      BY <1>4, <1>6, <3>1
    <3>. QED
      BY <3>1, <3>2
  <2>. QED
    BY <1>1, <2>1, <2>2, <2>3
<1>9. t = em
  <2>1. Len(t) = Len(em) /\ \A i \in 1 .. Len(t) : t[i] = em[i]
    BY <1>7, <1>8
  <2>. QED
    BY <1>6, <2>1, SeqEqual
<1>. QED
  BY <1>1, <1>3, <1>4, <1>9 DEF t, y, z, x, a, b

-----------------------------------------------------------------------------
(* OAEP: the zeros, the 1 and the message                                  *)

PaddedWith(z, m) == Repeated(0, z) \o <<1>> \o m

LEMMA PaddedWithIs ==
    ASSUME NEW z \in Nat, NEW m \in Seq(Octet)
    PROVE  LET s == PaddedWith(z, m)
           IN  /\ s \in Seq(Octet) /\ Len(s) = (z + 1) + Len(m)
               /\ \A i \in 1 .. z : s[i] = 0
               /\ s[z + 1] = 1
               /\ \A i \in 1 .. Len(m) : s[(z + 1) + i] = m[i]
               /\ SubSeq(s, z + 2, Len(s)) = m
<1>. DEFINE a == Repeated(0, z)
            o == <<1>>
            y == a \o o
            s == y \o m
<1>1. a \in Seq(Octet) /\ Len(a) = z /\ \A i \in 1 .. z : a[i] = 0
  BY OctetSizes, RepeatedIs
<1>2. o \in Seq(Octet) /\ Len(o) = 1 /\ o[1] = 1
  BY OctetSizes
<1>3. PaddedWith(z, m) = s
  BY DEF PaddedWith
<1>. HIDE DEF a, o
<1>4. y \in Seq(Octet) /\ Len(y) = z + 1 /\ (\A i \in 1 .. z : y[i] = 0) /\ y[z + 1] = 1
  <2>1. /\ y \in Seq(Octet) /\ Len(y) = Len(a) + Len(o)
        /\ \A i \in 1 .. Len(a) : y[i] = a[i]
        /\ \A i \in 1 .. Len(o) : y[Len(a) + i] = o[i]
    BY <1>1, <1>2, Joined
  <2>. HIDE DEF y
  <2>2. 1 \in 1 .. Len(o)
    BY <1>2
  <2>. QED
    BY <1>1, <1>2, <2>1, <2>2
<1>. HIDE DEF y
<1>5. /\ s \in Seq(Octet) /\ Len(s) = Len(y) + Len(m)
      /\ \A i \in 1 .. Len(y) : s[i] = y[i]
      /\ \A i \in 1 .. Len(m) : s[Len(y) + i] = m[i]
      /\ SubSeq(s, Len(y) + 1, Len(y) + Len(m)) = m
  BY <1>4, Joined, PartsOfJoined
<1>. HIDE DEF s
<1>6. Len(m) \in Nat /\ Len(y) + 1 = z + 2 /\ Len(s) = (z + 1) + Len(m)
  BY <1>4, <1>5
<1>7. \A i \in 1 .. z : i \in 1 .. Len(y)
  BY <1>4
<1>8. z + 1 \in 1 .. Len(y)
  BY <1>4
<1>9. (\A i \in 1 .. z : s[i] = 0) /\ s[z + 1] = 1
  BY <1>4, <1>5, <1>7, <1>8
<1>10. SubSeq(s, z + 2, Len(s)) = m
  BY <1>4, <1>5, <1>6
<1>. QED
  BY <1>3, <1>4, <1>5, <1>6, <1>9, <1>10

(* Zeros, a 1, and whatever follows.                                       *)
LEMMA PaddedForm ==
    ASSUME NEW s \in Seq(Octet), NEW z \in Nat, z + 1 =< Len(s), s[z + 1] = 1, \A i \in 1 .. z : s[i] = 0
    PROVE  /\ SubSeq(s, z + 2, Len(s)) \in Seq(Octet)
           /\ Len(SubSeq(s, z + 2, Len(s))) = (Len(s) - z) - 1
           /\ s = PaddedWith(z, SubSeq(s, z + 2, Len(s)))
<1>. DEFINE n == Len(s)
            rest == SubSeq(s, z + 2, n)
            t == PaddedWith(z, rest)
            c == (n - z) - 1
<1>1. n \in Nat /\ c \in Nat
  OBVIOUS
<1>2. rest \in Seq(Octet) /\ Len(rest) = c /\ \A l \in 1 .. c : rest[l] = s[(z + 1) + l]
  <2>. DEFINE i == z + 2
  <2>1. i \in Nat \ {0} /\ n =< Len(s) /\ i =< n + 1 /\ (n - i) + 1 = c
    BY <1>1
  <2>2. \A l \in 1 .. c : (i + l) - 1 = (z + 1) + l
    BY <1>1
  <2>. HIDE DEF i, c
  <2>3. /\ SubSeq(s, i, n) \in Seq(Octet) /\ Len(SubSeq(s, i, n)) = (n - i) + 1
        /\ \A l \in 1 .. (n - i) + 1 : SubSeq(s, i, n)[l] = s[(i + l) - 1]
    BY <1>1, <2>1, Part
  <2>4. /\ SubSeq(s, i, n) \in Seq(Octet) /\ Len(SubSeq(s, i, n)) = c
        /\ \A l \in 1 .. c : SubSeq(s, i, n)[l] = s[(z + 1) + l]
    BY <2>1, <2>2, <2>3
  <2>. QED
    BY <2>4 DEF i
<1>. HIDE DEF rest
<1>3. /\ t \in Seq(Octet) /\ Len(t) = (z + 1) + Len(rest)
      /\ \A i \in 1 .. z : t[i] = 0
      /\ t[z + 1] = 1
      /\ \A i \in 1 .. Len(rest) : t[(z + 1) + i] = rest[i]
  BY <1>2, PaddedWithIs
<1>. HIDE DEF t
<1>4. Len(t) = n
  BY <1>1, <1>2, <1>3
<1>5. ASSUME NEW i \in 1 .. n
      PROVE  t[i] = s[i]
  <2>1. CASE i =< z
    <3>1. i \in 1 .. z
      BY <2>1
    <3>. QED
      BY <1>3, <3>1
  <2>2. CASE i = z + 1
    BY <1>3, <2>2
  <2>3. CASE i > z + 1
    <3>. DEFINE l == i - (z + 1)
    <3>1. l \in 1 .. c /\ (z + 1) + l = i
      BY <1>1, <2>3
    <3>. HIDE DEF l, c
    <3>2. t[(z + 1) + l] = rest[l] /\ rest[l] = s[(z + 1) + l]
      BY <1>2, <1>3, <3>1
    <3>. QED
      BY <3>1, <3>2
  <2>. QED
    BY <1>1, <2>1, <2>2, <2>3
<1>6. t = s
  BY <1>3, <1>4, <1>5, SeqEqual
<1>. QED
  BY <1>2, <1>6 DEF t, rest

LEMMA UnpaddedIs ==
    ASSUME NEW s \in Seq(Octet)
    PROVE  /\ \A z \in Nat, m \in Seq(Octet) : s = PaddedWith(z, m) => Unpadded(s) = <<m>>
           /\ Unpadded(s) # NoBlock =>
                \E z \in Nat, m \in Seq(Octet) : s = PaddedWith(z, m) /\ Unpadded(s) = <<m>>
<1>. DEFINE n == Len(s)
            odd == {i \in DOMAIN s : s[i] % 2 = 1}
            f == Min(odd)
            rest == SubSeq(s, f + 1, n)
            Good == odd # {} /\ \A i \in 1 .. f : s[i] =< 1
<1>1. n \in Nat /\ DOMAIN s = 1 .. n
  OBVIOUS
<1>2. Unpadded(s) = IF Good THEN <<rest>> ELSE NoBlock
  BY DEF Unpadded
<1>3. odd # {} => f \in odd /\ \A i \in odd : f =< i
  <2>1. odd \subseteq Nat
    BY <1>1
  <2>. HIDE DEF odd
  <2>. SUFFICES ASSUME odd # {}
                PROVE  f \in odd /\ \A i \in odd : f =< i
    OBVIOUS
  <2>2. \E x \in odd : \A y \in odd : x =< y
    BY <2>1, LeastNatural
  <2>. QED
    BY <2>2 DEF Min
<1>4. \A i \in 1 .. n : s[i] \in Nat
  <2>1. \A i \in 1 .. n : s[i] \in Octet
    BY ElementOfSeq
  <2>. QED
    BY <2>1, OctetSizes
<1>. HIDE DEF f
<1>5. ASSUME NEW z \in Nat, NEW m \in Seq(Octet), s = PaddedWith(z, m)
      PROVE  Unpadded(s) = <<m>>
  <2>1. /\ n = (z + 1) + Len(m)
        /\ \A i \in 1 .. z : s[i] = 0
        /\ s[z + 1] = 1
        /\ SubSeq(s, z + 2, n) = m
    BY <1>5, PaddedWithIs
  <2>. HIDE DEF n
  <2>2. z + 1 \in odd
    <3>1. z + 1 \in 1 .. n
      BY <1>1, <2>1
    <3>2. 1 % 2 = 1
      OBVIOUS
    <3>. QED
      BY <1>1, <2>1, <3>1, <3>2
  <2>3. f = z + 1
    <3>1. f \in 1 .. n /\ s[f] % 2 = 1 /\ f =< z + 1
      BY <1>1, <1>3, <2>2
    <3>2. ~ (f =< z)
      <4>. SUFFICES ASSUME f =< z
                    PROVE  FALSE
        OBVIOUS
      <4>1. f \in 1 .. z
        BY <3>1
      <4>2. s[f] = 0 /\ 0 % 2 = 0
        BY <2>1, <4>1
      <4>. QED
        BY <3>1, <4>2
    <3>. QED
      BY <1>1, <3>1, <3>2
  <2>4. \A i \in 1 .. f : s[i] =< 1
    <3>. SUFFICES ASSUME NEW i \in 1 .. z + 1
                  PROVE  s[i] =< 1
      BY <2>3
    <3>1. i \in 1 .. z \/ i = z + 1
      OBVIOUS
    <3>. QED
      BY <2>1, <3>1
  <2>5. Good
    BY <2>2, <2>4
  <2>6. f + 1 = z + 2
    BY <2>3
  <2>. QED
    BY <1>2, <2>1, <2>5, <2>6
<1>6. ASSUME Good
      PROVE  \E z \in Nat, m \in Seq(Octet) : s = PaddedWith(z, m) /\ Unpadded(s) = <<m>>
  <2>. DEFINE z == f - 1
  <2>1. f \in 1 .. n /\ s[f] % 2 = 1 /\ z \in Nat /\ z + 1 = f /\ f + 1 = z + 2
    BY <1>1, <1>3, <1>6
  <2>2. ASSUME NEW i \in 1 .. z
        PROVE  s[i] = 0
    <3>1. i \in 1 .. n /\ i \in 1 .. f /\ i < f
      BY <1>1, <2>1
    <3>2. s[i] \in Nat /\ s[i] =< 1
      BY <1>4, <1>6, <3>1
    <3>3. i \notin odd
      <4>1. i \in odd => f =< i
        BY <1>3, <1>6
      <4>. QED
        BY <2>1, <3>1, <4>1
    <3>4. s[i] # 1
      <4>1. s[i] % 2 # 1
        BY <1>1, <3>1, <3>3
      <4>. QED
        BY <4>1
    <3>. QED
      BY <3>2, <3>4
  <2>3. s[z + 1] = 1
    <3>1. s[f] \in Nat /\ s[f] =< 1 /\ s[f] % 2 = 1
      BY <1>4, <1>6, <2>1
    <3>. DEFINE x == s[f]
    <3>. HIDE DEF x
    <3>2. x = 1
      BY <3>1 DEF x
    <3>. QED
      BY <2>1, <3>2 DEF x
  <2>. HIDE DEF z
  <2>4. rest \in Seq(Octet) /\ s = PaddedWith(z, rest)
    <3>1. z + 1 =< Len(s)
      BY <2>1
    <3>2. SubSeq(s, z + 2, Len(s)) \in Seq(Octet) /\ s = PaddedWith(z, SubSeq(s, z + 2, Len(s)))
      BY <2>1, <2>2, <2>3, <3>1, PaddedForm
    <3>. QED
      BY <2>1, <3>2
  <2>. QED
    BY <1>2, <1>6, <2>1, <2>4
<1>. HIDE DEF Good
<1>. QED
  BY <1>2, <1>5, <1>6

OaepSchemes == [scheme : {"RSA-OAEP"}, md : DOMAIN Algorithms, mgf1 : DOMAIN Algorithms, label : Seq(Octet)]

LEMMA OaepOptions ==
    ASSUME NEW o \in OaepSchemes
    PROVE  /\ o.md \in DOMAIN Algorithms /\ MaskObject(o) \in DOMAIN Algorithms /\ o.label \in Seq(Octet)
           /\ LengthOf(o.md) \in Nat \ {0}
  BY SchemesAssumption DEF OaepSchemes, MaskObject

(* The data block is the label's hash and the rest.                        *)
LabelHash(o) == Hash(Algorithms[o.md], o.label)
OaepData(o, m, k) == LabelHash(o) \o PaddedWith((k - Len(m)) - ((2 * LengthOf(o.md)) + 2), m)
OaepMask(o, seed, length) == StandardMask(Algorithms[MaskObject(o)], seed, length)
OaepMasked(o, m, k, seed) == Xor(OaepData(o, m, k), OaepMask(o, seed, (k - LengthOf(o.md)) - 1))
OaepBlock(o, m, k, seed) ==
    LET masked == OaepMasked(o, m, k, seed)
    IN  <<0>> \o Xor(seed, OaepMask(o, masked, LengthOf(o.md))) \o masked

LEMMA DataJoined ==
    ASSUME NEW s \in Seq(Octet), NEW z \in Nat, NEW m \in Seq(Octet)
    PROVE  s \o Repeated(0, z) \o <<1>> \o m = s \o PaddedWith(z, m)
<1>. DEFINE r == Repeated(0, z)
            o == <<1>>
<1>1. r \in Seq(Octet) /\ o \in Seq(Octet)
  BY OctetSizes, RepeatedIs
<1>2. PaddedWith(z, m) = (r \o o) \o m
  BY DEF PaddedWith
<1>. HIDE DEF r, o
<1>3. (s \o r) \o o = s \o (r \o o)
  BY <1>1, ConcatAssociative, SMTT(60)
<1>4. r \o o \in Seq(Octet)
  BY <1>1, Joined
<1>5. (s \o (r \o o)) \o m = s \o ((r \o o) \o m)
  <2>. DEFINE y == r \o o
  <2>0. y \in Seq(Octet)
    BY <1>4
  <2>. HIDE DEF y
  <2>1. (s \o y) \o m = s \o (y \o m)
    BY <2>0, ConcatAssociative, SMTT(60)
  <2>. QED
    BY <2>1 DEF y
<1>6. ((s \o r) \o o) \o m = s \o PaddedWith(z, m)
  BY <1>2, <1>3, <1>5
<1>. QED
  BY <1>6 DEF r, o

(* What is put together when the message fits: k octets of which the first *)
(* is zero.                                                                *)
LEMMA OaepParts ==
    ASSUME HashesFit, NEW o \in OaepSchemes, NEW m \in Seq(Octet), NEW k \in Nat, NEW seed \in Seq(Octet),
           Len(seed) = LengthOf(o.md), (Len(m) + (2 * LengthOf(o.md))) + 2 =< k
    PROVE  LET h == LengthOf(o.md)
               masked == OaepMasked(o, m, k, seed)
           IN  /\ LabelHash(o) \in Seq(Octet) /\ Len(LabelHash(o)) = h
               /\ OaepData(o, m, k) \in Seq(Octet) /\ Len(OaepData(o, m, k)) = (k - h) - 1
               /\ OaepMask(o, seed, (k - h) - 1) \in Seq(Octet) /\ Len(OaepMask(o, seed, (k - h) - 1)) = (k - h) - 1
               /\ masked \in Seq(Octet) /\ Len(masked) = (k - h) - 1
               /\ Xor(masked, OaepMask(o, seed, (k - h) - 1)) = OaepData(o, m, k)
               /\ OaepMask(o, masked, h) \in Seq(Octet) /\ Len(OaepMask(o, masked, h)) = h
               /\ Xor(seed, OaepMask(o, masked, h)) \in Seq(Octet)
               /\ Len(Xor(seed, OaepMask(o, masked, h))) = h
               /\ Xor(Xor(seed, OaepMask(o, masked, h)), OaepMask(o, masked, h)) = seed
<1>. DEFINE h == LengthOf(o.md)
            n == (k - h) - 1
            z == (k - Len(m)) - ((2 * h) + 2)
            g == MaskObject(o)
            data == OaepData(o, m, k)
            masked == OaepMasked(o, m, k, seed)
            mask == OaepMask(o, seed, n)
            seedMask == OaepMask(o, masked, h)
<1>0. /\ o.md \in DOMAIN Algorithms /\ g \in DOMAIN Algorithms /\ o.label \in Seq(Octet)
      /\ h \in Nat \ {0} /\ Len(m) \in Nat
  BY OaepOptions
<1>1. n \in Nat \ {0} /\ z \in Nat /\ h + ((z + 1) + Len(m)) = n
  BY <1>0, SMTT(60)
<1>2. LabelHash(o) \in Seq(Octet) /\ Len(LabelHash(o)) = h
  BY <1>0, HashIs DEF LabelHash
<1>3. PaddedWith(z, m) \in Seq(Octet) /\ Len(PaddedWith(z, m)) = (z + 1) + Len(m)
  <2>. HIDE DEF z
  <2>. QED
    BY <1>1, PaddedWithIs
<1>4. data \in Seq(Octet) /\ Len(data) = n
  <2>. DEFINE a == LabelHash(o)
              b == PaddedWith(z, m)
  <2>1. data = a \o b
    BY DEF OaepData
  <2>2. a \in Seq(Octet) /\ b \in Seq(Octet) /\ Len(a) = h /\ Len(b) = (z + 1) + Len(m)
    BY <1>2, <1>3
  <2>. HIDE DEF a, b, data, n, z, h
  <2>3. a \o b \in Seq(Octet) /\ Len(a \o b) = Len(a) + Len(b)
    BY <2>2, Joined
  <2>. QED
    BY <1>1, <2>1, <2>2, <2>3
<1>. DEFINE held == [d \in DOMAIN Algorithms |-> <<>>]
<1>5. held \in Held
  BY DEF Held
<1>. HIDE DEF held
<1>6. mask \in Seq(Octet) /\ Len(mask) = n
  <2>. HIDE DEF n, g
  <2>. QED
    BY <1>0, <1>1, <1>5, MaskIs DEF OaepMask, g
<1>7. masked = Xor(data, mask)
  BY DEF OaepMasked
<1>. HIDE DEF data, mask, masked
<1>8. masked \in Seq(Octet) /\ Len(masked) = n /\ Xor(masked, mask) = data
  <2>1. Len(data) =< Len(mask)
    BY <1>1, <1>4, <1>6
  <2>. QED
    BY <1>4, <1>6, <1>7, <2>1, XorIs
<1>9. seedMask \in Seq(Octet) /\ Len(seedMask) = h
  <2>. HIDE DEF n, g, h
  <2>. QED
    BY <1>0, <1>5, <1>8, MaskIs DEF OaepMask, g
<1>. HIDE DEF seedMask
<1>10. Xor(seed, seedMask) \in Seq(Octet) /\ Len(Xor(seed, seedMask)) = h /\ Xor(Xor(seed, seedMask), seedMask) = seed
  <2>1. Len(seed) =< Len(seedMask)
    BY <1>0, <1>9
  <2>. QED
    BY <1>9, <2>1, XorIs
<1>. QED
  BY <1>2, <1>4, <1>6, <1>8, <1>9, <1>10 DEF data, mask, masked, seedMask

(* Encoding puts that together, and refuses a longer message.              *)
LEMMA OaepEncoded ==
    ASSUME HashesFit, NEW o \in OaepSchemes, NEW m \in Seq(Octet), NEW k \in Nat, NEW seed \in Seq(Octet),
           Len(seed) = LengthOf(o.md), NEW held \in Held
    PROVE  LET encoded == encodeRsaOaep(held, k, m, o, seed)
           IN  /\ encoded.digests \in Held
               /\ ~ ((Len(m) + (2 * LengthOf(o.md))) + 2 =< k) => encoded.block = NoBlock
               /\ (Len(m) + (2 * LengthOf(o.md))) + 2 =< k => encoded.block = <<OaepBlock(o, m, k, seed)>>
<1>. DEFINE h == LengthOf(o.md)
            maxLength == k - (2 * h) - 2
            labelled == Labelled(held, o)
            dataBlock == Digest(labelled, o.md) \o Repeated(0, maxLength - Len(m)) \o <<1>> \o m
            dbMask == Mask(labelled, MaskObject(o), seed, k - h - 1)
            maskedDB == Xor(dataBlock, dbMask.octets)
            seedMask == Mask(dbMask.digests, MaskObject(o), maskedDB, h)
            encoded == encodeRsaOaep(held, k, m, o, seed)
<1>0. /\ o.md \in DOMAIN Algorithms /\ MaskObject(o) \in DOMAIN Algorithms /\ o.label \in Seq(Octet)
      /\ h \in Nat \ {0} /\ Len(m) \in Nat
  BY OaepOptions
<1>1. encoded =
        IF Len(m) > maxLength
        THEN [block |-> NoBlock, digests |-> Restarted(held, o.md, <<>>)]
        ELSE IF Len(seed) # h THEN [block |-> NoBlock, digests |-> labelled]
        ELSE [block |-> << <<0>> \o Xor(seed, seedMask.octets) \o maskedDB >>,
              digests |-> seedMask.digests]
  BY Zenon DEF encodeRsaOaep
<1>2. labelled \in Held /\ labelled[o.md] = o.label
  BY <1>0 DEF Labelled, Restarted, Held
<1>3. Restarted(held, o.md, <<>>) \in Held
  BY <1>0 DEF Restarted, Held
<1>4. CASE ~ ((Len(m) + (2 * h)) + 2 =< k)
  <2>1. Len(m) > maxLength
    BY <1>0, <1>4
  <2>. HIDE DEF encoded
  <2>2. encoded.block = NoBlock /\ encoded.digests = Restarted(held, o.md, <<>>)
    <3>. HIDE DEF maxLength, labelled, seedMask, maskedDB
    <3>. QED
      BY <1>1, <2>1
  <2>. QED
    BY <1>3, <1>4, <2>2 DEF encoded
<1>5. CASE (Len(m) + (2 * h)) + 2 =< k
  <2>1. ~ (Len(m) > maxLength) /\ Len(seed) = h
    BY <1>0, <1>5
  <2>2. maxLength - Len(m) = (k - Len(m)) - ((2 * h) + 2) /\ maxLength - Len(m) \in Nat
    BY <1>0, <1>5
  <2>3. k - h - 1 = (k - h) - 1 /\ k - h - 1 \in Nat \ {0}
    BY <1>0, <1>5
  <2>4. dataBlock = OaepData(o, m, k)
    <3>1. Digest(labelled, o.md) = LabelHash(o)
      BY <1>2 DEF Digest, LabelHash
    <3>2. LabelHash(o) \in Seq(Octet)
      BY <1>0, HashIs DEF LabelHash
    <3>. DEFINE z == maxLength - Len(m)
                s == LabelHash(o)
    <3>3. z \in Nat /\ s \in Seq(Octet)
      BY <2>2, <3>2
    <3>4. OaepData(o, m, k) = s \o PaddedWith(z, m)
      BY <2>2 DEF OaepData
    <3>5. dataBlock = s \o Repeated(0, z) \o <<1>> \o m
      BY <3>1, Zenon
    <3>. HIDE DEF z, s, dataBlock
    <3>. QED
      BY <3>3, <3>4, <3>5, DataJoined
  <2>. DEFINE n == k - h - 1
  <2>5. dbMask.octets = OaepMask(o, seed, n) /\ dbMask.digests \in Held
    <3>. DEFINE g == MaskObject(o)
    <3>. HIDE DEF n, labelled, g
    <3>1. n \in Nat \ {0} /\ g \in DOMAIN Algorithms
      BY <1>0, <2>3 DEF n, g
    <3>2. /\ Mask(labelled, g, seed, n).octets = StandardMask(Algorithms[g], seed, n)
          /\ Mask(labelled, g, seed, n).digests \in Held
      BY <1>2, <3>1, MaskIs
    <3>. QED
      BY <3>2 DEF n, g, OaepMask
  <2>. HIDE DEF dataBlock, dbMask
  <2>6. maskedDB = OaepMasked(o, m, k, seed)
    BY <2>3, <2>4, <2>5 DEF OaepMasked
  <2>7. maskedDB \in Seq(Octet)
    <3>1. OaepMasked(o, m, k, seed) \in Seq(Octet)
      BY <1>5, OaepParts
    <3>. QED
      BY <2>6, <3>1
  <2>. HIDE DEF maskedDB
  <2>8. seedMask.octets = OaepMask(o, maskedDB, h) /\ seedMask.digests \in Held
    <3>. DEFINE g == MaskObject(o)
                held2 == dbMask.digests
    <3>. HIDE DEF g, h, held2
    <3>1. h \in Nat \ {0} /\ g \in DOMAIN Algorithms /\ held2 \in Held
      BY <1>0, <2>5 DEF h, g, held2
    <3>2. /\ Mask(held2, g, maskedDB, h).octets = StandardMask(Algorithms[g], maskedDB, h)
          /\ Mask(held2, g, maskedDB, h).digests \in Held
      BY <2>7, <3>1, MaskIs
    <3>. QED
      BY <3>2 DEF h, g, held2, OaepMask
  <2>. HIDE DEF seedMask, maxLength, labelled
  <2>9. encoded.block = << <<0>> \o Xor(seed, seedMask.octets) \o maskedDB >> /\ encoded.digests = seedMask.digests
    <3>. HIDE DEF encoded
    <3>. QED
      BY <1>1, <2>1
  <2>10. OaepBlock(o, m, k, seed) = <<0>> \o Xor(seed, seedMask.octets) \o maskedDB
    BY <2>6, <2>8 DEF OaepBlock
  <2>. QED
    BY <1>5, <2>8, <2>9, <2>10
<1>. HIDE DEF encoded
<1>. QED
  BY <1>4, <1>5 DEF encoded

(* It is the standard's block, and no other is.                            *)
LEMMA OaepBlockIs ==
    ASSUME HashesFit, NEW o \in OaepSchemes, NEW m \in Seq(Octet), NEW k \in Nat,
           (Len(m) + (2 * LengthOf(o.md))) + 2 =< k, NEW em
    PROVE  IsOaepOf(em, m, k, o) <=>
                \E seed \in Seq(Octet) : Len(seed) = LengthOf(o.md) /\ em = OaepBlock(o, m, k, seed)
<1>. DEFINE h == LengthOf(o.md)
            g == Algorithms[MaskObject(o)]
            db == LabelHash(o) \o Repeated(0, k - Len(m) - (2 * h) - 2) \o <<1>> \o m
            Is(seed) == LET masked == Xor(db, StandardMask(g, seed, k - h - 1))
                        IN  em = <<0>> \o Xor(seed, StandardMask(g, masked, h)) \o masked
<1>0. o.md \in DOMAIN Algorithms /\ o.label \in Seq(Octet) /\ h \in Nat \ {0} /\ Len(m) \in Nat
  BY OaepOptions
<1>1. IsOaepOf(em, m, k, o) <=> \E seed \in [1 .. h -> Octet] : Is(seed)
  BY Zenon DEF IsOaepOf, LabelHash, LengthOf
<1>2. db = OaepData(o, m, k)
  <2>. DEFINE z == k - Len(m) - (2 * h) - 2
              s == LabelHash(o)
  <2>1. z \in Nat /\ z = (k - Len(m)) - ((2 * h) + 2)
    BY <1>0
  <2>2. s \in Seq(Octet)
    BY <1>0, HashIs DEF LabelHash
  <2>3. OaepData(o, m, k) = s \o PaddedWith(z, m)
    BY <2>1 DEF OaepData
  <2>4. db = s \o Repeated(0, z) \o <<1>> \o m
    BY Zenon
  <2>. HIDE DEF z, s, db
  <2>. QED
    BY <2>1, <2>2, <2>3, <2>4, DataJoined
<1>3. k - h - 1 = (k - h) - 1
  BY <1>0
<1>. HIDE DEF db, h
<1>4. \A seed : Is(seed) <=> em = OaepBlock(o, m, k, seed)
  BY <1>2, <1>3 DEF OaepBlock, OaepMasked, OaepMask, h
<1>5. \A seed : seed \in [1 .. h -> Octet] <=> seed \in Seq(Octet) /\ Len(seed) = h
  BY <1>0
<1>. HIDE DEF Is
<1>. QED
  BY <1>1, <1>4, <1>5 DEF h

LEMMA OaepBlockType ==
    ASSUME HashesFit, NEW o \in OaepSchemes, NEW m \in Seq(Octet), NEW k \in Nat, NEW seed \in Seq(Octet),
           Len(seed) = LengthOf(o.md), (Len(m) + (2 * LengthOf(o.md))) + 2 =< k
    PROVE  LET em == OaepBlock(o, m, k, seed)
               h == LengthOf(o.md)
               masked == OaepMasked(o, m, k, seed)
           IN  /\ em \in Seq(Octet) /\ Len(em) = k /\ em[1] = 0
               /\ SubSeq(em, 2, h + 1) = Xor(seed, OaepMask(o, masked, h))
               /\ SubSeq(em, h + 2, Len(em)) = masked
<1>. DEFINE h == LengthOf(o.md)
            b == OaepMasked(o, m, k, seed)
            a == Xor(seed, OaepMask(o, b, h))
            em == <<0>> \o a \o b
<1>0. h \in Nat
  BY OaepOptions
<1>1. a \in Seq(Octet) /\ Len(a) = h /\ b \in Seq(Octet) /\ Len(b) = (k - h) - 1
  BY OaepParts, Zenon
<1>2. OaepBlock(o, m, k, seed) = em
  BY DEF OaepBlock
<1>. HIDE DEF h, a, b
<1>3. /\ em \in Seq(Octet) /\ Len(em) = (Len(a) + Len(b)) + 1 /\ em[1] = 0
      /\ SubSeq(em, 2, Len(a) + 1) = a /\ SubSeq(em, Len(a) + 2, Len(em)) = b
  <2>. DEFINE x == 0
  <2>1. x \in Octet
    BY OctetSizes
  <2>. DEFINE t == Triplet(x, a, b)
  <2>. HIDE DEF x, em
  <2>2. /\ t \in Seq(Octet) /\ Len(t) = (Len(a) + Len(b)) + 1 /\ t[1] = x
        /\ SubSeq(t, 2, Len(a) + 1) = a /\ SubSeq(t, Len(a) + 2, Len(t)) = b
    <3>1. a \in Seq(Octet) /\ b \in Seq(Octet)
      BY <1>1
    <3>2. Triplet(x, a, b) \in Seq(Octet)
      BY <2>1, <3>1, Triple
    <3>3. Triplet(x, a, b)[1] = x
      BY <2>1, <3>1, Triple
    <3>4. Len(t) = (Len(a) + Len(b)) + 1
      BY <2>1, <3>1, Triple
    <3>5. SubSeq(t, 2, Len(a) + 1) = a
      BY <2>1, <3>1, Triple
    <3>6. SubSeq(t, Len(a) + 2, Len(t)) = b
      BY <2>1, <3>1, Triple
    <3>. QED
      BY <3>2, <3>3, <3>4, <3>5, <3>6
  <2>. QED
    BY <2>2, Zenon DEF x, em, Triplet
<1>. HIDE DEF em
<1>4. Len(em) = k
  BY <1>0, <1>1, <1>3
<1>5. em \in Seq(Octet) /\ em[1] = 0 /\ SubSeq(em, 2, h + 1) = a /\ SubSeq(em, h + 2, Len(em)) = b
  BY <1>1, <1>3
<1>. QED
  BY <1>2, <1>4, <1>5, Zenon DEF h, a, b

(* Decoding takes it apart, and takes nothing else.                        *)
LEMMA OaepDecoded ==
    ASSUME HashesFit, NEW o \in OaepSchemes, NEW k \in Nat, NEW em \in Seq(Octet), Len(em) = k, NEW held \in Held
    PROVE  LET decoded == decodeRsaOaep(held, k, em, o)
           IN  /\ decoded.digests \in Held
               /\ \A m \in Seq(Octet) :
                     (Len(m) + (2 * LengthOf(o.md))) + 2 =< k /\ IsOaepOf(em, m, k, o) => decoded.message = <<m>>
               /\ decoded.message # NoBlock =>
                     \E m \in Seq(Octet) : decoded.message = <<m>> /\ IsOaepOf(em, m, k, o)
<1>. DEFINE h == LengthOf(o.md)
            labelled == Labelled(held, o)
            maskedDB == SubSeq(em, h + 2, Len(em))
            seedMask == Mask(labelled, MaskObject(o), maskedDB, h)
            part == SubSeq(em, 2, h + 1)
            seed == Xor(part, seedMask.octets)
            dbMask == Mask(seedMask.digests, MaskObject(o), seed, k - h - 1)
            data == Xor(maskedDB, dbMask.octets)
            Good == em[1] = 0 /\ SubSeq(data, 1, h) = Digest(labelled, o.md)
            rest == SubSeq(data, h + 1, Len(data))
            decoded == decodeRsaOaep(held, k, em, o)
<1>0. /\ o.md \in DOMAIN Algorithms /\ MaskObject(o) \in DOMAIN Algorithms /\ o.label \in Seq(Octet)
      /\ h \in Nat \ {0}
  BY OaepOptions
<1>1. decoded =
        IF k < (2 * h) + 2
        THEN [message |-> NoBlock, digests |-> Restarted(held, o.md, <<>>)]
        ELSE [message |-> IF Good THEN Unpadded(rest) ELSE NoBlock, digests |-> dbMask.digests]
  BY Zenon DEF decodeRsaOaep
<1>2. labelled \in Held /\ labelled[o.md] = o.label
  BY <1>0 DEF Labelled, Restarted, Held
<1>3. Restarted(held, o.md, <<>>) \in Held
  BY <1>0 DEF Restarted, Held
<1>4. CASE k < (2 * h) + 2
  <2>. HIDE DEF decoded
  <2>1. decoded.message = NoBlock /\ decoded.digests = Restarted(held, o.md, <<>>)
    <3>. HIDE DEF Good, rest, dbMask
    <3>. QED
      BY <1>1, <1>4
  <2>2. \A m \in Seq(Octet) : ~ ((Len(m) + (2 * h)) + 2 =< k)
    BY <1>0, <1>4
  <2>. QED
    BY <1>3, <2>1, <2>2 DEF decoded
<1>5. CASE ~ (k < (2 * h) + 2)
  <2>1. k - h - 1 = (k - h) - 1 /\ k - h - 1 \in Nat \ {0} /\ h + 1 =< k /\ h =< k - h - 1
    BY <1>0, <1>5
  <2>2. /\ part \in Seq(Octet) /\ Len(part) = h
        /\ maskedDB \in Seq(Octet) /\ Len(maskedDB) = (Len(em) - h) - 1
        /\ em = <<em[1]>> \o part \o maskedDB
    <3>1. h \in Nat /\ h + 1 =< Len(em)
      BY <1>0, <2>1
    <3>. HIDE DEF h
    <3>. QED
      BY <3>1, TripleOf
  <2>. DEFINE n == k - h - 1
              g == MaskObject(o)
  <2>3. Digest(labelled, o.md) = LabelHash(o) /\ LabelHash(o) \in Seq(Octet) /\ Len(LabelHash(o)) = h
    <3>1. Digest(labelled, o.md) = LabelHash(o)
      BY <1>2 DEF Digest, LabelHash
    <3>2. LabelHash(o) \in Seq(Octet) /\ Len(LabelHash(o)) = h
      BY <1>0, HashIs DEF LabelHash
    <3>. QED
      BY <3>1, <3>2
  <2>. HIDE DEF maskedDB, part, labelled
  <2>4. /\ seedMask.octets = OaepMask(o, maskedDB, h) /\ seedMask.digests \in Held
        /\ seedMask.octets \in Seq(Octet) /\ Len(seedMask.octets) = h
    <3>. HIDE DEF g, h
    <3>1. h \in Nat \ {0} /\ g \in DOMAIN Algorithms
      BY <1>0 DEF h, g
    <3>2. /\ Mask(labelled, g, maskedDB, h).octets = StandardMask(Algorithms[g], maskedDB, h)
          /\ Mask(labelled, g, maskedDB, h).digests \in Held
          /\ StandardMask(Algorithms[g], maskedDB, h) \in Seq(Octet)
          /\ Len(StandardMask(Algorithms[g], maskedDB, h)) = h
      BY <1>2, <2>2, <3>1, MaskIs
    <3>. QED
      BY <3>2 DEF h, g, OaepMask
  <2>. HIDE DEF seedMask
  <2>5. seed \in Seq(Octet) /\ Len(seed) = h /\ Xor(seed, seedMask.octets) = part
    <3>1. Len(part) =< Len(seedMask.octets) /\ seedMask.octets \in Seq(Octet)
      BY <1>0, <2>2, <2>4
    <3>. QED
      BY <2>2, <3>1, XorIs
  <2>. HIDE DEF seed
  <2>6. /\ dbMask.octets = OaepMask(o, seed, n) /\ dbMask.digests \in Held
        /\ dbMask.octets \in Seq(Octet) /\ Len(dbMask.octets) = n
    <3>. DEFINE held2 == seedMask.digests
    <3>. HIDE DEF g, n, held2
    <3>1. n \in Nat \ {0} /\ g \in DOMAIN Algorithms /\ held2 \in Held
      BY <1>0, <2>1, <2>4 DEF n, g, held2
    <3>2. /\ Mask(held2, g, seed, n).octets = StandardMask(Algorithms[g], seed, n)
          /\ Mask(held2, g, seed, n).digests \in Held
          /\ StandardMask(Algorithms[g], seed, n) \in Seq(Octet)
          /\ Len(StandardMask(Algorithms[g], seed, n)) = n
      BY <2>5, <3>1, MaskIs
    <3>. QED
      BY <3>2 DEF n, g, held2, OaepMask
  <2>. HIDE DEF dbMask
  <2>7. data \in Seq(Octet) /\ Len(data) = n /\ Xor(data, dbMask.octets) = maskedDB
    <3>1. Len(maskedDB) =< Len(dbMask.octets) /\ dbMask.octets \in Seq(Octet) /\ Len(maskedDB) = n
      BY <1>0, <2>1, <2>2, <2>6
    <3>. QED
      BY <2>2, <3>1, XorIs
  <2>. HIDE DEF data
  <2>8. decoded.message = (IF Good THEN Unpadded(rest) ELSE NoBlock) /\ decoded.digests = dbMask.digests
    <3>. HIDE DEF decoded, Good, rest
    <3>. QED
      BY <1>1, <1>5
  <2>9. ASSUME NEW m \in Seq(Octet), (Len(m) + (2 * h)) + 2 =< k, IsOaepOf(em, m, k, o)
        PROVE  decoded.message = <<m>>
    <3>1. PICK s \in Seq(Octet) : Len(s) = h /\ em = OaepBlock(o, m, k, s)
      BY <2>9, OaepBlockIs
    <3>. DEFINE masked == OaepMasked(o, m, k, s)
    <3>2. em[1] = 0 /\ part = Xor(s, OaepMask(o, masked, h)) /\ maskedDB = masked
      <4>1. LET e == OaepBlock(o, m, k, s)
            IN  /\ e[1] = 0
                /\ SubSeq(e, 2, h + 1) = Xor(s, OaepMask(o, masked, h))
                /\ SubSeq(e, h + 2, Len(e)) = masked
        BY <2>9, <3>1, OaepBlockType, Zenon
      <4>. HIDE DEF masked, h
      <4>. QED
        BY <3>1, <4>1 DEF part, maskedDB
    <3>3. /\ Xor(masked, OaepMask(o, s, n)) = OaepData(o, m, k)
          /\ Xor(Xor(s, OaepMask(o, masked, h)), OaepMask(o, masked, h)) = s
      <4>1. /\ Xor(masked, OaepMask(o, s, (k - h) - 1)) = OaepData(o, m, k)
            /\ Xor(Xor(s, OaepMask(o, masked, h)), OaepMask(o, masked, h)) = s
        BY <2>9, <3>1, OaepParts
      <4>. QED
        BY <2>1, <4>1
    <3>. HIDE DEF masked
    <3>4. seed = s
      BY <2>4, <3>2, <3>3 DEF seed
    <3>5. data = OaepData(o, m, k)
      BY <2>6, <3>2, <3>3, <3>4 DEF data
    <3>. DEFINE z == (k - Len(m)) - ((2 * h) + 2)
                tail == PaddedWith(z, m)
                lh == LabelHash(o)
    <3>6. z \in Nat
      BY <1>0, <2>9
    <3>7. data = lh \o tail
      BY <3>5 DEF OaepData
    <3>8. tail \in Seq(Octet)
      <4>. HIDE DEF z
      <4>. QED
        BY <3>6, PaddedWithIs
    <3>9. lh \in Seq(Octet) /\ Len(lh) = h
      BY <2>3
    <3>10. Unpadded(tail) = <<m>>
      <4>. HIDE DEF z
      <4>. QED
        BY <3>6, <3>8, UnpaddedIs
    <3>. HIDE DEF tail, lh, z
    <3>11. /\ SubSeq(data, 1, Len(lh)) = lh
           /\ SubSeq(data, Len(lh) + 1, Len(lh) + Len(tail)) = tail
           /\ Len(data) = Len(lh) + Len(tail)
      BY <3>7, <3>8, <3>9, Joined, PartsOfJoined
    <3>12. SubSeq(data, 1, h) = lh /\ rest = tail
      BY <3>9, <3>11
    <3>13. Good
      BY <2>3, <3>2, <3>12 DEF lh
    <3>. QED
      BY <2>8, <3>10, <3>12, <3>13
  <2>10. ASSUME decoded.message # NoBlock
         PROVE  \E m \in Seq(Octet) : decoded.message = <<m>> /\ IsOaepOf(em, m, k, o)
    <3>1. Good /\ Unpadded(rest) # NoBlock /\ decoded.message = Unpadded(rest)
      <4>. HIDE DEF Good, rest, decoded
      <4>. QED
        BY <2>8, <2>10
    <3>. DEFINE lh == SubSeq(data, 1, h)
    <3>2. lh = LabelHash(o) /\ em[1] = 0
      BY <2>3, <3>1
    <3>3. n \in Nat /\ h \in Nat /\ h =< n /\ h \in Nat \ {0}
      BY <1>0, <2>1
    <3>4. rest \in Seq(Octet) /\ Len(rest) = n - h
      <4>. DEFINE i == h + 1
      <4>1. i \in Nat \ {0} /\ n =< Len(data) /\ i =< n + 1 /\ (n - i) + 1 = n - h /\ n = Len(data)
        BY <2>7, <3>3
      <4>. HIDE DEF i, n
      <4>2. SubSeq(data, i, n) \in Seq(Octet) /\ Len(SubSeq(data, i, n)) = (n - i) + 1
        BY <2>7, <3>3, <4>1, Part
      <4>3. rest = SubSeq(data, i, n)
        BY <4>1 DEF i
      <4>. QED
        BY <4>1, <4>2, <4>3
    <3>5. data = lh \o rest
      <4>. DEFINE c == 1
                  l == Len(data)
      <4>1. c \in 1 .. l + 1 /\ h \in c - 1 .. l /\ l \in h .. l
        BY <2>7, <3>3
      <4>. HIDE DEF c, l, h
      <4>2. SubSeq(data, c, h) \o SubSeq(data, h + 1, l) = SubSeq(data, c, l)
        BY <2>7, <4>1, ConcatAdjacentSubSeq DEF l
      <4>3. SubSeq(data, 1, l) = data
        BY <2>7, SubSeqFull DEF l
      <4>. QED
        BY <4>2, <4>3 DEF c, l
    <3>. HIDE DEF lh, rest
    <3>6. PICK z \in Nat, m \in Seq(Octet) : rest = PaddedWith(z, m) /\ Unpadded(rest) = <<m>>
      BY <3>1, <3>4, UnpaddedIs
    <3>7. Len(rest) = (z + 1) + Len(m)
      BY <3>6, PaddedWithIs
    <3>8. z = (k - Len(m)) - ((2 * h) + 2) /\ (Len(m) + (2 * h)) + 2 =< k
      <4>1. Len(m) \in Nat
        OBVIOUS
      <4>. QED
        BY <3>3, <3>4, <3>7, <4>1, SMTT(60)
    <3>9. data = OaepData(o, m, k)
      BY <3>2, <3>5, <3>6, <3>8 DEF OaepData
    <3>10. maskedDB = OaepMasked(o, m, k, seed)
      BY <2>1, <2>6, <2>7, <3>9 DEF OaepMasked
    <3>11. em = OaepBlock(o, m, k, seed)
      BY <2>2, <2>4, <2>5, <3>2, <3>10 DEF OaepBlock
    <3>12. IsOaepOf(em, m, k, o)
      <4>1. IsOaepOf(em, m, k, o) <=>
                \E s \in Seq(Octet) : Len(s) = h /\ em = OaepBlock(o, m, k, s)
        BY <3>8, OaepBlockIs
      <4>. QED
        BY <2>5, <3>11, <4>1
    <3>. QED
      BY <3>1, <3>6, <3>12
  <2>. HIDE DEF decoded, n
  <2>. QED
    BY <2>6, <2>8, <2>9, <2>10 DEF decoded
<1>. HIDE DEF decoded
<1>. QED
  BY <1>4, <1>5 DEF decoded

-----------------------------------------------------------------------------
(* PSS.  Bits of the block, octets that they go into, and the first of     *)
(* those.                                                                  *)

LEMMA FirstSizeIs ==
    ASSUME NEW bits \in Nat \ {0}, EmLen(bits) > 0
    PROVE  /\ EmLen(bits) \in Nat /\ EmLen(bits) =< OctetsFor(bits)
           /\ \E f \in 1 .. OctetBits :
                /\ FirstSize(bits) = PowersOf(2)[f]
                /\ FirstSize(bits) * PowersOf(OctetSize)[EmLen(bits) - 1] = PowersOf(2)[bits - 1]
           /\ FirstSize(bits) \in Nat \ {0} /\ FirstSize(bits) >= 2 /\ FirstSize(bits) =< OctetSize
<1>. DEFINE m == OctetBits
            e == bits - 1
            l == EmLen(bits)
            P == PowersOf(2)
            c == (e + m) - 1
            s == c % m
            r == (m * l) - e
            f == m - r
<1>1. m \in Nat \ {0} /\ m >= 2 /\ e \in Nat /\ c \in Nat /\ l = c \div m
  <2>1. m \in Nat /\ m >= 2
    BY SchemesAssumption
  <2>2. l = ((e + m) - 1) \div m
    BY DEF EmLen, EmBits, OctetsFor
  <2>. HIDE DEF m, l
  <2>. QED
    BY <2>1, <2>2
<1>2. FirstSize(bits) = OctetSize \div P[r]
  BY DEF FirstSize, EmBits
<1>. HIDE DEF l, P, m
<1>3. l \in Nat /\ s \in Nat /\ s < m /\ c = (l * m) + s
  <2>. HIDE DEF c
  <2>. QED
    BY <1>1, QuotientOf
<1>4. l \in Nat \ {0}
  BY <1>3 DEF l
<1>. HIDE DEF s
<1>5. m * l = l * m /\ m * l \in Nat /\ m * (l - 1) = (m * l) - m /\ m * (l - 1) \in Nat
  <2>1. m * (l - 1) = (m * l) - m /\ m * l = l * m
    BY <1>1, <1>4
  <2>2. l - 1 \in Nat
    BY <1>4
  <2>3. m * l \in Nat /\ m * (l - 1) \in Nat
    BY <1>1, <1>4, <2>2
  <2>. QED
    BY <2>1, <2>3
<1>6. r \in Nat /\ r < m
  <2>. DEFINE x == l * m
  <2>1. x \in Nat
    BY <1>5
  <2>. HIDE DEF x
  <2>2. r = (m - 1) - s
    BY <1>1, <1>3, <1>5, <2>1 DEF x
  <2>. QED
    BY <1>1, <1>3, <2>2
<1>. DEFINE y == m * (l - 1)
<1>7. f \in 1 .. m /\ f + y = e /\ f + r = m
  BY <1>1, <1>5, <1>6
<1>8. P[f] \in Nat \ {0} /\ P[r] \in Nat \ {0} /\ P[m] \in Nat \ {0} /\ P[f] =< P[m] /\ P[1] = 2 /\ P[1] =< P[f]
  <2>1. f \in Nat /\ 1 =< f /\ f =< m
    BY <1>1, <1>7
  <2>. HIDE DEF f, r
  <2>2. P[f] =< P[m] /\ P[1] =< P[f]
    BY <1>1, <2>1, PowersGrow DEF P
  <2>3. P[0 + 1] = 2 * P[0] /\ P[0] = 1
    BY PowersGrow DEF P
  <2>. QED
    BY <1>1, <1>6, <2>1, <2>2, <2>3, PowersOfTwo DEF P
<1>. HIDE DEF f, r, y
<1>9. P[m] = P[f] * P[r] /\ P[e] = P[f] * P[y]
  <2>1. f \in Nat /\ r \in Nat /\ y \in Nat
    BY <1>5, <1>6, <1>7 DEF y
  <2>. DEFINE b == 2
  <2>2. b \in Int
    OBVIOUS
  <2>. HIDE DEF b
  <2>3. PowersOf(b)[f + r] = PowersOf(b)[f] * PowersOf(b)[r]
    BY <2>1, <2>2, PowersOfSum
  <2>4. PowersOf(b)[f + y] = PowersOf(b)[f] * PowersOf(b)[y]
    BY <2>1, <2>2, PowersOfSum
  <2>. QED
    BY <1>7, <2>3, <2>4 DEF b, P
<1>10. FirstSize(bits) = P[f]
  <2>1. OctetSize = P[m]
    BY DEF OctetSize, P, m
  <2>. DEFINE x == P[f]
              z == P[r]
              o == 0
  <2>2. x \in Nat /\ z \in Nat \ {0} /\ o \in Nat /\ o < z
    BY <1>8
  <2>. HIDE DEF x, z, o
  <2>3. ((x * z) + o) \div z = x
    BY <2>2, QuotientIs
  <2>4. x * z \in Nat
    BY <2>2
  <2>5. (x * z) + o = x * z
    BY <2>4 DEF o
  <2>. QED
    BY <1>2, <1>9, <2>1, <2>3, <2>5 DEF x, z
<1>11. FirstSize(bits) * PowersOf(OctetSize)[l - 1] = P[bits - 1]
  <2>1. l - 1 \in Nat
    BY <1>4
  <2>2. PowersOf(OctetSize)[l - 1] = P[y]
    BY <2>1, OctetPowers DEF P, y, m
  <2>. QED
    BY <1>9, <1>10, <2>2
<1>12. l =< OctetsFor(bits)
  <2>. DEFINE d == (bits + m) - 1
              k == d \div m
              t == d % m
  <2>1. OctetsFor(bits) = k
    BY DEF OctetsFor, m
  <2>2. d \in Nat /\ d = c + 1
    BY <1>1
  <2>. HIDE DEF d, c
  <2>3. k \in Nat /\ t \in Nat /\ t < m /\ d = (k * m) + t
    BY <1>1, <2>2, QuotientOf
  <2>. HIDE DEF k, t
  <2>4. ~ (k < l)
    <3>. SUFFICES ASSUME k < l
                  PROVE  FALSE
      OBVIOUS
    <3>1. (k + 1) * m =< l * m /\ (k + 1) * m = (k * m) + m
      BY <1>1, <1>3, <2>3
    <3>2. k * m \in Nat /\ l * m \in Nat
      BY <1>1, <1>3, <2>3
    <3>. QED
      BY <1>1, <1>3, <2>2, <2>3, <3>1, <3>2
  <2>. QED
    BY <1>3, <2>1, <2>3, <2>4
<1>13. OctetSize = P[m]
  BY DEF OctetSize, P, m
<1>14. FirstSize(bits) \in Nat \ {0} /\ FirstSize(bits) >= 2 /\ FirstSize(bits) =< OctetSize
  BY <1>8, <1>10, <1>13
<1>. QED
  BY <1>3, <1>7, <1>10, <1>11, <1>12, <1>14 DEF P, l, m

(* The first octet's low bits and the other octets.                        *)
LEMMA LowBitsIs ==
    ASSUME NEW bits \in Nat \ {0}, EmLen(bits) > 0, NEW s \in Seq(Octet), Len(s) > 0
    PROVE  /\ LowBits(s, bits) \in Seq(Octet) /\ Len(LowBits(s, bits)) = Len(s)
           /\ LowBits(s, bits)[1] = s[1] % FirstSize(bits)
           /\ LowBits(s, bits)[1] < FirstSize(bits)
           /\ \A i \in 2 .. Len(s) : LowBits(s, bits)[i] = s[i]
<1>. DEFINE F == FirstSize(bits)
            x == s[1] % F
            a == <<x>>
            b == Tail(s)
            j == a \o b
            n == Len(s)
<1>1. F \in Nat \ {0} /\ F =< OctetSize
  BY FirstSizeIs
<1>2. s[1] \in Octet /\ n \in Nat /\ n >= 1
  BY ElementOfSeq
<1>. HIDE DEF F
<1>3. x \in Octet /\ x < F
  <2>1. s[1] \in Nat /\ Octet = 0 .. OctetSize - 1 /\ OctetSize \in Nat
    BY <1>2, OctetSizes
  <2>2. x \in Nat /\ x < F
    BY <1>1, <2>1
  <2>. HIDE DEF x
  <2>. QED
    BY <1>1, <2>1, <2>2
<1>4. LowBits(s, bits) = j
  BY DEF LowBits, F
<1>. HIDE DEF x
<1>5. a \in Seq(Octet) /\ Len(a) = 1 /\ a[1] = x
  BY <1>3, Single
<1>6. b \in Seq(Octet) /\ Len(b) = n - 1 /\ \A i \in 1 .. Len(b) : b[i] = s[i + 1]
  <2>1. s # <<>>
    BY <1>2
  <2>. QED
    BY <2>1, HeadTailProperties
<1>. HIDE DEF a, b, n
<1>7. /\ j \in Seq(Octet) /\ Len(j) = Len(a) + Len(b)
      /\ \A i \in 1 .. Len(a) : j[i] = a[i]
      /\ \A i \in 1 .. Len(b) : j[Len(a) + i] = b[i]
  BY <1>5, <1>6, Joined
<1>. HIDE DEF j
<1>8. Len(j) = n
  BY <1>2, <1>5, <1>6, <1>7
<1>9. j[1] = x
  <2>1. 1 \in 1 .. Len(a)
    BY <1>5
  <2>. QED
    BY <1>5, <1>7, <2>1
<1>10. ASSUME NEW i \in 2 .. n
       PROVE  j[i] = s[i]
  <2>. DEFINE k == i - 1
  <2>1. k \in 1 .. Len(b) /\ 1 + k = i /\ k + 1 = i
    BY <1>2, <1>6
  <2>. HIDE DEF k
  <2>2. j[1 + k] = b[k] /\ b[k] = s[k + 1]
    BY <1>5, <1>6, <1>7, <2>1
  <2>. QED
    BY <2>1, <2>2
<1>. QED
  BY <1>3, <1>4, <1>7, <1>8, <1>9, <1>10 DEF x, F, n

(* When the first octet has no other bits it comes back too.               *)
LEMMA LowBitsUndo ==
    ASSUME NEW bits \in Nat \ {0}, EmLen(bits) > 0, NEW s \in Seq(Octet), NEW t \in Seq(Octet),
           Len(s) = Len(t), Len(s) > 0, s[1] < FirstSize(bits)
    PROVE  LowBits(Xor(LowBits(Xor(s, t), bits), t), bits) = s
<1>. DEFINE n == Len(s)
            F == FirstSize(bits)
            x == Xor(s, t)
            l == LowBits(x, bits)
            y == Xor(l, t)
            u == LowBits(y, bits)
            B == XorBits[OctetBits]
<1>1. n \in Nat /\ n >= 1 /\ n =< Len(t) /\ n = Len(t)
  OBVIOUS
<1>2. x \in Seq(Octet) /\ Len(x) = n /\ (\A i \in 1 .. n : x[i] = B[s[i]][t[i]]) /\ Xor(x, t) = s
  BY <1>1, XorIs
<1>. HIDE DEF x, n, F
<1>3. l \in Seq(Octet) /\ Len(l) = n /\ l[1] = x[1] % F /\ l[1] < F /\ \A i \in 2 .. n : l[i] = x[i]
  <2>1. Len(x) > 0
    BY <1>1, <1>2
  <2>. QED
    BY <1>2, <2>1, LowBitsIs DEF F
<1>. HIDE DEF l
<1>4. y \in Seq(Octet) /\ Len(y) = n /\ \A i \in 1 .. n : y[i] = B[l[i]][t[i]]
  <2>1. Len(l) =< Len(t)
    BY <1>1, <1>3
  <2>. QED
    BY <1>3, <2>1, XorIs
<1>. HIDE DEF y
<1>5. u \in Seq(Octet) /\ Len(u) = n /\ u[1] = y[1] % F /\ \A i \in 2 .. n : u[i] = y[i]
  <2>1. Len(y) > 0
    BY <1>1, <1>4
  <2>. QED
    BY <1>4, <2>1, LowBitsIs DEF F
<1>. HIDE DEF u
<1>6. \A i \in 1 .. n : s[i] \in Nat /\ t[i] \in Nat /\ s[i] < OctetSize
  <2>1. \A i \in 1 .. n : s[i] \in Octet /\ t[i] \in Octet
    BY <1>1, ElementOfSeq DEF n
  <2>. QED
    BY <2>1, OctetSizes
<1>7. u[1] = s[1]
  <2>1. PICK f \in 1 .. OctetBits : F = PowersOf(2)[f]
    BY FirstSizeIs DEF F
  <2>. DEFINE a == s[1]
              b == t[1]
              c == OctetBits - f
              X == XorBits
  <2>2. f \in Nat /\ c \in Nat /\ f + c = OctetBits
    BY <2>1, OctetSizes
  <2>3. a \in Nat /\ b \in Nat /\ a < F /\ 1 \in 1 .. n
    BY <1>1, <1>6 DEF F
  <2>4. x[1] = X[f + c][a][b] /\ y[1] = X[f + c][l[1]][b]
    BY <1>2, <1>4, <2>2, <2>3
  <2>. HIDE DEF a, b, c, X
  <2>5. \A p \in Nat, q \in Nat : X[f + c][p][q] % PowersOf(2)[f] = X[f][p][q]
    BY <2>2, XorBitsLow DEF X
  <2>6. l[1] = X[f][a][b]
    BY <1>3, <2>1, <2>3, <2>4, <2>5
  <2>7. X[f][a][b] \in Nat /\ X[f][X[f][a][b]][b] = a % PowersOf(2)[f]
    BY <2>2, <2>3, XorBitsUndo DEF X
  <2>8. u[1] = a % F
    BY <1>5, <2>1, <2>3, <2>4, <2>5, <2>6, <2>7, SMTT(60)
  <2>9. a % F = a
    <3>1. F \in Nat \ {0}
      BY FirstSizeIs DEF F
    <3>. QED
      BY <2>3, <3>1
  <2>. QED
    BY <2>8, <2>9 DEF a
<1>8. ASSUME NEW i \in 2 .. n
      PROVE  u[i] = s[i]
  <2>1. i \in 1 .. n
    BY <1>1
  <2>2. u[i] = B[B[s[i]][t[i]]][t[i]]
    BY <1>2, <1>3, <1>4, <1>5, <2>1
  <2>3. B[B[s[i]][t[i]]][t[i]] = s[i] % OctetSize
    <3>. DEFINE a == s[i]
                b == t[i]
    <3>1. a \in Nat /\ b \in Nat /\ OctetBits \in Nat
      BY <1>6, <2>1, OctetSizes
    <3>. HIDE DEF a, b
    <3>2. B[B[a][b]][b] = a % PowersOf(2)[OctetBits]
      BY <3>1, XorBitsUndo
    <3>. QED
      BY <3>2 DEF a, b, OctetSize
  <2>4. s[i] % OctetSize = s[i]
    <3>. DEFINE a == s[i]
    <3>1. a \in Nat /\ a < OctetSize
      BY <1>6, <2>1
    <3>. HIDE DEF a
    <3>2. OctetSize \in Nat \ {0}
      BY OctetSizes
    <3>3. a % OctetSize = a
      BY <3>1, <3>2
    <3>. QED
      BY <3>3 DEF a
  <2>. QED
    BY <2>2, <2>3, <2>4
<1>9. \A i \in 1 .. n : u[i] = s[i]
  <2>1. \A i \in 1 .. n : i = 1 \/ i \in 2 .. n
    BY <1>1
  <2>. QED
    BY <1>7, <1>8, <2>1
<1>10. u = s
  BY <1>5, <1>9, SeqEqual DEF n
<1>. QED
  BY <1>10 DEF u, y, l, x

(* A mask that is off, a hash, and the trailer.                            *)
Trailed(a, b, x) == a \o b \o <<x>>

LEMMA TrailedIs ==
    ASSUME NEW a \in Seq(Octet), NEW b \in Seq(Octet), NEW x \in Octet
    PROVE  /\ Trailed(a, b, x) \in Seq(Octet) /\ Len(Trailed(a, b, x)) = (Len(a) + Len(b)) + 1
           /\ SubSeq(Trailed(a, b, x), 1, Len(a)) = a
           /\ SubSeq(Trailed(a, b, x), Len(a) + 1, Len(a) + Len(b)) = b
           /\ Trailed(a, b, x)[(Len(a) + Len(b)) + 1] = x
           /\ \A i \in 1 .. Len(a) : Trailed(a, b, x)[i] = a[i]
<1>. DEFINE z == <<x>>
            y == a \o b
            em == y \o z
            m == Len(a)
            n == Len(b)
<1>1. z \in Seq(Octet) /\ Len(z) = 1 /\ z[1] = x /\ m \in Nat /\ n \in Nat
  BY Single
<1>. HIDE DEF z
<1>2. /\ y \in Seq(Octet) /\ Len(y) = m + n
      /\ \A i \in 1 .. m : y[i] = a[i]
      /\ \A i \in 1 .. n : y[m + i] = b[i]
  BY Joined
<1>. HIDE DEF y
<1>3. /\ em \in Seq(Octet) /\ Len(em) = Len(y) + Len(z)
      /\ \A i \in 1 .. Len(y) : em[i] = y[i]
      /\ \A i \in 1 .. Len(z) : em[Len(y) + i] = z[i]
  BY <1>1, <1>2, Joined
<1>4. Trailed(a, b, x) = em
  BY DEF Trailed, y, z
<1>. HIDE DEF em, m, n
<1>5. Len(em) = (m + n) + 1
  BY <1>1, <1>2, <1>3
<1>6. em[(m + n) + 1] = x
  <2>1. 1 \in 1 .. Len(z)
    BY <1>1
  <2>. QED
    BY <1>1, <1>2, <1>3, <2>1
<1>7. \A i \in 1 .. m + n : em[i] = y[i]
  BY <1>2, <1>3
<1>8. \A i \in 1 .. m : em[i] = a[i]
  <2>1. \A i \in 1 .. m : i \in 1 .. m + n
    BY <1>1
  <2>. QED
    BY <1>2, <1>7, <2>1
<1>9. SubSeq(em, 1, m) = a
  <2>. DEFINE c == 1
              s == SubSeq(em, c, m)
  <2>1. c \in Nat \ {0} /\ m =< Len(em) /\ c =< m + 1 /\ (m - c) + 1 = m
    BY <1>1, <1>5
  <2>2. \A l \in 1 .. m : (c + l) - 1 = l
    OBVIOUS
  <2>. HIDE DEF c
  <2>3. s \in Seq(Octet) /\ Len(s) = (m - c) + 1 /\ \A l \in 1 .. (m - c) + 1 : s[l] = em[(c + l) - 1]
    BY <1>1, <1>3, <2>1, Part
  <2>. HIDE DEF s
  <2>4. Len(s) = Len(a) /\ \A l \in 1 .. Len(s) : s[l] = a[l]
    BY <1>8, <2>1, <2>2, <2>3 DEF m
  <2>5. s = a
    BY <2>3, <2>4, SeqEqual
  <2>. QED
    BY <2>5 DEF s, c
<1>10. SubSeq(em, m + 1, m + n) = b
  <2>. DEFINE c == m + 1
              e == m + n
              s == SubSeq(em, c, e)
  <2>1. c \in Nat \ {0} /\ e \in Nat /\ e =< Len(em) /\ c =< e + 1 /\ (e - c) + 1 = n
    BY <1>1, <1>5
  <2>2. \A l \in 1 .. n : (c + l) - 1 = m + l /\ m + l \in 1 .. m + n
    BY <1>1
  <2>. HIDE DEF c, e
  <2>3. s \in Seq(Octet) /\ Len(s) = (e - c) + 1 /\ \A l \in 1 .. (e - c) + 1 : s[l] = em[(c + l) - 1]
    BY <1>1, <1>3, <2>1, Part
  <2>. HIDE DEF s
  <2>4. Len(s) = Len(b) /\ \A l \in 1 .. Len(s) : s[l] = b[l]
    BY <1>2, <1>7, <2>1, <2>2, <2>3, SMTT(60) DEF n
  <2>5. s = b
    BY <2>3, <2>4, SeqEqual
  <2>. QED
    BY <2>5 DEF s, c, e
<1>. QED
  BY <1>3, <1>4, <1>5, <1>6, <1>8, <1>9, <1>10 DEF m, n

LEMMA TrailedOf ==
    ASSUME NEW em \in Seq(Octet), NEW n \in Nat, NEW h \in Nat, Len(em) = (n + h) + 1
    PROVE  /\ SubSeq(em, 1, n) \in Seq(Octet) /\ Len(SubSeq(em, 1, n)) = n
           /\ SubSeq(em, n + 1, n + h) \in Seq(Octet) /\ Len(SubSeq(em, n + 1, n + h)) = h
           /\ em[Len(em)] \in Octet
           /\ n > 0 => SubSeq(em, 1, n)[1] = em[1]
           /\ em = Trailed(SubSeq(em, 1, n), SubSeq(em, n + 1, n + h), em[Len(em)])
<1>. DEFINE a == SubSeq(em, 1, n)
            b == SubSeq(em, n + 1, n + h)
            x == em[Len(em)]
            c == 1
            i == n + 1
            j == n + h
            k == (n + h) + 1
<1>1. c \in Nat \ {0} /\ n =< Len(em) /\ c =< n + 1 /\ (n - c) + 1 = n
      /\ i \in Nat \ {0} /\ j \in Nat /\ j =< Len(em) /\ i =< j + 1 /\ (j - i) + 1 = h
      /\ k \in 1 .. Len(em) /\ Len(em) = k /\ j + 1 = k
  OBVIOUS
<1>. HIDE DEF c, i, j, k
<1>2. SubSeq(em, c, n) \in Seq(Octet) /\ Len(SubSeq(em, c, n)) = n
      /\ \A l \in 1 .. n : SubSeq(em, c, n)[l] = em[(c + l) - 1]
  BY <1>1, Part
<1>3. SubSeq(em, i, j) \in Seq(Octet) /\ Len(SubSeq(em, i, j)) = h
  BY <1>1, Part
<1>4. em[k] \in Octet
  BY <1>1, ElementOfSeq
<1>5. n > 0 => SubSeq(em, c, n)[1] = em[1]
  <2>. SUFFICES ASSUME n > 0
                PROVE  SubSeq(em, c, n)[1] = em[1]
    OBVIOUS
  <2>1. 1 \in 1 .. n /\ (c + 1) - 1 = 1
    BY DEF c
  <2>. QED
    BY <1>2, <2>1
<1>6. SubSeq(em, c, n) \o SubSeq(em, n + 1, j) = SubSeq(em, c, j)
  <2>1. c \in 1 .. Len(em) + 1 /\ n \in c - 1 .. Len(em) /\ j \in n .. Len(em)
    BY <1>1 DEF c, i, j
  <2>. QED
    BY <2>1, ConcatAdjacentSubSeq
<1>7. SubSeq(em, c, k) = SubSeq(em, c, k - 1) \o <<em[k]>>
  <2>1. c \in 1 .. Len(em) /\ k \in c .. Len(em)
    BY <1>1 DEF c
  <2>. QED
    BY <2>1, SubSeqRecursiveSecond
<1>8. k - 1 = j /\ n + 1 = i
  BY <1>1 DEF i
<1>9. SubSeq(em, c, k) = em
  BY <1>1, SubSeqFull DEF c
<1>10. em = Trailed(SubSeq(em, c, n), SubSeq(em, i, j), em[k])
  BY <1>6, <1>7, <1>8, <1>9, Zenon DEF Trailed
<1>. QED
  BY <1>1, <1>2, <1>3, <1>4, <1>5, <1>10 DEF c, i, j

PssSchemes == [scheme : {"PSS"}, md : DOMAIN Algorithms, mgf : DOMAIN Algorithms, saltLength : Nat \ {0}]

LEMMA PssOptions ==
    ASSUME NEW o \in PssSchemes
    PROVE  /\ o.md \in DOMAIN Algorithms /\ o.mgf \in DOMAIN Algorithms /\ o.saltLength \in Nat \ {0}
           /\ LengthOf(o.md) \in Nat \ {0}
  BY SchemesAssumption DEF PssSchemes

MaskLength(o, bits) == (EmLen(bits) - LengthOf(o.md)) - 1
PssHash(o, hash, salt) == Hash(Algorithms[o.md], Eight \o hash \o salt)
PssMask(o, hash, bits) == StandardMask(Algorithms[o.mgf], hash, MaskLength(o, bits))
PssMasked(o, hash, bits, salt) ==
    LowBits(Xor(PaddedWith((MaskLength(o, bits) - o.saltLength) - 1, salt),
                PssMask(o, PssHash(o, hash, salt), bits)), bits)
PssBlock(o, hash, bits, salt) ==
    Trailed(PssMasked(o, hash, bits, salt), PssHash(o, hash, salt), Trailer)

LEMMA SaltedIs ==
    ASSUME NEW hash \in Seq(Octet), NEW salt \in Seq(Octet)
    PROVE  Eight \o hash \o salt \in Seq(Octet)
<1>1. Eight \in Seq(Octet)
  <2>. DEFINE c == 0
              e == 8
  <2>1. c \in Octet /\ e \in Nat
    BY OctetSizes
  <2>. HIDE DEF c, e
  <2>2. Repeated(c, e) \in Seq(Octet)
    BY <2>1, RepeatedIs
  <2>. QED
    BY <2>2 DEF Eight, c, e
<1>2. Eight \o hash \in Seq(Octet)
  BY <1>1, Joined
<1>. DEFINE y == Eight \o hash
<1>3. y \in Seq(Octet)
  BY <1>2
<1>. HIDE DEF y
<1>4. y \o salt \in Seq(Octet)
  BY <1>3, Joined
<1>. QED
  BY <1>4 DEF y

LEMMA PssSizes ==
    ASSUME NEW o \in PssSchemes, NEW bits \in Nat \ {0}, FitsPss(o, bits)
    PROVE  /\ LengthOf(o.md) \in Nat \ {0} /\ o.saltLength \in Nat \ {0}
           /\ EmLen(bits) \in Nat /\ EmLen(bits) > 0
           /\ MaskLength(o, bits) \in Nat \ {0}
           /\ (MaskLength(o, bits) - o.saltLength) - 1 \in Nat
           /\ EmLen(bits) = (MaskLength(o, bits) + LengthOf(o.md)) + 1
<1>. DEFINE l == EmLen(bits)
            h == LengthOf(o.md)
            c == bits - 1
            m == OctetBits
<1>1. h \in Nat \ {0} /\ o.saltLength \in Nat \ {0}
  BY PssOptions
<1>2. l \in Nat
  <2>1. m \in Nat \ {0} /\ c \in Nat
    BY SchemesAssumption
  <2>2. l = ((c + m) - 1) \div m
    BY DEF EmLen, EmBits, OctetsFor
  <2>. DEFINE a == (c + m) - 1
  <2>3. a \in Nat
    BY <2>1
  <2>. HIDE DEF a, c, m, l
  <2>4. a \div m \in Nat
    BY <2>1, <2>3, QuotientOf
  <2>. QED
    BY <2>2, <2>4 DEF a
<1>3. l >= h + o.saltLength + 2
  BY DEF FitsPss
<1>. HIDE DEF l, h
<1>4. MaskLength(o, bits) = (l - h) - 1
  BY DEF MaskLength, l, h
<1>. QED
  BY <1>1, <1>2, <1>3, <1>4 DEF l, h

LEMMA PssParts ==
    ASSUME HashesFit, NEW o \in PssSchemes, NEW bits \in Nat \ {0}, FitsPss(o, bits),
           NEW hash \in Seq(Octet), NEW salt \in Seq(Octet), Len(salt) = o.saltLength
    PROVE  LET n == MaskLength(o, bits)
               data == PaddedWith((n - o.saltLength) - 1, salt)
               mask == PssMask(o, PssHash(o, hash, salt), bits)
               masked == PssMasked(o, hash, bits, salt)
           IN  /\ PssHash(o, hash, salt) \in Seq(Octet) /\ Len(PssHash(o, hash, salt)) = LengthOf(o.md)
               /\ data \in Seq(Octet) /\ Len(data) = n /\ data[1] < FirstSize(bits)
               /\ mask \in Seq(Octet) /\ Len(mask) = n
               /\ masked \in Seq(Octet) /\ Len(masked) = n /\ masked[1] < FirstSize(bits)
               /\ LowBits(Xor(masked, mask), bits) = data
<1>. DEFINE n == MaskLength(o, bits)
            h == LengthOf(o.md)
            z == (n - o.saltLength) - 1
            data == PaddedWith(z, salt)
            s == PssHash(o, hash, salt)
            mask == PssMask(o, s, bits)
            masked == PssMasked(o, hash, bits, salt)
            F == FirstSize(bits)
<1>1. /\ h \in Nat \ {0} /\ o.saltLength \in Nat \ {0} /\ n \in Nat \ {0} /\ z \in Nat
      /\ EmLen(bits) \in Nat /\ EmLen(bits) > 0
  BY PssSizes
<1>2. o.md \in DOMAIN Algorithms /\ o.mgf \in DOMAIN Algorithms
  BY PssOptions
<1>3. F \in Nat \ {0} /\ F >= 2
  BY <1>1, FirstSizeIs
<1>4. s \in Seq(Octet) /\ Len(s) = h
  <2>1. Eight \o hash \o salt \in Seq(Octet)
    BY SaltedIs
  <2>. QED
    BY <1>2, <2>1, HashIs DEF PssHash
<1>5. masked = LowBits(Xor(data, mask), bits)
  BY DEF PssMasked
<1>. HIDE DEF n, h, z, s, F, mask, masked
<1>6. data \in Seq(Octet) /\ Len(data) = (z + 1) + Len(salt) /\ (\A i \in 1 .. z : data[i] = 0) /\ data[z + 1] = 1
  <2>. HIDE DEF data
  <2>1. data = PaddedWith(z, salt)
    BY DEF data
  <2>. QED
    BY <1>1, <2>1, PaddedWithIs, ZenonT(60)
<1>. HIDE DEF data
<1>7. Len(data) = n
  BY <1>1, <1>6, SMTT(60) DEF z
<1>8. data[1] < F
  <2>1. data[1] = 0 \/ data[1] = 1
    <3>1. CASE z = 0
      BY <1>6, <3>1
    <3>2. CASE z # 0
      <4>1. 1 \in 1 .. z
        BY <1>1, <3>2
      <4>. QED
        BY <1>6, <4>1
    <3>. QED
      BY <3>1, <3>2
  <2>. QED
    BY <1>3, <2>1
<1>9. mask \in Seq(Octet) /\ Len(mask) = n
  <2>. DEFINE held == [d \in DOMAIN Algorithms |-> <<>>]
  <2>1. held \in Held
    BY DEF Held
  <2>. DEFINE g == o.mgf
  <2>2. g \in DOMAIN Algorithms /\ s \in Seq(Octet) /\ n \in Nat \ {0}
    BY <1>1, <1>2, <1>4
  <2>. HIDE DEF held, g
  <2>3. /\ StandardMask(Algorithms[g], s, n) \in Seq(Octet)
        /\ Len(StandardMask(Algorithms[g], s, n)) = n
    BY <2>1, <2>2, MaskIs
  <2>. QED
    BY <2>3 DEF mask, PssMask, n, g
<1>10. Xor(data, mask) \in Seq(Octet) /\ Len(Xor(data, mask)) = n
  <2>1. Len(data) =< Len(mask)
    BY <1>1, <1>7, <1>9
  <2>2. Xor(data, mask) \in Seq(Octet) /\ Len(Xor(data, mask)) = Len(data)
    BY <1>6, <1>9, <2>1, XorIs
  <2>. QED
    BY <1>7, <2>2
<1>11. masked \in Seq(Octet) /\ Len(masked) = n /\ masked[1] < F
  <2>. DEFINE x == Xor(data, mask)
  <2>1. x \in Seq(Octet) /\ Len(x) > 0 /\ Len(x) = n
    BY <1>1, <1>10
  <2>. HIDE DEF x
  <2>2. LowBits(x, bits) \in Seq(Octet) /\ Len(LowBits(x, bits)) = Len(x) /\ LowBits(x, bits)[1] < FirstSize(bits)
    BY <1>1, <2>1, LowBitsIs
  <2>. QED
    BY <1>5, <2>1, <2>2 DEF x, F
<1>12. LowBits(Xor(masked, mask), bits) = data
  <2>1. Len(data) = Len(mask) /\ Len(data) > 0
    BY <1>1, <1>7, <1>9
  <2>2. LowBits(Xor(LowBits(Xor(data, mask), bits), mask), bits) = data
    BY <1>1, <1>6, <1>8, <1>9, <2>1, LowBitsUndo DEF F
  <2>. QED
    BY <1>5, <2>2
<1>. QED
  BY <1>4, <1>6, <1>7, <1>8, <1>9, <1>11, <1>12 DEF n, h, z, s, F, mask, masked, data

LEMMA PssBlockType ==
    ASSUME HashesFit, NEW o \in PssSchemes, NEW bits \in Nat \ {0}, FitsPss(o, bits),
           NEW hash \in Seq(Octet), NEW salt \in Seq(Octet), Len(salt) = o.saltLength
    PROVE  LET n == MaskLength(o, bits)
               em == PssBlock(o, hash, bits, salt)
           IN  /\ em \in Seq(Octet) /\ Len(em) = EmLen(bits) /\ em[1] < FirstSize(bits)
               /\ SubSeq(em, 1, n) = PssMasked(o, hash, bits, salt)
               /\ SubSeq(em, n + 1, n + LengthOf(o.md)) = PssHash(o, hash, salt)
               /\ em[Len(em)] = Trailer
<1>. DEFINE n == MaskLength(o, bits)
            h == LengthOf(o.md)
            a == PssMasked(o, hash, bits, salt)
            s == PssHash(o, hash, salt)
            F == FirstSize(bits)
            em == PssBlock(o, hash, bits, salt)
<1>1. n \in Nat \ {0} /\ h \in Nat \ {0} /\ EmLen(bits) = (n + h) + 1
  BY PssSizes
<1>2. a \in Seq(Octet) /\ Len(a) = n /\ a[1] < F /\ s \in Seq(Octet) /\ Len(s) = h
  BY PssParts, Zenon
<1>3. em = Trailed(a, s, Trailer)
  BY DEF PssBlock
<1>4. Trailer \in Octet
  BY SchemesAssumption
<1>. HIDE DEF n, h, a, s, F, em
<1>5. /\ em \in Seq(Octet) /\ Len(em) = (Len(a) + Len(s)) + 1
      /\ SubSeq(em, 1, Len(a)) = a
      /\ SubSeq(em, Len(a) + 1, Len(a) + Len(s)) = s
      /\ em[(Len(a) + Len(s)) + 1] = Trailer
      /\ \A i \in 1 .. Len(a) : em[i] = a[i]
  <2>. DEFINE x == Trailer
              t == Trailed(a, s, x)
  <2>1. a \in Seq(Octet) /\ s \in Seq(Octet) /\ x \in Octet
    BY <1>2, <1>4
  <2>. HIDE DEF x
  <2>2. t \in Seq(Octet)
    BY <2>1, TrailedIs
  <2>3. Len(t) = (Len(a) + Len(s)) + 1
    BY <2>1, TrailedIs
  <2>4. SubSeq(t, 1, Len(a)) = a
    BY <2>1, TrailedIs
  <2>5. SubSeq(t, Len(a) + 1, Len(a) + Len(s)) = s
    BY <2>1, TrailedIs
  <2>6. t[(Len(a) + Len(s)) + 1] = x
    BY <2>1, TrailedIs
  <2>7. \A i \in 1 .. Len(a) : t[i] = a[i]
    BY <2>1, TrailedIs
  <2>. HIDE DEF t
  <2>8. em = t
    BY <1>3 DEF t, x
  <2>. QED
    BY <2>2, <2>3, <2>4, <2>5, <2>6, <2>7, <2>8 DEF x
<1>6. em[1] = a[1]
  <2>1. 1 \in 1 .. Len(a)
    BY <1>1, <1>2
  <2>. QED
    BY <1>5, <2>1
<1>7. Len(em) = EmLen(bits) /\ em[Len(em)] = Trailer
  BY <1>1, <1>2, <1>5
<1>. QED
  BY <1>2, <1>5, <1>6, <1>7 DEF n, h, a, s, F, em

LEMMA PssPadding ==
    ASSUME NEW o \in PssSchemes, NEW bits \in Nat \ {0}, FitsPss(o, bits), NEW salt
    PROVE  /\ EmLen(bits) - LengthOf(o.md) - 1 = MaskLength(o, bits)
           /\ Repeated(0, EmLen(bits) - o.saltLength - LengthOf(o.md) - 2) \o <<1>> \o salt
                = PaddedWith((MaskLength(o, bits) - o.saltLength) - 1, salt)
<1>. DEFINE l == EmLen(bits)
            h == LengthOf(o.md)
            t == o.saltLength
            n == MaskLength(o, bits)
<1>1. l \in Nat /\ h \in Nat /\ t \in Nat /\ n = (l - h) - 1
  BY PssSizes DEF MaskLength
<1>. HIDE DEF l, h, t, n
<1>2. l - t - h - 2 = (n - t) - 1 /\ l - h - 1 = n
  BY <1>1
<1>3. Repeated(0, l - t - h - 2) \o <<1>> \o salt = PaddedWith((n - t) - 1, salt)
  BY <1>2 DEF PaddedWith
<1>. QED
  BY <1>2, <1>3 DEF l, h, t, n

(* What is signed is a block that the scheme's standard has.               *)
LEMMA PssEncoded ==
    ASSUME HashesFit, NEW o \in PssSchemes, NEW bits \in Nat \ {0}, NEW held \in Held,
           NEW d \in DOMAIN Algorithms, NEW salt \in Seq(Octet), Len(salt) = o.saltLength
    PROVE  LET encoded == encodePss(held, d, o, bits, salt)
           IN  /\ encoded.digests \in Held
               /\ ~ FitsPss(o, bits) => encoded.block = NoBlock
               /\ FitsPss(o, bits) => encoded.block = <<PssBlock(o, Digest(held, d), bits, salt)>>
<1>. DEFINE h == LengthOf(o.md)
            read == Digest(held, d)
            hashed == Restarted(held, o.md, Eight \o read \o salt)
            hash == Digest(hashed, o.md)
            mask == Mask(hashed, o.mgf, hash, EmLen(bits) - h - 1)
            data == Repeated(0, EmLen(bits) - o.saltLength - h - 2) \o <<1>> \o salt
            block == LowBits(Xor(data, mask.octets), bits) \o hash \o <<Trailer>>
            encoded == encodePss(held, d, o, bits, salt)
<1>1. encoded = IF ~ FitsPss(o, bits) THEN [block |-> NoBlock, digests |-> held]
                ELSE [block |-> <<block>>, digests |-> mask.digests]
  BY Zenon DEF encodePss
<1>2. o.md \in DOMAIN Algorithms /\ o.mgf \in DOMAIN Algorithms /\ h \in Nat \ {0}
  BY PssOptions
<1>3. read \in Seq(Octet)
  <2>1. held[d] \in Seq(Octet)
    BY DEF Held
  <2>. QED
    BY <2>1, HashIs DEF Digest
<1>. HIDE DEF read
<1>. DEFINE x == Eight \o read \o salt
<1>4. x \in Seq(Octet)
  BY <1>3, SaltedIs
<1>5. hashed \in Held /\ hashed[o.md] = x
  <2>. HIDE DEF x
  <2>1. Restarted(held, o.md, x) \in Held /\ Restarted(held, o.md, x)[o.md] = x
    BY <1>2, <1>4 DEF Restarted, Held
  <2>. QED
    BY <2>1 DEF x
<1>6. hash = PssHash(o, read, salt)
  BY <1>5 DEF Digest, PssHash
<1>7. hash \in Seq(Octet)
  <2>. HIDE DEF x
  <2>1. Hash(Algorithms[o.md], x) \in Seq(Octet)
    BY <1>2, <1>4, HashIs
  <2>. QED
    BY <1>5, <2>1 DEF Digest
<1>. HIDE DEF hashed, hash
<1>8. CASE ~ FitsPss(o, bits)
  <2>. HIDE DEF encoded, block, mask
  <2>1. encoded.block = NoBlock /\ encoded.digests = held
    BY <1>1, <1>8
  <2>. QED
    BY <1>8, <2>1 DEF encoded
<1>9. CASE FitsPss(o, bits)
  <2>. DEFINE n == MaskLength(o, bits)
              g == o.mgf
  <2>1. n \in Nat \ {0} /\ EmLen(bits) - h - 1 = n /\ data = PaddedWith((n - o.saltLength) - 1, salt)
    BY <1>9, PssSizes, PssPadding
  <2>2. mask.octets = PssMask(o, hash, bits) /\ mask.digests \in Held
    <3>1. g \in DOMAIN Algorithms /\ n \in Nat \ {0}
      BY <1>2, <2>1
    <3>. HIDE DEF n, g
    <3>2. /\ Mask(hashed, g, hash, n).octets = StandardMask(Algorithms[g], hash, n)
          /\ Mask(hashed, g, hash, n).digests \in Held
      BY <1>5, <1>7, <3>1, MaskIs
    <3>. QED
      BY <2>1, <3>2 DEF n, g, PssMask
  <2>. HIDE DEF mask, data
  <2>3. LowBits(Xor(data, mask.octets), bits) = PssMasked(o, read, bits, salt)
    BY <1>6, <2>1, <2>2 DEF PssMasked
  <2>4. block = PssBlock(o, read, bits, salt)
    BY <1>6, <2>3 DEF PssBlock, Trailed
  <2>. HIDE DEF encoded, block
  <2>5. encoded.block = <<block>> /\ encoded.digests = mask.digests
    BY <1>1, <1>9
  <2>. QED
    BY <1>9, <2>2, <2>4, <2>5 DEF encoded, read
<1>. QED
  BY <1>8, <1>9

(* The standard's blocks, by their salt.                                   *)
LEMMA PssBlockIs ==
    ASSUME NEW o \in PssSchemes, NEW bits \in Nat \ {0}, FitsPss(o, bits), NEW hash \in Seq(Octet), NEW em
    PROVE  IsPssOf(em, hash, bits, o) <=>
                \E salt \in Seq(Octet) : Len(salt) = o.saltLength /\ em = PssBlock(o, hash, bits, salt)
<1>. DEFINE h == LengthOf(o.md)
            t == o.saltLength
            Data(salt) == Repeated(0, EmLen(bits) - o.saltLength - h - 2) \o <<1>> \o salt
            Is(salt) ==
                LET s == Hash(Algorithms[o.md], Eight \o hash \o salt)
                    mask == StandardMask(Algorithms[o.mgf], s, EmLen(bits) - h - 1)
                IN  em = LowBits(Xor(Data(salt), mask), bits) \o s \o <<Trailer>>
<1>1. IsPssOf(em, hash, bits, o) <=> \E salt \in [1 .. t -> Octet] : Is(salt)
  BY Zenon DEF IsPssOf, LengthOf
<1>2. t \in Nat
  BY PssSizes
<1>3. ASSUME NEW salt
      PROVE  Is(salt) <=> em = PssBlock(o, hash, bits, salt)
  <2>1. /\ EmLen(bits) - h - 1 = MaskLength(o, bits)
        /\ Data(salt) = PaddedWith((MaskLength(o, bits) - o.saltLength) - 1, salt)
    BY PssPadding
  <2>. HIDE DEF Data
  <2>. QED
    BY <2>1 DEF PssBlock, PssMasked, PssMask, PssHash, Trailed
<1>. HIDE DEF Is, t
<1>4. \A salt : salt \in [1 .. t -> Octet] <=> salt \in Seq(Octet) /\ Len(salt) = t
  BY <1>2
<1>. QED
  BY <1>1, <1>3, <1>4 DEF t

LEMMA SaltOfPadded ==
    ASSUME NEW o \in PssSchemes, NEW data \in Seq(Octet), NEW z \in Nat,
           Len(data) = (z + 1) + o.saltLength
    PROVE  /\ SaltOf(data, o) = SubSeq(data, z + 2, Len(data))
           /\ \A salt \in Seq(Octet) :
                Len(salt) = o.saltLength /\ data = PaddedWith(z, salt) =>
                    /\ SaltOf(data, o) = salt
                    /\ data[z + 1] = 1 /\ \A i \in 1 .. z : data[i] = 0
           /\ data[z + 1] = 1 /\ (\A i \in 1 .. z : data[i] = 0) =>
                /\ SaltOf(data, o) \in Seq(Octet) /\ Len(SaltOf(data, o)) = o.saltLength
                /\ data = PaddedWith(z, SaltOf(data, o))
<1>. DEFINE t == o.saltLength
<1>1. t \in Nat \ {0}
  BY PssOptions
<1>2. SaltOf(data, o) = SubSeq(data, z + 2, Len(data))
  <2>1. SaltOf(data, o) = SubSeq(data, Len(data) - t + 1, Len(data))
    BY <1>1 DEF SaltOf
  <2>. HIDE DEF t
  <2>2. Len(data) - t + 1 = z + 2
    BY <1>1 DEF t
  <2>. QED
    BY <2>1, <2>2
<1>3. ASSUME NEW salt \in Seq(Octet), data = PaddedWith(z, salt)
      PROVE  SaltOf(data, o) = salt /\ data[z + 1] = 1 /\ \A i \in 1 .. z : data[i] = 0
  <2>1. LET s == PaddedWith(z, salt)
        IN  /\ \A i \in 1 .. z : s[i] = 0
            /\ s[z + 1] = 1
            /\ SubSeq(s, z + 2, Len(s)) = salt
    BY PaddedWithIs, Zenon
  <2>. QED
    BY <1>2, <1>3, <2>1
<1>4. ASSUME data[z + 1] = 1, \A i \in 1 .. z : data[i] = 0
      PROVE  /\ SaltOf(data, o) \in Seq(Octet) /\ Len(SaltOf(data, o)) = t
             /\ data = PaddedWith(z, SaltOf(data, o))
  <2>1. z + 1 =< Len(data) /\ (Len(data) - z) - 1 = t
    BY <1>1
  <2>. HIDE DEF t
  <2>2. /\ SubSeq(data, z + 2, Len(data)) \in Seq(Octet)
        /\ Len(SubSeq(data, z + 2, Len(data))) = (Len(data) - z) - 1
        /\ data = PaddedWith(z, SubSeq(data, z + 2, Len(data)))
    BY <1>4, <2>1, PaddedForm
  <2>. QED
    BY <1>2, <2>1, <2>2
<1>. QED
  BY <1>2, <1>3, <1>4 DEF t

(* PSS sees the last octets of a block.                                    *)
LastOctets(block, bits) == SubSeq(block, Len(block) - EmLen(bits) + 1, Len(block))

(* Verifying takes such blocks and no others.                              *)
LEMMA PssVerified ==
    ASSUME HashesFit, NEW o \in PssSchemes, NEW bits \in Nat \ {0}, NEW held \in Held,
           NEW hash \in Seq(Octet), NEW block \in Seq(Octet),
           FitsPss(o, bits) => EmLen(bits) =< Len(block)
    PROVE  LET verified == verifyPss(held, hash, block, o, bits)
               em == LastOctets(block, bits)
           IN  /\ verified.digests \in Held
               /\ verified.verdict \in {"error", "true", "false"}
               /\ FitsPss(o, bits) /\ IsPssOf(em, hash, bits, o) => verified.verdict = "true"
               /\ verified.verdict = "true" => IsPssOf(em, hash, bits, o)
<1>. DEFINE em == LastOctets(block, bits)
            h == LengthOf(o.md)
            maskLen == EmLen(bits) - h - 1
            s == SubSeq(em, maskLen + 1, maskLen + h)
            a == SubSeq(em, 1, maskLen)
            mask == Mask(held, o.mgf, s, maskLen)
            data == LowBits(Xor(a, mask.octets), bits)
            checkLen == maskLen - o.saltLength - 1
            hashed == Restarted(mask.digests, o.md, Eight \o hash \o SaltOf(data, o))
            F == FirstSize(bits)
            Refused == ~ FitsPss(o, bits) \/ em[Len(em)] # Trailer \/ em[1] >= F
            Unformed == data[checkLen + 1] # 1 \/ \E i \in 1 .. checkLen : data[i] # 0
            Same == s = Digest(hashed, o.md)
            verified == verifyPss(held, hash, block, o, bits)
<1>1. verified =
        IF Refused THEN [verdict |-> "error", digests |-> held]
        ELSE IF Unformed THEN [verdict |-> "error", digests |-> mask.digests]
        ELSE [verdict |-> IF Same THEN "true" ELSE "false", digests |-> hashed]
  BY Zenon DEF verifyPss, LastOctets
<1>2. o.md \in DOMAIN Algorithms /\ o.mgf \in DOMAIN Algorithms
  BY PssOptions
<1>3. CASE ~ FitsPss(o, bits)
  <2>1. Refused
    BY <1>3
  <2>. HIDE DEF em, verified, Refused, Unformed, Same, mask, hashed
  <2>2. verified.verdict = "error" /\ verified.digests = held
    BY <1>1, <2>1
  <2>. QED
    BY <1>3, <2>2 DEF verified, em
<1>4. CASE FitsPss(o, bits)
  <2>. DEFINE n == MaskLength(o, bits)
              z == (n - o.saltLength) - 1
              g == o.mgf
  <2>1. /\ h \in Nat \ {0} /\ o.saltLength \in Nat \ {0} /\ n \in Nat \ {0} /\ z \in Nat
        /\ EmLen(bits) \in Nat /\ EmLen(bits) > 0 /\ EmLen(bits) = (n + h) + 1
        /\ maskLen = n /\ checkLen = z
    BY <1>4, PssSizes, PssPadding
  <2>. HIDE DEF maskLen, checkLen
  <2>2. em \in Seq(Octet) /\ Len(em) = (n + h) + 1
    <3>. DEFINE l == EmLen(bits)
                i == Len(block) - l + 1
                j == Len(block)
    <3>1. i \in Nat \ {0} /\ j \in Nat /\ j =< Len(block) /\ i =< j + 1 /\ (j - i) + 1 = l
      <4>1. l \in Nat /\ l > 0 /\ j \in Nat /\ l =< j
        BY <1>4, <2>1
      <4>. HIDE DEF l
      <4>. QED
        BY <4>1
    <3>. HIDE DEF i, j, l
    <3>2. SubSeq(block, i, j) \in Seq(Octet) /\ Len(SubSeq(block, i, j)) = (j - i) + 1
      BY <3>1, Part
    <3>3. em = SubSeq(block, i, j)
      BY DEF i, j, l, em, LastOctets
    <3>4. l = (n + h) + 1
      BY <2>1 DEF l
    <3>. HIDE DEF n, h
    <3>. QED
      BY <3>1, <3>2, <3>3, <3>4
  <2>. HIDE DEF em
  <2>3. /\ a \in Seq(Octet) /\ Len(a) = n /\ s \in Seq(Octet) /\ Len(s) = h
        /\ a[1] = em[1] /\ em = Trailed(a, s, em[Len(em)])
    <3>. DEFINE a2 == SubSeq(em, 1, n)
                s2 == SubSeq(em, n + 1, n + h)
    <3>1. n \in Nat /\ h \in Nat /\ n > 0
      BY <2>1
    <3>2. a = a2 /\ s = s2
      BY <2>1
    <3>. HIDE DEF n, h, a, s, mask, data, hashed
    <3>3. a2 \in Seq(Octet) /\ Len(a2) = n
      BY <2>2, <3>1, TrailedOf
    <3>4. s2 \in Seq(Octet) /\ Len(s2) = h
      BY <2>2, <3>1, TrailedOf
    <3>5. a2[1] = em[1]
      BY <2>2, <3>1, TrailedOf
    <3>6. em = Trailed(a2, s2, em[Len(em)])
      BY <2>2, <3>1, TrailedOf
    <3>. QED
      BY <3>2, <3>3, <3>4, <3>5, <3>6
  <2>. HIDE DEF a, s
  <2>4. /\ mask.octets = PssMask(o, s, bits) /\ mask.digests \in Held
        /\ mask.octets \in Seq(Octet) /\ Len(mask.octets) = n
    <3>1. g \in DOMAIN Algorithms /\ n \in Nat \ {0} /\ s \in Seq(Octet)
      BY <1>2, <2>1, <2>3
    <3>. HIDE DEF n, g
    <3>2. /\ Mask(held, g, s, n).octets = StandardMask(Algorithms[g], s, n)
          /\ Mask(held, g, s, n).digests \in Held
      BY <3>1, MaskIs
    <3>3. /\ StandardMask(Algorithms[g], s, n) \in Seq(Octet)
          /\ Len(StandardMask(Algorithms[g], s, n)) = n
      BY <3>1, MaskIs
    <3>. QED
      BY <2>1, <3>2, <3>3 DEF n, g, PssMask
  <2>. HIDE DEF mask
  <2>5. data \in Seq(Octet) /\ Len(data) = n
    <3>. DEFINE x == Xor(a, mask.octets)
    <3>1. Len(a) =< Len(mask.octets) /\ mask.octets \in Seq(Octet) /\ a \in Seq(Octet)
      BY <2>1, <2>3, <2>4
    <3>2. x \in Seq(Octet) /\ Len(x) = n
      BY <2>3, <3>1, XorIs
    <3>3. Len(x) > 0
      BY <2>1, <3>2
    <3>. HIDE DEF x, n
    <3>4. LowBits(x, bits) \in Seq(Octet) /\ Len(LowBits(x, bits)) = Len(x)
      BY <2>1, <3>2, <3>3, LowBitsIs
    <3>. QED
      BY <3>2, <3>4 DEF x
  <2>6. a[1] < F => LowBits(Xor(data, mask.octets), bits) = a
    <3>. DEFINE m == mask.octets
    <3>1. m \in Seq(Octet) /\ Len(a) = Len(m) /\ Len(a) > 0 /\ a \in Seq(Octet)
      BY <2>1, <2>3, <2>4
    <3>. HIDE DEF m
    <3>2. a[1] < F => LowBits(Xor(LowBits(Xor(a, m), bits), m), bits) = a
      BY <2>1, <3>1, LowBitsUndo
    <3>. QED
      BY <3>2 DEF m
  <2>. HIDE DEF data
  <2>. DEFINE salt == SaltOf(data, o)
  <2>7. Len(data) = (z + 1) + o.saltLength
    <3>. DEFINE t == o.saltLength
    <3>1. t \in Nat /\ n \in Nat /\ z = (n - t) - 1 /\ Len(data) = n
      BY <2>1, <2>5
    <3>. HIDE DEF n, t, z, data
    <3>. QED
      BY <3>1 DEF t
  <2>8. salt \in Seq(Octet)
    <3>. DEFINE i == z + 2
                j == Len(data)
    <3>1. SaltOf(data, o) = SubSeq(data, i, j)
      <4>. HIDE DEF z
      <4>. QED
        BY <2>1, <2>5, <2>7, SaltOfPadded
    <3>2. i \in Nat \ {0} /\ j \in Nat /\ j =< Len(data) /\ i =< j + 1
      <4>. DEFINE t == o.saltLength
                  y == Len(data)
      <4>1. t \in Nat \ {0} /\ z \in Nat /\ y = (z + 1) + t
        BY <2>1, <2>7
      <4>. HIDE DEF z, t, y
      <4>. QED
        BY <4>1 DEF y
    <3>. HIDE DEF i, j
    <3>3. SubSeq(data, i, j) \in Seq(Octet)
      BY <2>5, <3>2, Part
    <3>. QED
      BY <3>1, <3>3
  <2>. HIDE DEF salt
  <2>9. hashed \in Held /\ hashed[o.md] = Eight \o hash \o salt
    <3>. DEFINE x == Eight \o hash \o salt
    <3>1. x \in Seq(Octet)
      BY <2>8, SaltedIs
    <3>. HIDE DEF x
    <3>2. Restarted(mask.digests, o.md, x) \in Held /\ Restarted(mask.digests, o.md, x)[o.md] = x
      BY <1>2, <2>4, <3>1 DEF Restarted, Held
    <3>. QED
      BY <3>2 DEF x, salt
  <2>10. Digest(hashed, o.md) = PssHash(o, hash, salt)
    <3>. HIDE DEF hashed
    <3>. QED
      BY <2>9 DEF Digest, PssHash
  <2>. HIDE DEF hashed
  <2>11. /\ Refused <=> em[Len(em)] # Trailer \/ em[1] >= F
         /\ Unformed <=> data[z + 1] # 1 \/ \E i \in 1 .. z : data[i] # 0
         /\ Same <=> s = PssHash(o, hash, salt)
    <3>1. Refused <=> em[Len(em)] # Trailer \/ em[1] >= F
      BY <1>4
    <3>2. Unformed <=> data[z + 1] # 1 \/ \E i \in 1 .. z : data[i] # 0
      BY <2>1
    <3>3. Same <=> s = PssHash(o, hash, salt)
      BY <2>10
    <3>. QED
      BY <3>1, <3>2, <3>3
  <2>. HIDE DEF Refused, Unformed, Same, verified
  <2>12. /\ verified.digests \in Held
         /\ verified.verdict \in {"error", "true", "false"}
         /\ verified.verdict = "true" <=> ~ Refused /\ ~ Unformed /\ Same
    BY <1>1, <2>4, <2>9
  <2>. HIDE DEF n, z, g, h, F
  <2>13. ASSUME IsPssOf(em, hash, bits, o)
         PROVE  ~ Refused /\ ~ Unformed /\ Same
    <3>1. PICK t \in Seq(Octet) : Len(t) = o.saltLength /\ em = PssBlock(o, hash, bits, t)
      BY <1>4, <2>13, PssBlockIs
    <3>2. /\ em[1] < F /\ em[Len(em)] = Trailer
          /\ SubSeq(em, 1, n) = PssMasked(o, hash, bits, t)
          /\ SubSeq(em, n + 1, n + h) = PssHash(o, hash, t)
      <4>1. LET e == PssBlock(o, hash, bits, t)
            IN  /\ e[1] < FirstSize(bits) /\ e[Len(e)] = Trailer
                /\ SubSeq(e, 1, MaskLength(o, bits)) = PssMasked(o, hash, bits, t)
                /\ SubSeq(e, MaskLength(o, bits) + 1, MaskLength(o, bits) + LengthOf(o.md)) = PssHash(o, hash, t)
        BY <1>4, <3>1, PssBlockType, ZenonT(60)
      <4>. QED
        BY <3>1, <4>1 DEF n, h, F
    <3>3. a = PssMasked(o, hash, bits, t) /\ s = PssHash(o, hash, t)
      BY <2>1, <3>2 DEF a, s, h
    <3>4. LowBits(Xor(PssMasked(o, hash, bits, t), PssMask(o, PssHash(o, hash, t), bits)), bits) = PaddedWith(z, t)
      BY <1>4, <3>1, PssParts DEF n, z
    <3>5. data = PaddedWith(z, t)
      BY <2>4, <3>3, <3>4 DEF data
    <3>6. salt = t /\ data[z + 1] = 1 /\ \A i \in 1 .. z : data[i] = 0
      <4>1. \A x \in Seq(Octet) :
                Len(x) = o.saltLength /\ data = PaddedWith(z, x) =>
                    /\ SaltOf(data, o) = x
                    /\ data[z + 1] = 1 /\ \A i \in 1 .. z : data[i] = 0
        BY <2>1, <2>5, <2>7, SaltOfPadded
      <4>. QED
        BY <3>1, <3>5, <4>1 DEF salt
    <3>7. em[1] \in Nat /\ F \in Nat
      <4>1. 1 \in 1 .. Len(em)
        BY <2>1, <2>2
      <4>2. em[1] \in Octet
        BY <2>2, <4>1, ElementOfSeq
      <4>. QED
        BY <2>1, <4>2, OctetSizes, FirstSizeIs DEF F
    <3>. QED
      BY <2>11, <3>2, <3>3, <3>6, <3>7
  <2>14. ASSUME ~ Refused, ~ Unformed, Same
         PROVE  IsPssOf(em, hash, bits, o)
    <3>1. data[z + 1] = 1 /\ (\A i \in 1 .. z : data[i] = 0) /\ em[Len(em)] = Trailer /\ s = PssHash(o, hash, salt)
      BY <2>11, <2>14
    <3>2. em[1] < F
      <4>1. 1 \in 1 .. Len(em)
        BY <2>1, <2>2
      <4>2. em[1] \in Octet
        BY <2>2, <4>1, ElementOfSeq
      <4>3. em[1] \in Nat /\ F \in Nat
        BY <2>1, <4>2, OctetSizes, FirstSizeIs DEF F
      <4>. QED
        BY <2>11, <2>14, <4>3
    <3>3. Len(salt) = o.saltLength /\ data = PaddedWith(z, salt)
      <4>1. Len(SaltOf(data, o)) = o.saltLength /\ data = PaddedWith(z, SaltOf(data, o))
        BY <2>1, <2>5, <2>7, <3>1, SaltOfPadded
      <4>. QED
        BY <4>1 DEF salt
    <3>4. PssMasked(o, hash, bits, salt) = a
      <4>1. LowBits(Xor(data, mask.octets), bits) = a
        BY <2>3, <2>6, <3>2
      <4>2. mask.octets = PssMask(o, PssHash(o, hash, salt), bits)
        BY <2>4, <3>1
      <4>3. data = PaddedWith((MaskLength(o, bits) - o.saltLength) - 1, salt)
        BY <3>3 DEF n, z
      <4>. QED
        BY <4>1, <4>2, <4>3 DEF PssMasked
    <3>5. em = PssBlock(o, hash, bits, salt)
      BY <2>3, <3>1, <3>4 DEF PssBlock
    <3>. QED
      BY <1>4, <2>8, <3>3, <3>5, PssBlockIs
  <2>. QED
    BY <2>12, <2>13, <2>14 DEF verified, em
<1>. QED
  BY <1>3, <1>4

-----------------------------------------------------------------------------
(* Blocks and keys                                                         *)

(* Octets under an exponent of a key.                                      *)
Powered(k, b, x) == AsOctets(ModPow(AsNumber(b), x, k.n), OctetLength(k.n))

LEMMA PoweredIs ==
    ASSUME NEW k, IsPrivateKey(k), NEW b \in Seq(Octet), NEW x \in Nat
    PROVE  /\ Powered(k, b, x) \in Seq(Octet) /\ Len(Powered(k, b, x)) = OctetLength(k.n)
           /\ AsNumber(Powered(k, b, x)) = ModPow(AsNumber(b), x, k.n)
           /\ AsNumber(Powered(k, b, x)) < k.n
<1>. DEFINE n == k.n
            a == AsNumber(b)
            y == ModPow(a, x, n)
            l == OctetLength(n)
<1>1. n \in Nat \ {0} /\ a \in Nat
  BY KeyHasPrimes, NumberBound
<1>. HIDE DEF n, a
<1>2. y \in Nat /\ y < n
  BY <1>1, ModPowCongruent
<1>3. l \in Nat /\ n < PowersOf(OctetSize)[l] /\ PowersOf(OctetSize)[l] \in Nat
  BY <1>1, OctetLengthIs, OctetPowers
<1>. HIDE DEF y, l
<1>4. AsOctets(y, l) \in Seq(Octet) /\ Len(AsOctets(y, l)) = l
  BY <1>2, <1>3, OctetsType
<1>5. y < PowersOf(OctetSize)[l]
  BY <1>1, <1>2, <1>3
<1>6. AsNumber(AsOctets(y, l)) = y
  BY <1>2, <1>3, <1>5, NumberOfOctets
<1>7. Powered(k, b, x) = AsOctets(y, l)
  BY DEF Powered, y, l, n, a
<1>. QED
  BY <1>2, <1>4, <1>6, <1>7 DEF y, l, n, a

(* Smaller numbers than n come back under the other exponent.              *)
LEMMA PoweredBack ==
    ASSUME NEW k, IsPrivateKey(k), NEW b \in Seq(Octet), AsNumber(b) < k.n
    PROVE  /\ Powered(k, Powered(k, b, k.e), k.d) = AsOctets(AsNumber(b), OctetLength(k.n))
           /\ Powered(k, Powered(k, b, k.d), k.e) = AsOctets(AsNumber(b), OctetLength(k.n))
<1>. DEFINE a == AsNumber(b)
<1>1. k.e \in Nat /\ k.d \in Nat /\ a \in Nat
  BY KeyHasPrimes, NumberBound
<1>2. /\ ModPow(ModPow(a, k.e, k.n), k.d, k.n) = a
      /\ ModPow(ModPow(a, k.d, k.n), k.e, k.n) = a
  BY <1>1, PowersUndo
<1>3. /\ AsNumber(Powered(k, b, k.e)) = ModPow(a, k.e, k.n)
      /\ AsNumber(Powered(k, b, k.d)) = ModPow(a, k.d, k.n)
  BY <1>1, PoweredIs
<1>. HIDE DEF a
<1>4. ASSUME NEW c, NEW x
      PROVE  Powered(k, c, x) = AsOctets(ModPow(AsNumber(c), x, k.n), OctetLength(k.n))
  BY DEF Powered
<1>5. Powered(k, Powered(k, b, k.e), k.d) = AsOctets(a, OctetLength(k.n))
  BY <1>2, <1>3, <1>4
<1>6. Powered(k, Powered(k, b, k.d), k.e) = AsOctets(a, OctetLength(k.n))
  BY <1>2, <1>3, <1>4
<1>. QED
  BY <1>5, <1>6 DEF a

(* A block that starts with 0 is a smaller number than n,                  *)
LEMMA ZeroFirst ==
    ASSUME NEW k, IsPrivateKey(k), NEW b \in Seq(Octet), Len(b) = OctetLength(k.n), b[1] = 0
    PROVE  AsNumber(b) < k.n /\ AsOctets(AsNumber(b), OctetLength(k.n)) = b
<1>. DEFINE n == k.n
            l == OctetLength(n)
            P == PowersOf(OctetSize)
            f == 1
<1>1. n \in Nat \ {0}
  BY KeyHasPrimes
<1>. HIDE DEF n
<1>2. l \in Nat \ {0} /\ P[l - 1] =< n
  BY <1>1, OctetLengthIs
<1>3. f \in Nat /\ b[1] < f /\ f * P[l - 1] = P[l - 1] /\ P[l - 1] \in Nat
  <2>1. l - 1 \in Nat
    BY <1>2
  <2>. HIDE DEF l
  <2>2. P[l - 1] \in Nat
    BY <2>1, OctetPowers
  <2>. QED
    BY <2>2
<1>4. Len(b) > 0 /\ Len(b) = l
  BY <1>2 DEF n
<1>. HIDE DEF l, f
<1>5. AsNumber(b) < f * PowersOf(OctetSize)[Len(b) - 1] /\ AsNumber(b) \in Nat
  BY <1>3, <1>4, NumberBound
<1>6. AsNumber(b) < n
  BY <1>1, <1>2, <1>3, <1>4, <1>5
<1>7. AsOctets(AsNumber(b), Len(b)) = b
  BY OctetsComeBack
<1>. QED
  BY <1>6, <1>7 DEF n

(* and so is one of PSS, which is the last octets of the number's.         *)
LEMMA PssFirst ==
    ASSUME NEW k, IsPrivateKey(k), NEW bits, bits = BitLength(k.n), EmLen(bits) > 0,
           NEW em \in Seq(Octet), Len(em) = EmLen(bits), em[1] < FirstSize(bits)
    PROVE  /\ AsNumber(em) < k.n
           /\ EmLen(bits) =< OctetLength(k.n)
           /\ LastOctets(AsOctets(AsNumber(em), OctetLength(k.n)), bits) = em
<1>. DEFINE n == k.n
            c == BitLength(n)
            l == OctetLength(n)
            m == EmLen(c)
            F == FirstSize(c)
            P == PowersOf(OctetSize)
<1>1. n \in Nat \ {0}
  BY KeyHasPrimes
<1>2. m > 0 /\ Len(em) = m /\ em[1] < F
  BY DEF n
<1>. HIDE DEF n
<1>3. c \in Nat \ {0} /\ PowersOf(2)[c - 1] =< n /\ l \in Nat \ {0}
  BY <1>1, OctetLengthIs
<1>4. l = OctetsFor(c)
  BY DEF OctetLength
<1>. HIDE DEF c, l
<1>5. m \in Nat /\ m =< l /\ F \in Nat /\ F * P[m - 1] = PowersOf(2)[c - 1]
  BY <1>2, <1>3, <1>4, FirstSizeIs
<1>. HIDE DEF m, F
<1>6. AsNumber(em) \in Nat /\ AsNumber(em) < n
  <2>1. AsNumber(em) \in Nat /\ AsNumber(em) < F * PowersOf(OctetSize)[Len(em) - 1]
    BY <1>2, <1>5, NumberBound
  <2>2. AsNumber(em) < PowersOf(2)[c - 1]
    BY <1>2, <1>5, <2>1
  <2>3. c - 1 \in Nat
    BY <1>3
  <2>4. PowersOf(2)[c - 1] \in Nat
    BY <2>3, PowersOfTwo
  <2>. QED
    BY <1>1, <1>3, <2>1, <2>2, <2>4
<1>7. LastOctets(AsOctets(AsNumber(em), l), c) = em
  <2>. DEFINE s == AsOctets(AsNumber(em), l)
              i == l - m + 1
              z == SubSeq(s, i, l)
  <2>1. \A j \in 1 .. l : s[j] = IF j =< l - Len(em) THEN 0 ELSE em[j - (l - Len(em))]
    BY <1>2, <1>3, <1>5, OctetsOfNumber
  <2>2. s \in Seq(Octet) /\ Len(s) = l
    BY <1>3, <1>6, OctetsType
  <2>. HIDE DEF s
  <2>3. i \in Nat \ {0} /\ i =< l + 1 /\ (l - i) + 1 = m /\ l \in Nat /\ l =< Len(s)
    BY <1>3, <1>5, <2>2
  <2>4. ASSUME NEW j \in 1 .. m
        PROVE  s[(i + j) - 1] = em[j]
    <3>. DEFINE q == (i + j) - 1
    <3>1. q \in 1 .. l /\ ~ (q =< l - m) /\ q - (l - m) = j
      BY <1>3, <1>5
    <3>. HIDE DEF q
    <3>2. s[q] = IF q =< l - m THEN 0 ELSE em[q - (l - m)]
      BY <1>2, <2>1, <3>1
    <3>. QED
      BY <3>1, <3>2 DEF q
  <2>. HIDE DEF i
  <2>5. z \in Seq(Octet) /\ Len(z) = (l - i) + 1 /\ \A j \in 1 .. (l - i) + 1 : z[j] = s[(i + j) - 1]
    BY <2>2, <2>3, Part
  <2>. HIDE DEF z
  <2>6. \A j \in 1 .. m : z[j] = em[j]
    BY <2>3, <2>4, <2>5
  <2>7. z = em
    BY <1>2, <2>3, <2>5, <2>6, SeqEqual
  <2>8. LastOctets(s, c) = z
    BY <2>2 DEF LastOctets, z, i, m
  <2>. QED
    BY <2>7, <2>8 DEF s
<1>. QED
  BY <1>5, <1>6, <1>7 DEF n, c, l, m, F

-----------------------------------------------------------------------------
(* What a call makes                                                       *)

FitsFor(n, scheme, length) ==
    /\ scheme.scheme \in {"RSAES-PKCS1-V1_5", "NONE"} => length + 3 + MinPadding =< OctetLength(n)
    /\ scheme.scheme = "RSA-OAEP" => (length + (2 * LengthOf(scheme.md))) + 2 =< OctetLength(n)
    /\ scheme.scheme = "PSS" => FitsPss(scheme, BitLength(n))

(* A block of the scheme for the data.                                     *)
BlockFor(n, scheme, data, em) ==
    /\ em \in Seq(Octet) /\ FitsFor(n, scheme, Len(data))
    /\ scheme.scheme = "RAW" => em = data
    /\ scheme.scheme = "RSAES-PKCS1-V1_5" => IsBlockOf(em, 2, data, OctetLength(n))
    /\ scheme.scheme = "NONE" => IsBlockOf(em, 1, data, OctetLength(n))
    /\ scheme.scheme = "RSA-OAEP" => IsOaepOf(em, data, OctetLength(n), scheme)
    /\ scheme.scheme = "PSS" => IsPssOf(em, data, BitLength(n), scheme)

Makes(n, scheme, data, encoded) ==
    /\ encoded.digests \in Held
    /\ ~ FitsFor(n, scheme, Len(data)) => encoded.block = NoBlock
    /\ FitsFor(n, scheme, Len(data)) => \E em \in Seq(Octet) : encoded.block = <<em>> /\ BlockFor(n, scheme, data, em)

LEMMA SchemesAre ==
    /\ \A s \in Encryptions : /\ s.scheme \in {"RSAES-PKCS1-V1_5", "RAW", "RSA-OAEP"}
                              /\ s.scheme = "RSA-OAEP" => s \in OaepSchemes
    /\ \A s \in Signatures : /\ s.scheme \in {"NONE", "PSS"}
                             /\ s.scheme = "PSS" => s \in PssSchemes
<1>1. ASSUME NEW s \in Encryptions
      PROVE  s.scheme \in {"RSAES-PKCS1-V1_5", "RAW", "RSA-OAEP"} /\ (s.scheme = "RSA-OAEP" => s \in OaepSchemes)
  <2>1. s \in [scheme : {"RSAES-PKCS1-V1_5", "RAW"}] \/ s \in OaepSchemes
    BY SchemesAssumption DEF OaepSchemes
  <2>2. s \in [scheme : {"RSAES-PKCS1-V1_5", "RAW"}] => s.scheme \in {"RSAES-PKCS1-V1_5", "RAW"}
    OBVIOUS
  <2>3. s \in OaepSchemes => s.scheme = "RSA-OAEP"
    BY DEF OaepSchemes
  <2>. QED
    BY <2>1, <2>2, <2>3
<1>2. ASSUME NEW s \in Signatures
      PROVE  s.scheme \in {"NONE", "PSS"} /\ (s.scheme = "PSS" => s \in PssSchemes)
  <2>1. s \in [scheme : {"NONE"}] \/ s \in PssSchemes
    BY SchemesAssumption DEF PssSchemes
  <2>2. s \in [scheme : {"NONE"}] => s.scheme = "NONE"
    OBVIOUS
  <2>3. s \in PssSchemes => s.scheme = "PSS"
    BY DEF PssSchemes
  <2>. QED
    BY <2>1, <2>2, <2>3
<1>. QED
  BY <1>1, <1>2

LEMMA FirstIs ==
    ASSUME NEW stream \in Seq(Octet), NEW n \in Nat, n =< Len(stream)
    PROVE  First(stream, n) \in Seq(Octet) /\ Len(First(stream, n)) = n
<1>. DEFINE i == 1
<1>1. i \in Nat \ {0} /\ i =< n + 1 /\ (n - i) + 1 = n
  OBVIOUS
<1>. HIDE DEF i
<1>2. SubSeq(stream, i, n) \in Seq(Octet) /\ Len(SubSeq(stream, i, n)) = (n - i) + 1
  BY <1>1, Part
<1>. QED
  BY <1>1, <1>2 DEF First, i

(* A block of v1.5, of either type.                                        *)
LEMMA Makes15 ==
    ASSUME NEW n, OctetLength(n) \in Nat, NEW scheme, NEW type \in TypeOctets,
           \/ scheme.scheme = "RSAES-PKCS1-V1_5" /\ type = 2
           \/ scheme.scheme = "NONE" /\ type = 1,
           NEW data \in Seq(Octet), NEW stream \in Seq(Octet), Len(DrawnNonZero(stream)) >= OctetLength(n) - 3,
           NEW held \in Held,
           NEW encoded, encoded = [block |-> encodePkcs1v15(data, OctetLength(n), type, stream), digests |-> held]
    PROVE  Makes(n, scheme, data, encoded)
<1>. DEFINE k == OctetLength(n)
            l == Len(data)
            E == encodePkcs1v15(data, k, type, stream)
<1>1. l \in Nat /\ k \in Nat /\ MinPadding \in Nat
  BY SchemesAssumption
<1>2. /\ (k - 3) - l < MinPadding => E = NoBlock
      /\ (k - 3) - l >= MinPadding => \E em \in Seq(Octet) : E = <<em>> /\ IsBlockOf(em, type, data, k)
  BY <1>1, Encoded15
<1>3. FitsFor(n, scheme, l) <=> l + 3 + MinPadding =< k
  BY DEF FitsFor
<1>4. encoded.block = E /\ encoded.digests = held
  OBVIOUS
<1>. HIDE DEF l, k, E
<1>5. FitsFor(n, scheme, l) <=> (k - 3) - l >= MinPadding
  BY <1>1, <1>3
<1>6. ~ FitsFor(n, scheme, l) => (k - 3) - l < MinPadding
  BY <1>1, <1>3
<1>7. ASSUME NEW em \in Seq(Octet), IsBlockOf(em, type, data, k), FitsFor(n, scheme, l)
      PROVE  BlockFor(n, scheme, data, em)
  BY <1>7 DEF BlockFor, k, l
<1>. QED
  BY <1>2, <1>4, <1>5, <1>6, <1>7 DEF Makes, l

LEMMA EncryptMakes ==
    ASSUME HashesFit, IsPrivateKey(key), NEW k \in Keys, key.n = k.n, digests \in Held,
           NEW scheme \in Encryptions, NEW message \in Messages, NEW stream \in Streams
    PROVE  Makes(key.n, scheme, message, EncodedFor(scheme, message, stream))
<1>. DEFINE E == EncodedFor(scheme, message, stream)
            l == OctetLength(key.n)
<1>1. message \in Seq(Octet) /\ stream \in Seq(Octet) /\ Len(DrawnNonZero(stream)) >= l - 3
  BY DataAssumption
<1>2. scheme.scheme \in {"RSAES-PKCS1-V1_5", "RAW", "RSA-OAEP"} /\ (scheme.scheme = "RSA-OAEP" => scheme \in OaepSchemes)
  BY SchemesAre
<1>3. l \in Nat
  BY KeyHasPrimes, OctetLengthIs
<1>4. CASE scheme.scheme = "RSAES-PKCS1-V1_5"
  <2>1. E = [block |-> encodePkcs1v15(message, l, 2, stream), digests |-> digests]
    BY <1>4 DEF EncodedFor, K
  <2>2. 2 \in TypeOctets
    BY DEF TypeOctets
  <2>. HIDE DEF E
  <2>. QED
    BY <1>1, <1>3, <1>4, <2>1, <2>2, Makes15 DEF E
<1>5. CASE scheme.scheme = "RSA-OAEP"
  <2>. DEFINE h == LengthOf(scheme.md)
              seed == First(stream, h)
  <2>1. E = encodeRsaOaep(digests, l, message, scheme, seed)
    BY <1>5 DEF EncodedFor, K
  <2>2. scheme \in OaepSchemes /\ h \in Nat \ {0} /\ h =< Len(stream)
    BY <1>2, <1>5, OaepOptions, DataAssumption
  <2>3. seed \in Seq(Octet) /\ Len(seed) = h
    <3>. HIDE DEF h
    <3>. QED
      BY <1>1, <2>2, FirstIs
  <2>. HIDE DEF E, seed
  <2>4. /\ E.digests \in Held
        /\ ~ ((Len(message) + (2 * h)) + 2 =< l) => E.block = NoBlock
        /\ (Len(message) + (2 * h)) + 2 =< l => E.block = <<OaepBlock(scheme, message, l, seed)>>
    <3>1. LET encoded == encodeRsaOaep(digests, l, message, scheme, seed)
          IN  /\ encoded.digests \in Held
              /\ ~ ((Len(message) + (2 * h)) + 2 =< l) => encoded.block = NoBlock
              /\ (Len(message) + (2 * h)) + 2 =< l => encoded.block = <<OaepBlock(scheme, message, l, seed)>>
      BY <1>1, <1>3, <2>2, <2>3, OaepEncoded, ZenonT(60)
    <3>. QED
      BY <2>1, <3>1
  <2>5. FitsFor(key.n, scheme, Len(message)) <=> (Len(message) + (2 * h)) + 2 =< l
    BY <1>5 DEF FitsFor
  <2>6. ASSUME (Len(message) + (2 * h)) + 2 =< l
        PROVE  LET em == OaepBlock(scheme, message, l, seed)
               IN  em \in Seq(Octet) /\ BlockFor(key.n, scheme, message, em)
    <3>. DEFINE em == OaepBlock(scheme, message, l, seed)
    <3>1. em \in Seq(Octet)
      BY <1>1, <1>3, <2>2, <2>3, <2>6, OaepBlockType, Zenon
    <3>. HIDE DEF l, h
    <3>2. IsOaepOf(em, message, l, scheme)
      BY <1>1, <1>3, <2>2, <2>3, <2>6, OaepBlockIs DEF h
    <3>. HIDE DEF em
    <3>3. BlockFor(key.n, scheme, message, em)
      BY <1>5, <2>5, <2>6, <3>1, <3>2 DEF BlockFor, l
    <3>. QED
      BY <3>1, <3>3 DEF em
  <2>. HIDE DEF l, h
  <2>. QED
    BY <2>4, <2>5, <2>6 DEF Makes, E
<1>6. CASE scheme.scheme = "RAW"
  <2>1. E = [block |-> <<message>>, digests |-> digests]
    BY <1>6 DEF EncodedFor
  <2>. HIDE DEF E
  <2>2. E.block = <<message>> /\ E.digests = digests
    BY <2>1
  <2>3. FitsFor(key.n, scheme, Len(message))
    BY <1>6 DEF FitsFor
  <2>4. BlockFor(key.n, scheme, message, message)
    BY <1>1, <1>6, <2>3 DEF BlockFor
  <2>. QED
    BY <1>1, <2>2, <2>3, <2>4 DEF Makes, E
<1>. QED
  BY <1>2, <1>4, <1>5, <1>6

LEMMA SignMakes ==
    ASSUME HashesFit, IsPrivateKey(key), NEW k \in Keys, key.n = k.n, digests \in Held,
           NEW scheme \in Signatures, NEW d \in DOMAIN Algorithms, NEW stream \in Streams
    PROVE  /\ Digest(digests, d) \in Seq(Octet)
           /\ Makes(key.n, scheme, Digest(digests, d), BlockToSign(scheme, d, stream))
<1>. DEFINE E == BlockToSign(scheme, d, stream)
            l == OctetLength(key.n)
            read == Digest(digests, d)
            bits == BitLength(key.n)
<1>1. stream \in Seq(Octet) /\ Len(DrawnNonZero(stream)) >= l - 3
  BY DataAssumption
<1>2. scheme.scheme \in {"NONE", "PSS"} /\ (scheme.scheme = "PSS" => scheme \in PssSchemes)
  BY SchemesAre
<1>3. l \in Nat /\ bits \in Nat \ {0}
  BY KeyHasPrimes, OctetLengthIs
<1>4. read \in Seq(Octet)
  <2>1. digests[d] \in Seq(Octet)
    BY DEF Held
  <2>. QED
    BY <2>1, HashIs DEF Digest
<1>5. CASE scheme.scheme = "NONE"
  <2>1. E = [block |-> encodePkcs1v15(read, l, 1, stream), digests |-> digests]
    BY <1>5 DEF BlockToSign, K
  <2>2. 1 \in TypeOctets
    BY DEF TypeOctets
  <2>. HIDE DEF E, read
  <2>3. Makes(key.n, scheme, read, E)
    BY <1>1, <1>3, <1>4, <1>5, <2>1, <2>2, Makes15
  <2>. QED
    BY <1>4, <2>3 DEF E, read
<1>6. CASE scheme.scheme = "PSS"
  <2>. DEFINE t == scheme.saltLength
              salt == First(stream, t)
  <2>1. E = encodePss(digests, d, scheme, bits, salt)
    BY <1>6 DEF BlockToSign, Bits
  <2>2. scheme \in PssSchemes /\ t \in Nat /\ t =< Len(stream)
    BY <1>2, <1>6, PssOptions, DataAssumption
  <2>3. salt \in Seq(Octet) /\ Len(salt) = t
    <3>. HIDE DEF t
    <3>. QED
      BY <1>1, <2>2, FirstIs
  <2>. HIDE DEF E, salt
  <2>4. /\ E.digests \in Held
        /\ ~ FitsPss(scheme, bits) => E.block = NoBlock
        /\ FitsPss(scheme, bits) => E.block = <<PssBlock(scheme, read, bits, salt)>>
    <3>1. LET encoded == encodePss(digests, d, scheme, bits, salt)
          IN  /\ encoded.digests \in Held
              /\ ~ FitsPss(scheme, bits) => encoded.block = NoBlock
              /\ FitsPss(scheme, bits) => encoded.block = <<PssBlock(scheme, read, bits, salt)>>
      BY <1>3, <2>2, <2>3, PssEncoded, Zenon
    <3>. QED
      BY <2>1, <3>1
  <2>5. FitsFor(key.n, scheme, Len(read)) <=> FitsPss(scheme, bits)
    BY <1>6 DEF FitsFor
  <2>6. ASSUME FitsPss(scheme, bits)
        PROVE  LET em == PssBlock(scheme, read, bits, salt)
               IN  em \in Seq(Octet) /\ BlockFor(key.n, scheme, read, em)
    <3>. DEFINE em == PssBlock(scheme, read, bits, salt)
    <3>1. em \in Seq(Octet)
      BY <1>3, <1>4, <2>2, <2>3, <2>6, PssBlockType, Zenon
    <3>. HIDE DEF bits, read
    <3>2. IsPssOf(em, read, bits, scheme)
      BY <1>3, <1>4, <2>2, <2>3, <2>6, PssBlockIs
    <3>. HIDE DEF em
    <3>3. BlockFor(key.n, scheme, read, em)
      BY <1>6, <2>5, <2>6, <3>1, <3>2 DEF BlockFor, bits
    <3>. QED
      BY <3>1, <3>3 DEF em
  <2>. HIDE DEF bits, read
  <2>7. Makes(key.n, scheme, read, E)
    BY <2>4, <2>5, <2>6 DEF Makes
  <2>. QED
    BY <1>4, <2>7 DEF E, read
<1>. QED
  BY <1>2, <1>5, <1>6

-----------------------------------------------------------------------------
(* What a call takes                                                       *)

LEMMA DecryptTakes ==
    ASSUME HashesFit, IsPrivateKey(key), digests \in Held, NEW scheme \in Encryptions,
           NEW block \in Seq(Octet), Len(block) = OctetLength(key.n)
    PROVE  LET decoded == DecodedFor(scheme, block)
           IN  /\ decoded.digests \in Held
               /\ scheme.scheme = "RAW" => decoded.message = <<block>>
               /\ scheme.scheme # "RAW" =>
                    \A m \in Seq(Octet) : BlockFor(key.n, scheme, m, block) => decoded.message = <<m>>
               /\ decoded.message # NoBlock =>
                    \E m : /\ decoded.message = <<m>>
                           /\ scheme.scheme = "RAW" => m = block
                           /\ scheme.scheme = "RSAES-PKCS1-V1_5" => IsBlockOf(block, 2, m, OctetLength(key.n))
                           /\ scheme.scheme = "RSA-OAEP" => IsOaepOf(block, m, OctetLength(key.n), scheme)
<1>. DEFINE D == DecodedFor(scheme, block)
            l == OctetLength(key.n)
<1>1. scheme.scheme \in {"RSAES-PKCS1-V1_5", "RAW", "RSA-OAEP"} /\ (scheme.scheme = "RSA-OAEP" => scheme \in OaepSchemes)
  BY SchemesAre
<1>2. l \in Nat /\ l >= 3
  BY KeyHasPrimes, OctetLengthIs DEF IsPrivateKey
<1>3. CASE scheme.scheme = "RSAES-PKCS1-V1_5"
  <2>. DEFINE m0 == decodePkcs1v15(block, l, FALSE)
  <2>1. D = [message |-> m0, digests |-> digests]
    BY <1>3 DEF DecodedFor, K
  <2>. HIDE DEF l
  <2>2. /\ \A m \in Seq(Octet) : IsBlockOf(block, TypeFor(FALSE), m, l) => m0 = <<m>>
        /\ m0 # NoBlock => m0 = <<m0[1]>> /\ IsBlockOf(block, TypeFor(FALSE), m0[1], l)
    <3>. DEFINE public == FALSE
    <3>1. public \in BOOLEAN /\ Len(block) = l
      BY DEF l
    <3>. HIDE DEF public
    <3>2. \A m \in Seq(Octet) : IsBlockOf(block, TypeFor(public), m, l) => decodePkcs1v15(block, l, public) = <<m>>
      BY <1>2, <3>1, Decoded15
    <3>3. decodePkcs1v15(block, l, public) # NoBlock =>
            /\ decodePkcs1v15(block, l, public) = <<decodePkcs1v15(block, l, public)[1]>>
            /\ IsBlockOf(block, TypeFor(public), decodePkcs1v15(block, l, public)[1], l)
      BY <1>2, <3>1, Decoded15
    <3>. QED
      BY <3>2, <3>3 DEF public
  <2>. HIDE DEF m0, D
  <2>3. D.message = m0 /\ D.digests = digests
    BY <2>1
  <2>4. TypeFor(FALSE) = 2
    BY DEF TypeFor
  <2>5. \A m \in Seq(Octet) : BlockFor(key.n, scheme, m, block) => IsBlockOf(block, 2, m, l)
    BY <1>3 DEF BlockFor, l
  <2>6. \A m \in Seq(Octet) : BlockFor(key.n, scheme, m, block) => D.message = <<m>>
    BY <2>2, <2>3, <2>4, <2>5
  <2>7. D.message # NoBlock => D.message = <<m0[1]>> /\ IsBlockOf(block, 2, m0[1], l)
    BY <2>2, <2>3, <2>4
  <2>. QED
    BY <1>3, <2>3, <2>6, <2>7 DEF D, l
<1>4. CASE scheme.scheme = "RSA-OAEP"
  <2>1. D = decodeRsaOaep(digests, l, block, scheme)
    BY <1>4 DEF DecodedFor, K
  <2>2. scheme \in OaepSchemes
    BY <1>1, <1>4
  <2>. HIDE DEF D
  <2>3. /\ D.digests \in Held
        /\ \A m \in Seq(Octet) :
              (Len(m) + (2 * LengthOf(scheme.md))) + 2 =< l /\ IsOaepOf(block, m, l, scheme) => D.message = <<m>>
        /\ D.message # NoBlock => \E m \in Seq(Octet) : D.message = <<m>> /\ IsOaepOf(block, m, l, scheme)
    <3>1. LET decoded == decodeRsaOaep(digests, l, block, scheme)
          IN  /\ decoded.digests \in Held
              /\ \A m \in Seq(Octet) :
                    (Len(m) + (2 * LengthOf(scheme.md))) + 2 =< l /\ IsOaepOf(block, m, l, scheme) => decoded.message = <<m>>
              /\ decoded.message # NoBlock =>
                    \E m \in Seq(Octet) : decoded.message = <<m>> /\ IsOaepOf(block, m, l, scheme)
      BY <1>2, <2>2, OaepDecoded, Zenon
    <3>. QED
      BY <2>1, <3>1
  <2>4. \A m \in Seq(Octet) : BlockFor(key.n, scheme, m, block) =>
            (Len(m) + (2 * LengthOf(scheme.md))) + 2 =< l /\ IsOaepOf(block, m, l, scheme)
    BY <1>4 DEF BlockFor, FitsFor
  <2>. HIDE DEF l
  <2>. QED
    BY <1>4, <2>3, <2>4 DEF D, l
<1>5. CASE scheme.scheme = "RAW"
  <2>1. D = [message |-> <<block>>, digests |-> digests]
    BY <1>5 DEF DecodedFor
  <2>. HIDE DEF D
  <2>2. D.message = <<block>> /\ D.digests = digests
    BY <2>1
  <2>. QED
    BY <1>5, <2>2 DEF D
<1>. QED
  BY <1>1, <1>3, <1>4, <1>5

LEMMA VerifyTakes ==
    ASSUME HashesFit, IsPrivateKey(key), digests \in Held, NEW scheme \in Signatures, NEW hash \in Seq(Octet),
           NEW block \in Seq(Octet), Len(block) = OctetLength(key.n)
    PROVE  LET verified == Verified(scheme, hash, block)
               em == LastOctets(block, BitLength(key.n))
           IN  /\ verified.digests \in Held
               /\ verified.verdict \in {"error", "true", "false"}
               /\ scheme.scheme = "NONE" =>
                    /\ BlockFor(key.n, scheme, hash, block) => verified.verdict = "true"
                    /\ verified.verdict = "true" => IsBlockOf(block, 1, hash, OctetLength(key.n))
               /\ scheme.scheme = "PSS" =>
                    /\ BlockFor(key.n, scheme, hash, em) => verified.verdict = "true"
                    /\ verified.verdict = "true" => IsPssOf(em, hash, BitLength(key.n), scheme)
<1>. DEFINE V == Verified(scheme, hash, block)
            l == OctetLength(key.n)
            bits == BitLength(key.n)
            em == LastOctets(block, bits)
<1>1. scheme.scheme \in {"NONE", "PSS"} /\ (scheme.scheme = "PSS" => scheme \in PssSchemes)
  BY SchemesAre
<1>2. l \in Nat /\ l >= 3 /\ bits \in Nat \ {0} /\ l = OctetsFor(bits)
  BY KeyHasPrimes, OctetLengthIs DEF IsPrivateKey, OctetLength
<1>3. CASE scheme.scheme = "NONE"
  <2>. DEFINE m0 == decodePkcs1v15(block, l, TRUE)
              v == IF m0 = NoBlock THEN "error" ELSE IF m0[1] = hash THEN "true" ELSE "false"
  <2>1. V = [verdict |-> v, digests |-> digests]
    BY <1>3 DEF Verified, K
  <2>. HIDE DEF l
  <2>2. /\ \A m \in Seq(Octet) : IsBlockOf(block, TypeFor(TRUE), m, l) => m0 = <<m>>
        /\ m0 # NoBlock => m0 = <<m0[1]>> /\ IsBlockOf(block, TypeFor(TRUE), m0[1], l)
    <3>. DEFINE public == TRUE
    <3>1. public \in BOOLEAN /\ Len(block) = l
      BY DEF l
    <3>. HIDE DEF public
    <3>2. \A m \in Seq(Octet) : IsBlockOf(block, TypeFor(public), m, l) => decodePkcs1v15(block, l, public) = <<m>>
      BY <1>2, <3>1, Decoded15
    <3>3. decodePkcs1v15(block, l, public) # NoBlock =>
            /\ decodePkcs1v15(block, l, public) = <<decodePkcs1v15(block, l, public)[1]>>
            /\ IsBlockOf(block, TypeFor(public), decodePkcs1v15(block, l, public)[1], l)
      BY <1>2, <3>1, Decoded15
    <3>. QED
      BY <3>2, <3>3 DEF public
  <2>. HIDE DEF m0, V, v
  <2>3. V.verdict = v /\ V.digests = digests
    BY <2>1
  <2>4. TypeFor(TRUE) = 1
    BY DEF TypeFor
  <2>5. BlockFor(key.n, scheme, hash, block) => IsBlockOf(block, 1, hash, l)
    BY <1>3 DEF BlockFor, l
  <2>6. IsBlockOf(block, 1, hash, l) => v = "true"
    <3>. SUFFICES ASSUME IsBlockOf(block, 1, hash, l)
                  PROVE  v = "true"
      OBVIOUS
    <3>1. m0 = <<hash>>
      BY <2>2, <2>4
    <3>2. m0 # NoBlock /\ m0[1] = hash
      BY <3>1 DEF NoBlock
    <3>. QED
      BY <3>2 DEF v
  <2>7. v = "true" => m0 # NoBlock /\ m0[1] = hash
    BY DEF v
  <2>8. v = "true" => IsBlockOf(block, 1, hash, l)
    BY <2>2, <2>4, <2>7
  <2>9. v \in {"error", "true", "false"}
    BY DEF v
  <2>. QED
    BY <1>3, <2>3, <2>5, <2>6, <2>8, <2>9 DEF V, l
<1>4. CASE scheme.scheme = "PSS"
  <2>1. V = verifyPss(digests, hash, block, scheme, bits)
    BY <1>4 DEF Verified, Bits
  <2>2. scheme \in PssSchemes
    BY <1>1, <1>4
  <2>. HIDE DEF V
  <2>3. FitsPss(scheme, bits) => EmLen(bits) =< Len(block)
    <3>. HIDE DEF bits, l
    <3>1. FitsPss(scheme, bits) => EmLen(bits) > 0
      BY <1>2, <2>2, PssSizes
    <3>2. EmLen(bits) > 0 => EmLen(bits) =< l
      BY <1>2, FirstSizeIs
    <3>. QED
      BY <3>1, <3>2 DEF l
  <2>4. /\ V.digests \in Held
        /\ V.verdict \in {"error", "true", "false"}
        /\ FitsPss(scheme, bits) /\ IsPssOf(em, hash, bits, scheme) => V.verdict = "true"
        /\ V.verdict = "true" => IsPssOf(em, hash, bits, scheme)
    <3>1. LET verified == verifyPss(digests, hash, block, scheme, bits)
              e == LastOctets(block, bits)
          IN  /\ verified.digests \in Held
              /\ verified.verdict \in {"error", "true", "false"}
              /\ FitsPss(scheme, bits) /\ IsPssOf(e, hash, bits, scheme) => verified.verdict = "true"
              /\ verified.verdict = "true" => IsPssOf(e, hash, bits, scheme)
      BY <1>2, <2>2, <2>3, PssVerified, Zenon
    <3>. QED
      BY <2>1, <3>1
  <2>5. BlockFor(key.n, scheme, hash, em) => FitsPss(scheme, bits) /\ IsPssOf(em, hash, bits, scheme)
    BY <1>4 DEF BlockFor, FitsFor
  <2>. HIDE DEF em, bits
  <2>. QED
    BY <1>4, <2>4, <2>5 DEF V, em, bits
<1>. QED
  BY <1>1, <1>3, <1>4

(* Every block goes through the key, and is what the other side reads.     *)
LEMMA BlockThroughKey ==
    ASSUME HashesFit, IsPrivateKey(key), NEW scheme, NEW data \in Seq(Octet), NEW em,
           BlockFor(key.n, scheme, data, em),
           \/ scheme \in Encryptions /\ scheme.scheme # "RAW"
           \/ scheme \in Signatures
    PROVE  /\ AsNumber(em) < key.n
           /\ scheme.scheme # "PSS" => AsOctets(AsNumber(em), OctetLength(key.n)) = em
           /\ scheme.scheme = "PSS" =>
                LastOctets(AsOctets(AsNumber(em), OctetLength(key.n)), BitLength(key.n)) = em
<1>. DEFINE l == OctetLength(key.n)
            bits == BitLength(key.n)
<1>1. /\ scheme.scheme \in {"RSAES-PKCS1-V1_5", "RSA-OAEP", "NONE", "PSS"}
      /\ scheme.scheme = "RSA-OAEP" => scheme \in OaepSchemes
      /\ scheme.scheme = "PSS" => scheme \in PssSchemes
  BY SchemesAre
<1>2. l \in Nat /\ bits \in Nat \ {0}
  BY KeyHasPrimes, OctetLengthIs
<1>3. em \in Seq(Octet)
  BY DEF BlockFor
<1>4. CASE scheme.scheme \in {"RSAES-PKCS1-V1_5", "NONE"}
  <2>1. Len(em) = l /\ em[1] = 0
    BY <1>4 DEF BlockFor, IsBlockOf
  <2>2. AsNumber(em) < key.n /\ AsOctets(AsNumber(em), l) = em
    BY <1>3, <2>1, ZeroFirst
  <2>. QED
    BY <1>4, <2>2
<1>5. CASE scheme.scheme = "RSA-OAEP"
  <2>1. scheme \in OaepSchemes /\ (Len(data) + (2 * LengthOf(scheme.md))) + 2 =< l /\ IsOaepOf(em, data, l, scheme)
    BY <1>1, <1>5 DEF BlockFor, FitsFor
  <2>. HIDE DEF l
  <2>2. PICK seed \in Seq(Octet) : Len(seed) = LengthOf(scheme.md) /\ em = OaepBlock(scheme, data, l, seed)
    BY <1>2, <2>1, OaepBlockIs
  <2>3. Len(em) = l /\ em[1] = 0
    <3>1. LET e == OaepBlock(scheme, data, l, seed)
              masked == OaepMasked(scheme, data, l, seed)
          IN  /\ e \in Seq(Octet) /\ Len(e) = l /\ e[1] = 0
              /\ SubSeq(e, 2, LengthOf(scheme.md) + 1) = Xor(seed, OaepMask(scheme, masked, LengthOf(scheme.md)))
              /\ SubSeq(e, LengthOf(scheme.md) + 2, Len(e)) = masked
      BY <1>2, <2>1, <2>2, OaepBlockType
    <3>. QED
      BY <2>2, <3>1
  <2>4. AsNumber(em) < key.n /\ AsOctets(AsNumber(em), l) = em
    BY <1>3, <2>3, ZeroFirst DEF l
  <2>. QED
    BY <1>5, <2>4 DEF l
<1>6. CASE scheme.scheme = "PSS"
  <2>1. scheme \in PssSchemes /\ FitsPss(scheme, bits) /\ IsPssOf(em, data, bits, scheme)
    BY <1>1, <1>6 DEF BlockFor, FitsFor
  <2>2. PICK salt \in Seq(Octet) : Len(salt) = scheme.saltLength /\ em = PssBlock(scheme, data, bits, salt)
    <3>. HIDE DEF bits
    <3>. QED
      BY <1>2, <2>1, PssBlockIs
  <2>3. Len(em) = EmLen(bits) /\ em[1] < FirstSize(bits)
    <3>1. LET e == PssBlock(scheme, data, bits, salt)
          IN  Len(e) = EmLen(bits) /\ e[1] < FirstSize(bits)
      BY <1>2, <2>1, <2>2, PssBlockType, Zenon
    <3>. QED
      BY <2>2, <3>1
  <2>4. EmLen(bits) > 0
    <3>. HIDE DEF bits
    <3>. QED
      BY <1>2, <2>1, PssSizes
  <2>5. AsNumber(em) < key.n /\ LastOctets(AsOctets(AsNumber(em), l), bits) = em
    <3>. DEFINE c == BitLength(key.n)
    <3>. HIDE DEF c
    <3>1. c = BitLength(key.n) /\ EmLen(c) > 0 /\ Len(em) = EmLen(c) /\ em[1] < FirstSize(c)
      BY <2>3, <2>4 DEF c
    <3>2. AsNumber(em) < key.n /\ LastOctets(AsOctets(AsNumber(em), OctetLength(key.n)), c) = em
      BY <1>3, <3>1, PssFirst
    <3>. QED
      BY <3>2 DEF c
  <2>. QED
    BY <1>6, <2>5
<1>. QED
  BY <1>1, <1>4, <1>5, <1>6

-----------------------------------------------------------------------------
(* The invariant                                                           *)

(* What was made of a scheme's block, with the exponent of its side; or    *)
(* nothing, when the data do not fit.                                      *)
MadeOf(k, m, out) ==
    /\ m.scheme \in Encryptions \cup Signatures /\ m.data \in Seq(Octet)
    /\ ~ FitsFor(k.n, m.scheme, Len(m.data)) => out = NoBlock
    /\ FitsFor(k.n, m.scheme, Len(m.data)) =>
        \E em \in Seq(Octet) :
            /\ BlockFor(k.n, m.scheme, m.data, em)
            /\ m.scheme \in Encryptions => out = <<Powered(k, em, k.e)>>
            /\ m.scheme \in Signatures => out = <<Powered(k, em, k.d)>>

MessageInv ==
    /\ IsPrivateKey(key) /\ \E k \in Keys : key.n = k.n
    /\ digests \in Held
    /\ phase \in {"start", "made", "done"}
    /\ phase = "start" => made = NotMade
    /\ octets # NoBlock => \E c \in Seq(Octet) : octets = <<c>>
    /\ made # NotMade => MadeOf(key, made, octets)

LEMMA MadeWithCompleted ==
    ASSUME NEW k, IsPrivateKey(k), NEW m, NEW out
    PROVE  MadeOf(Completed(k), m, out) <=> MadeOf(k, m, out)
<1>. DEFINE c == Completed(k)
<1>1. c.n = k.n /\ c.e = k.e /\ c.d = k.d
  <2>1. PICK p, q : IsOf(k, p, q)
    BY KeyHasPrimes
  <2>. QED
    BY <2>1, CompletedIs
<1>. HIDE DEF c
<1>2. \A em : Powered(c, em, c.e) = Powered(k, em, k.e) /\ Powered(c, em, c.d) = Powered(k, em, k.d)
  BY <1>1 DEF Powered
<1>3. MadeOf(c, m, out) <=> MadeOf(k, m, out)
  BY <1>1, <1>2 DEF MadeOf
<1>. QED
  BY <1>3 DEF c

LEMMA CompletedSame ==
    ASSUME NEW k, IsPrivateKey(k)
    PROVE  Completed(k).n = k.n /\ Completed(k).e = k.e /\ Completed(k).d = k.d
<1>1. PICK p, q : IsOf(k, p, q)
  BY KeyHasPrimes
<1>. QED
  BY <1>1, CompletedIs

(* What was made is octets of the key's length, of a number less than n.   *)
LEMMA MadeIsTakeable ==
    ASSUME MessageInv, made # NotMade, octets # NoBlock
    PROVE  IsTakeable(octets[1])
<1>. DEFINE s == made.scheme
<1>1. IsPrivateKey(key) /\ MadeOf(key, made, octets)
  BY DEF MessageInv
<1>2. PICK em \in Seq(Octet) :
            /\ s \in Encryptions => octets = <<Powered(key, em, key.e)>>
            /\ s \in Signatures => octets = <<Powered(key, em, key.d)>>
  BY <1>1 DEF MadeOf
<1>3. s \in Encryptions \cup Signatures /\ key.e \in Nat /\ key.d \in Nat
  BY <1>1, KeyHasPrimes DEF MadeOf
<1>. HIDE DEF s
<1>4. \E x \in Nat : octets = <<Powered(key, em, x)>>
  BY <1>2, <1>3
<1>5. PICK x \in Nat : octets = <<Powered(key, em, x)>>
  BY <1>4
<1>. DEFINE c == Powered(key, em, x)
<1>6. Len(c) = OctetLength(key.n) /\ AsNumber(c) < key.n
  BY <1>1, PoweredIs
<1>. HIDE DEF c
<1>7. octets[1] = c
  BY <1>5 DEF c
<1>. QED
  BY <1>6, <1>7 DEF IsTakeable, K

(* What decryption makes of what was made, and of anything.                *)
LEMMA DecryptedIs ==
    ASSUME HashesFit, MessageInv, octets # NoBlock, NEW scheme \in Encryptions, NEW r \in Blinding
    PROVE  LET decoded == DecodedFor(scheme, PrivateOctets(octets[1], r))
           IN  /\ decoded.digests \in Held
               /\ made # NotMade /\ made.scheme = scheme =>
                    /\ scheme.scheme = "RAW" /\ AsNumber(made.data) < key.n =>
                            decoded.message = <<AsOctets(AsNumber(made.data), K)>>
                    /\ scheme.scheme # "RAW" => decoded.message = <<made.data>>
               /\ decoded.message # NoBlock =>
                    \E m : /\ decoded.message = <<m>>
                           /\ scheme.scheme = "RAW" => m = Opened(key.d)
                           /\ scheme.scheme = "RSAES-PKCS1-V1_5" => IsBlockOf(Opened(key.d), 2, m, K)
                           /\ scheme.scheme = "RSA-OAEP" => IsOaepOf(Opened(key.d), m, K, scheme)
<1>. DEFINE block == PrivateOctets(octets[1], r)
            D == DecodedFor(scheme, block)
            l == OctetLength(key.n)
            sent == octets[1]
<1>1. IsPrivateKey(key) /\ digests \in Held /\ K = l
  BY DEF MessageInv, K
<1>2. sent \in Seq(Octet)
  BY DEF MessageInv
<1>3. AsNumber(sent) \in Nat /\ key.d \in Nat /\ key.e \in Nat /\ r \in Nat /\ IsBlinding(r, key)
  BY <1>1, <1>2, NumberBound, KeyHasPrimes, DataAssumption DEF Blinding
<1>4. block = Powered(key, sent, key.d) /\ block = Opened(key.d)
  <2>1. PrivatePow(AsNumber(sent), key, r) = ModPow(AsNumber(sent), key.d, key.n)
    <3>. DEFINE a == AsNumber(sent)
    <3>1. a \in Nat
      BY <1>3
    <3>. HIDE DEF a
    <3>2. PrivatePow(a, key, r) = ModPow(a, key.d, key.n)
      BY <1>1, <1>3, <3>1, PrivatePowIs
    <3>. QED
      BY <3>2 DEF a
  <2>. QED
    BY <2>1 DEF PrivateOctets, Powered, Opened, K
<1>5. block \in Seq(Octet) /\ Len(block) = l
  <2>. HIDE DEF sent, block
  <2>. QED
    BY <1>1, <1>2, <1>3, <1>4, PoweredIs
<1>. HIDE DEF block, sent
<1>6. /\ D.digests \in Held
      /\ scheme.scheme = "RAW" => D.message = <<block>>
      /\ scheme.scheme # "RAW" =>
           \A m \in Seq(Octet) : BlockFor(key.n, scheme, m, block) => D.message = <<m>>
      /\ D.message # NoBlock =>
           \E m : /\ D.message = <<m>>
                  /\ scheme.scheme = "RAW" => m = block
                  /\ scheme.scheme = "RSAES-PKCS1-V1_5" => IsBlockOf(block, 2, m, l)
                  /\ scheme.scheme = "RSA-OAEP" => IsOaepOf(block, m, l, scheme)
  BY <1>1, <1>5, DecryptTakes, Zenon
<1>. HIDE DEF D, l
<1>7. ASSUME made # NotMade, made.scheme = scheme
      PROVE  /\ scheme.scheme = "RAW" /\ AsNumber(made.data) < key.n =>
                    D.message = <<AsOctets(AsNumber(made.data), K)>>
             /\ scheme.scheme # "RAW" => D.message = <<made.data>>
  <2>1. made.data \in Seq(Octet) /\ MadeOf(key, made, octets)
    BY <1>7 DEF MessageInv, MadeOf
  <2>2. PICK em \in Seq(Octet) : BlockFor(key.n, scheme, made.data, em) /\ octets = <<Powered(key, em, key.e)>>
    BY <1>7, <2>1 DEF MadeOf
  <2>3. sent = Powered(key, em, key.e)
    BY <2>2 DEF sent
  <2>4. AsNumber(em) < key.n => block = AsOctets(AsNumber(em), l)
    BY <1>1, <1>4, <2>3, PoweredBack DEF l
  <2>5. CASE scheme.scheme = "RAW"
    <3>1. em = made.data
      BY <2>2, <2>5 DEF BlockFor
    <3>. QED
      BY <1>1, <1>6, <2>4, <2>5, <3>1
  <2>6. CASE scheme.scheme # "RAW"
    <3>1. AsNumber(em) < key.n
      BY <1>1, <2>1, <2>2, <2>6, BlockThroughKey
    <3>2. scheme.scheme # "PSS"
      BY SchemesAre
    <3>3. AsOctets(AsNumber(em), l) = em
      BY <1>1, <2>1, <2>2, <2>6, <3>2, BlockThroughKey DEF l
    <3>4. D.message = <<made.data>>
      BY <1>6, <2>1, <2>2, <2>4, <2>6, <3>1, <3>3
    <3>. QED
      BY <2>6, <3>4
  <2>. QED
    BY <2>5, <2>6
<1>. QED
  BY <1>1, <1>4, <1>6, <1>7 DEF D, block, sent

LEMMA VerifiedIs ==
    ASSUME HashesFit, MessageInv, octets # NoBlock, NEW scheme \in Signatures, NEW hash \in Seq(Octet)
    PROVE  LET verified == Verified(scheme, hash, PublicOctets(octets[1]))
           IN  /\ verified.digests \in Held
               /\ verified.verdict \in {"error", "true", "false"}
               /\ made # NotMade /\ made.scheme = scheme /\ made.data = hash => verified.verdict = "true"
               /\ verified.verdict = "true" =>
                    /\ scheme.scheme = "NONE" => IsBlockOf(Opened(key.e), 1, hash, K)
                    /\ scheme.scheme = "PSS" =>
                        IsPssOf(SubSeq(Opened(key.e), K - EmLen(Bits) + 1, K), hash, Bits, scheme)
<1>. DEFINE block == PublicOctets(octets[1])
            V == Verified(scheme, hash, block)
            l == OctetLength(key.n)
            bits == BitLength(key.n)
            sent == octets[1]
            em0 == LastOctets(block, bits)
<1>1. IsPrivateKey(key) /\ digests \in Held /\ K = l /\ Bits = bits
  BY DEF MessageInv, K, Bits
<1>2. sent \in Seq(Octet)
  BY DEF MessageInv
<1>3. key.d \in Nat /\ key.e \in Nat
  BY <1>1, KeyHasPrimes
<1>4. block = Powered(key, sent, key.e) /\ block = Opened(key.e)
  BY DEF PublicOctets, PublicPow, Powered, Opened, K
<1>5. block \in Seq(Octet) /\ Len(block) = l
  <2>. HIDE DEF sent, block
  <2>. QED
    BY <1>1, <1>2, <1>3, <1>4, PoweredIs
<1>. HIDE DEF block, sent
<1>6. /\ V.digests \in Held
      /\ V.verdict \in {"error", "true", "false"}
      /\ scheme.scheme = "NONE" =>
           /\ BlockFor(key.n, scheme, hash, block) => V.verdict = "true"
           /\ V.verdict = "true" => IsBlockOf(block, 1, hash, l)
      /\ scheme.scheme = "PSS" =>
           /\ BlockFor(key.n, scheme, hash, em0) => V.verdict = "true"
           /\ V.verdict = "true" => IsPssOf(em0, hash, bits, scheme)
  BY <1>1, <1>5, VerifyTakes, Zenon
<1>7. em0 = SubSeq(Opened(key.e), K - EmLen(Bits) + 1, K)
  BY <1>1, <1>4, <1>5 DEF LastOctets
<1>8. scheme.scheme \in {"NONE", "PSS"}
  BY SchemesAre
<1>. HIDE DEF V, l, bits
<1>9. ASSUME made # NotMade, made.scheme = scheme, made.data = hash
      PROVE  V.verdict = "true"
  <2>1. MadeOf(key, made, octets)
    BY <1>9 DEF MessageInv
  <2>2. PICK em \in Seq(Octet) : BlockFor(key.n, scheme, hash, em) /\ octets = <<Powered(key, em, key.d)>>
    BY <1>9, <2>1 DEF MadeOf
  <2>3. sent = Powered(key, em, key.d)
    BY <2>2 DEF sent
  <2>4. AsNumber(em) < key.n
    BY <1>1, <2>2, BlockThroughKey
  <2>5. block = AsOctets(AsNumber(em), l)
    BY <1>1, <1>4, <2>3, <2>4, PoweredBack DEF l
  <2>6. CASE scheme.scheme = "NONE"
    <3>1. AsOctets(AsNumber(em), l) = em
      BY <1>1, <2>2, <2>6, BlockThroughKey DEF l
    <3>. QED
      BY <1>6, <2>2, <2>5, <2>6, <3>1
  <2>7. CASE scheme.scheme = "PSS"
    <3>1. LastOctets(AsOctets(AsNumber(em), l), bits) = em
      BY <1>1, <2>2, <2>7, BlockThroughKey DEF l, bits
    <3>. QED
      BY <1>6, <2>2, <2>5, <2>7, <3>1
  <2>. QED
    BY <1>8, <2>6, <2>7
<1>. HIDE DEF em0
<1>. QED
  BY <1>1, <1>4, <1>6, <1>7, <1>9 DEF V, block, sent

LEMMA MadeBy ==
    ASSUME NEW k, NEW m, NEW encoded, NEW x, Makes(k.n, m.scheme, m.data, encoded), m.data \in Seq(Octet),
           \/ m.scheme \in Encryptions /\ x = k.e
           \/ m.scheme \in Signatures /\ x = k.d,
           NEW out, encoded.block = NoBlock => out = NoBlock,
           encoded.block # NoBlock => out = <<Powered(k, encoded.block[1], x)>>
    PROVE  MadeOf(k, m, out)
<1>1. ASSUME ~ FitsFor(k.n, m.scheme, Len(m.data))
      PROVE  out = NoBlock
  BY <1>1 DEF Makes
<1>2. ASSUME FitsFor(k.n, m.scheme, Len(m.data))
      PROVE  \E em \in Seq(Octet) : BlockFor(k.n, m.scheme, m.data, em) /\ out = <<Powered(k, em, x)>>
  <2>1. PICK em \in Seq(Octet) : encoded.block = <<em>> /\ BlockFor(k.n, m.scheme, m.data, em)
    BY <1>2 DEF Makes
  <2>2. encoded.block # NoBlock /\ encoded.block[1] = em
    BY <2>1 DEF NoBlock
  <2>. QED
    BY <2>1, <2>2
<1>3. ~ (m.scheme \in Encryptions /\ m.scheme \in Signatures)
  BY SchemesAre
<1>. QED
  BY <1>1, <1>2, <1>3 DEF MadeOf

LEMMA MadeFits ==
    ASSUME NEW m, m.scheme \in Encryptions \cup Signatures, m.data \in Seq(Octet), NEW out, MadeOf(key, m, out)
    PROVE  out # NoBlock <=> Fits(m.scheme, Len(m.data))
<1>1. m.scheme.scheme \in {"RSAES-PKCS1-V1_5", "RAW", "RSA-OAEP", "NONE", "PSS"}
  BY SchemesAre
<1>. DEFINE s == m.scheme
            l == Len(m.data)
<1>2. FitsFor(key.n, s, l) <=> Fits(s, l)
  <2>1. s.scheme = "RSAES-PKCS1-V1_5" \/ s.scheme = "RAW" \/ s.scheme = "RSA-OAEP" \/ s.scheme = "NONE" \/ s.scheme = "PSS"
    BY <1>1
  <2>. HIDE DEF s, l
  <2>2. CASE s.scheme = "RSAES-PKCS1-V1_5"
    BY <2>2 DEF FitsFor, Fits, K
  <2>3. CASE s.scheme = "RAW"
    BY <2>3 DEF FitsFor, Fits
  <2>4. CASE s.scheme = "RSA-OAEP"
    BY <2>4 DEF FitsFor, Fits, K
  <2>5. CASE s.scheme = "NONE"
    BY <2>5 DEF FitsFor, Fits, K
  <2>6. CASE s.scheme = "PSS"
    BY <2>6 DEF FitsFor, Fits, Bits
  <2>. QED
    BY <2>1, <2>2, <2>3, <2>4, <2>5, <2>6
<1>3. FitsFor(key.n, s, l) => out # NoBlock
  <2>. SUFFICES ASSUME FitsFor(key.n, s, l)
                PROVE  out # NoBlock
    OBVIOUS
  <2>1. \E c : out = <<c>>
    BY DEF MadeOf
  <2>. QED
    BY <2>1 DEF NoBlock
<1>4. ~ FitsFor(key.n, s, l) => out = NoBlock
  BY DEF MadeOf
<1>. QED
  BY <1>2, <1>3, <1>4

LEMMA MessageInvInit == MessageInit => MessageInv
<1>. SUFFICES ASSUME MessageInit
              PROVE  MessageInv
  OBVIOUS
<1>1. IsPrivateKey(key) /\ \E k \in Keys : key.n = k.n
  BY KeysAssumption DEF MessageInit
<1>2. digests \in Held
  BY DataAssumption DEF MessageInit, Held
<1>. QED
  BY <1>1, <1>2 DEF MessageInit, MessageInv

(* Every step: what is made is of a block, and what is taken leaves it.    *)
LEMMA MessageInvNext ==
    ASSUME HashesFit, MessageInv, [MessageNext]_messageVars
    PROVE  MessageInv'
<1>0. IsPrivateKey(key) /\ digests \in Held
  BY DEF MessageInv
<1>1. PICK k \in Keys : key.n = k.n
  BY DEF MessageInv
<1>2. /\ IsPrivateKey(Completed(key)) /\ Completed(key).n = k.n
      /\ \A m, out : MadeOf(Completed(key), m, out) <=> MadeOf(key, m, out)
  BY <1>0, <1>1, CompletedIsPrivateKey, CompletedSame, MadeWithCompleted
<1>3. ASSUME NEW scheme \in Encryptions, NEW message \in Messages, NEW stream \in Streams,
             Encrypt(scheme, message, stream)
      PROVE  MessageInv'
  <2>. DEFINE E == EncodedFor(scheme, message, stream)
              c == PublicOctets(E.block[1])
  <2>1. Makes(key.n, scheme, message, E)
    BY <1>0, <1>1, EncryptMakes
  <2>2. c = Powered(key, E.block[1], key.e)
    BY DEF PublicOctets, PublicPow, Powered, K
  <2>. HIDE DEF E, c
  <2>3. /\ phase' = "made" /\ made' = [scheme |-> scheme, data |-> message]
        /\ octets' = IF E.block = NoBlock THEN NoBlock ELSE <<c>>
        /\ digests' = E.digests /\ key' = key
    BY <1>3 DEF Encrypt, E, c
  <2>4. made'.scheme = scheme /\ made'.data = message /\ message \in Seq(Octet)
    BY <2>3, DataAssumption
  <2>5. MadeOf(key, made', octets')
    BY <2>1, <2>2, <2>3, <2>4, MadeBy
  <2>6. octets' # NoBlock => \E s \in Seq(Octet) : octets' = <<s>>
    <3>. SUFFICES ASSUME octets' # NoBlock
                  PROVE  \E s \in Seq(Octet) : octets' = <<s>>
      OBVIOUS
    <3>1. octets' = <<Powered(key, E.block[1], key.e)>> /\ E.block # NoBlock
      BY <2>2, <2>3
    <3>2. \E em \in Seq(Octet) : E.block = <<em>>
      BY <2>1, <3>1 DEF Makes
    <3>3. E.block[1] \in Seq(Octet)
      BY <3>2
    <3>4. Powered(key, E.block[1], key.e) \in Seq(Octet)
      BY <1>0, <3>3, KeyHasPrimes, PoweredIs
    <3>. QED
      BY <3>1, <3>4
  <2>7. digests' \in Held
    BY <2>1, <2>3 DEF Makes
  <2>. QED
    BY <1>0, <1>1, <2>3, <2>5, <2>6, <2>7 DEF MessageInv
<1>4. ASSUME NEW scheme \in Encryptions, NEW r \in Blinding, Decrypt(scheme, r)
      PROVE  MessageInv'
  <2>. DEFINE D == DecodedFor(scheme, PrivateOctets(octets[1], r))
  <2>1. octets # NoBlock /\ phase' = "done" /\ made' = made /\ octets' = octets
    BY <1>4 DEF Decrypt
  <2>2. D.digests \in Held
    BY <1>4, <2>1, DecryptedIs, Zenon
  <2>. HIDE DEF D
  <2>3. (digests' = D.digests /\ key' = Completed(key)) \/ (digests' = digests /\ key' = key)
    BY <1>4 DEF Decrypt, D
  <2>4. digests' \in Held /\ IsPrivateKey(key') /\ key'.n = k.n /\ (\A m, out : MadeOf(key', m, out) <=> MadeOf(key, m, out))
    BY <1>0, <1>1, <1>2, <2>2, <2>3
  <2>. QED
    BY <2>1, <2>4 DEF MessageInv
<1>5. ASSUME NEW scheme \in Signatures, NEW d \in DOMAIN Algorithms \ {0}, NEW stream \in Streams, NEW r \in Blinding,
             Sign(scheme, d, stream, r)
      PROVE  MessageInv'
  <2>. DEFINE E == BlockToSign(scheme, d, stream)
              c == PrivateOctets(E.block[1], r)
              read == Digest(digests, d)
  <2>1. read \in Seq(Octet) /\ Makes(key.n, scheme, read, E)
    BY <1>0, <1>1, SignMakes
  <2>2. E.block # NoBlock => E.block[1] \in Seq(Octet)
    <3>. SUFFICES ASSUME E.block # NoBlock
                  PROVE  E.block[1] \in Seq(Octet)
      OBVIOUS
    <3>1. \E em \in Seq(Octet) : E.block = <<em>>
      BY <2>1 DEF Makes
    <3>. HIDE DEF E
    <3>. QED
      BY <3>1
  <2>3. E.block # NoBlock => c = Powered(key, E.block[1], key.d)
    <3>. SUFFICES ASSUME E.block # NoBlock
                  PROVE  c = Powered(key, E.block[1], key.d)
      OBVIOUS
    <3>. DEFINE b == E.block[1]
                a == AsNumber(b)
    <3>1. b \in Seq(Octet)
      BY <2>2
    <3>. HIDE DEF b
    <3>2. a \in Nat /\ r \in Nat /\ IsBlinding(r, key)
      BY <3>1, NumberBound, DataAssumption DEF Blinding
    <3>. HIDE DEF a
    <3>3. PrivatePow(a, key, r) = ModPow(a, key.d, key.n)
      BY <1>0, <3>2, PrivatePowIs
    <3>. QED
      BY <3>3 DEF PrivateOctets, Powered, K, a, b
  <2>. HIDE DEF E, c, read
  <2>4. /\ phase' = "made" /\ made' = [scheme |-> scheme, data |-> read]
        /\ octets' = IF E.block = NoBlock THEN NoBlock ELSE <<c>>
        /\ digests' = E.digests
        /\ key' = IF E.block = NoBlock THEN key ELSE Completed(key)
    BY <1>5 DEF Sign, E, c, read
  <2>5. made'.scheme = scheme /\ made'.data = read
    BY <2>4
  <2>6. MadeOf(key, made', octets')
    <3>1. E.block = NoBlock => octets' = NoBlock
      BY <2>4
    <3>2. E.block # NoBlock => octets' = <<Powered(key, E.block[1], key.d)>>
      BY <2>3, <2>4
    <3>. QED
      BY <2>1, <2>5, <3>1, <3>2, MadeBy
  <2>7. octets' # NoBlock => \E s \in Seq(Octet) : octets' = <<s>>
    <3>. SUFFICES ASSUME octets' # NoBlock
                  PROVE  \E s \in Seq(Octet) : octets' = <<s>>
      OBVIOUS
    <3>1. octets' = <<Powered(key, E.block[1], key.d)>> /\ E.block # NoBlock
      BY <2>3, <2>4
    <3>2. Powered(key, E.block[1], key.d) \in Seq(Octet)
      BY <1>0, <2>2, <3>1, KeyHasPrimes, PoweredIs
    <3>. QED
      BY <3>1, <3>2
  <2>8. digests' \in Held
    BY <2>1, <2>4 DEF Makes
  <2>9. IsPrivateKey(key') /\ key'.n = k.n /\ MadeOf(key', made', octets')
    BY <1>0, <1>1, <1>2, <2>4, <2>6
  <2>. QED
    BY <2>4, <2>7, <2>8, <2>9 DEF MessageInv
<1>6. ASSUME NEW scheme \in Signatures, NEW hash \in Hashes \cup (IF made = NotMade THEN {} ELSE {made.data}),
             Verify(scheme, hash)
      PROVE  MessageInv'
  <2>. DEFINE V == Verified(scheme, hash, PublicOctets(octets[1]))
  <2>0. hash \in Seq(Octet)
    BY DataAssumption DEF MessageInv, MadeOf
  <2>1. octets # NoBlock /\ phase' = "done" /\ made' = made /\ octets' = octets /\ key' = key
    BY <1>6 DEF Verify
  <2>2. V.digests \in Held
    BY <1>6, <2>0, <2>1, VerifiedIs, Zenon
  <2>. HIDE DEF V
  <2>3. digests' = V.digests \/ digests' = digests
    BY <1>6 DEF Verify, V
  <2>4. digests' \in Held
    BY <1>0, <2>2, <2>3
  <2>. QED
    BY <2>1, <2>4 DEF MessageInv
<1>7. ASSUME phase = "start", NEW arrived \in Arrivals(key.n), Arrive(arrived)
      PROVE  MessageInv'
  <2>1. arrived \in Seq(Octet)
    BY <1>1, DataAssumption
  <2>2. made = NotMade
    BY <1>7 DEF MessageInv
  <2>. QED
    BY <1>7, <2>1, <2>2 DEF Arrive, MessageInv
<1>8. CASE UNCHANGED messageVars
  BY <1>8 DEF messageVars, MessageInv, Held
<1>. QED
  BY <1>3, <1>4, <1>5, <1>6, <1>7, <1>8 DEF MessageNext

(* Every key stays a private key with the same modulus, digest objects     *)
(* hold octets, and what was made is a block of the scheme for the data,   *)
(* under the exponent of its side, exactly when the data fit.              *)
THEOREM MessagesMade ==
    ASSUME HashesFit
    PROVE  MessageSpec => []MessageInv
<1>1. MessageInv /\ [MessageNext]_messageVars => MessageInv'
  BY MessageInvNext
<1>. QED
  BY <1>1, MessageInvInit, PTL DEF MessageSpec

-----------------------------------------------------------------------------
(* The properties                                                          *)

(* What the last call did, of what was made and of anything.               *)
TakenAsMade ==
    phase = "done" /\ made # NotMade /\ taken.scheme = made.scheme =>
        /\ made.scheme.scheme = "RAW" /\ AsNumber(made.data) < key.n =>
                got = MessageOf(<<AsOctets(AsNumber(made.data), K)>>)
        /\ made.scheme.scheme \in {"RSAES-PKCS1-V1_5", "RSA-OAEP"} => got = MessageOf(<<made.data>>)
        /\ made.scheme.scheme \in {"NONE", "PSS"} /\ taken.data = made.data => got.is = "true"

TakenIsEncoded ==
    phase = "done" /\ got.is \in {"message", "true"} =>
        /\ AsNumber(octets[1]) < key.n
        /\ taken.scheme.scheme \in {"RSAES-PKCS1-V1_5", "RAW", "RSA-OAEP", "NONE", "PSS"}
        /\ taken.scheme.scheme = "RSAES-PKCS1-V1_5" => IsBlockOf(Opened(key.d), 2, got.message, K)
        /\ taken.scheme.scheme = "RSA-OAEP" => IsOaepOf(Opened(key.d), got.message, K, taken.scheme)
        /\ taken.scheme.scheme = "RAW" => got.message = Opened(key.d)
        /\ taken.scheme.scheme = "NONE" => IsBlockOf(Opened(key.e), 1, taken.data, K)
        /\ taken.scheme.scheme = "PSS" =>
                IsPssOf(SubSeq(Opened(key.e), K - EmLen(Bits) + 1, K), taken.data, Bits, taken.scheme)

LEMMA TakenNext ==
    ASSUME HashesFit, MessageInv, TakenAsMade, TakenIsEncoded, [MessageNext]_messageVars
    PROVE  TakenAsMade' /\ TakenIsEncoded'
<1>0. IsPrivateKey(key)
  BY DEF MessageInv
<1>1. ASSUME phase' = "made"
      PROVE  TakenAsMade' /\ TakenIsEncoded'
  BY <1>1 DEF TakenAsMade, TakenIsEncoded
<1>2. CASE \E scheme \in Encryptions, message \in Messages, stream \in Streams : Encrypt(scheme, message, stream)
  BY <1>1, <1>2 DEF Encrypt
<1>3. CASE \E scheme \in Signatures, d \in DOMAIN Algorithms \ {0}, stream \in Streams, r \in Blinding :
                Sign(scheme, d, stream, r)
  BY <1>1, <1>3 DEF Sign
<1>4. CASE phase = "start" /\ \E arrived \in Arrivals(key.n) : Arrive(arrived)
  BY <1>1, <1>4 DEF Arrive
<1>5. ASSUME NEW scheme \in Encryptions, NEW r \in Blinding, Decrypt(scheme, r)
      PROVE  TakenAsMade' /\ TakenIsEncoded'
  <2>. DEFINE block == PrivateOctets(octets[1], r)
              D == DecodedFor(scheme, block)
              s == scheme.scheme
              c == Completed(key)
  <2>1. /\ octets # NoBlock /\ phase' = "done" /\ made' = made /\ octets' = octets
        /\ taken' = [scheme |-> scheme]
    BY <1>5 DEF Decrypt
  <2>2. taken'.scheme = scheme
    BY <2>1
  <2>3. s \in {"RSAES-PKCS1-V1_5", "RAW", "RSA-OAEP"}
    BY SchemesAre
  <2>4. c.n = key.n /\ c.e = key.e /\ c.d = key.d
    BY <1>0, CompletedSame
  <2>5. /\ made # NotMade /\ made.scheme = scheme =>
            /\ s = "RAW" /\ AsNumber(made.data) < key.n => D.message = <<AsOctets(AsNumber(made.data), K)>>
            /\ s # "RAW" => D.message = <<made.data>>
        /\ D.message # NoBlock =>
            \E m : /\ D.message = <<m>>
                   /\ s = "RAW" => m = Opened(key.d)
                   /\ s = "RSAES-PKCS1-V1_5" => IsBlockOf(Opened(key.d), 2, m, K)
                   /\ s = "RSA-OAEP" => IsOaepOf(Opened(key.d), m, K, scheme)
    <3>1. LET decoded == DecodedFor(scheme, PrivateOctets(octets[1], r))
          IN  /\ decoded.digests \in Held
              /\ made # NotMade /\ made.scheme = scheme =>
                   /\ scheme.scheme = "RAW" /\ AsNumber(made.data) < key.n =>
                           decoded.message = <<AsOctets(AsNumber(made.data), K)>>
                   /\ scheme.scheme # "RAW" => decoded.message = <<made.data>>
              /\ decoded.message # NoBlock =>
                   \E m : /\ decoded.message = <<m>>
                          /\ scheme.scheme = "RAW" => m = Opened(key.d)
                          /\ scheme.scheme = "RSAES-PKCS1-V1_5" => IsBlockOf(Opened(key.d), 2, m, K)
                          /\ scheme.scheme = "RSA-OAEP" => IsOaepOf(Opened(key.d), m, K, scheme)
      BY <2>1, DecryptedIs
    <3>. QED
      BY <3>1, Zenon
  <2>. HIDE DEF block, D, c
  <2>6. CASE IsTakeable(octets[1])
    <3>1. got' = MessageOf(D.message) /\ key' = c
      BY <1>5, <2>6 DEF Decrypt, D, block, c
    <3>2. key'.n = key.n /\ key'.d = key.d /\ K' = K
      BY <2>4, <3>1 DEF K
    <3>3. Opened(key.d)' = Opened(key.d)
      BY <2>1, <3>2 DEF Opened
    <3>4. TakenAsMade'
      <4>1. ASSUME made # NotMade, scheme = made.scheme
            PROVE  /\ s = "RAW" /\ AsNumber(made.data) < key.n =>
                        got' = MessageOf(<<AsOctets(AsNumber(made.data), K)>>)
                   /\ s \in {"RSAES-PKCS1-V1_5", "RSA-OAEP"} => got' = MessageOf(<<made.data>>)
                   /\ s \notin {"NONE", "PSS"}
        <5>1. /\ s = "RAW" /\ AsNumber(made.data) < key.n => D.message = <<AsOctets(AsNumber(made.data), K)>>
              /\ s # "RAW" => D.message = <<made.data>>
          BY <2>5, <4>1
        <5>. QED
          BY <2>3, <3>1, <5>1
      <4>. QED
        BY <2>1, <2>2, <3>2, <4>1 DEF TakenAsMade
    <3>5. AsNumber(octets[1]) < key.n
      BY <2>6 DEF IsTakeable
    <3>6. got'.is \in {"message", "true"} => D.message # NoBlock
      BY <3>1 DEF MessageOf, Result
    <3>7. ASSUME D.message # NoBlock
          PROVE  /\ s = "RAW" => got'.message = Opened(key.d)
                 /\ s = "RSAES-PKCS1-V1_5" => IsBlockOf(Opened(key.d), 2, got'.message, K)
                 /\ s = "RSA-OAEP" => IsOaepOf(Opened(key.d), got'.message, K, scheme)
      <4>1. PICK m : /\ D.message = <<m>>
                     /\ s = "RAW" => m = Opened(key.d)
                     /\ s = "RSAES-PKCS1-V1_5" => IsBlockOf(Opened(key.d), 2, m, K)
                     /\ s = "RSA-OAEP" => IsOaepOf(Opened(key.d), m, K, scheme)
        BY <2>5, <3>7
      <4>2. got'.message = m
        BY <3>1, <3>7, <4>1 DEF MessageOf
      <4>. QED
        BY <4>1, <4>2
    <3>8. TakenIsEncoded'
      BY <2>1, <2>2, <2>3, <3>2, <3>3, <3>5, <3>6, <3>7 DEF TakenIsEncoded
    <3>. QED
      BY <3>4, <3>8
  <2>7. CASE ~ IsTakeable(octets[1])
    <3>1. got' = Result("error") /\ key' = key
      BY <1>5, <2>7 DEF Decrypt
    <3>2. ~ (made # NotMade)
      BY <2>1, <2>7, MadeIsTakeable
    <3>3. got'.is = "error"
      BY <3>1 DEF Result
    <3>. QED
      BY <2>1, <3>2, <3>3 DEF TakenAsMade, TakenIsEncoded
  <2>. QED
    BY <2>6, <2>7
<1>6. ASSUME NEW scheme \in Signatures, NEW hash \in Hashes \cup (IF made = NotMade THEN {} ELSE {made.data}),
             Verify(scheme, hash)
      PROVE  TakenAsMade' /\ TakenIsEncoded'
  <2>. DEFINE V == Verified(scheme, hash, PublicOctets(octets[1]))
              s == scheme.scheme
  <2>0. hash \in Seq(Octet)
    BY DataAssumption DEF MessageInv, MadeOf
  <2>1. /\ octets # NoBlock /\ phase' = "done" /\ made' = made /\ octets' = octets /\ key' = key
        /\ taken' = [scheme |-> scheme, data |-> hash]
    BY <1>6 DEF Verify
  <2>2. taken'.scheme = scheme /\ taken'.data = hash
    BY <2>1
  <2>3. s \in {"NONE", "PSS"}
    BY SchemesAre
  <2>4. /\ V.verdict \in {"error", "true", "false"}
        /\ made # NotMade /\ made.scheme = scheme /\ made.data = hash => V.verdict = "true"
        /\ V.verdict = "true" =>
             /\ s = "NONE" => IsBlockOf(Opened(key.e), 1, hash, K)
             /\ s = "PSS" => IsPssOf(SubSeq(Opened(key.e), K - EmLen(Bits) + 1, K), hash, Bits, scheme)
    <3>1. LET verified == Verified(scheme, hash, PublicOctets(octets[1]))
          IN  /\ verified.digests \in Held
              /\ verified.verdict \in {"error", "true", "false"}
              /\ made # NotMade /\ made.scheme = scheme /\ made.data = hash => verified.verdict = "true"
              /\ verified.verdict = "true" =>
                   /\ scheme.scheme = "NONE" => IsBlockOf(Opened(key.e), 1, hash, K)
                   /\ scheme.scheme = "PSS" =>
                       IsPssOf(SubSeq(Opened(key.e), K - EmLen(Bits) + 1, K), hash, Bits, scheme)
      BY <2>0, <2>1, VerifiedIs
    <3>. QED
      BY <3>1, Zenon
  <2>. HIDE DEF V
  <2>5. K' = K /\ Bits' = Bits /\ Opened(key.e)' = Opened(key.e)
    BY <2>1 DEF K, Bits, Opened
  <2>6. CASE IsTakeable(octets[1])
    <3>1. got'.is = V.verdict
      BY <1>6, <2>6 DEF Verify, V, Result
    <3>2. AsNumber(octets[1]) < key.n
      BY <2>6 DEF IsTakeable
    <3>3. TakenAsMade'
      BY <2>1, <2>2, <2>3, <2>4, <3>1 DEF TakenAsMade
    <3>4. TakenIsEncoded'
      <4>1. got'.is \in {"message", "true"} => V.verdict = "true"
        BY <2>4, <3>1
      <4>. QED
        BY <2>1, <2>2, <2>3, <2>4, <2>5, <3>2, <4>1 DEF TakenIsEncoded
    <3>. QED
      BY <3>3, <3>4
  <2>7. CASE ~ IsTakeable(octets[1])
    <3>1. got'.is = "error"
      BY <1>6, <2>7 DEF Verify, Result
    <3>2. ~ (made # NotMade)
      BY <2>1, <2>7, MadeIsTakeable
    <3>. QED
      BY <2>1, <3>1, <3>2 DEF TakenAsMade, TakenIsEncoded
  <2>. QED
    BY <2>6, <2>7
<1>7. CASE UNCHANGED messageVars
  <2>1. UNCHANGED <<key, phase, made, octets, taken, got>>
    BY <1>7 DEF messageVars
  <2>. QED
    BY <2>1 DEF TakenAsMade, TakenIsEncoded, K, Bits, Opened
<1>. QED
  BY <1>2, <1>3, <1>4, <1>5, <1>6, <1>7 DEF MessageNext

LEMMA TakenInit == MessageInit => TakenAsMade /\ TakenIsEncoded
  BY DEF MessageInit, TakenAsMade, TakenIsEncoded

LEMMA AcceptedFromTaken == MessageInv /\ TakenAsMade => WhatWasMadeIsAccepted
<1>. SUFFICES ASSUME MessageInv, TakenAsMade
              PROVE  WhatWasMadeIsAccepted
  OBVIOUS
<1>. DEFINE s == made.scheme.scheme
<1>1. ASSUME made # NotMade
      PROVE  /\ octets # NoBlock <=> Fits(made.scheme, Len(made.data))
             /\ s \in {"RSAES-PKCS1-V1_5", "RAW", "RSA-OAEP", "NONE", "PSS"}
  <2>1. MadeOf(key, made, octets) /\ made.scheme \in Encryptions \cup Signatures /\ made.data \in Seq(Octet)
    BY <1>1 DEF MessageInv, MadeOf
  <2>2. octets # NoBlock <=> Fits(made.scheme, Len(made.data))
    BY <2>1, MadeFits
  <2>. QED
    BY <2>1, <2>2, SchemesAre
<1>2. ASSUME phase = "done", made # NotMade, taken.scheme = made.scheme
      PROVE  CASE s = "RAW" ->
                    AsNumber(made.data) < key.n => got = MessageOf(<<AsOctets(AsNumber(made.data), K)>>)
               [] s \in {"RSAES-PKCS1-V1_5", "RSA-OAEP"} -> got = MessageOf(<<made.data>>)
               [] s \in {"NONE", "PSS"} -> taken.data = made.data => got.is = "true"
  <2>1. /\ s = "RAW" /\ AsNumber(made.data) < key.n => got = MessageOf(<<AsOctets(AsNumber(made.data), K)>>)
        /\ s \in {"RSAES-PKCS1-V1_5", "RSA-OAEP"} => got = MessageOf(<<made.data>>)
        /\ s \in {"NONE", "PSS"} /\ taken.data = made.data => got.is = "true"
    BY <1>2 DEF TakenAsMade
  <2>2. s = "RAW" \/ s \in {"RSAES-PKCS1-V1_5", "RSA-OAEP"} \/ s \in {"NONE", "PSS"}
    BY <1>1, <1>2
  <2>. HIDE DEF s
  <2>3. CASE s = "RAW"
    BY <2>1, <2>3
  <2>4. CASE s \in {"RSAES-PKCS1-V1_5", "RSA-OAEP"}
    BY <2>1, <2>4
  <2>5. CASE s \in {"NONE", "PSS"}
    BY <2>1, <2>5
  <2>. QED
    BY <2>2, <2>3, <2>4, <2>5
<1>. QED
  BY <1>1, <1>2 DEF WhatWasMadeIsAccepted

LEMMA EncodedFromTaken == TakenIsEncoded => OnlyEncodedIsAccepted
<1>. SUFFICES ASSUME TakenIsEncoded, phase = "done", got.is \in {"message", "true"}
              PROVE  /\ AsNumber(octets[1]) < key.n
                     /\ CASE taken.scheme.scheme = "RSAES-PKCS1-V1_5" -> IsBlockOf(Opened(key.d), 2, got.message, K)
                          [] taken.scheme.scheme = "RSA-OAEP" -> IsOaepOf(Opened(key.d), got.message, K, taken.scheme)
                          [] taken.scheme.scheme = "RAW" -> got.message = Opened(key.d)
                          [] taken.scheme.scheme = "NONE" -> IsBlockOf(Opened(key.e), 1, taken.data, K)
                          [] taken.scheme.scheme = "PSS" ->
                                 LET block == Opened(key.e)
                                 IN  IsPssOf(SubSeq(block, K - EmLen(Bits) + 1, K), taken.data, Bits, taken.scheme)
  BY DEF OnlyEncodedIsAccepted
<1>. DEFINE s == taken.scheme.scheme
<1>1. /\ AsNumber(octets[1]) < key.n
      /\ s = "RSAES-PKCS1-V1_5" => IsBlockOf(Opened(key.d), 2, got.message, K)
      /\ s = "RSA-OAEP" => IsOaepOf(Opened(key.d), got.message, K, taken.scheme)
      /\ s = "RAW" => got.message = Opened(key.d)
      /\ s = "NONE" => IsBlockOf(Opened(key.e), 1, taken.data, K)
      /\ s = "PSS" => IsPssOf(SubSeq(Opened(key.e), K - EmLen(Bits) + 1, K), taken.data, Bits, taken.scheme)
  BY DEF TakenIsEncoded
<1>2. s = "RSAES-PKCS1-V1_5" \/ s = "RSA-OAEP" \/ s = "RAW" \/ s = "NONE" \/ s = "PSS"
  BY DEF TakenIsEncoded
<1>. HIDE DEF s
<1>3. CASE s = "RSAES-PKCS1-V1_5"
  BY <1>1, <1>3 DEF s
<1>4. CASE s = "RSA-OAEP"
  BY <1>1, <1>4 DEF s
<1>5. CASE s = "RAW"
  BY <1>1, <1>5 DEF s
<1>6. CASE s = "NONE"
  BY <1>1, <1>6 DEF s
<1>7. CASE s = "PSS"
  BY <1>1, <1>7 DEF s
<1>. QED
  BY <1>2, <1>3, <1>4, <1>5, <1>6, <1>7

(* For every key, scheme, message, padding, seed, salt, blinding and       *)
(* contents of the digest objects: a message that fits is encrypted and    *)
(* decrypted to itself, and a digest that is signed is verified.           *)
THEOREM WhatWasMadeIsTaken ==
    ASSUME HashesFit
    PROVE  MessageSpec => []WhatWasMadeIsAccepted
<1>1. TakenAsMade /\ TakenIsEncoded /\ MessageInv /\ [MessageNext]_messageVars => TakenAsMade' /\ TakenIsEncoded'
  BY TakenNext
<1>. QED
  BY <1>1, MessagesMade, TakenInit, AcceptedFromTaken, PTL DEF MessageSpec

(* Whatever arrives, decryption gives only what the standard says that the *)
(* octets encrypt, and verification accepts only signatures that the       *)
(* standard has for the digest.                                            *)
THEOREM OnlyTheEncodedIsTaken ==
    ASSUME HashesFit
    PROVE  MessageSpec => []OnlyEncodedIsAccepted
<1>1. TakenAsMade /\ TakenIsEncoded /\ MessageInv /\ [MessageNext]_messageVars => TakenAsMade' /\ TakenIsEncoded'
  BY TakenNext
<1>. QED
  BY <1>1, MessagesMade, TakenInit, EncodedFromTaken, PTL DEF MessageSpec
=============================================================================

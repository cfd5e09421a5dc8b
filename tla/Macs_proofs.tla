---------------------------- MODULE Macs_proofs ----------------------------
(***************************************************************************)
(* A message digest object is a hash function, for any pieces and lengths  *)
(* of messages and any size of blocks and words: it implements             *)
(* AbstractDigest. HMAC contexts give the HMAC of the standard, for any    *)
(* contexts, digest objects, keys and messages; and derivations that share *)
(* digest objects call back with the standard's keys, for any of them and  *)
(* any counts.                                                             *)
(*                                                                         *)
(* Of a digest object the inductive invariant says that its length, its    *)
(* chain and its input are those of the message that update got so far. Of *)
(* HMAC two things are inductive together: what the kept key still has to  *)
(* do with the one that was given, and what is in the digest object of a   *)
(* message that nobody disturbed. Of PBKDF2 it is what a derivation has    *)
(* between two turns: as many of the standard's hashes as it has counted.  *)
(***************************************************************************)
EXTENDS MessageDigest, Hmac, Pbkdf2, SequenceTheorems, FiniteSetTheorems

-----------------------------------------------------------------------------
(* Division                                                                *)

(* Adding goes digit by digit.                                             *)
LEMMA CarryOut ==
    ASSUME NEW x \in Nat, NEW c \in Nat, NEW w \in Nat \ {0}
    PROVE  /\ (x + c) % w = ((x % w) + c) % w
           /\ (x + c) \div w = (x \div w) + (((x % w) + c) \div w)
  <1>. DEFINE q == x \div w
              r == x % w
              k == (r + c) \div w
              s == (r + c) % w
  <1>1. q \in Nat /\ r \in Nat /\ r < w /\ x = (q * w) + r
    BY QuotientOf
  <1>2. k \in Nat /\ s \in Nat /\ s < w /\ r + c = (k * w) + s
    BY <1>1, QuotientOf
  <1>. HIDE DEF q, r, k, s
  <1>3. x + c = ((q + k) * w) + s /\ q + k \in Nat
    BY <1>1, <1>2
  <1>4. (x + c) \div w = q + k /\ (x + c) % w = s
    BY <1>2, <1>3, QuotientIs, SMTT(30)
  <1>. QED
    BY <1>4 DEF q, r, k, s

(* Whole multiples go to the quotient.                                     *)
LEMMA WholesOut ==
    ASSUME NEW w \in Nat \ {0}, NEW q \in Nat, NEW z \in Nat
    PROVE  ((q * w) + z) \div w = q + (z \div w) /\ ((q * w) + z) % w = z % w
  <1>. DEFINE k == z \div w
              s == z % w
  <1>1. k \in Nat /\ s \in Nat /\ s < w /\ z = (k * w) + s
    BY QuotientOf
  <1>. HIDE DEF k, s
  <1>2. (q * w) + z = ((q + k) * w) + s /\ q + k \in Nat
    BY <1>1
  <1>3. ((q * w) + z) \div w = q + k /\ ((q * w) + z) % w = s
    BY <1>1, <1>2, QuotientIs
  <1>. QED
    BY <1>3 DEF k, s

(* A digit of a product: of the digit and of what leaves the one below.    *)
LEMMA DigitOfProduct ==
    ASSUME NEW l \in Nat, NEW w \in Nat \ {0}, NEW b \in Nat \ {0}, w % b = 0,
           NEW p \in Nat \ {0}
    PROVE  ((l * b) \div (w * p)) % w
               = ((((l \div (w * p)) % w) * b) + ((((l \div p) % w) * b) \div w)) % w
  <1>. DEFINE x == l \div p
              r == l % p
              s == (r * b) \div p
              u == (r * b) % p
              y == x \div w
              d == x % w
              h == y \div w
              g == y % w
              m == w \div b
              e == (d * b) \div w
  <1>1. x \in Nat /\ r \in Nat /\ r < p /\ l = (x * p) + r
    BY QuotientOf
  <1>2. y \in Nat /\ d \in Nat /\ d < w /\ x = (y * w) + d
    BY <1>1, QuotientOf
  <1>3. h \in Nat /\ g \in Nat /\ g < w /\ y = (h * w) + g
    BY <1>2, QuotientOf
  <1>4. r * b \in Nat
    BY <1>1
  <1>5. s \in Nat /\ u \in Nat /\ u < p /\ r * b = (s * p) + u
    BY <1>4, QuotientOf
  <1>6. m \in Nat /\ w = m * b
    BY QuotientOf
  <1>7. l \div (w * p) = y
    BY QuotientOfQuotient, ZenonT(60)
  <1>8. (l * b) \div (w * p) = ((l * b) \div p) \div w
    <2>1. l * b \in Nat
      OBVIOUS
    <2>. QED
      BY <2>1, QuotientOfQuotient, ZenonT(60)
  <1>9. d * b \in Nat /\ e \in Nat
    <2>1. d * b \in Nat
      BY <1>2
    <2>. QED
      BY <2>1, QuotientOf
  <1>10. ((l \div (w * p)) % w) = g /\ (((l \div p) % w) * b) \div w = e
    BY <1>7
  <1>. HIDE DEF x, r, s, u, y, d, h, g, m, e
  <1>11. (l * b) \div p = (x * b) + s
    <2>1. x * b \in Nat /\ (x * b) + s \in Nat
      BY <1>1, <1>5
    <2>2. l * b = (((x * b) + s) * p) + u
      BY <1>1, <1>5
    <2>. QED
      BY <1>5, <2>1, <2>2, QuotientIs
  <1>12. s < b
    <2>1. CASE s >= b
      <3>1. s * p >= b * p
        BY <1>5, <2>1
      <3>2. r * b < p * b
        BY <1>1
      <3>3. s * p =< r * b
        BY <1>5, <1>4
      <3>. QED
        BY <3>1, <3>2, <3>3, <1>1, <1>5
    <2>. QED
      BY <1>5, <2>1
  <1>13. ((d * b) + s) \div w = e
    <2>1. m \in Nat \ {0}
      BY <1>6
    <2>2. ((d * b) + s) \div b = d /\ ((d * b) + 0) \div b = d
      BY <1>2, <1>5, <1>12, QuotientIs
    <2>3. (d * b) + s \in Nat /\ (d * b) + 0 \in Nat /\ (d * b) + 0 = d * b
      BY <1>2, <1>5
    <2>4. ((d * b) + s) \div (m * b) = d \div m /\ ((d * b) + 0) \div (m * b) = d \div m
      BY <2>1, <2>2, <2>3, QuotientOfQuotient
    <2>. QED
      BY <1>6, <2>3, <2>4 DEF e
  <1>14. ((x * b) + s) \div w = (y * b) + e
    <2>1. y * b \in Nat /\ (d * b) + s \in Nat
      BY <1>2, <1>5
    <2>2. (x * b) + s = ((y * b) * w) + ((d * b) + s)
      BY <1>2, <1>5
    <2>3. (((y * b) * w) + ((d * b) + s)) \div w = (y * b) + (((d * b) + s) \div w)
      BY <2>1, WholesOut
    <2>. QED
      BY <1>13, <2>2, <2>3
  <1>15. ((y * b) + e) % w = ((g * b) + e) % w
    <2>1. h * b \in Nat /\ (g * b) + e \in Nat
      BY <1>3, <1>9
    <2>2. (y * b) + e = ((h * b) * w) + ((g * b) + e)
      BY <1>3, <1>9
    <2>3. (((h * b) * w) + ((g * b) + e)) % w = ((g * b) + e) % w
      BY <2>1, WholesOut
    <2>. QED
      BY <2>2, <2>3
  <1>. QED
    BY <1>8, <1>10, <1>11, <1>14, <1>15

-----------------------------------------------------------------------------
(* Blocks                                                                  *)

(* Names for what the provers would otherwise look into.                   *)
Product(a, b) == a * b
Quotient(a, b) == a \div b
Remainder(a, b) == a % b
Part(s, from, n) == [i \in 1 .. n |-> s[from + i]]

(* The lemmas above, by these names.                                       *)
LEMMA Named ==
    ASSUME NEW a \in Nat, NEW d \in Nat \ {0}
    PROVE  /\ Product(a, d) \in Nat /\ Quotient(a, d) \in Nat /\ Remainder(a, d) \in Nat
           /\ Remainder(a, d) < d
           /\ a = Product(Quotient(a, d), d) + Remainder(a, d)
  <1>1. a \div d \in Nat /\ a % d \in Nat /\ a % d < d /\ a = ((a \div d) * d) + (a % d)
    BY QuotientOf
  <1>. QED
    BY <1>1 DEF Product, Quotient, Remainder

LEMMA NamedSum ==
    ASSUME NEW q \in Nat, NEW d \in Nat \ {0}, NEW z \in Nat
    PROVE  /\ Quotient(Product(q, d) + z, d) = q + Quotient(z, d)
           /\ Remainder(Product(q, d) + z, d) = Remainder(z, d)
  BY WholesOut DEF Product, Quotient, Remainder

LEMMA NamedOrder ==
    ASSUME NEW n \in Nat, NEW b \in 1 .. n, NEW d \in Nat \ {0}
    PROVE  /\ Product(b, d) = Product(b - 1, d) + d
           /\ Product(b - 1, d) \in Nat /\ Product(b, d) \in Nat /\ Product(n, d) \in Nat
           /\ Product(b, d) =< Product(n, d)
  BY DEF Product

LEMMA NamedShift ==
    ASSUME NEW q \in Nat, NEW b \in Nat \ {0}, NEW d \in Nat \ {0}
    PROVE  Product((q + b) - 1, d) = Product(q, d) + Product(b - 1, d)
  BY DEF Product

LEMMA NamedCarry ==
    ASSUME NEW x \in Nat, NEW c \in Nat, NEW d \in Nat \ {0}
    PROVE  /\ Remainder(x + c, d) = Remainder(Remainder(x, d) + c, d)
           /\ Quotient(x + c, d) = Quotient(x, d) + Quotient(Remainder(x, d) + c, d)
  BY CarryOut DEF Remainder, Quotient

LEMMA NamedDigit ==
    ASSUME NEW l \in Nat, NEW w \in Nat \ {0}, NEW b \in Nat \ {0}, Remainder(w, b) = 0,
           NEW p \in Nat \ {0}
    PROVE  Remainder(Quotient(Product(l, b), Product(w, p)), w)
               = Remainder(Product(Remainder(Quotient(l, Product(w, p)), w), b)
                            + Quotient(Product(Remainder(Quotient(l, p), w), b), w), w)
  <1>1. w % b = 0
    BY DEF Remainder
  <1>2. ((l * b) \div (w * p)) % w
            = ((((l \div (w * p)) % w) * b) + ((((l \div p) % w) * b) \div w)) % w
    BY <1>1, DigitOfProduct, ZenonT(60)
  <1>. QED
    BY <1>2 DEF Product, Quotient, Remainder

(* A part of a sequence.                                                   *)
LEMMA PartIs ==
    ASSUME NEW S, NEW m \in Seq(S), NEW from \in Nat, NEW n \in Nat, from + n =< Len(m)
    PROVE  /\ SubSeq(m, from + 1, from + n) \in Seq(S)
           /\ Len(SubSeq(m, from + 1, from + n)) = n
           /\ SubSeq(m, from + 1, from + n) = Part(m, from, n)
  BY DEF Part

(* A sequence that is one sequence and then another.                       *)
LEMMA JoinedIs ==
    ASSUME NEW T, NEW a \in Seq(T), NEW b \in Seq(T), NEW c \in Seq(T),
           Len(a) = Len(b) + Len(c),
           \A i \in 1 .. Len(b) : a[i] = b[i],
           \A i \in 1 .. Len(c) : a[Len(b) + i] = c[i]
    PROVE  a = b \o c
  <1>. DEFINE d == b \o c
  <1>1. d \in Seq(T) /\ Len(d) = Len(b) + Len(c) /\ Len(b) \in Nat /\ Len(c) \in Nat
    OBVIOUS
  <1>2. /\ \A i \in 1 .. Len(b) : d[i] = b[i]
        /\ \A i \in 1 .. Len(c) : d[Len(b) + i] = c[i]
    OBVIOUS
  <1>. HIDE DEF d
  <1>3. ASSUME NEW i \in 1 .. Len(a)
        PROVE  a[i] = d[i]
    <2>1. CASE i =< Len(b)
      BY <1>1, <1>2, <2>1
    <2>2. CASE i > Len(b)
      <3>1. i - Len(b) \in 1 .. Len(c) /\ Len(b) + (i - Len(b)) = i
        BY <1>1, <2>2
      <3>. QED
        BY <1>2, <3>1
    <2>. QED
      BY <1>1, <2>1, <2>2
  <1>4. a = d
    BY <1>1, <1>3
  <1>. QED
    BY <1>4 DEF d

(* What blocks are made of.                                                *)
LEMMA BlocksAre ==
    ASSUME NEW S, NEW size \in Nat \ {0}, NEW m \in Seq(S)
    PROVE  /\ Blocks(size, m) \in Seq(Seq(S)) /\ Len(Blocks(size, m)) = Quotient(Len(m), size)
           /\ \A b \in 1 .. Quotient(Len(m), size) :
                  /\ Product(b - 1, size) \in Nat /\ Product(b - 1, size) + size =< Len(m)
                  /\ Blocks(size, m)[b] = Part(m, Product(b - 1, size), size)
  <1>. DEFINE n == Quotient(Len(m), size)
              block(b) == SubSeq(m, Product(b - 1, size) + 1, Product(b, size))
  <1>0. Len(m) \in Nat
    OBVIOUS
  <1>1. /\ n \in Nat /\ Remainder(Len(m), size) \in Nat
        /\ Len(m) = Product(n, size) + Remainder(Len(m), size)
    BY <1>0, Named
  <1>2. Blocks(size, m) = [b \in 1 .. n |-> block(b)]
    BY DEF Blocks, Product, Quotient
  <1>. HIDE DEF n
  <1>3. ASSUME NEW b \in 1 .. n
        PROVE  /\ Product(b - 1, size) \in Nat /\ Product(b - 1, size) + size =< Len(m)
               /\ block(b) \in Seq(S)
               /\ block(b) = Part(m, Product(b - 1, size), size)
    <2>1. /\ Product(b, size) = Product(b - 1, size) + size /\ Product(b - 1, size) \in Nat
          /\ Product(b - 1, size) + size =< Len(m)
      <3>1. /\ Product(b, size) = Product(b - 1, size) + size /\ Product(b - 1, size) \in Nat
            /\ Product(n, size) \in Nat /\ Product(b, size) =< Product(n, size)
        BY <1>1, NamedOrder
      <3>. QED
        BY <1>0, <1>1, <3>1
    <2>. DEFINE from == Product(b - 1, size)
    <2>2. block(b) = SubSeq(m, from + 1, from + size)
      BY <2>1
    <2>3. from \in Nat /\ size \in Nat /\ from + size =< Len(m)
      BY <2>1
    <2>. HIDE DEF from, block
    <2>4. block(b) \in Seq(S) /\ block(b) = Part(m, from, size)
      BY <2>2, <2>3, PartIs
    <2>. QED
      BY <2>3, <2>4 DEF from
  <1>. HIDE DEF block
  <1>4. Blocks(size, m) \in Seq(Seq(S)) /\ Len(Blocks(size, m)) = n
    BY <1>1, <1>2, <1>3
  <1>. QED
    BY <1>2, <1>3, <1>4 DEF n

(* What is left.                                                           *)
LEMMA RestIs ==
    ASSUME NEW S, NEW size \in Nat \ {0}, NEW m \in Seq(S),
           NEW k \in Nat, Len(m) = k + Remainder(Len(m), size)
    PROVE  /\ Rest(size, m) \in Seq(S)
           /\ Len(Rest(size, m)) = Remainder(Len(m), size)
           /\ Rest(size, m) = Part(m, k, Remainder(Len(m), size))
  <1>. DEFINE r == Remainder(Len(m), size)
  <1>1. r \in Nat /\ Len(m) \in Nat
    <2>1. Len(m) \in Nat
      OBVIOUS
    <2>. QED
      BY <2>1, Named
  <1>2. Rest(size, m) = SubSeq(m, (Len(m) - r) + 1, Len(m))
    BY DEF Rest, Remainder
  <1>. HIDE DEF r
  <1>3. (Len(m) - r) + 1 = k + 1 /\ Len(m) = k + r
    BY <1>1 DEF r
  <1>4. Rest(size, m) = SubSeq(m, k + 1, k + r) /\ k + r =< Len(m)
    BY <1>1, <1>2, <1>3
  <1>5. Rest(size, m) \in Seq(S) /\ Len(Rest(size, m)) = r /\ Rest(size, m) = Part(m, k, r)
    <2>1. k + r =< Len(m) /\ r \in Nat /\ k \in Nat
      BY <1>1, <1>4
    <2>2. SubSeq(m, k + 1, k + r) \in Seq(S)
      BY <2>1, PartIs, Zenon
    <2>3. Len(SubSeq(m, k + 1, k + r)) = r
      BY <2>1, PartIs, ZenonT(60)
    <2>4. SubSeq(m, k + 1, k + r) = Part(m, k, r)
      BY <2>1, PartIs, ZenonT(60)
    <2>. QED
      BY <1>4, <2>2, <2>3, <2>4
  <1>. QED
    BY <1>5 DEF r

(* After whole blocks, there are the blocks and the rest of what follows.  *)
LEMMA BlocksAfter ==
    ASSUME NEW S, NEW size \in Nat \ {0}, NEW all \in Seq(S), NEW tail \in Seq(S),
           NEW q \in Nat, Len(all) = Product(q, size) + Len(tail),
           tail = Part(all, Product(q, size), Len(tail))
    PROVE  /\ Rest(size, all) = Rest(size, tail)
           /\ Len(Blocks(size, all)) = q + Len(Blocks(size, tail))
           /\ \A b \in 1 .. Len(Blocks(size, tail)) :
                  Blocks(size, all)[q + b] = Blocks(size, tail)[b]
  <1>. DEFINE k == Product(q, size)
              z == Len(tail)
              p == Quotient(z, size)
              r == Remainder(z, size)
              j == Product(p, size)
  <1>1. /\ z \in Nat /\ k \in Nat /\ j \in Nat /\ p \in Nat /\ r \in Nat /\ z = j + r
        /\ Len(all) = k + z
    <2>1. z \in Nat
      OBVIOUS
    <2>2. p \in Nat /\ r \in Nat /\ z = j + r /\ k \in Nat
      BY <2>1, Named
    <2>3. j \in Nat
      BY <2>2, Named
    <2>. QED
      BY <2>1, <2>2, <2>3
  <1>2. Quotient(Len(all), size) = q + p /\ Remainder(Len(all), size) = r
    BY <1>1, NamedSum
  <1>3. \A i \in 1 .. z : tail[i] = all[k + i]
    <2>1. tail = Part(all, k, z)
      OBVIOUS
    <2>. HIDE DEF k, z
    <2>. QED
      BY <2>1 DEF Part
  <1>. HIDE DEF k, z, p, r, j
  <1>4. Rest(size, all) = Part(all, k + j, r)
    <2>1. k + j \in Nat /\ Len(all) = (k + j) + r
      BY <1>1
    <2>2. Len(all) = (k + j) + Remainder(Len(all), size)
      BY <1>2, <2>1
    <2>3. Rest(size, all) = Part(all, k + j, Remainder(Len(all), size))
      BY <2>1, <2>2, RestIs
    <2>. QED
      BY <1>2, <2>3
  <1>5. Rest(size, tail) = Part(tail, j, r)
    <2>1. Len(tail) = j + Remainder(Len(tail), size)
      BY <1>1 DEF z, r
    <2>. QED
      BY <1>1, <2>1, RestIs DEF z, r
  <1>6. \A i \in 1 .. r : tail[j + i] = all[(k + j) + i]
    <2>. SUFFICES ASSUME NEW i \in 1 .. r
                  PROVE  tail[j + i] = all[(k + j) + i]
      OBVIOUS
    <2>1. j + i \in 1 .. z /\ (k + j) + i = k + (j + i)
      BY <1>1
    <2>. QED
      BY <1>3, <2>1
  <1>7. Rest(size, all) = Rest(size, tail)
    BY <1>4, <1>5, <1>6 DEF Part
  <1>8. /\ Len(Blocks(size, all)) = q + p
        /\ \A b \in 1 .. q + p :
               Blocks(size, all)[b] = Part(all, Product(b - 1, size), size)
    BY <1>2, BlocksAre
  <1>9. /\ Len(Blocks(size, tail)) = p
        /\ \A b \in 1 .. p :
               /\ Product(b - 1, size) \in Nat /\ Product(b - 1, size) + size =< z
               /\ Blocks(size, tail)[b] = Part(tail, Product(b - 1, size), size)
    BY BlocksAre DEF p, z
  <1>10. ASSUME NEW b \in 1 .. p
         PROVE  Blocks(size, all)[q + b] = Blocks(size, tail)[b]
    <2>. DEFINE f == Product(b - 1, size)
    <2>1. f \in Nat /\ f + size =< z /\ Blocks(size, tail)[b] = Part(tail, f, size)
      BY <1>9
    <2>2. Blocks(size, all)[q + b] = Part(all, k + f, size)
      <3>1. q + b \in 1 .. q + p /\ b \in Nat \ {0}
        BY <1>1
      <3>2. Product((q + b) - 1, size) = k + f
        BY <3>1, NamedShift DEF k
      <3>. QED
        BY <1>8, <3>1, <3>2
    <2>. HIDE DEF f
    <2>3. \A i \in 1 .. size : all[(k + f) + i] = tail[f + i]
      <3>. SUFFICES ASSUME NEW i \in 1 .. size
                    PROVE  all[(k + f) + i] = tail[f + i]
        OBVIOUS
      <3>1. f + i \in 1 .. z /\ (k + f) + i = k + (f + i)
        BY <1>1, <2>1
      <3>. QED
        BY <1>3, <3>1
    <2>. QED
      BY <2>1, <2>2, <2>3 DEF Part
  <1>. QED
    BY <1>7, <1>8, <1>9, <1>10

(* A message that goes on goes on from what was left.                      *)
LEMMA BlocksOfMore ==
    ASSUME NEW S, NEW size \in Nat \ {0}, NEW m \in Seq(S), NEW t \in Seq(S)
    PROVE  /\ Blocks(size, m \o t) = Blocks(size, m) \o Blocks(size, Rest(size, m) \o t)
           /\ Rest(size, m \o t) = Rest(size, Rest(size, m) \o t)
  <1>. DEFINE q == Quotient(Len(m), size)
              r == Remainder(Len(m), size)
              k == Product(q, size)
              rest == Rest(size, m)
              tail == rest \o t
              all == m \o t
  <1>0. Len(m) \in Nat
    OBVIOUS
  <1>1. q \in Nat /\ r \in Nat /\ k \in Nat /\ Len(m) = k + r
    <2>1. q \in Nat /\ r \in Nat /\ Len(m) = k + r
      BY <1>0, Named
    <2>. QED
      BY <2>1, Named
  <1>2. rest \in Seq(S) /\ Len(rest) = r /\ rest = Part(m, k, r)
    BY <1>1, RestIs
  <1>3. /\ Blocks(size, m) \in Seq(Seq(S)) /\ Len(Blocks(size, m)) = q
        /\ \A b \in 1 .. q :
               /\ Product(b - 1, size) \in Nat /\ Product(b - 1, size) + size =< Len(m)
               /\ Blocks(size, m)[b] = Part(m, Product(b - 1, size), size)
    BY BlocksAre
  <1>. HIDE DEF q, r, k, rest
  <1>4. tail \in Seq(S) /\ all \in Seq(S) /\ Len(tail) = r + Len(t) /\ Len(all) = k + Len(tail)
    BY <1>1, <1>2, SMTT(30)
  <1>5. ASSUME NEW i \in 1 .. Len(tail)
        PROVE  tail[i] = all[k + i]
    <2>1. CASE i =< r
      <3>1. tail[i] = rest[i] /\ rest[i] = m[k + i]
        BY <1>1, <1>2, <1>4, <2>1 DEF Part
      <3>2. all[k + i] = m[k + i]
        BY <1>1, <2>1
      <3>. QED
        BY <3>1, <3>2
    <2>2. CASE i > r
      BY <1>1, <1>2, <1>4, <2>2, SMTT(30)
    <2>. QED
      BY <1>1, <1>4, <2>1, <2>2
  <1>6. \A i \in 1 .. Len(m) : all[i] = m[i]
    BY DEF all
  <1>. HIDE DEF tail, all
  <1>7. /\ Rest(size, all) = Rest(size, tail)
        /\ Len(Blocks(size, all)) = q + Len(Blocks(size, tail))
        /\ \A b \in 1 .. Len(Blocks(size, tail)) :
               Blocks(size, all)[q + b] = Blocks(size, tail)[b]
    <2>1. tail = Part(all, k, Len(tail))
      BY <1>4, <1>5 DEF Part
    <2>2. /\ q \in Nat /\ Len(all) = Product(q, size) + Len(tail)
          /\ tail = Part(all, Product(q, size), Len(tail))
      BY <1>1, <1>4, <2>1 DEF k
    <2>. QED
      BY <1>4, <2>2, BlocksAfter
  <1>8. /\ Blocks(size, tail) \in Seq(Seq(S)) /\ Blocks(size, all) \in Seq(Seq(S))
        /\ Len(Blocks(size, all)) = Quotient(Len(all), size)
        /\ \A b \in 1 .. Quotient(Len(all), size) :
               Blocks(size, all)[b] = Part(all, Product(b - 1, size), size)
    BY <1>4, BlocksAre
  <1>9. ASSUME NEW b \in 1 .. q
        PROVE  Blocks(size, all)[b] = Blocks(size, m)[b]
    <2>. DEFINE f == Product(b - 1, size)
    <2>1. f \in Nat /\ f + size =< Len(m) /\ Blocks(size, m)[b] = Part(m, f, size)
      BY <1>3
    <2>2. Blocks(size, all)[b] = Part(all, f, size)
      BY <1>1, <1>7, <1>8
    <2>. HIDE DEF f
    <2>3. \A i \in 1 .. size : all[f + i] = m[f + i]
      BY <1>6, <2>1
    <2>. QED
      BY <2>1, <2>2, <2>3 DEF Part
  <1>10. Blocks(size, all) = Blocks(size, m) \o Blocks(size, tail)
    <2>. DEFINE ba == Blocks(size, all)
                bm == Blocks(size, m)
                bt == Blocks(size, tail)
                T == Seq(S)
    <2>1. ba \in Seq(T) /\ bm \in Seq(T) /\ bt \in Seq(T) /\ Len(bm) = q
      BY <1>3, <1>8
    <2>2. /\ Len(ba) = Len(bm) + Len(bt)
          /\ \A i \in 1 .. Len(bm) : ba[i] = bm[i]
          /\ \A i \in 1 .. Len(bt) : ba[Len(bm) + i] = bt[i]
      BY <1>7, <1>9, <2>1
    <2>. HIDE DEF ba, bm, bt, T
    <2>3. ba = bm \o bt
      BY <2>1, <2>2, JoinedIs, Zenon
    <2>. QED
      BY <2>3 DEF ba, bm, bt
  <1>. QED
    BY <1>7, <1>10 DEF all, tail, rest

(* Blocks and rest in a row are the message.                               *)
InARow(size, blocks, rest) ==
    [i \in 1 .. Product(Len(blocks), size) + Len(rest) |->
        IF i > Product(Len(blocks), size)
        THEN rest[i - Product(Len(blocks), size)]
        ELSE blocks[Quotient(i - 1, size) + 1][Remainder(i - 1, size) + 1]]

(* Cutting a message into blocks and a rest loses nothing.                 *)
LEMMA BlocksInARow ==
    ASSUME NEW S, NEW size \in Nat \ {0}, NEW m \in Seq(S)
    PROVE  InARow(size, Blocks(size, m), Rest(size, m)) = m
  <1>. DEFINE q == Quotient(Len(m), size)
              r == Remainder(Len(m), size)
              k == Product(q, size)
              blocks == Blocks(size, m)
              rest == Rest(size, m)
  <1>0. Len(m) \in Nat
    OBVIOUS
  <1>1. q \in Nat /\ r \in Nat /\ k \in Nat /\ Len(m) = k + r
    <2>1. q \in Nat /\ r \in Nat /\ Len(m) = k + r
      BY <1>0, Named
    <2>. QED
      BY <2>1, Named
  <1>2. Len(rest) = r /\ rest = Part(m, k, r)
    BY <1>1, RestIs
  <1>3. /\ Len(blocks) = q
        /\ \A b \in 1 .. q : blocks[b] = Part(m, Product(b - 1, size), size)
    BY BlocksAre
  <1>. HIDE DEF q, r, k, rest, blocks
  <1>4. ASSUME NEW i \in 1 .. k
        PROVE  blocks[Quotient(i - 1, size) + 1][Remainder(i - 1, size) + 1] = m[i]
    <2>. DEFINE b == Quotient(i - 1, size)
                j == Remainder(i - 1, size)
                f == Product(b, size)
    <2>1. i - 1 \in Nat
      BY <1>1
    <2>2. b \in Nat /\ j \in Nat /\ j < size /\ i - 1 = f + j
      BY <2>1, Named
    <2>3. f \in Nat
      BY <2>2, Named
    <2>4. b < q
      <3>1. CASE q =< b
        <4>1. Product(q, size) =< Product(b, size)
          BY <1>1, <2>2, <3>1 DEF Product
        <4>. QED
          BY <1>1, <2>1, <2>2, <2>3, <4>1 DEF k
      <3>. QED
        BY <1>1, <2>2, <3>1
    <2>5. blocks[b + 1] = Part(m, f, size)
      <3>1. b + 1 \in 1 .. q /\ (b + 1) - 1 = b
        BY <1>1, <2>2, <2>4
      <3>. QED
        BY <1>3, <3>1
    <2>. HIDE DEF b, j, f
    <2>6. blocks[b + 1][j + 1] = m[f + (j + 1)]
      BY <2>2, <2>5 DEF Part
    <2>7. f + (j + 1) = i
      BY <2>1, <2>2, <2>3
    <2>. QED
      BY <2>6, <2>7 DEF b, j
  <1>5. ASSUME NEW i \in 1 .. k + r, i > k
        PROVE  rest[i - k] = m[i]
    BY <1>1, <1>2, <1>5 DEF Part
  <1>6. Product(Len(blocks), size) = k
    BY <1>3 DEF k
  <1>7. InARow(size, blocks, rest) = [i \in 1 .. k + r |-> m[i]]
    <2>1. \A i \in 1 .. k + r : ~ i > k => i \in 1 .. k
      BY <1>1
    <2>. QED
      BY <1>2, <1>4, <1>5, <1>6, <2>1 DEF InARow
  <1>8. m = [i \in 1 .. k + r |-> m[i]]
    BY <1>1
  <1>. QED
    BY <1>7, <1>8 DEF blocks, rest

-----------------------------------------------------------------------------
(* Lengths                                                                 *)

(* The k-th digit of n in base WordSize, the lowest first.                 *)
Above(n, k) == Quotient(n, PowersOf(WordSize)[k])
Digit(n, k) == Remainder(Above(n, k), WordSize)

(* Digits are less than the base; above the first is the number itself.    *)
LEMMA DigitsAre ==
    ASSUME NEW n \in Nat, NEW k \in Nat
    PROVE  /\ PowersOf(WordSize)[k] \in Nat \ {0}
           /\ Above(n, k) \in Nat /\ Digit(n, k) \in 0 .. WordSize - 1
           /\ Above(n, 0) = n /\ Above(n, k + 1) = Quotient(Above(n, k), WordSize)
  <1>1. WordSize \in Nat \ {0}
    BY DigestAssumption
  <1>2. /\ PowersOf(WordSize)[k] \in Nat \ {0} /\ PowersOf(WordSize)[0] = 1
        /\ PowersOf(WordSize)[k + 1] = WordSize * PowersOf(WordSize)[k]
    BY <1>1, PowersPositive, PowersType
  <1>3. Above(n, k) \in Nat
    BY <1>2, Named DEF Above
  <1>4. Digit(n, k) \in Nat /\ Digit(n, k) < WordSize
    BY <1>1, <1>3, Named DEF Digit
  <1>5. Above(n, 0) = n
    <2>1. Above(n, 0) = Quotient(n, 1)
      BY <1>2 DEF Above
    <2>. QED
      BY <2>1 DEF Quotient
  <1>6. Above(n, k + 1) = Quotient(Above(n, k), WordSize)
    <2>. DEFINE power == PowersOf(WordSize)[k]
    <2>1. Above(n, k + 1) = n \div (WordSize * power)
      BY <1>2 DEF Above, Quotient
    <2>2. power \in Nat \ {0}
      BY <1>2
    <2>3. Above(n, k) = n \div power
      BY DEF Above, Quotient
    <2>. HIDE DEF power
    <2>4. n \div (WordSize * power) = (n \div power) \div WordSize
      BY <1>1, <2>2, QuotientOfQuotient, Zenon
    <2>. QED
      BY <2>1, <2>3, <2>4 DEF Quotient
  <1>. QED
    BY <1>1, <1>2, <1>3, <1>4, <1>5, <1>6

(* What goes from the digits below to the k-th one, when n is added.       *)
Carry(from, n, k) == Above(from + n, k) - Above(from, k)

(* Adding goes digit by digit: of the digit and of the carry from below.   *)
LEMMA CarryIs ==
    ASSUME NEW from \in Nat, NEW n \in Nat, NEW k \in Nat
    PROVE  /\ Carry(from, n, 0) = n
           /\ Carry(from, n, k) \in Nat
           /\ Carry(from, n, k + 1) = Quotient(Digit(from, k) + Carry(from, n, k), WordSize)
           /\ Digit(from + n, k) = Remainder(Digit(from, k) + Carry(from, n, k), WordSize)
  <1>. DEFINE sum == from + n
              x == Above(from, k)
              y == Above(sum, k)
              c == y - x
              power == PowersOf(WordSize)[k]
  <1>1. WordSize \in Nat \ {0} /\ sum \in Nat /\ power \in Nat \ {0}
    BY DigestAssumption, DigitsAre
  <1>2. /\ x \in Nat /\ Above(from, 0) = from /\ Above(from, k + 1) = Quotient(x, WordSize)
        /\ y \in Nat /\ Above(sum, 0) = sum /\ Above(sum, k + 1) = Quotient(y, WordSize)
    BY <1>1, DigitsAre
  <1>3. c \in Nat
    <2>1. (from + n) \div power = (from \div power) + (((from % power) + n) \div power)
      BY <1>1, CarryOut, ZenonT(60)
    <2>2. from % power \in Nat
      BY <1>1
    <2>3. ((from % power) + n) \div power \in Nat
      BY <1>1, <2>2
    <2>. DEFINE more == ((from % power) + n) \div power
    <2>4. y = x + more
      BY <2>1 DEF Above, Quotient
    <2>. HIDE DEF x, y, more
    <2>. QED
      BY <1>2, <2>3, <2>4 DEF more
  <1>4. y = x + c
    <2>. HIDE DEF x, y
    <2>. QED
      BY <1>2
  <1>5. Carry(from, n, k) = c /\ Carry(from, n, k + 1) = Above(sum, k + 1) - Above(from, k + 1)
    BY DEF Carry
  <1>6. Carry(from, n, 0) = n
    <2>1. Carry(from, n, 0) = sum - from
      BY <1>2 DEF Carry
    <2>. QED
      BY <2>1
  <1>7. Digit(from, k) = Remainder(x, WordSize) /\ Digit(sum, k) = Remainder(y, WordSize)
    BY DEF Digit
  <1>. HIDE DEF x, y, c, sum
  <1>8. /\ Remainder(x + c, WordSize) = Remainder(Remainder(x, WordSize) + c, WordSize)
        /\ Quotient(x + c, WordSize)
               = Quotient(x, WordSize) + Quotient(Remainder(x, WordSize) + c, WordSize)
    <2>1. x \in Nat /\ c \in Nat /\ WordSize \in Nat \ {0}
      BY <1>1, <1>2, <1>3
    <2>2. Remainder(x + c, WordSize) = Remainder(Remainder(x, WordSize) + c, WordSize)
      BY <2>1, NamedCarry, Zenon
    <2>3. Quotient(x + c, WordSize)
              = Quotient(x, WordSize) + Quotient(Remainder(x, WordSize) + c, WordSize)
      BY <2>1, NamedCarry, ZenonT(60)
    <2>. QED
      BY <2>2, <2>3
  <1>9. Quotient(x, WordSize) \in Nat /\ Remainder(x, WordSize) \in Nat
    BY <1>1, <1>2, Named
  <1>10. Quotient(Remainder(x, WordSize) + c, WordSize) \in Nat
    <2>1. Remainder(x, WordSize) + c \in Nat
      BY <1>3, <1>9
    <2>. QED
      BY <1>1, <2>1, Named
  <1>11. Carry(from, n, k + 1) = Quotient(Remainder(x, WordSize) + c, WordSize)
    BY <1>2, <1>4, <1>5, <1>8, <1>9, <1>10
  <1>. QED
    BY <1>3, <1>4, <1>5, <1>6, <1>7, <1>8, <1>11 DEF sum

(* The words that hold a length.                                           *)
WordsOf(n) == [w \in Words |-> Digit(n, algorithm.words - w)]

(* The object adds to its length as numbers are added.                     *)
LEMMA LengthAfterIs ==
    ASSUME NEW from \in Nat, NEW n \in Nat, algorithm.words \in {2, 4},
           fullMessageLength = WordsOf(from)
    PROVE  LengthAfter(n) = WordsOf(from + n)
  <1>. DEFINE last == algorithm.words
              Is(f) == f = [w \in Words |->
                                IF w = algorithm.words THEN n
                                ELSE (fullMessageLength[w + 1] + f[w + 1]) \div WordSize]
              carries == [w \in Words |-> Carry(from, n, last - w)]
  <1>0. last - last = 0 /\ last \in Words /\ Carry(from, n, 0) = n
    <2>1. 0 \in Nat
      OBVIOUS
    <2>2. Carry(from, n, 0) = n
      BY <2>1, CarryIs
    <2>. QED
      BY <2>2 DEF Words
  <1>1. \A w \in Words : fullMessageLength[w] = Digit(from, last - w)
    BY DEF WordsOf
  <1>2. ASSUME NEW w \in Words, w # last
        PROVE  /\ w + 1 \in Words /\ last - w = (last - (w + 1)) + 1
               /\ last - (w + 1) \in Nat /\ last - w \in Nat
    BY <1>2 DEF Words
  <1>3. ASSUME NEW w \in Words, w # last
        PROVE  (fullMessageLength[w + 1] + Carry(from, n, last - (w + 1))) \div WordSize
                   = Carry(from, n, last - w)
    <2>. DEFINE k == last - (w + 1)
    <2>1. k \in Nat /\ last - w = k + 1 /\ fullMessageLength[w + 1] = Digit(from, k)
      BY <1>1, <1>2, <1>3
    <2>. HIDE DEF k
    <2>2. Carry(from, n, k + 1) = Quotient(Digit(from, k) + Carry(from, n, k), WordSize)
      BY <2>1, CarryIs
    <2>. QED
      BY <2>1, <2>2 DEF Quotient, k
  <1>4. Is(carries)
    <2>1. \A w \in Words : carries[w] = IF w = last THEN n
                                        ELSE (fullMessageLength[w + 1] + carries[w + 1]) \div WordSize
      <3>. SUFFICES ASSUME NEW w \in Words
                    PROVE  carries[w] = IF w = last THEN n
                                        ELSE (fullMessageLength[w + 1] + carries[w + 1]) \div WordSize
        OBVIOUS
      <3>1. CASE w = last
        BY <1>0, <3>1
      <3>2. CASE w # last
        BY <1>2, <1>3, <3>2
      <3>. QED
        BY <3>1, <3>2
    <2>. QED
      BY <2>1
  <1>5. ASSUME NEW f, Is(f)
        PROVE  f = carries
    <2>1. f = [w \in Words |-> f[w]]
      BY <1>5
    <2>2. ASSUME NEW w \in Words, w # last, f[w + 1] = Carry(from, n, last - (w + 1))
          PROVE  f[w] = Carry(from, n, last - w)
      BY <1>3, <1>5, <2>2
    <2>3. last \in Words /\ f[last] = Carry(from, n, last - last)
      BY <1>0, <1>5
    <2>4. \A w \in Words : f[w] = Carry(from, n, last - w)
      <3>1. CASE last = 2
        <4>1. f[1] = Carry(from, n, last - 1)
          BY <2>2, <2>3, <3>1 DEF Words
        <4>. QED
          BY <2>3, <3>1, <4>1 DEF Words
      <3>2. CASE last = 4
        <4>1. f[3] = Carry(from, n, last - 3)
          BY <2>2, <2>3, <3>2 DEF Words
        <4>2. f[2] = Carry(from, n, last - 2)
          BY <2>2, <3>2, <4>1 DEF Words
        <4>3. f[1] = Carry(from, n, last - 1)
          BY <2>2, <3>2, <4>2 DEF Words
        <4>. QED
          BY <2>3, <3>2, <4>1, <4>2, <4>3 DEF Words
      <3>. QED
        BY <3>1, <3>2
    <2>. QED
      BY <2>1, <2>4
  <1>. DEFINE into == CHOOSE f : Is(f)
  <1>6. into = carries
    <2>1. \E f : Is(f)
      BY <1>4
    <2>2. Is(into)
      <3>. HIDE DEF Is
      <3>. QED
        BY <2>1
    <2>. HIDE DEF into
    <2>. QED
      BY <1>5, <2>2
  <1>7. LengthAfter(n) = [w \in Words |-> (fullMessageLength[w] + into[w]) % WordSize]
    BY DEF LengthAfter
  <1>. HIDE DEF into
  <1>8. ASSUME NEW w \in Words
        PROVE  (fullMessageLength[w] + into[w]) % WordSize = Digit(from + n, last - w)
    <2>. DEFINE k == last - w
    <2>1. k \in Nat /\ fullMessageLength[w] = Digit(from, k) /\ into[w] = Carry(from, n, k)
      BY <1>1, <1>6 DEF Words
    <2>. HIDE DEF k
    <2>2. Digit(from + n, k) = Remainder(Digit(from, k) + Carry(from, n, k), WordSize)
      BY <2>1, CarryIs, ZenonT(60)
    <2>. QED
      BY <2>1, <2>2 DEF Remainder, k
  <1>. QED
    BY <1>7, <1>8 DEF WordsOf

(* The digits of a length in bits from those of the length in bytes.       *)
LEMMA BitDigits ==
    ASSUME NEW n \in Nat, NEW k \in Nat
    PROVE  /\ n * ByteBits \in Nat
           /\ Digit(n * ByteBits, 0) = (Digit(n, 0) * ByteBits) % WordSize
           /\ Digit(n * ByteBits, k + 1)
                  = ((Digit(n, k + 1) * ByteBits) + ((Digit(n, k) * ByteBits) \div WordSize)) % WordSize
  <1>. DEFINE power == PowersOf(WordSize)[k]
              w == WordSize
              b == ByteBits
  <1>1. w \in Nat \ {0} /\ b \in Nat \ {0} /\ w % b = 0 /\ power \in Nat \ {0} /\ 0 \in Nat
    BY DigestAssumption, DigitsAre
  <1>2. n * b \in Nat
    BY <1>1
  <1>3. Digit(n * b, 0) = (Digit(n, 0) * b) % w
    <2>1. Above(n * b, 0) = n * b /\ Above(n, 0) = n
      BY <1>1, <1>2, DigitsAre
    <2>2. (n * b) % w = ((n % w) * b) % w
      <3>. DEFINE q == n \div w
                  r == n % w
      <3>1. q \in Nat /\ r \in Nat /\ n = (q * w) + r
        BY <1>1, QuotientOf
      <3>. HIDE DEF q, r, w, b
      <3>2. n * b = ((q * b) * w) + (r * b) /\ q * b \in Nat /\ r * b \in Nat
        BY <1>1, <3>1
      <3>3. (((q * b) * w) + (r * b)) % w = (r * b) % w
        BY <1>1, <3>2, WholesOut, Zenon
      <3>. QED
        BY <3>2, <3>3 DEF r
    <2>. QED
      BY <2>1, <2>2 DEF Digit, Remainder
  <1>4. PowersOf(WordSize)[k + 1] = w * power
    BY <1>1, PowersType
  <1>5. /\ Digit(n * b, k + 1) = Remainder(Quotient(Product(n, b), Product(w, power)), w)
        /\ Digit(n, k + 1) = Remainder(Quotient(n, Product(w, power)), w)
        /\ Digit(n, k) = Remainder(Quotient(n, power), w)
    BY <1>4 DEF Digit, Above, Product
  <1>6. Remainder(Quotient(Product(n, b), Product(w, power)), w)
            = Remainder(Product(Remainder(Quotient(n, Product(w, power)), w), b)
                         + Quotient(Product(Remainder(Quotient(n, power), w), b), w), w)
    <2>1. w \in Nat \ {0} /\ b \in Nat \ {0} /\ Remainder(w, b) = 0 /\ power \in Nat \ {0}
      BY <1>1 DEF Remainder
    <2>. HIDE DEF w, b, power
    <2>. QED
      BY <2>1, NamedDigit
  <1>7. Digit(n * b, k + 1)
            = Remainder(Product(Digit(n, k + 1), b) + Quotient(Product(Digit(n, k), b), w), w)
    BY <1>5, <1>6
  <1>. QED
    BY <1>2, <1>3, <1>7 DEF Product, Quotient, Remainder

(* The length is written as the standard says.                             *)
LEMMA LengthIsStandard ==
    ASSUME NEW n \in Nat, algorithm.words \in {2, 4},
           algorithm.littleEndian \in BOOLEAN, algorithm.littleEndian => algorithm.words = 2,
           fullMessageLength = WordsOf(n)
    PROVE  LengthField = StandardLength(algorithm, n)
  <1>. DEFINE last == algorithm.words
              bits == n * ByteBits
  <1>1. StandardLength(algorithm, n)
            = [w \in Words |->
                <<"length", Digit(bits, IF algorithm.littleEndian THEN w - 1 ELSE last - w)>>]
    BY DEF StandardLength, Digit, Above, Quotient, Remainder, Words
  <1>2. \A w \in Words : fullMessageLength[w] = Digit(n, last - w)
    BY DEF WordsOf
  <1>3. CASE ~ algorithm.littleEndian
    <2>1. ASSUME NEW w \in Words
          PROVE  LengthBigEndian[w] = Digit(bits, last - w)
      <3>1. LengthBigEndian[w] =
              (fullMessageLength[w] * ByteBits
                + IF w = last THEN 0 ELSE (fullMessageLength[w + 1] * ByteBits) \div WordSize) % WordSize
        BY DEF LengthBigEndian
      <3>2. CASE w = last
        <4>1. LengthBigEndian[w] = ((Digit(n, 0) * ByteBits) + 0) % WordSize
          BY <1>2, <3>1, <3>2 DEF Words
        <4>2. 0 \in Nat /\ Digit(n, 0) \in Nat /\ ByteBits \in Nat
          BY DigitsAre, DigestAssumption
        <4>3. (Digit(n, 0) * ByteBits) + 0 = Digit(n, 0) * ByteBits
          BY <4>2
        <4>4. Digit(bits, 0) = (Digit(n, 0) * ByteBits) % WordSize
          BY <4>2, BitDigits
        <4>5. last - w = 0
          BY <3>2
        <4>. QED
          BY <4>1, <4>3, <4>4, <4>5
      <3>3. CASE w # last
        <4>. DEFINE k == last - (w + 1)
        <4>1. k \in Nat /\ last - w = k + 1 /\ w + 1 \in Words
          BY <3>3 DEF Words
        <4>2. fullMessageLength[w] = Digit(n, k + 1) /\ fullMessageLength[w + 1] = Digit(n, k)
          BY <1>2, <4>1
        <4>. HIDE DEF k
        <4>3. LengthBigEndian[w]
                = ((Digit(n, k + 1) * ByteBits) + ((Digit(n, k) * ByteBits) \div WordSize)) % WordSize
          BY <3>1, <3>3, <4>2
        <4>4. LengthBigEndian[w] = Digit(bits, k + 1)
          BY <4>1, <4>3, BitDigits
        <4>. QED
          BY <4>1, <4>4
      <3>. QED
        BY <3>2, <3>3
    <2>. QED
      BY <1>1, <1>3, <2>1 DEF LengthField
  <1>4. CASE algorithm.littleEndian
    <2>1. last = 2 /\ Words = 1 .. 2
      BY <1>4 DEF Words
    <2>. DEFINE low == fullMessageLength[2] * ByteBits
                high == fullMessageLength[1] * ByteBits
                Is(f) == f = [w \in Words |->
                                fullMessageLength[w] * ByteBits
                                  + IF w = algorithm.words THEN 0 ELSE f[w + 1] \div WordSize]
                sums == CHOOSE f : Is(f)
                g == [w \in Words |-> IF w = 2 THEN low + 0 ELSE high + (low \div WordSize)]
    <2>2. low \in Nat /\ Digit(n, 0) \in Nat /\ fullMessageLength[2] = Digit(n, 0)
          /\ fullMessageLength[1] = Digit(n, 1)
      <3>1. 0 \in Nat /\ Digit(n, 0) \in Nat /\ ByteBits \in Nat
        BY DigitsAre, DigestAssumption
      <3>2. fullMessageLength[2] = Digit(n, 0) /\ fullMessageLength[1] = Digit(n, 1)
        BY <1>2, <2>1
      <3>. QED
        BY <3>1, <3>2
    <2>3. low + 0 = low
      <3>. HIDE DEF low
      <3>. QED
        BY <2>2
    <2>4. Is(g)
      BY <2>1, <2>3
    <2>5. Is(sums)
      <3>1. \E f : Is(f)
        BY <2>4
      <3>. HIDE DEF Is
      <3>. QED
        BY <3>1
    <2>6. LengthLittleEndian = [w \in Words |-> sums[algorithm.words + 1 - w] % WordSize]
      BY DEF LengthLittleEndian
    <2>7. sums[2] = low /\ sums[1] = high + (low \div WordSize)
      <3>. HIDE DEF sums
      <3>1. sums[2] = low + 0 /\ sums[1] = high + (sums[2] \div WordSize)
        BY <2>1, <2>5
      <3>. QED
        BY <2>3, <3>1
    <2>8. LengthLittleEndian[1] = low % WordSize
          /\ LengthLittleEndian[2] = (high + (low \div WordSize)) % WordSize
      <3>. HIDE DEF sums, low, high
      <3>. QED
        BY <2>1, <2>6, <2>7
    <2>9. LengthLittleEndian[1] = Digit(bits, 0) /\ LengthLittleEndian[2] = Digit(bits, 1)
      <3>1. 0 \in Nat /\ 0 + 1 = 1
        OBVIOUS
      <3>2. Digit(bits, 0) = (Digit(n, 0) * ByteBits) % WordSize
        BY <3>1, BitDigits
      <3>3. Digit(bits, 0 + 1)
                = ((Digit(n, 0 + 1) * ByteBits) + ((Digit(n, 0) * ByteBits) \div WordSize)) % WordSize
        BY <3>1, BitDigits, Zenon
      <3>. QED
        BY <2>2, <2>8, <3>1, <3>2, <3>3
    <2>. QED
      BY <1>1, <1>4, <2>1, <2>9 DEF LengthField
  <1>. QED
    BY <1>3, <1>4

-----------------------------------------------------------------------------
(* Padding                                                                 *)

(* The sizes of the four algorithms.                                       *)
LEMMA AlgorithmIs ==
    ASSUME NEW a \in Algorithms
    PROVE  /\ a.block \in Nat \ {0} /\ WordSize % a.block = 0
           /\ a.words \in {2, 4}
           /\ a.littleEndian \in BOOLEAN /\ (a.littleEndian => a.words = 2)
  <1>1. a \in {Md5, Sha1, Sha256, Sha512}
    BY DigestAssumption
  <1>2. a.words \in {2, 4} /\ a.littleEndian \in BOOLEAN /\ (a.littleEndian => a.words = 2)
    <2>1. a = Md5 => a.words = 2 /\ a.littleEndian = TRUE
      BY DEF Md5
    <2>2. a \in {Sha1, Sha256} => a.words = 2 /\ a.littleEndian = FALSE
      BY DEF Sha1, Sha256
    <2>3. a = Sha512 => a.words = 4 /\ a.littleEndian = FALSE
      BY DEF Sha512
    <2>. QED
      BY <1>1, <2>1, <2>2, <2>3
  <1>3. a.block = ShortBlock \/ a.block = LongBlock
    BY <1>1 DEF Md5, Sha1, Sha256, Sha512
  <1>. QED
    BY <1>2, <1>3, DigestAssumption

(* One padding alone brings a length to whole blocks.                      *)
LEMMA ShortestIs ==
    ASSUME NEW l \in Nat, NEW size \in Nat \ {0}
    PROVE  (CHOOSE k \in 1 .. size : (l + k) % size = 0) = size - (l % size)
  <1>. DEFINE x == l % size
              h == l \div size
              best == size - x
  <1>1. x \in Nat /\ x < size /\ h \in Nat /\ l = (h * size) + x
    BY QuotientOf
  <1>. HIDE DEF x, h
  <1>2. best \in 1 .. size /\ (l + best) % size = 0
    <2>1. l + best = ((h + 1) * size) + 0 /\ h + 1 \in Nat /\ 0 \in Nat /\ 0 < size
      BY <1>1
    <2>2. (((h + 1) * size) + 0) % size = 0
      BY <2>1, QuotientIs
    <2>. QED
      BY <1>1, <2>1, <2>2
  <1>3. ASSUME NEW k \in 1 .. size, (l + k) % size = 0
        PROVE  k = best
    <2>. DEFINE z == x + k
                c == z \div size
    <2>1. l + k = (h * size) + z /\ z \in Nat /\ z > 0 /\ z < size + size
      BY <1>1
    <2>2. ((h * size) + z) % size = z % size
      BY <1>1, <2>1, WholesOut
    <2>3. c \in Nat /\ z = (c * size) + (z % size)
      BY <2>1, QuotientOf
    <2>4. z = c * size
      <3>1. z % size = 0
        BY <1>3, <2>1, <2>2
      <3>. HIDE DEF z, c
      <3>2. z = (c * size) + 0 /\ c * size \in Nat
        BY <2>3, <3>1
      <3>. QED
        BY <3>2
    <2>. HIDE DEF c
    <2>5. z = size
      <3>. HIDE DEF z
      <3>1. c # 0
        BY <2>1, <2>3, <2>4
      <3>2. ~ c >= 2
        <4>1. CASE c >= 2
          <5>1. c * size >= 2 * size
            BY <2>3, <4>1
          <5>. QED
            BY <2>1, <2>4, <5>1
        <4>. QED
          BY <4>1
      <3>3. c = 1
        BY <2>3, <3>1, <3>2
      <3>. QED
        BY <2>4, <3>3
    <2>. QED
      BY <1>1, <2>5
  <1>. HIDE DEF best
  <1>4. (CHOOSE k \in 1 .. size : (l + k) % size = 0) = best
    BY <1>2, <1>3
  <1>. QED
    BY <1>4 DEF best, x

(* The object pads as the standard says, from its lowest word alone.       *)
LEMMA PaddingIsShortest ==
    ASSUME NEW n \in Nat, algorithm \in Algorithms, fullMessageLength = WordsOf(n)
    PROVE  /\ PaddingLength \in Nat
           /\ PaddingLength = CHOOSE k \in 1 .. algorithm.block :
                                  (n + k + algorithm.words) % algorithm.block = 0
  <1>. DEFINE size == algorithm.block
              words == algorithm.words
              q == n \div WordSize
              r == n % WordSize
              t == WordSize \div size
  <1>1. /\ size \in Nat \ {0} /\ WordSize % size = 0 /\ words \in Nat /\ words \in 1 .. words
        /\ WordSize \in Nat \ {0}
    BY AlgorithmIs, DigestAssumption
  <1>2. q \in Nat /\ r \in Nat /\ n = (q * WordSize) + r
    BY <1>1, QuotientOf
  <1>3. t \in Nat /\ WordSize = t * size
    <2>. DEFINE w == WordSize
    <2>1. t \in Nat /\ w = (t * size) + (w % size) /\ w % size = 0
      BY <1>1, QuotientOf
    <2>. HIDE DEF t, w, size
    <2>2. w = (t * size) + 0 /\ t * size \in Nat
      BY <1>1, <2>1
    <2>. QED
      BY <2>1, <2>2 DEF w
  <1>4. fullMessageLength[words] = r
    <2>1. 0 \in Nat /\ words - words = 0
      BY <1>1
    <2>2. fullMessageLength[words] = Digit(n, 0)
      BY <1>1, <2>1 DEF WordsOf, Words
    <2>3. Above(n, 0) = n
      BY <2>1, DigitsAre
    <2>. QED
      BY <2>2, <2>3 DEF Digit, Remainder
  <1>5. PaddingLength = size - ((r + words) % size)
    BY <1>4 DEF PaddingLength
  <1>. HIDE DEF size, words, q, r, t
  <1>6. (n + words) % size = (r + words) % size
    <2>1. n + words = ((q * t) * size) + (r + words) /\ q * t \in Nat /\ r + words \in Nat
      BY <1>1, <1>2, <1>3
    <2>2. (((q * t) * size) + (r + words)) % size = (r + words) % size
      BY <1>1, <2>1, WholesOut, Zenon
    <2>. QED
      BY <2>1, <2>2
  <1>7. n + words \in Nat /\ \A k \in 1 .. size : n + k + words = (n + words) + k
    BY <1>1
  <1>8. (CHOOSE k \in 1 .. size : ((n + words) + k) % size = 0) = size - ((n + words) % size)
    BY <1>1, <1>7, ShortestIs
  <1>9. (CHOOSE k \in 1 .. size : (n + k + words) % size = 0)
            = CHOOSE k \in 1 .. size : ((n + words) + k) % size = 0
    BY <1>7
  <1>10. PaddingLength \in Nat
    <2>1. r + words \in Nat
      BY <1>1, <1>2
    <2>2. (r + words) % size \in Nat /\ (r + words) % size < size
      BY <1>1, <2>1, QuotientOf
    <2>. DEFINE x == (r + words) % size
    <2>3. x \in Nat /\ x < size /\ PaddingLength = size - x
      BY <1>5, <2>2
    <2>. HIDE DEF x
    <2>. QED
      BY <1>1, <2>3
  <1>. QED
    BY <1>5, <1>6, <1>8, <1>9, <1>10 DEF size, words

-----------------------------------------------------------------------------
(* The object                                                              *)

(* What messages and padding are made of.                                  *)
AnyByte == {<<"byte", i>> : i \in Nat} \cup {<<"length", i>> : i \in Nat}
                \cup {<<"0x80">>, <<"0x00">>}

(* The inductive invariant: what is kept is what was given, cut into       *)
(* blocks.                                                                 *)
DigestInv ==
    /\ algorithm \in Algorithms
    /\ message \in Seq(AnyByte)
    /\ fullMessageLength = WordsOf(Len(message))
    /\ chain = Blocks(algorithm.block, message)
    /\ input = Rest(algorithm.block, message)

(* An object that was started holds the empty message.                     *)
LEMMA StartDigestInv ==
    ASSUME algorithm \in Algorithms, fullMessageLength = [w \in Words |-> 0],
           input = <<>>, chain = <<>>, message = <<>>
    PROVE  DigestInv
  <1>. DEFINE size == algorithm.block
              none == <<>>
  <1>1. size \in Nat \ {0} /\ algorithm.words \in {2, 4}
    BY AlgorithmIs
  <1>2. none \in Seq(AnyByte) /\ Len(none) = 0
    OBVIOUS
  <1>3. 0 \div size = 0 /\ 0 % size = 0
    BY <1>1
  <1>4. Blocks(size, none) = <<>>
    <2>. HIDE DEF size, none
    <2>. QED
      BY <1>2, <1>3 DEF Blocks
  <1>5. Rest(size, none) = <<>>
    <2>. HIDE DEF size
    <2>. QED
      BY <1>3 DEF Rest
  <1>6. \A k \in Nat : Digit(0, k) = 0
    <2>. SUFFICES ASSUME NEW k \in Nat
                  PROVE  Digit(0, k) = 0
      OBVIOUS
    <2>1. PowersOf(WordSize)[k] \in Nat \ {0} /\ WordSize \in Nat \ {0}
      BY DigitsAre, DigestAssumption
    <2>2. \A d \in Nat \ {0} : 0 \div d = 0 /\ 0 % d = 0
      OBVIOUS
    <2>. QED
      BY <2>1, <2>2 DEF Digit, Above, Quotient, Remainder
  <1>7. fullMessageLength = WordsOf(0)
    <2>1. \A w \in Words : algorithm.words - w \in Nat
      BY <1>1 DEF Words
    <2>. QED
      BY <1>6, <2>1 DEF WordsOf
  <1>. QED
    BY <1>2, <1>4, <1>5, <1>7 DEF DigestInv

(* A piece of a message has the bytes it is asked for.                     *)
LEMMA PieceIs ==
    ASSUME NEW from \in Nat, NEW n \in PieceSizes
    PROVE  n \in Nat /\ Piece(from, n) \in Seq(AnyByte) /\ Len(Piece(from, n)) = n
  <1>1. n \in Nat
    BY DigestAssumption
  <1>2. \A i \in 1 .. n : <<"byte", from + i>> \in AnyByte
    BY <1>1 DEF AnyByte
  <1>. QED
    BY <1>1, <1>2 DEF Piece

(* update keeps the invariant.                                             *)
LEMMA UpdateStep ==
    ASSUME DigestInv, NEW n \in PieceSizes, Update(n)
    PROVE  DigestInv'
  <1>. DEFINE size == algorithm.block
              piece == Piece(Len(message), n)
  <1>1. /\ algorithm' = algorithm /\ algorithm \in Algorithms /\ message' = message \o piece
        /\ message \in Seq(AnyByte) /\ Len(message) \in Nat
        /\ fullMessageLength' = LengthAfter(n) /\ fullMessageLength = WordsOf(Len(message))
        /\ chain' = chain \o Blocks(size, input \o piece) /\ input' = Rest(size, input \o piece)
        /\ chain = Blocks(size, message) /\ input = Rest(size, message)
    BY DEF Update, DigestInv
  <1>2. size \in Nat \ {0} /\ algorithm.words \in {2, 4}
    BY <1>1, AlgorithmIs
  <1>3. n \in Nat /\ piece \in Seq(AnyByte) /\ Len(piece) = n
    BY <1>1, PieceIs
  <1>. HIDE DEF size, piece
  <1>4. message' \in Seq(AnyByte) /\ Len(message') = Len(message) + n
    <2>1. message \in Seq(AnyByte) /\ piece \in Seq(AnyByte) /\ Len(piece) = n
      BY <1>1, <1>3
    <2>2. message \o piece \in Seq(AnyByte) /\ Len(message \o piece) = Len(message) + n
      BY <2>1
    <2>. QED
      BY <1>1, <2>2
  <1>5. fullMessageLength' = WordsOf(Len(message) + n)
    BY <1>1, <1>2, <1>3, LengthAfterIs
  <1>6. /\ Blocks(size, message \o piece) = Blocks(size, message) \o Blocks(size, Rest(size, message) \o piece)
        /\ Rest(size, message \o piece) = Rest(size, Rest(size, message) \o piece)
    <2>1. message \in Seq(AnyByte) /\ piece \in Seq(AnyByte) /\ size \in Nat \ {0}
      BY <1>1, <1>2, <1>3
    <2>. QED
      BY <2>1, BlocksOfMore, SMTT(30)
  <1>7. (fullMessageLength = WordsOf(Len(message)))'
    BY <1>1, <1>4, <1>5 DEF WordsOf, Words
  <1>8. chain' = Blocks(size, message') /\ input' = Rest(size, message')
    BY <1>1, <1>6
  <1>. QED
    BY <1>1, <1>4, <1>7, <1>8 DEF DigestInv, size

(* Every call keeps the invariant.                                         *)
THEOREM DigestInvariant == DigestSpec => []DigestInv
  <1>1. DigestInit => DigestInv
    BY StartDigestInv DEF DigestInit, DigestStart
  <1>2. DigestInv /\ [DigestNext]_digestVars => DigestInv'
    <2>. SUFFICES ASSUME DigestInv, [DigestNext]_digestVars
                  PROVE  DigestInv'
      OBVIOUS
    <2>1. CASE Start
      <3>1. /\ (algorithm \in Algorithms)' /\ (fullMessageLength = [w \in Words |-> 0])'
            /\ (input = <<>>)' /\ (chain = <<>>)' /\ (message = <<>>)'
        BY <2>1 DEF Start, DigestInv, Words
      <3>. QED
        BY <3>1, StartDigestInv, PTL
    <2>2. CASE Digest \/ UNCHANGED digestVars
      BY <2>2 DEF Digest, digestVars, DigestInv, WordsOf, Words
    <2>3. ASSUME NEW n \in PieceSizes, Update(n)
          PROVE  DigestInv'
      BY <2>3, UpdateStep
    <2>. QED
      BY <2>1, <2>2, <2>3 DEF DigestNext
  <1>. QED
    BY <1>1, <1>2, PTL DEF DigestSpec

-----------------------------------------------------------------------------
(* The refinement                                                          *)

(* What the object holds is the message.                                   *)
LEMMA Holds == DigestInv => Concatenated = message
  <1>. SUFFICES ASSUME DigestInv
                PROVE  Concatenated = message
    OBVIOUS
  <1>. DEFINE size == algorithm.block
  <1>1. size \in Nat \ {0} /\ message \in Seq(AnyByte)
    BY AlgorithmIs DEF DigestInv
  <1>2. chain = Blocks(size, message) /\ input = Rest(size, message)
    BY DEF DigestInv
  <1>3. Concatenated = InARow(size, chain, input)
    BY DEF Concatenated, InARow, Product, Quotient, Remainder
  <1>. HIDE DEF size
  <1>4. InARow(size, Blocks(size, message), Rest(size, message)) = message
    BY <1>1, BlocksInARow
  <1>. QED
    BY <1>2, <1>3, <1>4

(* What digest gives is the standard's hash of the message.                *)
LEMMA GivesTheHash ==
    ASSUME DigestInv
    PROVE  chain \o Blocks(algorithm.block, FinalBlock) = StandardHash(algorithm, message)
  <1>. DEFINE size == algorithm.block
              n == Len(message)
              k == PaddingLength
              pad == Padding(k)
              field == LengthField
              tail == pad \o field
  <1>1. /\ algorithm \in Algorithms /\ message \in Seq(AnyByte) /\ n \in Nat
        /\ fullMessageLength = WordsOf(n)
        /\ chain = Blocks(size, message) /\ input = Rest(size, message)
    BY DEF DigestInv
  <1>2. /\ size \in Nat \ {0} /\ algorithm.words \in {2, 4}
        /\ algorithm.littleEndian \in BOOLEAN
        /\ algorithm.littleEndian => algorithm.words = 2
    BY <1>1, AlgorithmIs
  <1>3. field = StandardLength(algorithm, n)
    BY <1>1, <1>2, LengthIsStandard
  <1>4. k \in Nat /\ k = CHOOSE j \in 1 .. size : (n + j + algorithm.words) % size = 0
    BY <1>1, PaddingIsShortest
  <1>5. StandardHash(algorithm, message) = Blocks(size, message \o pad \o field)
    BY <1>3, <1>4 DEF StandardHash
  <1>6. pad \in Seq(AnyByte)
    <2>1. <<"0x80">> \in AnyByte /\ <<"0x00">> \in AnyByte
      BY DEF AnyByte
    <2>2. k \in Nat
      BY <1>4
    <2>. HIDE DEF k
    <2>3. pad = [i \in 1 .. k |-> IF i = 1 THEN <<"0x80">> ELSE <<"0x00">>]
      BY DEF Padding
    <2>4. \A i \in 1 .. k : (IF i = 1 THEN <<"0x80">> ELSE <<"0x00">>) \in AnyByte
      BY <2>1
    <2>. HIDE DEF pad
    <2>. QED
      BY <2>2, <2>3, <2>4
  <1>7. field \in Seq(AnyByte)
    <2>1. \A e \in Nat : Digit(n * ByteBits, e) \in Nat
      <3>1. n * ByteBits \in Nat
        BY <1>1, BitDigits
      <3>. DEFINE bits == n * ByteBits
      <3>2. bits \in Nat
        BY <3>1
      <3>. HIDE DEF bits
      <3>3. \A e \in Nat : Digit(bits, e) \in 0 .. WordSize - 1
        BY <3>2, DigitsAre
      <3>4. WordSize \in Nat
        BY DigestAssumption
      <3>. QED
        BY <3>3, <3>4 DEF bits
    <2>2. ASSUME NEW w \in 1 .. algorithm.words
          PROVE  field[w] \in AnyByte
      <3>. DEFINE e == IF algorithm.littleEndian THEN w - 1 ELSE algorithm.words - w
      <3>1. e \in Nat
        BY <1>2
      <3>2. field[w] = <<"length", Digit(n * ByteBits, e)>>
        BY <1>3 DEF StandardLength, Digit, Above, Quotient, Remainder
      <3>. HIDE DEF e
      <3>. QED
        BY <2>1, <3>1, <3>2 DEF AnyByte
    <2>3. field = [w \in 1 .. algorithm.words |-> field[w]]
      BY <1>3 DEF StandardLength
    <2>. HIDE DEF field
    <2>. QED
      BY <1>2, <2>2, <2>3
  <1>8. FinalBlock = input \o pad \o field
    BY DEF FinalBlock
  <1>. HIDE DEF size, n, k, pad, field
  <1>9. tail \in Seq(AnyByte) /\ message \o pad \o field = message \o tail
    BY <1>1, <1>6, <1>7
  <1>10. input \in Seq(AnyByte)
    <2>. DEFINE q == Quotient(n, size)
    <2>1. q \in Nat /\ n = Product(q, size) + Remainder(n, size)
      BY <1>1, <1>2, Named
    <2>2. Product(q, size) \in Nat
      BY <1>2, <2>1, Named
    <2>. HIDE DEF q
    <2>. QED
      BY <1>1, <1>2, <2>1, <2>2, RestIs DEF n
  <1>11. input \o pad \o field = input \o tail
    BY <1>6, <1>7, <1>10, SMTT(30)
  <1>. HIDE DEF tail
  <1>12. Blocks(size, message \o tail) = Blocks(size, message) \o Blocks(size, Rest(size, message) \o tail)
    <2>1. message \in Seq(AnyByte) /\ tail \in Seq(AnyByte) /\ size \in Nat \ {0}
      BY <1>1, <1>2, <1>9
    <2>. QED
      BY <2>1, BlocksOfMore, SMTT(30)
  <1>. QED
    BY <1>1, <1>5, <1>8, <1>9, <1>11, <1>12 DEF size

(* A message digest object is a hash function: digest gives the standard's *)
(* hash of all that update got since the start, in whatever pieces, and    *)
(* asking for it changes nothing.                                          *)
THEOREM HashRefined == DigestSpec => RefinesHash
  <1>1. DigestInit => HashOfMessage!Init
    <2>. SUFFICES ASSUME DigestInit
                  PROVE  HashOfMessage!Init
      OBVIOUS
    <2>1. algorithm \in Algorithms /\ output = <<>> /\ message = <<>> /\ DigestInv
      BY StartDigestInv DEF DigestInit, DigestStart
    <2>2. Concatenated = message
      BY <2>1, Holds
    <2>. QED
      BY <2>1, <2>2 DEF HashOfMessage!Init
  <1>2. DigestInv /\ DigestInv' /\ [DigestNext]_digestVars
            => [HashOfMessage!Next]_<<algorithm, Concatenated, output>>
    <2>. SUFFICES ASSUME DigestInv, DigestInv', [DigestNext]_digestVars
                  PROVE  [HashOfMessage!Next]_<<algorithm, Concatenated, output>>
      OBVIOUS
    <2>1. Concatenated = message
      BY Holds
    <2>2. Concatenated' = message'
      <3>1. (Concatenated = message)'
        BY Holds, PTL
      <3>. QED
        BY <3>1
    <2>3. CASE Start
      <3>1. HashOfMessage!Start
        BY <2>2, <2>3 DEF Start, HashOfMessage!Start
      <3>. QED
        BY <2>3, <3>1 DEF Start, HashOfMessage!Next
    <2>4. CASE Digest
      <3>1. output' = StandardHash(algorithm, message)
        BY <2>4, GivesTheHash DEF Digest
      <3>2. HashOfMessage!Digest
        BY <2>1, <2>2, <2>4, <3>1 DEF Digest, HashOfMessage!Digest
      <3>. QED
        BY <2>4, <3>2 DEF Digest, HashOfMessage!Next
    <2>5. ASSUME NEW n \in PieceSizes, Update(n)
          PROVE  HashOfMessage!Next /\ algorithm' = algorithm
      <3>1. message' = message \o Piece(Len(message), n) /\ output' = <<>> /\ algorithm' = algorithm
        BY <2>5 DEF Update
      <3>2. HashOfMessage!Update
        BY <2>1, <2>2, <3>1 DEF HashOfMessage!Update
      <3>. QED
        BY <3>1, <3>2 DEF HashOfMessage!Next
    <2>6. CASE UNCHANGED digestVars
      BY <2>1, <2>2, <2>6 DEF digestVars
    <2>. QED
      BY <2>3, <2>4, <2>5, <2>6 DEF DigestNext
  <1>. QED
    BY <1>1, <1>2, DigestInvariant, PTL DEF DigestSpec, RefinesHash, HashOfMessage!Spec

-----------------------------------------------------------------------------
(* HMAC: the invariant                                                     *)

Bytes0 == UNION {{s[i] : i \in DOMAIN s} : s \in Strings \cup Messages}

(* The algorithms for which a key was found too long.                      *)
TooLongFor(k, used) == {a \in used : Len(k) > BlockLength[a]}

(* A kept key is the one that was given, or its hash if it was too long    *)
(* for one algorithm; after two of them nothing is known.                  *)
KeptKey(c) ==
    /\ keyed[c].key \in Keys
    /\ keyed[c].used \subseteq DOMAIN BlockLength
    /\ key[c] \in Buffers => key[c] = keyed[c].given
    /\ \/ Bytes(key[c]) \in Keys
       \/ \A a \in DOMAIN BlockLength : ~(Len(Bytes(key[c])) > BlockLength[a])
    /\ TooLongFor(keyed[c].key, keyed[c].used) = {} => Bytes(key[c]) = keyed[c].key
    /\ \A a \in keyed[c].used :
        TooLongFor(keyed[c].key, keyed[c].used) = {a} => Bytes(key[c]) = Hash(a, keyed[c].key)

(* The object holds the inner message so far, and the outer pad is ready.  *)
InnerMessage(c) ==
    LET a == Algorithm[md[c]]
        fitting == Fitting(a, begun[c].key)
    IN  /\ md[c] \in Objects
        /\ opadding[c] = OPad(a, fitting)
        /\ digests[md[c]] = IPad(a, fitting) \o begun[c].text
        /\ begun[c].text \in Seq(Bytes0)

(* The inductive invariant.                                                *)
HmacInv ==
    /\ buffers \in [Buffers -> Keys]
    /\ md \in [Contexts -> Objects \cup {None}]
    /\ DOMAIN key = Contexts /\ DOMAIN opadding = Contexts
    /\ DOMAIN keyed = Contexts /\ DOMAIN begun = Contexts
    /\ DOMAIN digests = Objects
    /\ \A c \in Contexts : keyed[c] # None => KeptKey(c)
    /\ \A c \in Contexts : begun[c] # None => InnerMessage(c)

-----------------------------------------------------------------------------
(* Keys and pads                                                           *)

(* Strings and what is left of them are sequences.                         *)
LEMMA KeysAreSequences ==
    /\ Strings \subseteq Keys
    /\ Messages \subseteq Seq(Bytes0)
    /\ \A k \in Keys : k \in Seq(Bytes0) /\ (k # <<>> => Tail(k) \in Keys)
<1>1. \A s \in Strings \cup Messages : s \in Seq(Bytes0)
  <2>. SUFFICES ASSUME NEW s \in Strings \cup Messages
                PROVE  s \in Seq(Bytes0)
    OBVIOUS
  <2>1. s \in Seq({s[i] : i \in DOMAIN s})
    BY HmacInputs
  <2>2. {s[i] : i \in DOMAIN s} \subseteq Bytes0
    BY DEF Bytes0
  <2>. QED
    BY <2>1, <2>2, SeqMonotonic
<1>2. ASSUME NEW s \in Strings
      PROVE  s \in Keys
  <2>1. s = SubSeq(s, 1, Len(s)) /\ Len(s) + 1 \in Nat /\ 1 \in 1 .. Len(s) + 1
    BY <1>1
  <2>. QED
    BY <2>1 DEF Keys
<1>3. ASSUME NEW k \in Keys
      PROVE  k \in Seq(Bytes0) /\ (k # <<>> => Tail(k) \in Keys)
  <2>0. PICK s \in Strings : \E n \in 1 .. Len(s) + 1 : k = SubSeq(s, n, Len(s))
    BY DEF Keys
  <2>1. PICK n \in 1 .. Len(s) + 1 : k = SubSeq(s, n, Len(s))
    BY <2>0
  <2>2. s \in Seq(Bytes0)
    BY <1>1
  <2>3. k \in Seq(Bytes0)
    BY <2>1, <2>2
  <2>4. ASSUME k # <<>>
        PROVE  Tail(k) \in Keys
    <3>1. n =< Len(s)
      BY <2>1, <2>2, <2>4
    <3>2. Tail(k) = SubSeq(s, n + 1, Len(s)) /\ n + 1 \in 1 .. Len(s) + 1
      BY <2>1, <2>2, <3>1
    <3>3. Tail(k) \in {SubSeq(s, j, Len(s)) : j \in 1 .. Len(s) + 1}
      BY <3>2
    <3>. QED
      BY <3>3 DEF Keys
  <2>. QED
    BY <2>3, <2>4
<1>. QED
  BY <1>1, <1>2, <1>3

(* A hash has its algorithm's length, and fits every block.                *)
LEMMA HashFits ==
    ASSUME NEW a \in DOMAIN BlockLength, NEW b \in DOMAIN BlockLength, NEW m
    PROVE  ~(Len(Hash(a, m)) > BlockLength[b]) /\ Fitting(b, Hash(a, m)) = Hash(a, m)
<1>1. DigestLength[a] \in Nat /\ DigestLength[a] =< BlockLength[b] /\ BlockLength[b] \in Nat
  BY HmacAssumption, HmacInputs
<1>2. Len(Hash(a, m)) = DigestLength[a]
  BY <1>1 DEF Hash
<1>. QED
  BY <1>1, <1>2 DEF Fitting

(* Bytes appended to the inner message are appended to the text.           *)
LEMMA TextGrows ==
    ASSUME NEW a \in DOMAIN BlockLength, NEW k, NEW text \in Seq(Bytes0), NEW m \in Seq(Bytes0)
    PROVE  (IPad(a, k) \o text) \o m = IPad(a, k) \o (text \o m)
<1>. DEFINE Any == Bytes0 \cup {IPad(a, k)[i] : i \in 1 .. BlockLength[a]}
<1>1. BlockLength[a] \in Nat
  BY HmacAssumption
<1>2. IPad(a, k) \in Seq(Any)
  <2>1. IPad(a, k) = [i \in 1 .. BlockLength[a] |-> IPad(a, k)[i]]
    BY DEF IPad, Pad
  <2>2. \A i \in 1 .. BlockLength[a] : IPad(a, k)[i] \in Any
    OBVIOUS
  <2>. HIDE DEF Any
  <2>. QED
    BY <1>1, <2>1, <2>2, IsASeq
<1>3. text \in Seq(Any) /\ m \in Seq(Any)
  BY SeqMonotonic
<1>. QED
  BY <1>2, <1>3, ConcatAssociative

-----------------------------------------------------------------------------
(* The steps                                                               *)

(* The initial states satisfy the invariant.                               *)
LEMMA HmacInvInit ==
    ASSUME HmacInit
    PROVE  HmacInv
<1>1. PICK contents \in [Buffers -> Strings] : HmacStart(contents)
  BY DEF HmacInit
<1>2. buffers \in [Buffers -> Keys]
  BY <1>1, KeysAreSequences DEF HmacStart
<1>3. \A c \in Contexts : keyed[c] = None /\ begun[c] = None
  BY <1>1 DEF HmacStart
<1>. QED
  BY <1>1, <1>2, <1>3 DEF HmacStart, HmacInv

(* Whoever else is in the middle of a message has it in another object.    *)
LEMMA OthersUndisturbed ==
    ASSUME HmacInv, NEW o \in Objects, NEW c \in Contexts, NEW m,
           digests' = [digests EXCEPT ![o] = m],
           begun'[c] = Disturbed(o)[c], begun'[c] # None,
           md'[c] = md[c], opadding'[c] = opadding[c]
    PROVE  InnerMessage(c)'
<1>1. begun'[c] = begun[c] /\ md[c] # o
  BY DEF Disturbed
<1>2. InnerMessage(c)
  BY <1>1 DEF HmacInv
<1>3. digests'[md[c]] = digests[md[c]]
  BY <1>1, <1>2 DEF HmacInv, InnerMessage
<1>. QED
  BY <1>1, <1>2, <1>3 DEF InnerMessage

(* What is kept of the keys of contexts that a step leaves alone.          *)
LEMMA KeyStays ==
    ASSUME NEW c \in Contexts, KeptKey(c),
           keyed'[c] = keyed[c], key'[c] = key[c], Bytes(key[c])' = Bytes(key[c])
    PROVE  KeptKey(c)'
  BY DEF KeptKey, TooLongFor

(* A start leaves the inner message of its context ready.                  *)
LEMMA BeginsMessage ==
    ASSUME HmacInv, NEW c \in Contexts, NEW o \in Objects, NEW k, NEW given,
           Begin(c, o, k),
           Fitting(Algorithm[o], Bytes(k)) = Fitting(Algorithm[o], given),
           begun' = [Disturbed(o) EXCEPT ![c] = [key |-> given, text |-> <<>>]]
    PROVE  InnerMessage(c)'
<1>1. begun'[c] = [key |-> given, text |-> <<>>]
  BY DEF Disturbed
<1>2. md'[c] = o
  BY DEF Begin, HmacInv
<1>3. opadding'[c] = OPad(Algorithm[o], Fitting(Algorithm[o], given))
  BY DEF Begin, HmacInv
<1>4. digests'[o] = IPad(Algorithm[o], Fitting(Algorithm[o], given))
  BY DEF Begin, HmacInv
<1>5. IPad(Algorithm[o], Fitting(Algorithm[o], given)) \o <<>>
        = IPad(Algorithm[o], Fitting(Algorithm[o], given))
  <2>. DEFINE ipad == IPad(Algorithm[o], Fitting(Algorithm[o], given))
              n == BlockLength[Algorithm[o]]
  <2>1. n \in Nat
    BY HmacAssumption, HmacInputs
  <2>2. ipad = [i \in 1 .. n |-> ipad[i]]
    BY DEF IPad, Pad
  <2>3. \A i \in 1 .. n : ipad[i] \in {ipad[j] : j \in 1 .. n}
    OBVIOUS
  <2>. HIDE DEF ipad, n
  <2>4. ipad \in Seq({ipad[j] : j \in 1 .. n})
    BY <2>1, <2>2, <2>3, IsASeq, SMTT(30)
  <2>. QED
    BY <2>4, ConcatEmptySeq DEF ipad
<1>6. <<>> \in Seq(Bytes0)
  OBVIOUS
<1>7. begun'[c].key = given /\ begun'[c].text = <<>>
  BY <1>1
<1>. QED
  BY <1>2, <1>3, <1>4, <1>5, <1>6, <1>7 DEF InnerMessage

(* With a key of the caller's.                                             *)
LEMMA StartWithKeyStep ==
    ASSUME HmacInv, NEW c \in Contexts, NEW o \in Objects, NEW k \in Strings \cup Buffers,
           StartWithKey(c, o, k)
    PROVE  HmacInv'
<1>. DEFINE a == Algorithm[o]
            given == Bytes(k)
<1>1. given \in Keys /\ a \in DOMAIN BlockLength
  BY KeysAreSequences, HmacInputs DEF Bytes, HmacInv
<1>2. keyed'[c] = [given |-> k, key |-> given, used |-> {a}]
  BY DEF StartWithKey, HmacInv
<1>3. KeptKey(c)'
  <2>1. keyed'[c].given = k /\ keyed'[c].key = given /\ keyed'[c].used = {a}
    BY <1>2
  <2>2. key'[c] = IF Fitting(a, given) = given THEN k ELSE Fitting(a, given)
    BY DEF StartWithKey, Begin, HmacInv
  <2>3. Fitting(a, given) # given => Fitting(a, given) = Hash(a, given) /\ Hash(a, given) \notin Buffers
    BY <1>1, HmacInputs DEF Fitting
  <2>4. buffers' = buffers
    BY DEF StartWithKey, Begin
  <2>5. Bytes(key[c])' = Fitting(a, given)
    BY <2>2, <2>3, <2>4 DEF Bytes
  <2>6. key'[c] \in Buffers => key'[c] = k
    BY <2>2, <2>3
  <2>7. TooLongFor(given, {a}) = {} => Fitting(a, given) = given
    BY DEF TooLongFor, Fitting
  <2>8. TooLongFor(given, {a}) = {a} => Fitting(a, given) = Hash(a, given)
    BY DEF TooLongFor, Fitting
  <2>9. \/ Fitting(a, given) \in Keys
        \/ \A b \in DOMAIN BlockLength : ~(Len(Fitting(a, given)) > BlockLength[b])
    BY <1>1, <2>3, HashFits
  <2>. HIDE DEF a, given
  <2>. QED
    BY <1>1, <2>1, <2>5, <2>6, <2>7, <2>8, <2>9 DEF KeptKey
<1>4. InnerMessage(c)'
  BY BeginsMessage DEF StartWithKey
<1>5. ASSUME NEW d \in Contexts, d # c, keyed'[d] # None
      PROVE  KeptKey(d)'
  BY <1>5, KeyStays DEF StartWithKey, Begin, HmacInv, Bytes
<1>6. ASSUME NEW d \in Contexts, d # c, begun'[d] # None
      PROVE  InnerMessage(d)'
  BY <1>6, OthersUndisturbed DEF StartWithKey, Begin, HmacInv, Disturbed
<1>7. /\ buffers' \in [Buffers -> Keys]
      /\ md' \in [Contexts -> Objects \cup {None}]
      /\ DOMAIN key' = Contexts /\ DOMAIN opadding' = Contexts
      /\ DOMAIN keyed' = Contexts /\ DOMAIN begun' = Contexts
      /\ DOMAIN digests' = Objects
  BY DEF StartWithKey, Begin, HmacInv, Disturbed
<1>. QED
  BY <1>3, <1>4, <1>5, <1>6, <1>7 DEF HmacInv

(* With the kept key: it still fits as the given one does, when it still   *)
(* stands for it.                                                          *)
LEMMA KeptKeyFits ==
    ASSUME HmacInv, NEW c \in Contexts, NEW o \in Objects, StillKeyed(c, o)
    PROVE  Fitting(Algorithm[o], Bytes(key[c])) = Fitting(Algorithm[o], keyed[c].key)
<1>. DEFINE a == Algorithm[o]
            k == keyed[c].key
<1>1. KeptKey(c) /\ a \in DOMAIN BlockLength
  BY HmacInputs DEF StillKeyed, HmacInv
<1>2. TooLongFor(k, keyed[c].used) \subseteq {a}
  BY DEF StillKeyed, TooLongFor
<1>3. CASE TooLongFor(k, keyed[c].used) = {}
  BY <1>1, <1>3 DEF KeptKey
<1>4. CASE TooLongFor(k, keyed[c].used) = {a}
  <2>1. a \in keyed[c].used /\ Len(k) > BlockLength[a]
    BY <1>4 DEF TooLongFor
  <2>2. Bytes(key[c]) = Hash(a, k)
    BY <1>1, <1>4, <2>1 DEF KeptKey
  <2>3. Fitting(a, k) = Hash(a, k)
    BY <2>1 DEF Fitting
  <2>. QED
    BY <1>1, <2>2, <2>3, HashFits
<1>. QED
  BY <1>2, <1>3, <1>4

(* What the kept key is after a start with it: the given key while that    *)
(* fitted every algorithm, its hash after the first that it did not fit.   *)
LEMMA KeptKeyAfter ==
    ASSUME HmacInv, NEW c \in Contexts, NEW a \in DOMAIN BlockLength, KeptKey(c),
           NEW k, k = keyed[c].key,
           NEW used, used = keyed[c].used \cup {a}
    PROVE  /\ TooLongFor(k, used) = {} =>
                Fitting(a, Bytes(key[c])) = k /\ Bytes(key[c]) = k
           /\ \A b \in used : TooLongFor(k, used) = {b} =>
                Fitting(a, Bytes(key[c])) = Hash(b, k)
<1>. DEFINE old == keyed[c].used
<1>1. ASSUME TooLongFor(k, used) = {}
      PROVE  Fitting(a, Bytes(key[c])) = k /\ Bytes(key[c]) = k
  <2>1. TooLongFor(k, old) = {} /\ ~(Len(k) > BlockLength[a])
    BY <1>1 DEF TooLongFor
  <2>. QED
    BY <2>1 DEF KeptKey, Fitting
<1>2. ASSUME NEW b \in used, TooLongFor(k, used) = {b}
      PROVE  Fitting(a, Bytes(key[c])) = Hash(b, k)
  <2>1. Len(k) > BlockLength[b] /\ (Len(k) > BlockLength[a] => a = b)
    BY <1>2 DEF TooLongFor
  <2>2. CASE b \in old
    <3>1. TooLongFor(k, old) = {b}
      BY <1>2, <2>2 DEF TooLongFor
    <3>2. Bytes(key[c]) = Hash(b, k) /\ b \in DOMAIN BlockLength
      BY <2>2, <3>1 DEF KeptKey
    <3>. QED
      BY <3>2, HashFits
  <2>3. CASE b \notin old
    <3>1. a = b /\ TooLongFor(k, old) = {}
      BY <1>2, <2>3 DEF TooLongFor
    <3>2. Bytes(key[c]) = k
      BY <3>1 DEF KeptKey
    <3>. QED
      BY <2>1, <3>1, <3>2 DEF Fitting
  <2>. QED
    BY <2>2, <2>3
<1>. QED
  BY <1>1, <1>2

(* start without a key, on any object, keeps the invariant ...             *)
LEMMA StartWithKeptKeyStep ==
    ASSUME HmacInv, NEW c \in Contexts, NEW o \in Objects, StartWithKeptKey(c, o)
    PROVE  HmacInv'
<1>. DEFINE a == Algorithm[o]
<1>1. a \in DOMAIN BlockLength
  BY HmacInputs
<1>2. buffers' = buffers
  BY DEF StartWithKeptKey, Begin
<1>3. ASSUME keyed'[c] # None
      PROVE  KeptKey(c)'
  <2>. DEFINE k == keyed[c].key
              used == keyed[c].used \cup {a}
              fitting == Fitting(a, Bytes(key[c]))
  <2>1. keyed[c] # None /\ keyed'[c] = [keyed[c] EXCEPT !.used = used]
    BY <1>3 DEF StartWithKeptKey, HmacInv
  <2>2. KeptKey(c)
    BY <2>1 DEF HmacInv
  <2>3. keyed'[c].key = k /\ keyed'[c].given = keyed[c].given /\ keyed'[c].used = used
    BY <2>1
  <2>4. key'[c] = IF fitting = Bytes(key[c]) THEN key[c] ELSE fitting
    BY DEF StartWithKeptKey, Begin, HmacInv
  <2>5. fitting # Bytes(key[c]) =>
            /\ fitting = Hash(a, Bytes(key[c])) /\ fitting \notin Buffers
            /\ \A b \in DOMAIN BlockLength : ~(Len(fitting) > BlockLength[b])
    <3>. SUFFICES ASSUME fitting # Bytes(key[c])
                  PROVE  /\ fitting = Hash(a, Bytes(key[c])) /\ fitting \notin Buffers
                         /\ \A b \in DOMAIN BlockLength : ~(Len(fitting) > BlockLength[b])
      OBVIOUS
    <3>1. fitting = Hash(a, Bytes(key[c])) /\ Len(Bytes(key[c])) > BlockLength[a]
      BY DEF Fitting
    <3>2. Bytes(key[c]) \in Keys
      BY <1>1, <2>2, <3>1 DEF KeptKey
    <3>3. fitting \notin Buffers
      BY <1>1, <3>1, <3>2, HmacInputs
    <3>. HIDE DEF fitting, a
    <3>. QED
      BY <1>1, <3>1, <3>3, HashFits
  <2>6. Bytes(key[c])' = fitting
    BY <1>2, <2>4, <2>5 DEF Bytes
  <2>7. key'[c] \in Buffers => key'[c] = keyed[c].given
    BY <2>2, <2>4, <2>5 DEF KeptKey
  <2>8. fitting \in Keys \/ \A b \in DOMAIN BlockLength : ~(Len(fitting) > BlockLength[b])
    BY <2>2, <2>5 DEF KeptKey
  <2>9. /\ TooLongFor(k, used) = {} => fitting = k
        /\ \A b \in used : TooLongFor(k, used) = {b} => fitting = Hash(b, k)
    BY <1>1, <2>2, KeptKeyAfter, SMTT(30)
  <2>10. k \in Keys /\ used \subseteq DOMAIN BlockLength
    BY <1>1, <2>2 DEF KeptKey
  <2>. HIDE DEF a, k, used, fitting
  <2>. QED
    BY <2>3, <2>6, <2>7, <2>8, <2>9, <2>10 DEF KeptKey
<1>4. ASSUME begun'[c] # None
      PROVE  InnerMessage(c)'
  <2>1. StillKeyed(c, o)
    BY <1>4 DEF StartWithKeptKey, Disturbed
  <2>2. begun' = [Disturbed(o) EXCEPT ![c] = [key |-> keyed[c].key, text |-> <<>>]]
    BY <2>1 DEF StartWithKeptKey
  <2>3. Fitting(a, Bytes(key[c])) = Fitting(a, keyed[c].key)
    BY <2>1, KeptKeyFits
  <2>. QED
    BY <2>2, <2>3, BeginsMessage DEF StartWithKeptKey
<1>5. ASSUME NEW d \in Contexts, d # c, keyed'[d] # None
      PROVE  KeptKey(d)'
  BY <1>5, KeyStays DEF StartWithKeptKey, Begin, HmacInv, Bytes
<1>6. ASSUME NEW d \in Contexts, d # c, begun'[d] # None
      PROVE  InnerMessage(d)'
  BY <1>6, OthersUndisturbed DEF StartWithKeptKey, Begin, HmacInv, Disturbed
<1>7. /\ buffers' \in [Buffers -> Keys]
      /\ md' \in [Contexts -> Objects \cup {None}]
      /\ DOMAIN key' = Contexts /\ DOMAIN opadding' = Contexts
      /\ DOMAIN keyed' = Contexts /\ DOMAIN begun' = Contexts
      /\ DOMAIN digests' = Objects
  BY DEF StartWithKeptKey, Begin, HmacInv, Disturbed
<1>. QED
  BY <1>3, <1>4, <1>5, <1>6, <1>7 DEF HmacInv

(* ... and so does update ...                                              *)
LEMMA HmacUpdateStep ==
    ASSUME HmacInv, NEW c \in Contexts, NEW m \in Messages, md[c] \in Objects, HmacUpdate(c, m)
    PROVE  HmacInv'
<1>. DEFINE a == Algorithm[md[c]]
            k == begun[c].key
            text == begun[c].text
<1>1. ASSUME begun'[c] # None
      PROVE  InnerMessage(c)'
  <2>1. begun[c] # None /\ begun'[c] = [begun[c] EXCEPT !.text = text \o m]
    BY <1>1 DEF HmacUpdate, Disturbed
  <2>2. begun'[c].key = k /\ begun'[c].text = text \o m
    <3>1. InnerMessage(c)
      BY <2>1 DEF HmacInv
    <3>. QED
      BY <2>1
  <2>3. InnerMessage(c)
    BY <2>1 DEF HmacInv
  <2>4. digests'[md[c]] = digests[md[c]] \o m
    BY DEF HmacUpdate, HmacInv
  <2>5. text \in Seq(Bytes0) /\ m \in Seq(Bytes0) /\ a \in DOMAIN BlockLength
    BY <2>3, KeysAreSequences, HmacInputs DEF InnerMessage
  <2>6. digests'[md[c]] = IPad(a, Fitting(a, k)) \o (text \o m)
    <3>1. digests[md[c]] = IPad(a, Fitting(a, k)) \o text
      BY <2>3 DEF InnerMessage
    <3>. HIDE DEF a, k, text
    <3>2. (IPad(a, Fitting(a, k)) \o text) \o m = IPad(a, Fitting(a, k)) \o (text \o m)
      BY <2>5, TextGrows
    <3>. QED
      BY <2>4, <3>1, <3>2
  <2>7. text \o m \in Seq(Bytes0)
    BY <2>5
  <2>. QED
    BY <2>2, <2>3, <2>6, <2>7 DEF InnerMessage, HmacUpdate
<1>2. ASSUME NEW d \in Contexts, d # c, begun'[d] # None
      PROVE  InnerMessage(d)'
  BY <1>2, OthersUndisturbed DEF HmacUpdate, HmacInv, Disturbed
<1>3. ASSUME NEW d \in Contexts, keyed'[d] # None
      PROVE  KeptKey(d)'
  BY <1>3, KeyStays DEF HmacUpdate, HmacInv, Bytes
<1>4. /\ buffers' \in [Buffers -> Keys]
      /\ md' \in [Contexts -> Objects \cup {None}]
      /\ DOMAIN key' = Contexts /\ DOMAIN opadding' = Contexts
      /\ DOMAIN keyed' = Contexts /\ DOMAIN begun' = Contexts
      /\ DOMAIN digests' = Objects
  BY DEF HmacUpdate, HmacInv, Disturbed
<1>. QED
  BY <1>1, <1>2, <1>3, <1>4 DEF HmacInv

(* ... and getMac, which leaves its outer message in the object ...        *)
LEMMA GetMacStep ==
    ASSUME HmacInv, NEW c \in Contexts, md[c] \in Objects, GetMac(c)
    PROVE  HmacInv'
<1>1. ASSUME NEW d \in Contexts, begun'[d] # None
      PROVE  InnerMessage(d)'
  BY <1>1, OthersUndisturbed DEF GetMac
<1>2. ASSUME NEW d \in Contexts, keyed'[d] # None
      PROVE  KeptKey(d)'
  BY <1>2, KeyStays DEF GetMac, HmacInv, Bytes
<1>3. /\ buffers' \in [Buffers -> Keys]
      /\ md' \in [Contexts -> Objects \cup {None}]
      /\ DOMAIN key' = Contexts /\ DOMAIN opadding' = Contexts
      /\ DOMAIN keyed' = Contexts /\ DOMAIN begun' = Contexts
      /\ DOMAIN digests' = Objects
  BY DEF GetMac, HmacInv, Disturbed
<1>. QED
  BY <1>1, <1>2, <1>3 DEF HmacInv

(* A buffer that is read on held the key of no context that still knows    *)
(* its key.                                                                *)
LEMMA ReadBufferStep ==
    ASSUME HmacInv, NEW b \in Buffers, ReadBuffer(b)
    PROVE  HmacInv'
<1>1. ASSUME NEW d \in Contexts, keyed'[d] # None
      PROVE  KeptKey(d)'
  <2>1. keyed[d] # None /\ keyed'[d] = keyed[d] /\ keyed[d].given # b
    BY <1>1 DEF ReadBuffer
  <2>2. KeptKey(d)
    BY <2>1 DEF HmacInv
  <2>3. key[d] # b
    BY <2>1, <2>2 DEF KeptKey
  <2>4. Bytes(key[d])' = Bytes(key[d]) /\ key' = key
    BY <2>3 DEF ReadBuffer, HmacInv, Bytes
  <2>. QED
    BY <2>1, <2>2, <2>4, KeyStays
<1>2. ASSUME NEW d \in Contexts, begun'[d] # None
      PROVE  InnerMessage(d)'
  BY <1>2 DEF ReadBuffer, HmacInv, InnerMessage
<1>3. buffers' \in [Buffers -> Keys]
  BY KeysAreSequences DEF ReadBuffer, HmacInv
<1>4. /\ md' \in [Contexts -> Objects \cup {None}]
      /\ DOMAIN key' = Contexts /\ DOMAIN opadding' = Contexts
      /\ DOMAIN keyed' = Contexts /\ DOMAIN begun' = Contexts
      /\ DOMAIN digests' = Objects
  BY DEF ReadBuffer, HmacInv
<1>. QED
  BY <1>1, <1>2, <1>3, <1>4 DEF HmacInv

(* ... and every call.                                                     *)
LEMMA HmacInvStep ==
    ASSUME HmacInv, [HmacNext]_hmacVars
    PROVE  HmacInv'
<1>1. ASSUME NEW c \in Contexts, NEW o \in Objects, NEW k \in Strings \cup Buffers,
             StartWithKey(c, o, k)
      PROVE  HmacInv'
  BY <1>1, StartWithKeyStep
<1>2. ASSUME NEW c \in Contexts, NEW o \in Objects, StartWithKeptKey(c, o)
      PROVE  HmacInv'
  BY <1>2, StartWithKeptKeyStep
<1>3. ASSUME NEW c \in Contexts, NEW m \in Messages, HmacUpdate(c, m)
      PROVE  HmacInv'
  BY <1>3, HmacUpdateStep DEF HmacUpdate, HmacInv
<1>4. ASSUME NEW c \in Contexts, GetMac(c)
      PROVE  HmacInv'
  BY <1>4, GetMacStep DEF GetMac, HmacInv
<1>5. ASSUME NEW b \in Buffers, ReadBuffer(b)
      PROVE  HmacInv'
  BY <1>5, ReadBufferStep
<1>6. CASE UNCHANGED hmacVars
  BY <1>6, ZenonT(60) DEF hmacVars, HmacInv, KeptKey, InnerMessage, Bytes, TooLongFor
<1>. QED
  BY <1>1, <1>2, <1>3, <1>4, <1>5, <1>6 DEF HmacNext

-----------------------------------------------------------------------------
(* HMAC: the results                                                       *)

(* What a step returns as a mac is the standard's of what was begun.       *)
LEMMA MacOfStep ==
    ASSUME HmacInv, HmacNext, NEW c \in Contexts, mac'[c] # <<>>, begun[c] # None
    PROVE  mac'[c] = StandardMac(Algorithm[md[c]], begun[c].key, begun[c].text)
<1>1. ASSUME mac' = NoMac
      PROVE  FALSE
  BY <1>1 DEF NoMac
<1>2. PICK d \in Contexts : GetMac(d)
  BY <1>1 DEF HmacNext, StartWithKey, StartWithKeptKey, Begin, HmacUpdate, ReadBuffer
<1>3. c = d
  BY <1>2 DEF GetMac, NoMac
<1>4. InnerMessage(c)
  BY DEF HmacInv
<1>. DEFINE a == Algorithm[md[c]]
<1>5. mac'[c] = Hash(a, opadding[c] \o Hash(a, digests[md[c]]))
  BY <1>2, <1>3 DEF GetMac, NoMac
<1>. QED
  BY <1>4, <1>5 DEF InnerMessage, StandardMac, Fitting

(* The invariant holds always.                                             *)
THEOREM HmacInvariant == HmacSpec => []HmacInv
  BY HmacInvInit, HmacInvStep, PTL DEF HmacSpec

(* getMac of Hmac.ts gives the HMAC of the standard of what its context    *)
(* was fed since its start, for any digests of which every hash fits every *)
(* block, whatever other contexts did with its object before that start    *)
(* and whatever became of the key it was given.                            *)
THEOREM MacsAreStandard == HmacSpec => MacIsStandard
<1>1. ASSUME HmacInv, [HmacNext]_hmacVars
      PROVE  [\A c \in Contexts : mac'[c] # <<>> /\ begun[c] # None =>
                mac'[c] = StandardMac(Algorithm[md[c]], begun[c].key, begun[c].text)]_hmacVars
  BY <1>1, MacOfStep
<1>. QED
  BY <1>1, HmacInvariant, PTL DEF HmacSpec, MacIsStandard

-----------------------------------------------------------------------------
(* PBKDF2: the invariant                                                   *)

(* A request that is not refused, and one of its blocks.                   *)
Accepted == {req \in Requests : ~ Refused(req)}

hLen(req) == digestLength[Algorithm[req.object]]

StandardBlock(req, i) ==
    [sum |-> Sum(StandardHashes(req, i), req.iterationCount),
     bytes |-> IF i = StandardCount(req) THEN req.dkLen - ((i - 1) * hLen(req)) ELSE hLen(req)]

(* A record with the fields of a derivation.                               *)
IsDerivation(r) ==
    r = [request |-> r.request, key |-> r.key, message |-> r.message, index |-> r.index,
         innerIndex |-> r.innerIndex, xor |-> r.xor, previousU |-> r.previousU,
         derivedKeyBytes |-> r.derivedKeyBytes, queued |-> r.queued]

(* What holds of a derivation whenever outer begins a block,               *)
AtOuter(r) ==
    /\ IsDerivation(r)
    /\ r.request \in Accepted
    /\ r.key = Fitting(Algorithm[r.request.object], r.request.password)
    /\ r.index \in 1 .. StandardCount(r.request)
    /\ r.derivedKeyBytes = [i \in 1 .. r.index - 1 |-> StandardBlock(r.request, i)]

(* and whenever inner is called.                                           *)
AtInner(r) ==
    /\ AtOuter(r)
    /\ r.innerIndex \in 2 .. r.request.iterationCount + 1
    /\ StandardHashes(r.request, r.index)[r.innerIndex - 1] = <<r.previousU>>
    /\ r.xor = Sum(StandardHashes(r.request, r.index), r.innerIndex - 1)

(* The inductive invariant: the digest objects have no part in it.         *)
DerivationInv ==
    /\ DOMAIN run = Derivations
    /\ \A d \in Derivations : run[d].queued \in BOOLEAN
    /\ \A d \in Derivations : run[d].queued => AtInner(run[d])
    /\ KeyIsStandard

-----------------------------------------------------------------------------
(* Requests and their blocks                                               *)

(* What the assumptions say of a request that is not refused.              *)
LEMMA AcceptedRequest ==
    ASSUME NEW req \in Accepted
    PROVE  /\ req.iterationCount \in Nat \ {0} /\ req.dkLen \in Nat \ {0}
           /\ hLen(req) \in Nat \ {0}
           /\ Algorithm[req.object] \in DOMAIN BlockLength
           /\ DigestLength[Algorithm[req.object]] = 1
  BY Pbkdf2Assumption DEF Accepted, Refused, hLen

(* A number is divided without rest up to one count, and not before.       *)
LEMMA RoundedUp ==
    ASSUME NEW n \in Nat \ {0}, NEW h \in Nat \ {0}
    PROVE  LET q == (n + h - 1) \div h
           IN  /\ q \in 1 .. n /\ (q - 1) * h < n /\ q * h >= n
               /\ \A m \in Nat : (m - 1) * h < n /\ m * h >= n => m = q
<1>. DEFINE q == (n + h - 1) \div h
            t == (n + h - 1) % h
<1>1. q \in Nat /\ t \in Nat /\ t < h /\ n + h - 1 = (q * h) + t
  OBVIOUS
<1>. HIDE DEF q, t
<1>2. (q - 1) * h = (q * h) - h
  BY <1>1
<1>3. (q - 1) * h < n /\ q * h >= n
  BY <1>1, <1>2
<1>4. q # 0
  BY <1>3
<1>5. q - 1 < n
  <2>1. q - 1 \in Nat
    BY <1>1, <1>4
  <2>2. (q - 1) * h >= q - 1
    BY <2>1
  <2>. QED
    BY <1>1, <1>3, <2>1, <2>2
<1>6. ASSUME NEW m \in Nat, (m - 1) * h < n, m * h >= n
      PROVE  m = q
  <2>1. CASE m < q
    <3>1. m * h =< (q - 1) * h
      BY <1>1, <2>1
    <3>. QED
      BY <1>1, <1>3, <1>6, <3>1
  <2>2. CASE q < m
    <3>1. q * h =< (m - 1) * h
      BY <1>1, <2>2
    <3>. QED
      BY <1>1, <1>3, <1>6, <3>1
  <2>. QED
    BY <1>1, <2>1, <2>2
<1>. QED
  BY <1>1, <1>3, <1>4, <1>5, <1>6 DEF q

(* The blocks of a derivation are as many as the standard's.               *)
LEMMA CountIsStandard ==
    ASSUME NEW req \in Accepted, NEW r, r.request = req
    PROVE  /\ BlockCount(r) = StandardCount(req) /\ StandardCount(req) \in Nat \ {0}
           /\ HLen(r) = hLen(req)
           /\ FinalBlockLength(r) = req.dkLen - ((StandardCount(req) - 1) * hLen(req))
<1>. DEFINE h == hLen(req)
            n == req.dkLen
            q == (n + h - 1) \div h
<1>1. n \in Nat \ {0} /\ h \in Nat \ {0} /\ HLen(r) = h
  BY AcceptedRequest DEF HLen, hLen
<1>2. BlockCount(r) = q
  BY <1>1 DEF BlockCount, HLen, hLen
<1>3. StandardCount(req) = CHOOSE m \in 1 .. n : (m - 1) * h < n /\ m * h >= n
  BY DEF StandardCount, hLen
<1>. HIDE DEF h, n
<1>4. q \in 1 .. n /\ (q - 1) * h < n /\ q * h >= n
      /\ \A m \in Nat : (m - 1) * h < n /\ m * h >= n => m = q
  BY <1>1, RoundedUp
<1>. HIDE DEF q
<1>5. StandardCount(req) = q
  <2>1. \A m \in 1 .. n : ((m - 1) * h < n /\ m * h >= n) <=> m = q
    BY <1>1, <1>4
  <2>. QED
    BY <1>3, <1>4, <2>1
<1>. QED
  BY <1>1, <1>2, <1>4, <1>5 DEF FinalBlockLength, h, n

-----------------------------------------------------------------------------
(* What the recursions compute                                             *)

(* Each hash of the standard is that of the one before.                    *)
LEMMA HashesFollow ==
    ASSUME NEW req \in Accepted, NEW i
    PROVE  LET U == StandardHashes(req, i)
               a == Algorithm[req.object]
           IN  /\ U[1] = StandardMac(a, req.password, req.salt \o int32ToBytes(i))
               /\ \A c \in 1 .. req.iterationCount - 1 :
                    U[c + 1] = StandardMac(a, req.password, U[c])
<1>. DEFINE N == req.iterationCount
            M(text) == StandardMac(Algorithm[req.object], req.password, text)
            first == req.salt \o int32ToBytes(i)
            Is(g, n) == g = [c \in 1 .. n |-> M(IF c = 1 THEN first ELSE g[c - 1])]
            S == {n \in Nat : \E g : Is(g, n + 1)}
<1>1. N \in Nat \ {0}
  BY AcceptedRequest
<1>2. StandardHashes(req, i) = CHOOSE g : Is(g, N)
  BY DEF StandardHashes
<1>. HIDE DEF M, first, N
<1>3. 0 \in S
  <2>. DEFINE g == [c \in 1 .. 1 |-> M(first)]
  <2>1. Is(g, 0 + 1)
    OBVIOUS
  <2>. HIDE DEF Is
  <2>. QED
    BY <2>1
<1>4. ASSUME NEW n \in Nat, n \in S
      PROVE  n + 1 \in S
  <2>1. PICK g : Is(g, n + 1)
    BY <1>4
  <2>. DEFINE h == [c \in 1 .. n + 2 |-> IF c = n + 2 THEN M(g[n + 1]) ELSE g[c]]
  <2>2. ASSUME NEW c \in 1 .. n + 2
        PROVE  h[c] = M(IF c = 1 THEN first ELSE h[c - 1])
    <3>1. CASE c = n + 2
      BY <3>1
    <3>2. CASE c # n + 2
      <4>1. c \in 1 .. n + 1 /\ (c # 1 => c - 1 \in 1 .. n + 1 /\ c - 1 \in 1 .. n + 2 /\ c - 1 # n + 2)
        BY <3>2
      <4>2. g[c] = M(IF c = 1 THEN first ELSE g[c - 1])
        BY <2>1, <4>1
      <4>3. h[c] = g[c] /\ (c # 1 => h[c - 1] = g[c - 1])
        BY <4>1, <3>2
      <4>. QED
        BY <4>2, <4>3
    <3>. QED
      BY <3>1, <3>2
  <2>3. h = [c \in 1 .. n + 2 |-> h[c]]
    OBVIOUS
  <2>. HIDE DEF h
  <2>4. Is(h, n + 2)
    BY <2>2, <2>3
  <2>5. (n + 1) + 1 = n + 2
    OBVIOUS
  <2>. HIDE DEF Is
  <2>. QED
    BY <2>4, <2>5
<1>5. \E g : Is(g, N)
  <2>1. Nat \subseteq S
    <3>. HIDE DEF S
    <3>. QED
      BY <1>3, <1>4, Induction
  <2>2. N - 1 \in S /\ (N - 1) + 1 = N
    BY <1>1, <2>1
  <2>. HIDE DEF Is
  <2>. QED
    BY <2>2
<1>. DEFINE U == StandardHashes(req, i)
<1>6. Is(U, N)
  <2>. HIDE DEF Is
  <2>. QED
    BY <1>2, <1>5
<1>. HIDE DEF U
<1>7. U[1] = M(first)
  BY <1>1, <1>6
<1>8. ASSUME NEW c \in 1 .. N - 1
      PROVE  U[c + 1] = M(U[c])
  <2>1. c + 1 \in 1 .. N /\ c + 1 # 1 /\ (c + 1) - 1 = c
    BY <1>1
  <2>. QED
    BY <1>6, <2>1
<1>. QED
  BY <1>7, <1>8 DEF U, M, first, N

(* A derivation at a block has gone through the block before.              *)
LEMMA BlocksFollow ==
    ASSUME NEW r, r.index \in Nat, BlockCount(r) \in Nat, r.index =< BlockCount(r)
    PROVE  /\ DOMAIN AtBlock(r) = r.index .. BlockCount(r)
           /\ AtBlock(r)[r.index] = r
           /\ \A i \in r.index .. BlockCount(r) - 1 :
                AtBlock(r)[i + 1] = WithFirst(WithBlock(AtBlock(r)[i]))
<1>. DEFINE N == BlockCount(r)
            m == r.index
            M(x) == WithFirst(WithBlock(x))
            Is(g, n) == g = [i \in m .. n |-> IF i = m THEN r ELSE M(g[i - 1])]
            S == {n \in Nat : \E g : Is(g, m + n)}
<1>1. AtBlock(r) = CHOOSE g : Is(g, N)
  BY DEF AtBlock
<1>2. N \in Nat /\ m \in Nat /\ m =< N
  OBVIOUS
<1>. HIDE DEF M, N, m
<1>3. 0 \in S
  <2>. DEFINE g == [i \in m .. m + 0 |-> r]
  <2>1. Is(g, m + 0)
    BY <1>2
  <2>. QED
    BY <2>1
<1>4. ASSUME NEW n \in Nat, n \in S
      PROVE  n + 1 \in S
  <2>1. PICK g : Is(g, m + n)
    BY <1>4
  <2>. DEFINE e == m + (n + 1)
              h == [i \in m .. e |-> IF i = e THEN M(g[i - 1]) ELSE g[i]]
  <2>2. ASSUME NEW i \in m .. e
        PROVE  h[i] = IF i = m THEN r ELSE M(h[i - 1])
    <3>1. i \in Nat /\ e # m /\ e - 1 = m + n /\ e - 1 # e /\ e - 1 \in m .. e
      BY <1>2
    <3>2. CASE i = e
      BY <3>1, <3>2
    <3>3. CASE i # e
      <4>1. i \in m .. m + n /\ (i # m => i - 1 \in m .. e /\ i - 1 # e)
        BY <1>2, <3>3
      <4>2. g[i] = IF i = m THEN r ELSE M(g[i - 1])
        BY <2>1, <4>1
      <4>3. h[i] = g[i] /\ (i # m => h[i - 1] = g[i - 1])
        BY <4>1, <3>3
      <4>. QED
        BY <4>2, <4>3
    <3>. QED
      BY <3>2, <3>3
  <2>3. h = [i \in m .. e |-> h[i]]
    OBVIOUS
  <2>. HIDE DEF h, e
  <2>4. Is(h, e)
    BY <2>2, <2>3
  <2>. HIDE DEF Is
  <2>. QED
    BY <2>4 DEF e
<1>5. \E g : Is(g, N)
  <2>1. Nat \subseteq S
    <3>. HIDE DEF S
    <3>. QED
      BY <1>3, <1>4, Induction
  <2>2. N - m \in Nat /\ m + (N - m) = N
    BY <1>2
  <2>. HIDE DEF Is
  <2>3. N - m \in S
    BY <2>1, <2>2
  <2>. QED
    BY <2>2, <2>3
<1>. DEFINE B == AtBlock(r)
<1>6. Is(B, N)
  <2>. HIDE DEF Is
  <2>. QED
    BY <1>1, <1>5
<1>. HIDE DEF B
<1>7. DOMAIN B = m .. N /\ B[m] = r
  BY <1>2, <1>6
<1>8. ASSUME NEW i \in m .. N - 1
      PROVE  B[i + 1] = M(B[i])
  <2>1. i + 1 \in m .. N /\ i + 1 # m /\ (i + 1) - 1 = i
    BY <1>2
  <2>. QED
    BY <1>6, <2>1
<1>. QED
  BY <1>7, <1>8 DEF B, M, N, m

-----------------------------------------------------------------------------
(* Sums of hashes                                                          *)

(* The hashes, of the first n, that are this term.                         *)
Times(U, n, term) == {c \in 1 .. n : U[c] = <<term>>}

LEMMA TimesFinite ==
    ASSUME NEW U, NEW n \in Nat, NEW term
    PROVE  IsFiniteSet(Times(U, n, term)) /\ Cardinality(Times(U, n, term)) \in Nat
<1>1. Times(U, n, term) \subseteq 1 .. n /\ IsFiniteSet(1 .. n)
  BY FS_Interval DEF Times
<1>. QED
  BY <1>1, FS_Subset, FS_CardinalityType

(* A term that is in the sum is one of the hashes.                         *)
LEMMA InSum ==
    ASSUME NEW U, NEW n \in Nat, NEW term
    PROVE  term \in Sum(U, n) <=> Cardinality(Times(U, n, term)) % 2 = 1
<1>1. ASSUME Cardinality(Times(U, n, term)) % 2 = 1
      PROVE  \E c \in 1 .. n : U[c][1] = term
  <2>1. Times(U, n, term) # {}
    BY <1>1, FS_EmptySet
  <2>. QED
    BY <2>1 DEF Times
<1>. QED
  BY <1>1, Zenon DEF Sum, Times

(* Nothing adds up to nothing,                                             *)
LEMMA SumOfNone == ASSUME NEW U PROVE Sum(U, 0) = {}
  BY DEF Sum

(* and one more hash is added by symmetric difference.                     *)
LEMMA SumOfNext ==
    ASSUME NEW U, NEW n \in Nat, NEW u, U[n + 1] = <<u>>
    PROVE  Sum(U, n + 1) = xorBytes(Sum(U, n), u)
<1>1. ASSUME NEW term, term # u
      PROVE  term \in Sum(U, n + 1) <=> term \in Sum(U, n)
  <2>1. Times(U, n + 1, term) = Times(U, n, term)
    BY <1>1 DEF Times
  <2>. QED
    BY <2>1, InSum
<1>2. u \in Sum(U, n + 1) <=> u \notin Sum(U, n)
  <2>1. Times(U, n + 1, u) = Times(U, n, u) \cup {n + 1} /\ n + 1 \notin Times(U, n, u)
    BY DEF Times
  <2>. DEFINE k == Cardinality(Times(U, n, u))
  <2>2. k \in Nat /\ Cardinality(Times(U, n + 1, u)) = k + 1
    BY <2>1, TimesFinite, FS_AddElement
  <2>3. (u \in Sum(U, n) <=> k % 2 = 1) /\ (u \in Sum(U, n + 1) <=> (k + 1) % 2 = 1)
    BY <2>2, InSum
  <2>. HIDE DEF k
  <2>4. (k + 1) % 2 = 1 <=> k % 2 # 1
    BY <2>2
  <2>. QED
    BY <2>3, <2>4
<1>. QED
  BY <1>1, <1>2 DEF xorBytes

-----------------------------------------------------------------------------
(* The code between two blocks, and between two turns                      *)

(* The kept key is fitted again and stays what it is.                      *)
LEMMA FittedFits ==
    ASSUME NEW a \in DOMAIN BlockLength, NEW k
    PROVE  Fitting(a, Fitting(a, k)) = Fitting(a, k)
  BY HashFits DEF Fitting

(* The prf is the standard's, under the password.                          *)
LEMMA MacOfPassword ==
    ASSUME NEW r, r.request \in Accepted, NEW text,
           r.key = Fitting(Algorithm[r.request.object], r.request.password)
    PROVE  StandardMac(Algorithm[r.request.object], r.request.password, text) = <<Mac(r, text)>>
<1>. DEFINE a == Algorithm[r.request.object]
<1>1. a \in DOMAIN BlockLength /\ DigestLength[a] = 1
  BY AcceptedRequest
<1>2. Fitting(a, r.key) = Fitting(a, r.request.password)
  BY <1>1, FittedFits
<1>3. ASSUME NEW m
      PROVE  Hash(a, m) = <<Hash(a, m)[1]>>
  BY <1>1 DEF Hash
<1>. DEFINE left == LeftByMac(r, text)
<1>4. StandardMac(a, r.request.password, text) = Hash(a, left)
  BY <1>2, Zenon DEF StandardMac, LeftByMac, Fitting
<1>. HIDE DEF left
<1>5. Mac(r, text) = Hash(a, left)[1]
  BY DEF Mac, left
<1>. QED
  BY <1>3, <1>4, <1>5

(* outer begins a block with the standard's first hash.                    *)
LEMMA WithFirstStep ==
    ASSUME NEW r, AtOuter(r)
    PROVE  AtInner(WithFirst(r)) /\ WithFirst(r).request = r.request
           /\ WithFirst(r).index = r.index
<1>. DEFINE req == r.request
            u == Mac(r, FirstText(r))
            left == LeftByMac(r, FirstText(r))
            U == StandardHashes(req, r.index)
            s == WithFirst(r)
<1>1. req \in Accepted /\ IsDerivation(r)
  BY DEF AtOuter
<1>2. U[1] = <<u>>
  <2>1. U[1] = StandardMac(Algorithm[req.object], req.password, FirstText(r))
    BY <1>1, HashesFollow, Zenon DEF FirstText
  <2>. QED
    BY <1>1, <2>1, MacOfPassword, Zenon DEF AtOuter
<1>3. Sum(U, 1) = {u}
  <2>1. Sum(U, 0 + 1) = xorBytes(Sum(U, 0), u)
    BY <1>2, SumOfNext
  <2>. QED
    BY <2>1, SumOfNone DEF xorBytes
<1>4. s = [r EXCEPT !.previousU = u, !.xor = {u}, !.message = left, !.innerIndex = 2]
  BY DEF WithFirst
<1>. HIDE DEF u, left, s
<1>5. /\ IsDerivation(s) /\ s.request = req /\ s.key = r.key /\ s.index = r.index
      /\ s.innerIndex = 2 /\ s.xor = {u} /\ s.previousU = u
      /\ s.derivedKeyBytes = r.derivedKeyBytes
  BY <1>1, <1>4 DEF IsDerivation
<1>6. req.iterationCount \in Nat \ {0}
  BY <1>1, AcceptedRequest
<1>7. AtOuter(s)
  BY <1>5, Zenon DEF AtOuter
<1>8. s.innerIndex \in 2 .. s.request.iterationCount + 1 /\ s.innerIndex - 1 = 1
  BY <1>5, <1>6
<1>9. AtInner(s)
  BY <1>2, <1>3, <1>5, <1>7, <1>8 DEF AtInner
<1>. QED
  BY <1>5, <1>9 DEF s

(* Appending, without a set that the elements are from.                    *)
LEMMA AppendIsFunction ==
    ASSUME NEW s, NEW n \in Nat, NEW e, s = [i \in 1 .. n |-> s[i]]
    PROVE  Append(s, e) = [i \in 1 .. n + 1 |-> IF i = n + 1 THEN e ELSE s[i]]
<1>. DEFINE S == {s[i] : i \in 1 .. n} \cup {e}
<1>1. s \in Seq(S) /\ Len(s) = n
  BY DEF S
<1>. QED
  BY <1>1

(* inner adds the standard's next hash.                                    *)
LEMMA WithNextStep ==
    ASSUME NEW r, AtInner(r), MoreToDo(r)
    PROVE  AtInner(WithNext(r)) /\ WithNext(r).request = r.request
<1>. DEFINE req == r.request
            n == r.innerIndex - 1
            u == Mac(r, <<r.previousU>>)
            left == LeftByMac(r, <<r.previousU>>)
            U == StandardHashes(req, r.index)
            s == WithNext(r)
<1>1. req \in Accepted /\ IsDerivation(r) /\ AtOuter(r)
  BY DEF AtInner, AtOuter
<1>2. req.iterationCount \in Nat \ {0}
  BY <1>1, AcceptedRequest
<1>3. r.innerIndex \in 2 .. req.iterationCount /\ n \in 1 .. req.iterationCount - 1
      /\ n \in Nat /\ n + 1 = r.innerIndex
  BY <1>2 DEF AtInner, MoreToDo
<1>4. U[n] = <<r.previousU>>
  BY DEF AtInner
<1>5. U[n + 1] = <<u>>
  <2>1. U[n + 1] = StandardMac(Algorithm[req.object], req.password, U[n])
    BY <1>1, <1>3, HashesFollow
  <2>. QED
    BY <1>1, <1>4, <2>1, MacOfPassword, Zenon DEF AtOuter
<1>6. Sum(U, n + 1) = xorBytes(r.xor, u)
  BY <1>3, <1>5, SumOfNext DEF AtInner
<1>7. s = [r EXCEPT !.previousU = u, !.xor = xorBytes(r.xor, u), !.message = left,
                    !.innerIndex = r.innerIndex + 1]
  BY <1>1, Zenon DEF WithNext, IsDerivation
<1>. HIDE DEF u, left, s
<1>8. /\ IsDerivation(s) /\ s.request = req /\ s.key = r.key /\ s.index = r.index
      /\ s.innerIndex = r.innerIndex + 1 /\ s.xor = xorBytes(r.xor, u) /\ s.previousU = u
      /\ s.derivedKeyBytes = r.derivedKeyBytes
  BY <1>1, <1>7 DEF IsDerivation
<1>9. AtOuter(s)
  BY <1>1, <1>8, Zenon DEF AtOuter
<1>10. s.innerIndex \in 2 .. s.request.iterationCount + 1 /\ s.innerIndex - 1 = n + 1
  BY <1>2, <1>3, <1>8
<1>11. AtInner(s)
  BY <1>5, <1>6, <1>8, <1>9, <1>10 DEF AtInner
<1>. QED
  BY <1>8, <1>11 DEF s

(* A block whose hashes are all there is the standard's.                   *)
LEMMA WithBlockStep ==
    ASSUME NEW r, AtInner(r), ~ MoreToDo(r)
    PROVE  LET s == WithBlock(r)
               req == r.request
           IN  /\ IsDerivation(s) /\ s.request = req /\ s.key = r.key
               /\ s.index = r.index + 1
               /\ s.derivedKeyBytes = [i \in 1 .. r.index |-> StandardBlock(req, i)]
<1>. DEFINE req == r.request
            bytes == IF r.index < BlockCount(r) THEN HLen(r) ELSE FinalBlockLength(r)
            part == [sum |-> r.xor, bytes |-> bytes]
            s == WithBlock(r)
            old == r.derivedKeyBytes
            new == [i \in 1 .. r.index |-> StandardBlock(req, i)]
<1>1. req \in Accepted /\ IsDerivation(r) /\ AtOuter(r)
  BY DEF AtInner, AtOuter
<1>2. req.iterationCount \in Nat \ {0}
  BY <1>1, AcceptedRequest
<1>3. r.innerIndex - 1 = req.iterationCount
  BY <1>2 DEF AtInner, MoreToDo
<1>4. r.index \in 1 .. StandardCount(req) /\ StandardCount(req) \in Nat \ {0}
  BY <1>1, CountIsStandard DEF AtOuter
<1>5. part = StandardBlock(req, r.index)
  <2>1. r.xor = Sum(StandardHashes(req, r.index), req.iterationCount)
    BY <1>3 DEF AtInner
  <2>2. BlockCount(r) = StandardCount(req) /\ HLen(r) = hLen(req)
        /\ FinalBlockLength(r) = req.dkLen - ((StandardCount(req) - 1) * hLen(req))
    BY <1>1, CountIsStandard
  <2>3. bytes = IF r.index = StandardCount(req)
                THEN req.dkLen - ((r.index - 1) * hLen(req)) ELSE hLen(req)
    <3>1. CASE r.index = StandardCount(req)
      BY <1>4, <2>2, <3>1
    <3>2. CASE r.index # StandardCount(req)
      <4>1. r.index < BlockCount(r)
        BY <1>4, <2>2, <3>2
      <4>. QED
        BY <2>2, <3>2, <4>1
    <3>. QED
      BY <3>1, <3>2
  <2>. QED
    BY <2>1, <2>3, Zenon DEF StandardBlock
<1>6. s = [r EXCEPT !.derivedKeyBytes = Append(old, part), !.index = r.index + 1]
  BY <1>1, Zenon DEF WithBlock, IsDerivation
<1>. HIDE DEF part
<1>7. Append(old, part) = new
  <2>1. old = [i \in 1 .. r.index - 1 |-> StandardBlock(req, i)] /\ r.index \in Nat \ {0}
    BY <1>1, <1>4 DEF AtOuter
  <2>. HIDE DEF old
  <2>2. Len(old) = r.index - 1 /\ (r.index - 1) + 1 = r.index
    BY <2>1
  <2>3. Append(old, part) = [i \in 1 .. Len(old) + 1 |-> IF i = Len(old) + 1 THEN part ELSE old[i]]
    BY <2>1, <2>2, AppendIsFunction
  <2>4. ASSUME NEW i \in 1 .. r.index
        PROVE  (IF i = r.index THEN part ELSE old[i]) = StandardBlock(req, i)
    BY <1>5, <2>1
  <2>. QED
    BY <2>2, <2>3, <2>4
<1>. HIDE DEF new, s, old
<1>8. /\ IsDerivation(s) /\ s.request = req /\ s.key = r.key /\ s.index = r.index + 1
      /\ s.derivedKeyBytes = new
  BY <1>1, <1>6, <1>7 DEF IsDerivation
<1>. QED
  BY <1>8 DEF s, new

(* What else may be in the fields of a derivation is no matter.            *)
LEMMA OtherFields ==
    ASSUME NEW r, AtInner(r), NEW q, NEW m
    PROVE  LET s == [r EXCEPT !.queued = q]
               t == [r EXCEPT !.message = m]
           IN  /\ AtInner(s) /\ s.request = r.request /\ s.queued = q
               /\ AtInner(t) /\ t.request = r.request /\ t.queued = r.queued
<1>1. IsDerivation(r)
  BY DEF AtInner, AtOuter
<1>. DEFINE s == [r EXCEPT !.queued = q]
            t == [r EXCEPT !.message = m]
<1>2. /\ IsDerivation(s) /\ s.request = r.request /\ s.key = r.key /\ s.index = r.index
      /\ s.innerIndex = r.innerIndex /\ s.xor = r.xor /\ s.previousU = r.previousU
      /\ s.derivedKeyBytes = r.derivedKeyBytes /\ s.queued = q
  BY <1>1 DEF IsDerivation
<1>3. /\ IsDerivation(t) /\ t.request = r.request /\ t.key = r.key /\ t.index = r.index
      /\ t.innerIndex = r.innerIndex /\ t.xor = r.xor /\ t.previousU = r.previousU
      /\ t.derivedKeyBytes = r.derivedKeyBytes /\ t.queued = r.queued
  BY <1>1 DEF IsDerivation
<1>. HIDE DEF s, t
<1>4. AtInner(s) /\ AtInner(t)
  BY <1>2, <1>3, Zenon DEF AtInner, AtOuter
<1>. QED
  BY <1>2, <1>3, <1>4 DEF s, t

(* A turn ends in the middle of a block or with the standard's key.        *)
LEMMA InnerStep ==
    ASSUME NEW r, AtInner(r)
    PROVE  LET s == Inner(r)
           IN  /\ s.request = r.request
               /\ \/ s.queued = TRUE /\ AtInner(s)
                  \/ s.queued = FALSE /\ s.derivedKeyBytes = StandardKey(r.request)
<1>. DEFINE req == r.request
            N == StandardCount(req)
            m == r.index
            B == AtBlock(r)
            More(i) == MoreToDo(B[i])
            IsLast(i) == (More(i) \/ i = N) /\ \A j \in m .. i - 1 : ~ More(j)
            last == CHOOSE i \in m .. N : IsLast(i)
<1>1. req \in Accepted /\ N \in Nat \ {0} /\ BlockCount(r) = N /\ m \in 1 .. N
  BY CountIsStandard DEF AtInner, AtOuter
<1>2. DOMAIN B = m .. N /\ B[m] = r
      /\ \A i \in m .. N - 1 : B[i + 1] = WithFirst(WithBlock(B[i]))
  BY <1>1, BlocksFollow
<1>3. Inner(r) = IF MoreToDo(B[last]) THEN [WithNext(B[last]) EXCEPT !.queued = TRUE]
                 ELSE [WithBlock(B[last]) EXCEPT !.queued = FALSE]
  BY <1>1, <1>2 DEF Inner
<1>. HIDE DEF B, N, m, req
<1>4. last \in m .. N /\ IsLast(last)
  <2>. DEFINE T == {i \in m .. N : More(i) \/ i = N}
  <2>. HIDE DEF More
  <2>1. N \in T /\ T \in SUBSET Nat
    BY <1>1
  <2>2. PICK i \in T : \A j \in T : i =< j
    BY <2>1, LeastNatural
  <2>3. ASSUME NEW j \in m .. i - 1
        PROVE  ~ More(j)
    BY <1>1, <2>2
  <2>4. i \in m .. N /\ IsLast(i)
    BY <2>2, <2>3
  <2>. HIDE DEF IsLast
  <2>. QED
    BY <2>4
<1>. HIDE DEF last
<1>. DEFINE Reached(i) == AtInner(B[i]) /\ B[i].request = req /\ B[i].index = i
<1>5. Reached(last)
  <2>. DEFINE S == {n \in Nat : m + n =< last => Reached(m + n)}
  <2>1. 0 \in S
    BY <1>1, <1>2 DEF m, req
  <2>2. ASSUME NEW n \in Nat, n \in S
        PROVE  n + 1 \in S
    <3>. SUFFICES ASSUME m + (n + 1) =< last
                  PROVE  Reached(m + (n + 1))
      OBVIOUS
    <3>. DEFINE i == m + n
    <3>1. i \in m .. N - 1 /\ i \in m .. last - 1 /\ m + (n + 1) = i + 1 /\ i \in Nat
      BY <1>1, <1>4
    <3>. HIDE DEF i
    <3>2. Reached(i)
      BY <1>1, <1>4, <2>2, <3>1 DEF i
    <3>3. ~ MoreToDo(B[i])
      BY <1>4, <3>1
    <3>. DEFINE s == WithBlock(B[i])
    <3>4. /\ IsDerivation(s) /\ s.request = req /\ s.key = B[i].key /\ s.index = i + 1
          /\ s.derivedKeyBytes = [j \in 1 .. i |-> StandardBlock(req, j)]
      BY <3>2, <3>3, WithBlockStep
    <3>. HIDE DEF s
    <3>5. (i + 1) - 1 = i /\ i + 1 \in 1 .. N
      BY <1>1, <3>1
    <3>6. B[i].key = Fitting(Algorithm[req.object], req.password)
      BY <3>2 DEF AtInner, AtOuter
    <3>7. AtOuter(s)
      BY <1>1, <3>4, <3>5, <3>6 DEF AtOuter, N
    <3>8. B[i + 1] = WithFirst(s)
      BY <1>2, <3>1 DEF s
    <3>9. Reached(i + 1)
      BY <3>4, <3>7, <3>8, WithFirstStep
    <3>. QED
      BY <3>1, <3>9
  <2>3. Nat \subseteq S
    <3>. HIDE DEF S
    <3>. QED
      BY <2>1, <2>2, Induction
  <2>4. last - m \in Nat /\ m + (last - m) = last /\ last =< last
    BY <1>1, <1>4
  <2>. HIDE DEF Reached
  <2>. QED
    BY <2>3, <2>4
<1>. DEFINE b == B[last]
<1>6. AtInner(b) /\ b.request = req /\ b.index = last
  BY <1>5
<1>7. (MoreToDo(b) \/ last = N) /\ last \in Nat
  BY <1>1, <1>4
<1>8. Inner(r) = IF MoreToDo(b) THEN [WithNext(b) EXCEPT !.queued = TRUE]
                 ELSE [WithBlock(b) EXCEPT !.queued = FALSE]
  BY <1>3
<1>. HIDE DEF b
<1>9. CASE MoreToDo(b)
  <2>1. AtInner(WithNext(b)) /\ WithNext(b).request = req
    BY <1>6, <1>9, WithNextStep
  <2>. DEFINE s == WithNext(b)
              t == [s EXCEPT !.queued = TRUE]
  <2>2. Inner(r) = t
    BY <1>8, <1>9
  <2>. HIDE DEF s
  <2>3. AtInner(t) /\ t.request = s.request /\ t.queued = TRUE
    BY <2>1, OtherFields DEF s
  <2>. HIDE DEF t
  <2>. QED
    BY <2>1, <2>2, <2>3 DEF s, req
<1>10. CASE ~ MoreToDo(b)
  <2>. DEFINE s == WithBlock(b)
  <2>1. /\ IsDerivation(s) /\ s.request = req
        /\ s.derivedKeyBytes = [i \in 1 .. N |-> StandardBlock(req, i)]
    BY <1>6, <1>7, <1>10, WithBlockStep
  <2>. HIDE DEF s
  <2>2. StandardKey(req) = [i \in 1 .. N |-> StandardBlock(req, i)]
    BY DEF StandardKey, StandardBlock, N, hLen
  <2>3. Inner(r) = [s EXCEPT !.queued = FALSE]
    BY <1>8, <1>10 DEF s
  <2>4. Inner(r).request = req /\ Inner(r).queued = FALSE
        /\ Inner(r).derivedKeyBytes = s.derivedKeyBytes
    BY <2>1, <2>3 DEF IsDerivation
  <2>. QED
    BY <2>1, <2>2, <2>4 DEF req
<1>. QED
  BY <1>9, <1>10

(* prf.start and the first turn.                                           *)
LEMMA BegunStep ==
    ASSUME NEW req \in Accepted
    PROVE  LET s == Begun(req)
           IN  /\ s.request = req
               /\ \/ s.queued = TRUE /\ AtInner(s)
                  \/ s.queued = FALSE /\ s.derivedKeyBytes = StandardKey(req)
<1>. DEFINE kept == Fitting(Algorithm[req.object], req.password)
            r == [request |-> req, key |-> kept, message |-> digests[req.object],
                  index |-> 1, innerIndex |-> 2, xor |-> {}, previousU |-> <<>>,
                  derivedKeyBytes |-> <<>>, queued |-> TRUE]
            none == [i \in 1 .. 1 - 1 |-> StandardBlock(req, i)]
<1>1. Begun(req) = Inner(WithFirst(r))
  BY DEF Begun
<1>2. none = <<>>
  <2>1. 1 .. 1 - 1 = {}
    OBVIOUS
  <2>. QED
    BY <2>1
<1>. HIDE DEF kept, none
<1>3. /\ IsDerivation(r) /\ r.request = req /\ r.key = kept /\ r.index = 1
      /\ r.derivedKeyBytes = <<>>
  BY DEF IsDerivation
<1>. HIDE DEF r
<1>4. 1 \in 1 .. StandardCount(req)
  BY <1>3, CountIsStandard
<1>5. AtOuter(r)
  BY <1>2, <1>3, <1>4 DEF AtOuter, kept, none
<1>6. AtInner(WithFirst(r)) /\ WithFirst(r).request = req
  BY <1>3, <1>5, WithFirstStep
<1>. QED
  BY <1>1, <1>6, InnerStep

-----------------------------------------------------------------------------
(* The actions                                                             *)

(* Nothing runs at first.                                                  *)
LEMMA DerivationInvInit == DerivationInit => DerivationInv
<1>. SUFFICES ASSUME DerivationInit
              PROVE  DerivationInv
  OBVIOUS
<1>1. Idle.queued = FALSE
  BY DEF Idle
<1>2. DOMAIN run = Derivations /\ \A d \in Derivations : run[d] = Idle
  BY DEF DerivationInit
<1>3. \A d \in Derivations : run[d].queued = FALSE
  BY <1>1, <1>2
<1>4. KeyIsStandard
  BY DEF DerivationInit, KeyIsStandard
<1>. QED
  BY <1>2, <1>3, <1>4, Zenon DEF DerivationInv

(* A turn that ends in the middle of a block or with the standard's key.   *)
LEMMA AfterStep ==
    ASSUME DerivationInv, NEW d \in Derivations, NEW s, After(d, s), s.request \in Accepted,
           \/ s.queued = TRUE /\ AtInner(s)
           \/ s.queued = FALSE /\ s.derivedKeyBytes = StandardKey(s.request)
    PROVE  DerivationInv'
<1>1. run' = [run EXCEPT ![d] = IF s.queued THEN s ELSE Idle]
  BY DEF After
<1>2. DOMAIN run' = Derivations /\ \A e \in Derivations : e # d => run'[e] = run[e]
  BY <1>1 DEF DerivationInv
<1>3. CASE s.queued = TRUE
  <2>1. run'[d] = s /\ answer' = None
    BY <1>1, <1>3 DEF After, DerivationInv
  <2>. QED
    BY <1>2, <1>3, <2>1 DEF DerivationInv, KeyIsStandard
<1>4. CASE s.queued = FALSE
  <2>1. run'[d].queued = FALSE /\ answer' = [request |-> s.request, key |-> s.derivedKeyBytes]
    BY <1>1, <1>4 DEF After, DerivationInv, Idle
  <2>2. answer'.request = s.request /\ answer'.key = StandardKey(s.request)
        /\ ~ Refused(s.request)
    BY <1>4, <2>1 DEF Accepted
  <2>3. KeyIsStandard'
    BY <2>2 DEF KeyIsStandard
  <2>. QED
    BY <1>2, <2>1, <2>3 DEF DerivationInv
<1>. QED
  BY <1>3, <1>4

(* Each action keeps the invariant.                                        *)
LEMMA DerivationInvStep ==
    ASSUME DerivationInv, [DerivationNext]_derivationVars
    PROVE  DerivationInv'
<1>1. ASSUME NEW d \in Derivations, NEW req \in Requests, Derive(d, req)
      PROVE  DerivationInv'
  <2>1. req \in Accepted /\ After(d, Begun(req))
    BY <1>1 DEF Derive, Accepted
  <2>. QED
    BY <2>1, BegunStep, AfterStep
<1>2. ASSUME NEW d \in Derivations, NEW req \in Requests, Refuse(d, req)
      PROVE  DerivationInv'
  <2>1. KeyIsStandard'
    BY <1>2 DEF Refuse, KeyIsStandard
  <2>. QED
    BY <1>2, <2>1 DEF Refuse, DerivationInv
<1>3. ASSUME NEW d \in Derivations, Turn(d)
      PROVE  DerivationInv'
  <2>. DEFINE r == run[d]
              t == [r EXCEPT !.message = digests[r.request.object]]
  <2>1. AtInner(r) /\ After(d, Inner(t))
    BY <1>3 DEF Turn, DerivationInv
  <2>2. AtInner(t) /\ t.request = r.request
    BY <2>1, OtherFields
  <2>3. r.request \in Accepted
    BY <2>1 DEF AtInner, AtOuter
  <2>. HIDE DEF r, t
  <2>. QED
    BY <2>1, <2>2, <2>3, InnerStep, AfterStep
<1>4. ASSUME NEW o \in Objects, NEW m \in Uses, UseObject(o, m)
      PROVE  DerivationInv'
  BY <1>4 DEF UseObject, DerivationInv, KeyIsStandard
<1>5. CASE UNCHANGED derivationVars
  BY <1>5 DEF derivationVars, DerivationInv, KeyIsStandard
<1>. QED
  BY <1>1, <1>2, <1>3, <1>4, <1>5 DEF DerivationNext

-----------------------------------------------------------------------------
(* PBKDF2: the results                                                     *)

(* What a derivation has between two turns is what the standard has after  *)
(* as many hashes, in every order of turns of all of them.                 *)
THEOREM DerivationInvariant == DerivationSpec => []DerivationInv
  BY DerivationInvInit, DerivationInvStep, PTL DEF DerivationSpec

(* pbkdf2 calls back with the key of the standard, for any number of       *)
(* derivations and digest objects, any counts and any lengths.             *)
THEOREM KeysAreStandard == DerivationSpec => []KeyIsStandard
<1>1. DerivationInv => KeyIsStandard
  BY DEF DerivationInv
<1>. QED
  BY <1>1, DerivationInvariant, PTL

=============================================================================

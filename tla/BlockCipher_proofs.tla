------------------------- MODULE BlockCipher_proofs -------------------------
(***************************************************************************)
(* A block cipher puts out what the standard says of its message, however  *)
(* that is cut into pieces, and finish accepts what it should, for any     *)
(* cipher, size of blocks and messages.                                    *)
(***************************************************************************)
EXTENDS BlockCipher, SequenceTheorems, TLAPS

-----------------------------------------------------------------------------
(* Blocks and their bytes                                                  *)

LEMMA BlockIs == Block \in Nat \ {0}
  BY CipherAssumption

(* The byte that k blocks end with.                                        *)
At(k) == k * Block

LEMMA AtFacts ==
    /\ At(0) = 0
    /\ \A k \in Nat : At(k) \in Nat /\ At(k + 1) = At(k) + Block
    /\ \A j, k \in Nat : j =< k => At(j) =< At(k)
    /\ \A j, k \in Nat : j < k => At(j) + Block =< At(k)
<1>1. At(0) = 0 /\ \A k \in Nat : At(k) \in Nat /\ At(k + 1) = At(k) + Block
  BY BlockIs DEF At
<1>2. ASSUME NEW j \in Nat, NEW k \in Nat, j < k
      PROVE  At(j) + Block =< At(k)
  <2>1. (j + 1) * Block =< k * Block
    BY <1>2, BlockIs
  <2>. QED
    BY <1>1, <2>1 DEF At
<1>3. ASSUME NEW j \in Nat, NEW k \in Nat, j =< k
      PROVE  At(j) =< At(k)
  BY <1>1, <1>2, <1>3, BlockIs
<1>. QED
  BY <1>1, <1>2, <1>3

(* Every number is in one place of one block.                              *)
LEMMA PlaceIs ==
    ASSUME NEW k \in Nat, NEW j \in 1 .. Block
    PROVE  /\ ((At(k) + j) - 1) \div Block = k
           /\ ((At(k) + j) - 1) % Block = j - 1
<1>1. (At(k) + j) - 1 = (k * Block) + (j - 1) /\ j - 1 \in Nat /\ j - 1 < Block
  BY BlockIs DEF At
<1>. QED
  BY <1>1, QuotientIs, BlockIs

LEMMA PlaceOf ==
    ASSUME NEW i \in Nat \ {0}
    PROVE  \E k \in Nat, j \in 1 .. Block : i = At(k) + j
<1>. DEFINE k == (i - 1) \div Block
            r == (i - 1) % Block
<1>1. k \in Nat /\ r \in Nat /\ r < Block /\ i - 1 = (k * Block) + r
  BY BlockIs, QuotientOf
<1>. HIDE DEF k, r
<1>2. r + 1 \in 1 .. Block /\ i = At(k) + (r + 1)
  BY <1>1, BlockIs DEF At
<1>. QED
  BY <1>1, <1>2

(* The blocks of a number of bytes, the last perhaps not whole.            *)
LEMMA CountIs ==
    ASSUME NEW m \in Seq(Byte)
    PROVE  /\ Count(m) \in Nat
           /\ \A k \in Nat : At(k) < Len(m) <=> k + 1 =< Count(m)
<1>. DEFINE n == Len(m)
            q == ((n + Block) - 1) \div Block
            r == ((n + Block) - 1) % Block
<1>1. q \in Nat /\ r \in Nat /\ r < Block /\ (n + Block) - 1 = At(q) + r /\ Count(m) = q
  BY BlockIs, QuotientOf DEF Count, At
<1>. HIDE DEF q, r, n
<1>2. ASSUME NEW k \in Nat
      PROVE  At(k) < n <=> k + 1 =< q
  <2>0. n \in Nat /\ At(k) \in Nat /\ At(q) \in Nat
    <3>1. n \in Nat
      BY DEF n
    <3>. QED
      BY <1>1, <3>1, AtFacts
  <2>1. CASE k + 1 =< q
    <3>1. At(k) + Block =< At(q)
      BY <1>1, <2>1, AtFacts
    <3>. QED
      BY <1>1, <2>0, <2>1, <3>1, BlockIs
  <2>2. CASE ~(k + 1 =< q)
    <3>1. At(q) =< At(k)
      BY <1>1, <2>2, AtFacts
    <3>. QED
      BY <1>1, <2>0, <2>2, <3>1, BlockIs
  <2>. QED
    BY <2>1, <2>2
<1>. QED
  BY <1>1, <1>2 DEF n

-----------------------------------------------------------------------------
(* Sequences of bytes                                                      *)

LEMMA DropIs ==
    ASSUME NEW m \in Seq(Byte), NEW n \in 0 .. Len(m)
    PROVE  /\ Drop(m, n) \in Seq(Byte) /\ Len(Drop(m, n)) = Len(m) - n
           /\ \A i \in 1 .. Len(m) - n : Drop(m, n)[i] = m[n + i]
  BY DEF Drop

(* Dropping goes on where it was.                                          *)
LEMMA DropDrop ==
    ASSUME NEW m \in Seq(Byte), NEW n \in 0 .. Len(m), NEW k \in 0 .. Len(m) - n
    PROVE  Drop(Drop(m, n), k) = Drop(m, n + k)
<1>1. Drop(m, n) \in Seq(Byte) /\ Len(Drop(m, n)) = Len(m) - n /\ n + k \in 0 .. Len(m)
  BY DropIs
<1>. DEFINE a == Drop(Drop(m, n), k)
            b == Drop(m, n + k)
<1>2. a \in Seq(Byte) /\ Len(a) = (Len(m) - n) - k
      /\ \A i \in 1 .. (Len(m) - n) - k : a[i] = Drop(m, n)[k + i]
  BY <1>1, DropIs
<1>3. b \in Seq(Byte) /\ Len(b) = Len(m) - (n + k)
      /\ \A i \in 1 .. Len(m) - (n + k) : b[i] = m[(n + k) + i]
  BY <1>1, DropIs
<1>4. ASSUME NEW i \in 1 .. (Len(m) - n) - k
      PROVE  a[i] = b[i]
  <2>1. k + i \in 1 .. Len(m) - n /\ n + (k + i) = (n + k) + i
    OBVIOUS
  <2>. QED
    BY <1>2, <1>3, <2>1, DropIs
<1>. HIDE DEF a, b
<1>5. Len(a) = Len(b) /\ Len(a) = (Len(m) - n) - k
  BY <1>2, <1>3
<1>6. a = b
  BY <1>2, <1>3, <1>4, <1>5, SeqEqual
<1>. QED
  BY <1>6 DEF a, b

(* What is appended is not dropped.                                        *)
LEMMA DropAppended ==
    ASSUME NEW m \in Seq(Byte), NEW t \in Seq(Byte), NEW n \in 0 .. Len(m)
    PROVE  Drop(m \o t, n) = Drop(m, n) \o t
<1>. DEFINE a == Drop(m \o t, n)
            d == Drop(m, n)
            b == d \o t
<1>1. m \o t \in Seq(Byte) /\ Len(m \o t) = Len(m) + Len(t) /\ n \in 0 .. Len(m \o t)
      /\ \A i \in 1 .. Len(m) + Len(t) :
            (m \o t)[i] = IF i =< Len(m) THEN m[i] ELSE t[i - Len(m)]
  OBVIOUS
<1>2. a \in Seq(Byte) /\ Len(a) = (Len(m) + Len(t)) - n
      /\ \A i \in 1 .. (Len(m) + Len(t)) - n : a[i] = (m \o t)[n + i]
  BY <1>1, DropIs, ZenonT(60)
<1>3. d \in Seq(Byte) /\ Len(d) = Len(m) - n
  BY DropIs
<1>. HIDE DEF d
<1>4. b \in Seq(Byte) /\ Len(b) = (Len(m) - n) + Len(t)
      /\ \A i \in 1 .. (Len(m) - n) + Len(t) :
            b[i] = IF i =< Len(m) - n THEN d[i] ELSE t[i - (Len(m) - n)]
  BY <1>3, SMTT(60)
<1>5. ASSUME NEW i \in 1 .. (Len(m) - n) + Len(t)
      PROVE  a[i] = b[i]
  <2>1. i \in 1 .. (Len(m) + Len(t)) - n /\ n + i \in 1 .. Len(m) + Len(t)
        /\ (n + i =< Len(m) <=> i =< Len(m) - n)
        /\ (n + i) - Len(m) = i - (Len(m) - n)
        /\ (i =< Len(m) - n => i \in 1 .. Len(m) - n)
    OBVIOUS
  <2>. QED
    BY <1>1, <1>2, <1>4, <2>1, DropIs DEF d
<1>. HIDE DEF a, b
<1>6. Len(a) = Len(b) /\ Len(a) = (Len(m) - n) + Len(t)
  BY <1>2, <1>4
<1>7. a = b
  BY <1>2, <1>4, <1>5, <1>6, SeqEqual
<1>. QED
  BY <1>7 DEF a, b, d

-----------------------------------------------------------------------------
(* Blocks                                                                  *)

LEMMA XorType ==
    /\ \A x, y \in Byte : XorByte(x, y) \in Byte
    /\ \A a, b \in Blocks : a ^^ b \in Blocks
<1>1. \A x, y \in Byte : XorByte(x, y) \in Byte
  BY DEF XorByte, Byte
<1>2. ASSUME NEW a \in Blocks, NEW b \in Blocks
      PROVE  a ^^ b \in Blocks
  <2>1. \A i \in 1 .. Block : XorByte(a[i], b[i]) \in Byte
    BY <1>1 DEF Blocks
  <2>. QED
    BY <2>1 DEF Blocks, ^^
<1>. QED
  BY <1>1, <1>2

(* Blocks are their bytes.                                                 *)
LEMMA BlocksEqual ==
    ASSUME NEW a \in Blocks, NEW b \in Blocks, \A j \in 1 .. Block : a[j] = b[j]
    PROVE  a = b
<1>1. a = [j \in 1 .. Block |-> a[j]] /\ b = [j \in 1 .. Block |-> b[j]]
  BY DEF Blocks
<1>2. [j \in 1 .. Block |-> a[j]] = [j \in 1 .. Block |-> b[j]]
  OBVIOUS
<1>. QED
  BY <1>1, <1>2

LEMMA CipherType ==
    \A b \in Blocks : Cipher[b] \in Blocks /\ Decipher[b] \in Blocks /\ TimesH[b] \in Blocks
  BY CipherAssumption

LEMMA BlockOfType ==
    ASSUME NEW m \in Seq(Byte)
    PROVE  BlockOf(m) \in Blocks
<1>1. \A i \in 1 .. Block : (IF i =< Len(m) THEN m[i] ELSE 0) \in Byte
  BY BlockIs DEF Byte
<1>. QED
  BY <1>1 DEF BlockOf, Blocks

LEMMA ZerosType == Zeros \in Blocks /\ <<>> \in Seq(Byte) /\ Len(<<>>) = 0
  BY DEF Zeros, Blocks, Byte

(* A block of a message, after k others.                                   *)
LEMMA NthIs ==
    ASSUME NEW m \in Seq(Byte), NEW k \in Nat, At(k) =< Len(m)
    PROVE  /\ Nth(m, k + 1) = BlockOf(Drop(m, At(k))) /\ Nth(m, k + 1) \in Blocks
           /\ \A j \in 1 .. Block :
                Nth(m, k + 1)[j] = IF At(k) + j =< Len(m) THEN m[At(k) + j] ELSE 0
<1>. DEFINE a == At(k)
            d == Drop(m, a)
<1>1. a \in 0 .. Len(m)
  BY AtFacts
<1>2. Nth(m, k + 1) = BlockOf(d)
  <2>1. (k + 1) - 1 = k
    OBVIOUS
  <2>. QED
    BY <2>1 DEF Nth, At
<1>. HIDE DEF a
<1>3. d \in Seq(Byte) /\ Len(d) = Len(m) - a /\ \A i \in 1 .. Len(m) - a : d[i] = m[a + i]
  BY <1>1, DropIs
<1>. HIDE DEF d
<1>4. ASSUME NEW j \in 1 .. Block
      PROVE  BlockOf(d)[j] = IF a + j =< Len(m) THEN m[a + j] ELSE 0
  <2>1. (j =< Len(d) <=> a + j =< Len(m)) /\ (j =< Len(d) => j \in 1 .. Len(m) - a)
    BY <1>1, <1>3, BlockIs
  <2>2. BlockOf(d)[j] = IF j =< Len(d) THEN d[j] ELSE 0
    BY DEF BlockOf
  <2>. QED
    BY <1>3, <2>1, <2>2
<1>5. BlockOf(d) \in Blocks
  BY <1>3, BlockOfType
<1>. QED
  BY <1>2, <1>4, <1>5 DEF a, d

(* Blocks are the same when the message goes on, in the bytes that there   *)
(* were.                                                                   *)
LEMMA NthGoesOn ==
    ASSUME NEW m \in Seq(Byte), NEW t \in Seq(Byte), NEW k \in Nat, At(k) =< Len(m)
    PROVE  /\ \A j \in 1 .. Block :
                At(k) + j =< Len(m) => Nth(m \o t, k + 1)[j] = Nth(m, k + 1)[j]
           /\ At(k + 1) =< Len(m) => Nth(m \o t, k + 1) = Nth(m, k + 1)
<1>1. m \o t \in Seq(Byte) /\ Len(m \o t) = Len(m) + Len(t)
      /\ \A i \in 1 .. Len(m) : (m \o t)[i] = m[i]
  OBVIOUS
<1>2. At(k) \in Nat /\ At(k + 1) = At(k) + Block /\ At(k) =< Len(m \o t)
  BY <1>1, AtFacts
<1>. DEFINE a == Nth(m \o t, k + 1)
            b == Nth(m, k + 1)
<1>3. ASSUME NEW j \in 1 .. Block, At(k) + j =< Len(m)
      PROVE  a[j] = b[j]
  <2>1. At(k) + j \in 1 .. Len(m) /\ At(k) + j =< Len(m \o t)
    BY <1>1, <1>2, <1>3, BlockIs
  <2>2. a[j] = (m \o t)[At(k) + j]
    BY <1>1, <1>2, <2>1, NthIs
  <2>3. b[j] = m[At(k) + j]
    BY <1>3, NthIs
  <2>. QED
    BY <1>1, <2>1, <2>2, <2>3
<1>4. a \in Blocks /\ b \in Blocks
  BY <1>1, <1>2, NthIs
<1>. HIDE DEF a, b
<1>5. ASSUME At(k + 1) =< Len(m)
      PROVE  a = b
  <2>1. \A j \in 1 .. Block : At(k) + j =< Len(m)
    BY <1>2, <1>5, BlockIs
  <2>. QED
    BY <1>3, <1>4, <2>1, BlocksEqual
<1>. QED
  BY <1>3, <1>5 DEF a, b

-----------------------------------------------------------------------------
(* What is chained                                                         *)

(* From one block to the next.                                             *)
Link(md, dec, before, in) ==
    CASE md = "OFB" -> Cipher[before]
      [] md = "CBC" /\ ~dec -> Cipher[in ^^ before]
      [] md = "CFB" /\ ~dec -> in ^^ Cipher[before]
      [] OTHER -> in

LEMMA ChainFollows ==
    ASSUME NEW md, NEW dec, NEW iv, NEW m \in Seq(Byte)
    PROVE  LET c == Chained(md, dec, iv, m)
           IN  /\ c[0] = iv
               /\ \A k \in Nat : At(k) < Len(m) => c[k + 1] = Link(md, dec, c[k], Nth(m, k + 1))
<1>. DEFINE N == Count(m)
            M(before, k) == Link(md, dec, before, Nth(m, k))
            Is(g, n) == g = [k \in 0 .. n |-> IF k = 0 THEN iv ELSE M(g[k - 1], k)]
            S == {n \in Nat : \E g : Is(g, n)}
<1>1. Chained(md, dec, iv, m) = CHOOSE g : Is(g, N)
  BY DEF Chained, Link
<1>2. N \in Nat /\ \A k \in Nat : At(k) < Len(m) <=> k + 1 =< N
  BY CountIs
<1>. HIDE DEF M, N
<1>3. 0 \in S
  <2>. DEFINE g == [k \in 0 .. 0 |-> iv]
  <2>1. Is(g, 0)
    OBVIOUS
  <2>. HIDE DEF Is
  <2>. QED
    BY <2>1
<1>4. ASSUME NEW n \in Nat, n \in S
      PROVE  n + 1 \in S
  <2>1. PICK g : Is(g, n)
    BY <1>4
  <2>. DEFINE h == [k \in 0 .. n + 1 |-> IF k = n + 1 THEN M(g[n], n + 1) ELSE g[k]]
  <2>2. ASSUME NEW k \in 0 .. n + 1
        PROVE  h[k] = IF k = 0 THEN iv ELSE M(h[k - 1], k)
    <3>1. CASE k = n + 1
      <4>1. k - 1 = n /\ n \in 0 .. n + 1 /\ n # n + 1 /\ k # 0
        BY <3>1
      <4>. QED
        BY <3>1, <4>1
    <3>2. CASE k # n + 1
      <4>1. k \in 0 .. n /\ (k # 0 => k - 1 \in 0 .. n /\ k - 1 \in 0 .. n + 1 /\ k - 1 # n + 1)
        BY <3>2
      <4>2. g[k] = IF k = 0 THEN iv ELSE M(g[k - 1], k)
        BY <2>1, <4>1
      <4>3. h[k] = g[k] /\ (k # 0 => h[k - 1] = g[k - 1])
        BY <4>1, <3>2
      <4>. QED
        BY <4>2, <4>3
    <3>. QED
      BY <3>1, <3>2
  <2>3. h = [k \in 0 .. n + 1 |-> h[k]]
    OBVIOUS
  <2>. HIDE DEF h
  <2>4. Is(h, n + 1)
    BY <2>2, <2>3
  <2>. HIDE DEF Is
  <2>. QED
    BY <2>4
<1>5. \E g : Is(g, N)
  <2>1. Nat \subseteq S
    <3>. HIDE DEF S
    <3>. QED
      BY <1>3, <1>4, Induction
  <2>. HIDE DEF Is
  <2>. QED
    BY <1>2, <2>1
<1>. DEFINE c == Chained(md, dec, iv, m)
<1>6. Is(c, N)
  <2>. HIDE DEF Is
  <2>. QED
    BY <1>1, <1>5
<1>. HIDE DEF c
<1>7. c[0] = iv
  BY <1>2, <1>6
<1>8. ASSUME NEW k \in Nat, At(k) < Len(m)
      PROVE  c[k + 1] = M(c[k], k + 1)
  <2>1. k + 1 \in 0 .. N /\ k + 1 # 0 /\ (k + 1) - 1 = k
    BY <1>2, <1>8
  <2>. QED
    BY <1>6, <2>1
<1>. QED
  BY <1>7, <1>8 DEF c, M

LEMMA LinkType ==
    ASSUME NEW md, NEW dec, NEW before \in Blocks, NEW in \in Blocks
    PROVE  Link(md, dec, before, in) \in Blocks
<1>1. Cipher[before] \in Blocks /\ in ^^ before \in Blocks /\ Cipher[in ^^ before] \in Blocks
      /\ in ^^ Cipher[before] \in Blocks
  BY XorType, CipherType
<1>. QED
  BY <1>1 DEF Link

(* Blocks are chained, and those of a message that goes on are the same.   *)
LEMMA ChainGoesOn ==
    ASSUME NEW md, NEW dec, NEW iv \in Blocks, NEW m \in Seq(Byte), NEW t \in Seq(Byte)
    PROVE  \A k \in Nat : At(k) =< Len(m) =>
                /\ Chained(md, dec, iv, m)[k] \in Blocks
                /\ Chained(md, dec, iv, m \o t)[k] = Chained(md, dec, iv, m)[k]
<1>1. m \o t \in Seq(Byte) /\ Len(m \o t) = Len(m) + Len(t)
  OBVIOUS
<1>. DEFINE c == Chained(md, dec, iv, m)
            e == Chained(md, dec, iv, m \o t)
            S == {k \in Nat : At(k) =< Len(m) => c[k] \in Blocks /\ e[k] = c[k]}
<1>2. /\ c[0] = iv
      /\ \A k \in Nat : At(k) < Len(m) => c[k + 1] = Link(md, dec, c[k], Nth(m, k + 1))
  BY ChainFollows
<1>3. /\ e[0] = iv
      /\ \A k \in Nat : At(k) < Len(m \o t) =>
            e[k + 1] = Link(md, dec, e[k], Nth(m \o t, k + 1))
  <2>. DEFINE mt == m \o t
  <2>1. mt \in Seq(Byte)
    BY <1>1
  <2>. HIDE DEF mt
  <2>2. LET c2 == Chained(md, dec, iv, mt)
        IN  /\ c2[0] = iv
            /\ \A k \in Nat : At(k) < Len(mt) => c2[k + 1] = Link(md, dec, c2[k], Nth(mt, k + 1))
    BY <2>1, ChainFollows
  <2>. QED
    BY <2>2 DEF mt
<1>. HIDE DEF c, e
<1>4. 0 \in S
  BY <1>2, <1>3
<1>5. ASSUME NEW k \in Nat, k \in S
      PROVE  k + 1 \in S
  <2>. SUFFICES ASSUME At(k + 1) =< Len(m)
                PROVE  c[k + 1] \in Blocks /\ e[k + 1] = c[k + 1]
    OBVIOUS
  <2>a. Len(m) \in Nat /\ Len(t) \in Nat
    OBVIOUS
  <2>0. At(k) \in Nat /\ At(k + 1) = At(k) + Block /\ Len(m) \in Nat /\ Len(t) \in Nat
    BY <2>a, AtFacts
  <2>1. At(k) < Len(m) /\ At(k) =< Len(m) /\ At(k) < Len(m \o t)
    BY <1>1, <2>0, BlockIs
  <2>2. c[k] \in Blocks /\ e[k] = c[k]
    BY <1>5, <2>1
  <2>3. c[k + 1] = Link(md, dec, c[k], Nth(m, k + 1))
        /\ e[k + 1] = Link(md, dec, e[k], Nth(m \o t, k + 1))
    BY <1>2, <1>3, <2>1
  <2>4. Nth(m \o t, k + 1) = Nth(m, k + 1)
    BY <2>1, NthGoesOn
  <2>5. Nth(m, k + 1) \in Blocks
    BY <2>1, NthIs
  <2>. QED
    BY <2>2, <2>3, <2>4, <2>5, LinkType
<1>6. Nat \subseteq S
  <2>. HIDE DEF S
  <2>. QED
    BY <1>4, <1>5, Induction
<1>. QED
  BY <1>6 DEF c, e

-----------------------------------------------------------------------------
(* Counters                                                                *)

LEMMA DigitsOf ==
    ASSUME NEW x \in Nat
    PROVE  /\ x \div 4 \in Nat /\ x % 4 \in Byte
           /\ (x % 4 = 3 => (x + 1) \div 4 = (x \div 4) + 1)
           /\ (x % 4 # 3 => (x + 1) \div 4 = x \div 4)
           /\ (x + 1) % 4 = ((x % 4) + 1) % 4
  BY DEF Byte

LEMMA PowersOfFour ==
    /\ PowersOf(4)[0] = 1
    /\ \A k \in Nat : PowersOf(4)[k] \in Nat \ {0} /\ PowersOf(4)[k + 1] = 4 * PowersOf(4)[k]
  BY PowersType, PowersPositive

(* Digit by digit.                                                         *)
LEMMA ShiftedDown ==
    ASSUME NEW x \in Nat, NEW p \in Nat
    PROVE  /\ x \div PowersOf(4)[0] = x
           /\ x \div PowersOf(4)[p] \in Nat
           /\ x \div PowersOf(4)[p + 1] = (x \div PowersOf(4)[p]) \div 4
           /\ x \div PowersOf(4)[p + 1] = (x \div 4) \div PowersOf(4)[p]
<1>. DEFINE b == PowersOf(4)[p]
<1>. DEFINE four == 4
<1>1. b \in Nat \ {0} /\ four \in Nat \ {0}
      /\ PowersOf(4)[p + 1] = four * b /\ PowersOf(4)[0] = 1
  BY PowersOfFour
<1>. HIDE DEF b, four
<1>2. x \div b \in Nat
  BY <1>1, QuotientOf
<1>3. x \div (four * b) = (x \div b) \div four
  BY <1>1, QuotientOfQuotient
<1>4. x \div (b * four) = (x \div four) \div b
  BY <1>1, QuotientOfQuotient
<1>5. x \div 1 = x /\ b * four = four * b
  BY <1>1
<1>. QED
  BY <1>1, <1>2, <1>3, <1>4, <1>5 DEF b, four

(* Adding 1 changes a digit if all those below it are 3.                   *)
LEMMA AddedOne ==
    ASSUME NEW x \in Nat
    PROVE  \A p \in Nat :
             (x + 1) \div PowersOf(4)[p] =
                IF \A l \in 0 .. p - 1 : (x \div PowersOf(4)[l]) % 4 = 3
                THEN (x \div PowersOf(4)[p]) + 1 ELSE x \div PowersOf(4)[p]
<1>. DEFINE Q(p) == x \div PowersOf(4)[p]
            R(p) == (x + 1) \div PowersOf(4)[p]
            Full(p) == \A l \in 0 .. p - 1 : Q(l) % 4 = 3
            S == {p \in Nat : R(p) = IF Full(p) THEN Q(p) + 1 ELSE Q(p)}
<1>1. /\ Q(0) = x /\ R(0) = x + 1
      /\ \A p \in Nat : Q(p) \in Nat /\ Q(p + 1) = Q(p) \div 4 /\ R(p + 1) = R(p) \div 4
  <2>. DEFINE y == x + 1
  <2>1. y \in Nat
    OBVIOUS
  <2>. HIDE DEF y
  <2>2. /\ x \div PowersOf(4)[0] = x /\ y \div PowersOf(4)[0] = y
        /\ \A p \in Nat : x \div PowersOf(4)[p] \in Nat
        /\ \A p \in Nat : x \div PowersOf(4)[p + 1] = (x \div PowersOf(4)[p]) \div 4
        /\ \A p \in Nat : y \div PowersOf(4)[p + 1] = (y \div PowersOf(4)[p]) \div 4
    BY <2>1, ShiftedDown
  <2>. QED
    BY <2>2 DEF y
<1>. HIDE DEF Q, R
<1>2. 0 \in S
  BY <1>1
<1>3. ASSUME NEW p \in Nat, p \in S
      PROVE  p + 1 \in S
  <2>1. Full(p + 1) <=> Full(p) /\ Q(p) % 4 = 3
    <3>1. 0 .. (p + 1) - 1 = (0 .. p - 1) \cup {p}
      OBVIOUS
    <3>. QED
      BY <3>1
  <2>2. Q(p) \in Nat /\ Q(p + 1) = Q(p) \div 4 /\ R(p + 1) = R(p) \div 4
    BY <1>1
  <2>3. R(p) = IF Full(p) THEN Q(p) + 1 ELSE Q(p)
    BY <1>3
  <2>. HIDE DEF Full
  <2>4. CASE Full(p)
    BY <2>1, <2>2, <2>3, <2>4, DigitsOf
  <2>5. CASE ~Full(p)
    BY <2>1, <2>2, <2>3, <2>5
  <2>. QED
    BY <2>4, <2>5
<1>4. Nat \subseteq S
  <2>. HIDE DEF S
  <2>. QED
    BY <1>2, <1>3, Induction
<1>. QED
  BY <1>4 DEF Q, R

(* A number gives its digits back.                                         *)
LEMMA NumberIs ==
    ASSUME NEW b \in Blocks
    PROVE  /\ Number(b) \in Nat
           /\ \A j \in 1 .. Block :
                j > Block - CounterBytes => (Number(b) \div PowersOf(4)[Block - j]) % 4 = b[j]
<1>. DEFINE F == Block - CounterBytes
            M(x, i) == IF i =< F THEN 0 ELSE (4 * x) + b[i]
            Is(g, n) == g = [i \in 0 .. n |-> M(g[i - 1], i)]
            E == {n \in Nat : \E g : Is(g, n)}
<1>1. Number(b) = (CHOOSE g : Is(g, Block))[Block]
  BY DEF Number
<1>2. Block \in Nat /\ F \in Nat /\ F < Block
  BY CipherAssumption
<1>3. \A i \in 1 .. Block : b[i] \in Byte
  BY DEF Blocks
<1>. HIDE DEF F
<1>4. 0 \in E
  <2>. DEFINE g == [i \in 0 .. 0 |-> 0]
  <2>1. Is(g, 0)
    BY <1>2
  <2>. HIDE DEF Is
  <2>. QED
    BY <2>1
<1>5. ASSUME NEW n \in Nat, n \in E
      PROVE  n + 1 \in E
  <2>1. PICK g : Is(g, n)
    BY <1>5
  <2>. HIDE DEF M
  <2>. DEFINE h == [i \in 0 .. n + 1 |-> IF i = n + 1 THEN M(g[n], n + 1) ELSE g[i]]
  <2>2. ASSUME NEW i \in 0 .. n + 1
        PROVE  h[i] = M(h[i - 1], i)
    <3>1. CASE i = n + 1
      <4>1. i - 1 = n /\ n \in 0 .. n + 1 /\ n # n + 1
        BY <3>1
      <4>. QED
        BY <3>1, <4>1
    <3>2. CASE i # n + 1 /\ i # 0
      <4>1. i \in 0 .. n /\ i - 1 \in 0 .. n + 1 /\ i - 1 # n + 1
        BY <3>2
      <4>2. g[i] = M(g[i - 1], i)
        BY <2>1, <4>1
      <4>3. h[i] = g[i] /\ h[i - 1] = g[i - 1]
        BY <4>1, <3>2
      <4>. QED
        BY <4>2, <4>3
    <3>3. CASE i = 0
      <4>1. h[0] = g[0] /\ 0 \in 0 .. n
        OBVIOUS
      <4>2. g[0] = M(g[0 - 1], 0)
        BY <2>1, <4>1
      <4>3. \A x : M(x, 0) = 0
        BY <1>2 DEF M
      <4>. QED
        BY <3>3, <4>1, <4>2, <4>3
    <3>. QED
      BY <3>1, <3>2, <3>3
  <2>3. h = [i \in 0 .. n + 1 |-> h[i]]
    OBVIOUS
  <2>. HIDE DEF h
  <2>4. Is(h, n + 1)
    BY <2>2, <2>3
  <2>. HIDE DEF Is
  <2>. QED
    BY <2>4
<1>6. \E g : Is(g, Block)
  <2>1. Nat \subseteq E
    <3>. HIDE DEF E
    <3>. QED
      BY <1>4, <1>5, Induction
  <2>. HIDE DEF Is
  <2>. QED
    BY <1>2, <2>1
<1>. DEFINE g == CHOOSE g : Is(g, Block)
<1>7. Is(g, Block)
  <2>. HIDE DEF Is
  <2>. QED
    BY <1>6
<1>8. Number(b) = g[Block]
  BY <1>1
<1>. HIDE DEF g
<1>9. \A i \in 0 .. Block : g[i] = IF i =< F THEN 0 ELSE (4 * g[i - 1]) + b[i]
  BY <1>7
<1>. HIDE DEF Is, M
<1>. DEFINE Digits(i) == \A j \in F + 1 .. i : (g[i] \div PowersOf(4)[i - j]) % 4 = b[j]
            S == {i \in Nat : i =< Block => g[i] \in Nat /\ Digits(i)}
<1>10. 0 \in S
  BY <1>2, <1>9
<1>11. ASSUME NEW i \in Nat, i \in S
       PROVE  i + 1 \in S
  <2>. SUFFICES ASSUME i + 1 =< Block
                PROVE  g[i + 1] \in Nat /\ Digits(i + 1)
    OBVIOUS
  <2>1. i \in 0 .. Block /\ i + 1 \in 0 .. Block /\ (i + 1) - 1 = i /\ i + 1 \in 1 .. Block
    BY <1>2
  <2>2. g[i] \in Nat /\ Digits(i)
    BY <1>11, <2>1
  <2>3. CASE i + 1 =< F
    <3>1. g[i + 1] = 0
      BY <1>9, <2>1, <2>3
    <3>. QED
      BY <1>2, <2>3, <3>1
  <2>4. CASE ~(i + 1 =< F)
    <3>. DEFINE x == g[i]
                d == b[i + 1]
                y == g[i + 1]
    <3>1. y = (4 * x) + d
      BY <1>9, <2>1, <2>4
    <3>2. x \in Nat /\ d \in 0 .. 3
      BY <1>3, <2>1, <2>2 DEF Byte
    <3>. HIDE DEF x, d, y
    <3>3. y \in Nat /\ y \div 4 = x /\ y % 4 = d
      BY <3>1, <3>2
    <3>4. ASSUME NEW j \in F + 1 .. i + 1
          PROVE  (y \div PowersOf(4)[(i + 1) - j]) % 4 = b[j]
      <4>1. CASE j = i + 1
        <5>1. (i + 1) - j = 0
          BY <4>1
        <5>2. y \div PowersOf(4)[0] = y
          BY <3>3, ShiftedDown
        <5>. QED
          BY <3>3, <4>1, <5>1, <5>2 DEF d
      <4>2. CASE j # i + 1
        <5>1. j \in F + 1 .. i /\ i - j \in Nat /\ (i + 1) - j = (i - j) + 1
          BY <1>2, <4>2
        <5>2. y \div PowersOf(4)[(i - j) + 1] = (y \div 4) \div PowersOf(4)[i - j]
          BY <3>3, <5>1, ShiftedDown
        <5>3. (x \div PowersOf(4)[i - j]) % 4 = b[j]
          BY <2>2, <5>1 DEF x
        <5>. QED
          BY <3>3, <5>1, <5>2, <5>3
      <4>. QED
        BY <4>1, <4>2
    <3>. QED
      BY <3>3, <3>4 DEF y
  <2>. QED
    BY <2>3, <2>4
<1>12. g[Block] \in Nat /\ Digits(Block)
  <2>1. Nat \subseteq S
    <3>. HIDE DEF S
    <3>. QED
      BY <1>10, <1>11, Induction
  <2>. QED
    BY <1>2, <2>1
<1>. QED
  <2>. SUFFICES ASSUME NEW j \in 1 .. Block, j > F
                PROVE  g[Block] \in Nat /\ (g[Block] \div PowersOf(4)[Block - j]) % 4 = b[j]
    BY <1>8, <1>12 DEF F
  <2>1. j \in F + 1 .. Block
    BY <1>2
  <2>. QED
    BY <1>12, <2>1

(* The first counter is the vector, and inc32 gives the next one.          *)
LEMMA CounterGoesOn ==
    ASSUME NEW iv \in Blocks, NEW k \in Nat
    PROVE  /\ Counter(iv, k) \in Blocks
           /\ Counter(iv, 0) = iv
           /\ inc32(Counter(iv, k)) = Counter(iv, k + 1)
<1>. DEFINE F == Block - CounterBytes
            x == Number(iv)
            D(n, i) == ((x + n) \div PowersOf(4)[Block - i]) % 4
<1>1. x \in Nat /\ \A j \in 1 .. Block : j > F => (x \div PowersOf(4)[Block - j]) % 4 = iv[j]
  BY NumberIs
<1>2. Block \in Nat /\ F \in Nat /\ F < Block
  BY CipherAssumption
<1>. HIDE DEF x, F
<1>3. \A n \in Nat : \A i \in 1 .. Block : D(n, i) \in Byte
  <2>. SUFFICES ASSUME NEW n \in Nat, NEW i \in 1 .. Block
                PROVE  D(n, i) \in Byte
    OBVIOUS
  <2>1. x + n \in Nat /\ Block - i \in Nat
    BY <1>1, <1>2
  <2>. QED
    BY <2>1, ShiftedDown, DigitsOf
<1>4. \A n \in Nat : Counter(iv, n) = [i \in 1 .. Block |-> IF i =< F THEN iv[i] ELSE D(n, i)]
  BY DEF Counter, x, F
<1>5. \A n \in Nat : Counter(iv, n) \in Blocks
  <2>. SUFFICES ASSUME NEW n \in Nat
                PROVE  Counter(iv, n) \in Blocks
    OBVIOUS
  <2>1. \A i \in 1 .. Block : (IF i =< F THEN iv[i] ELSE D(n, i)) \in Byte
    BY <1>3 DEF Blocks
  <2>. HIDE DEF D
  <2>. QED
    BY <1>4, <2>1 DEF Blocks
<1>6. Counter(iv, 0) = iv
  <2>1. ASSUME NEW i \in 1 .. Block
        PROVE  Counter(iv, 0)[i] = iv[i]
    <3>1. Counter(iv, 0)[i] = IF i =< F THEN iv[i] ELSE D(0, i)
      BY <1>4
    <3>2. i > F => D(0, i) = iv[i]
      BY <1>1
    <3>. QED
      BY <1>2, <3>1, <3>2
  <2>. QED
    BY <1>5, <2>1, BlocksEqual
<1>7. inc32(Counter(iv, k)) = Counter(iv, k + 1)
  <2>. DEFINE c == Counter(iv, k)
              e == Counter(iv, k + 1)
  <2>1. \A i \in 1 .. Block : /\ c[i] = IF i =< F THEN iv[i] ELSE D(k, i)
                              /\ e[i] = IF i =< F THEN iv[i] ELSE D(k + 1, i)
    <3>. HIDE DEF D
    <3>1. k + 1 \in Nat
      OBVIOUS
    <3>. QED
      BY <1>4, <3>1
  <2>2. c \in Blocks /\ e \in Blocks
    BY <1>5
  <2>. HIDE DEF c, e
  <2>3. inc32(c) = [i \in 1 .. Block |-> IF i > F /\ Carry(c, i) THEN (c[i] + 1) % 4 ELSE c[i]]
    BY DEF inc32, F
  <2>4. ASSUME NEW i \in 1 .. Block, i > F
        PROVE  e[i] = IF Carry(c, i) THEN (c[i] + 1) % 4 ELSE c[i]
    <3>. DEFINE p == Block - i
                Q(l) == (x + k) \div PowersOf(4)[l]
    <3>1. x + k \in Nat /\ p \in Nat /\ (x + k) + 1 = x + (k + 1)
      BY <1>1, <1>2
    <3>2. ((x + k) + 1) \div PowersOf(4)[p] = IF \A l \in 0 .. p - 1 : Q(l) % 4 = 3
                                              THEN Q(p) + 1 ELSE Q(p)
      BY <3>1, AddedOne
    <3>3. Carry(c, i) <=> \A l \in 0 .. p - 1 : Q(l) % 4 = 3
      <4>1. ASSUME NEW j \in i + 1 .. Block
            PROVE  c[j] = Q(Block - j) % 4 /\ Block - j \in 0 .. p - 1
        BY <1>2, <2>1, <2>4
      <4>2. ASSUME NEW l \in 0 .. p - 1
            PROVE  Block - l \in i + 1 .. Block /\ Block - (Block - l) = l
        BY <1>2
      <4>. HIDE DEF Q, p
      <4>. QED
        BY <4>1, <4>2 DEF Carry
    <3>4. c[i] = Q(p) % 4 /\ Q(p) \in Nat
      <4>1. c[i] = Q(p) % 4
        BY <1>2, <2>1, <2>4
      <4>. QED
        BY <3>1, <4>1, ShiftedDown
    <3>5. e[i] = (((x + k) + 1) \div PowersOf(4)[p]) % 4
      BY <1>2, <2>1, <2>4, <3>1
    <3>. HIDE DEF Q, p
    <3>6. (Q(p) + 1) % 4 = ((Q(p) % 4) + 1) % 4
      BY <3>4, DigitsOf
    <3>. QED
      BY <3>2, <3>3, <3>4, <3>5, <3>6
  <2>5. \A i \in 1 .. Block : e[i] = IF i > F /\ Carry(c, i) THEN (c[i] + 1) % 4 ELSE c[i]
    <3>. SUFFICES ASSUME NEW i \in 1 .. Block
                  PROVE  e[i] = IF i > F /\ Carry(c, i) THEN (c[i] + 1) % 4 ELSE c[i]
      OBVIOUS
    <3>1. CASE i > F
      BY <2>4, <3>1
    <3>2. CASE ~(i > F)
      BY <1>2, <2>1, <3>2
    <3>. QED
      BY <3>1, <3>2
  <2>6. inc32(c) = [i \in 1 .. Block |-> e[i]]
    BY <2>3, <2>5
  <2>7. e = [i \in 1 .. Block |-> e[i]]
    BY <2>2 DEF Blocks
  <2>. QED
    BY <2>6, <2>7 DEF c, e
<1>. QED
  BY <1>5, <1>6, <1>7

-----------------------------------------------------------------------------
(* What the standard says, block by block                                  *)

(* The block that the one after k others is made with.                     *)
Key(md, dec, iv, m, k) ==
    CASE md = "ECB" -> iv
      [] md = "CTR" -> Counter(iv, k)
      [] md = "GCM" -> Counter(iv, k + 1)
      [] OTHER -> Chained(md, dec, iv, m)[k]

Image(md, dec, key, in) ==
    CASE md = "ECB" -> IF dec THEN Decipher[in] ELSE Cipher[in]
      [] md = "CBC" -> IF dec THEN Decipher[in] ^^ key ELSE Cipher[in ^^ key]
      [] OTHER -> in ^^ Cipher[key]

Forward(md, dec, key, in) ==
    CASE md = "ECB" -> key
      [] md \in {"CTR", "GCM"} -> inc32(key)
      [] OTHER -> Link(md, dec, key, in)

LEMMA ImageType ==
    ASSUME NEW md, NEW dec, NEW key \in Blocks, NEW in \in Blocks
    PROVE  Image(md, dec, key, in) \in Blocks
<1>1. /\ Decipher[in] \in Blocks /\ Cipher[in] \in Blocks /\ Decipher[in] ^^ key \in Blocks
      /\ Cipher[in ^^ key] \in Blocks /\ in ^^ Cipher[key] \in Blocks
  BY XorType, CipherType
<1>. QED
  BY <1>1 DEF Image

(* Each block is made with the one the block before it gives, of a message *)
(* that goes on too.                                                       *)
LEMMA KeyGoesOn ==
    ASSUME NEW md, NEW dec, NEW iv \in Blocks, NEW m \in Seq(Byte), NEW t \in Seq(Byte),
           NEW k \in Nat, At(k) =< Len(m)
    PROVE  /\ Key(md, dec, iv, m, k) \in Blocks
           /\ Key(md, dec, iv, m \o t, k) = Key(md, dec, iv, m, k)
           /\ At(k) < Len(m) =>
                Key(md, dec, iv, m, k + 1) =
                    Forward(md, dec, Key(md, dec, iv, m, k), Nth(m, k + 1))
           /\ Key(md, dec, iv, m, 0) = IF md = "GCM" THEN inc32(iv) ELSE iv
<1>. DEFINE c == Chained(md, dec, iv, m)
<1>1. /\ c[0] = iv
      /\ At(k) < Len(m) => c[k + 1] = Link(md, dec, c[k], Nth(m, k + 1))
  BY ChainFollows
<1>2. c[k] \in Blocks /\ Chained(md, dec, iv, m \o t)[k] = c[k]
  BY ChainGoesOn
<1>. HIDE DEF c
<1>3. /\ Counter(iv, k) \in Blocks /\ Counter(iv, k + 1) \in Blocks
      /\ inc32(Counter(iv, k)) = Counter(iv, k + 1)
      /\ inc32(Counter(iv, k + 1)) = Counter(iv, (k + 1) + 1)
      /\ Counter(iv, 0) = iv /\ Counter(iv, 0 + 1) = inc32(iv)
  <2>1. /\ Counter(iv, 0) = iv
        /\ \A n \in Nat : Counter(iv, n) \in Blocks /\ inc32(Counter(iv, n)) = Counter(iv, n + 1)
    BY CounterGoesOn
  <2>2. k + 1 \in Nat /\ 0 \in Nat
    OBVIOUS
  <2>3. inc32(Counter(iv, 0)) = Counter(iv, 0 + 1)
    BY <2>1, <2>2
  <2>. QED
    BY <2>1, <2>2, <2>3
<1>4. CASE md = "ECB"
  BY <1>4 DEF Key, Forward
<1>5. CASE md = "CTR"
  BY <1>3, <1>5 DEF Key, Forward
<1>6. CASE md = "GCM"
  BY <1>3, <1>6 DEF Key, Forward
<1>7. CASE md \notin {"ECB", "CTR", "GCM"}
  BY <1>1, <1>2, <1>7 DEF Key, Forward, c
<1>. QED
  BY <1>4, <1>5, <1>6, <1>7

LEMMA KeyNext ==
    ASSUME NEW md, NEW dec, NEW iv \in Blocks, NEW m \in Seq(Byte), NEW k \in Nat,
           At(k) < Len(m)
    PROVE  Key(md, dec, iv, m, k + 1) = Forward(md, dec, Key(md, dec, iv, m, k), Nth(m, k + 1))
<1>. DEFINE e == <<>>
<1>1. e \in Seq(Byte) /\ At(k) =< Len(m)
  BY AtFacts
<1>. HIDE DEF e
<1>2. /\ Key(md, dec, iv, m \o e, k) = Key(md, dec, iv, m, k)
      /\ Key(md, dec, iv, m, k + 1) = Forward(md, dec, Key(md, dec, iv, m, k), Nth(m, k + 1))
  BY <1>1, KeyGoesOn
<1>. QED
  BY <1>2

LEMMA StandardIs ==
    ASSUME NEW md, NEW dec, NEW iv \in Blocks, NEW m \in Seq(Byte)
    PROVE  /\ Standard(md, dec, iv, m) \in Seq(Byte)
           /\ Len(Standard(md, dec, iv, m)) = Len(m)
           /\ \A k \in Nat, j \in 1 .. Block :
                At(k) + j =< Len(m) =>
                    Standard(md, dec, iv, m)[At(k) + j] =
                        Image(md, dec, Key(md, dec, iv, m, k), Nth(m, k + 1))[j]
<1>. DEFINE N == Count(m)
            B(k) == StandardBlock(md, dec, iv, m, k)
            f == [k \in 1 .. N |-> B(k)]
            std == Standard(md, dec, iv, m)
            G(k) == Image(md, dec, Key(md, dec, iv, m, k), Nth(m, k + 1))
<1>1. N \in Nat /\ \A k \in Nat : At(k) < Len(m) <=> k + 1 =< N
  BY CountIs
<1>2. std = [i \in 1 .. Len(m) |-> f[((i - 1) \div Block) + 1][((i - 1) % Block) + 1]]
  BY DEF Standard, Joined
<1>3. ASSUME NEW k \in Nat
      PROVE  B(k + 1) = G(k)
  <2>1. (k + 1) - 1 = k
    OBVIOUS
  <2>. QED
    BY <2>1 DEF StandardBlock, Image, Key
<1>4. ASSUME NEW k \in Nat, At(k) < Len(m)
      PROVE  G(k) \in Blocks
  <2>1. Key(md, dec, iv, m, k) \in Blocks
    <3>1. <<>> \in Seq(Byte) /\ At(k) =< Len(m)
      BY <1>4, AtFacts
    <3>. QED
      BY <3>1, KeyGoesOn
  <2>2. Nth(m, k + 1) \in Blocks
    BY <1>4, AtFacts, NthIs
  <2>. QED
    BY <2>1, <2>2, ImageType
<1>. HIDE DEF N, B, G
<1>5. ASSUME NEW k \in Nat, NEW j \in 1 .. Block, At(k) + j =< Len(m)
      PROVE  f[(((At(k) + j) - 1) \div Block) + 1][(((At(k) + j) - 1) % Block) + 1] = G(k)[j]
             /\ G(k)[j] \in Byte /\ At(k) + j \in 1 .. Len(m)
  <2>1. At(k) \in Nat /\ At(k) < Len(m)
    BY <1>5, AtFacts, SMTT(60)
  <2>2. k + 1 \in 1 .. N
    BY <1>1, <2>1
  <2>3. f[k + 1] = G(k)
    BY <1>3, <2>2
  <2>4. ((At(k) + j) - 1) \div Block = k /\ (((At(k) + j) - 1) % Block) + 1 = j
    BY PlaceIs, BlockIs
  <2>5. G(k)[j] \in Byte
    BY <1>4, <2>1 DEF Blocks
  <2>6. At(k) + j \in 1 .. Len(m)
    BY <1>5, <2>1
  <2>. HIDE DEF f
  <2>. QED
    BY <2>3, <2>4, <2>5, <2>6
<1>. HIDE DEF std, f
<1>6. ASSUME NEW k \in Nat, NEW j \in 1 .. Block, At(k) + j =< Len(m)
      PROVE  std[At(k) + j] = G(k)[j]
  <2>. DEFINE i == At(k) + j
  <2>1. i \in 1 .. Len(m) /\ f[((i - 1) \div Block) + 1][((i - 1) % Block) + 1] = G(k)[j]
    BY <1>5, <1>6
  <2>. HIDE DEF i
  <2>2. std[i] = G(k)[j]
    BY <1>2, <2>1
  <2>. QED
    BY <2>2 DEF i
<1>7. \A i \in 1 .. Len(m) : std[i] \in Byte
  <2>. SUFFICES ASSUME NEW i \in 1 .. Len(m)
                PROVE  std[i] \in Byte
    OBVIOUS
  <2>1. PICK k \in Nat, j \in 1 .. Block : i = At(k) + j
    <3>1. i \in Nat \ {0}
      OBVIOUS
    <3>. QED
      BY <3>1, PlaceOf
  <2>. QED
    BY <1>5, <1>6, <2>1
<1>8. std \in Seq(Byte) /\ Len(std) = Len(m)
  <2>1. Len(m) \in Nat /\ DOMAIN std = 1 .. Len(m)
    BY <1>2
  <2>2. std = [i \in 1 .. Len(m) |-> std[i]]
    BY <1>2
  <2>3. std \in [1 .. Len(m) -> Byte]
    BY <1>7, <2>2
  <2>4. std \in Seq(Byte)
    BY <2>1, <2>3
  <2>. QED
    BY <2>1, <2>4
<1>. QED
  BY <1>6, <1>8 DEF std, G

(* Bytes of the standard's result stay when the message goes on: with a    *)
(* stream all of them, with the others those of whole blocks.              *)
LEMMA StandardGoesOn ==
    ASSUME NEW md, NEW dec, NEW iv \in Blocks, NEW m \in Seq(Byte), NEW t \in Seq(Byte),
           NEW n \in 0 .. Len(m), md \notin Padded \/ \E q \in Nat : n = At(q)
    PROVE  \A i \in 1 .. n : Standard(md, dec, iv, m \o t)[i] = Standard(md, dec, iv, m)[i]
<1>. SUFFICES ASSUME NEW i \in 1 .. n
              PROVE  Standard(md, dec, iv, m \o t)[i] = Standard(md, dec, iv, m)[i]
  OBVIOUS
<1>. DEFINE mt == m \o t
<1>1. mt \in Seq(Byte) /\ Len(mt) = Len(m) + Len(t) /\ Len(m) \in Nat /\ Len(t) \in Nat
  OBVIOUS
<1>2. PICK k \in Nat, j \in 1 .. Block : i = At(k) + j
  <2>1. i \in Nat \ {0}
    OBVIOUS
  <2>. QED
    BY <2>1, PlaceOf
<1>3. At(k) \in Nat /\ At(k) + j =< Len(m) /\ At(k) =< Len(m) /\ At(k) + j =< Len(mt)
      /\ At(k) =< Len(mt)
  <2>1. At(k) \in Nat /\ j \in Nat
    BY <1>2, AtFacts, BlockIs
  <2>2. At(k) + j =< n /\ n =< Len(m)
    BY <1>1, <1>2
  <2>. HIDE DEF mt
  <2>. QED
    BY <1>1, <2>1, <2>2
<1>. DEFINE key == Key(md, dec, iv, m, k)
            a == Nth(m, k + 1)
            b == Nth(mt, k + 1)
<1>4. key \in Blocks /\ Key(md, dec, iv, mt, k) = key
  BY <1>3, KeyGoesOn
<1>5. a \in Blocks /\ b \in Blocks
  <2>. HIDE DEF mt
  <2>. QED
    BY <1>1, <1>3, NthIs
<1>6. b[j] = a[j] /\ (At(k + 1) =< Len(m) => b = a)
  BY <1>3, NthGoesOn
<1>. HIDE DEF mt
<1>7. Standard(md, dec, iv, m)[i] = Image(md, dec, key, a)[j]
  BY <1>2, <1>3, StandardIs
<1>8. Standard(md, dec, iv, mt)[i] = Image(md, dec, key, b)[j]
  BY <1>1, <1>2, <1>3, <1>4, StandardIs
<1>. HIDE DEF key, a, b
<1>9. CASE md \notin Padded
  <2>1. \A in : Image(md, dec, key, in) = in ^^ Cipher[key]
    BY <1>9 DEF Image, Padded
  <2>2. \A in : (in ^^ Cipher[key])[j] = XorByte(in[j], Cipher[key][j])
    BY DEF ^^
  <2>. QED
    BY <1>6, <1>7, <1>8, <2>1, <2>2 DEF mt
<1>10. CASE md \in Padded
  <2>1. PICK q \in Nat : n = At(q)
    BY <1>10
  <2>2. k < q
    <3>. SUFFICES ASSUME q =< k
                  PROVE  FALSE
      OBVIOUS
    <3>1. At(q) =< At(k) /\ At(q) \in Nat /\ At(k) \in Nat
      BY AtFacts
    <3>2. At(k) + j =< At(q)
      BY <1>2, <2>1
    <3>. QED
      BY <3>1, <3>2
  <2>3. At(k + 1) =< Len(m)
    <3>1. k + 1 \in Nat /\ k + 1 =< q
      BY <2>2
    <3>2. At(k + 1) =< At(q) /\ At(k + 1) \in Nat
      BY <3>1, AtFacts
    <3>. QED
      BY <1>1, <2>1, <3>2
  <2>. QED
    BY <1>6, <1>7, <1>8, <2>3 DEF mt
<1>. QED
  BY <1>9, <1>10

-----------------------------------------------------------------------------
(* Hashes of messages                                                      *)

LEMMA HashesFollow ==
    ASSUME NEW acc, NEW m \in Seq(Byte)
    PROVE  LET h == Hashes(acc, m)
           IN  /\ h[0] = acc
               /\ \A k \in Nat : At(k) < Len(m) => h[k + 1] = TimesH[h[k] ^^ Nth(m, k + 1)]
<1>. DEFINE N == Count(m)
            M(before, k) == TimesH[before ^^ Nth(m, k)]
            Is(g, n) == g = [k \in 0 .. n |-> IF k = 0 THEN acc ELSE M(g[k - 1], k)]
            S == {n \in Nat : \E g : Is(g, n)}
<1>1. Hashes(acc, m) = CHOOSE g : Is(g, N)
  BY DEF Hashes
<1>2. N \in Nat /\ \A k \in Nat : At(k) < Len(m) <=> k + 1 =< N
  BY CountIs
<1>. HIDE DEF M, N
<1>3. 0 \in S
  <2>. DEFINE g == [k \in 0 .. 0 |-> acc]
  <2>1. Is(g, 0)
    OBVIOUS
  <2>. HIDE DEF Is
  <2>. QED
    BY <2>1
<1>4. ASSUME NEW n \in Nat, n \in S
      PROVE  n + 1 \in S
  <2>1. PICK g : Is(g, n)
    BY <1>4
  <2>. DEFINE h == [k \in 0 .. n + 1 |-> IF k = n + 1 THEN M(g[n], n + 1) ELSE g[k]]
  <2>2. ASSUME NEW k \in 0 .. n + 1
        PROVE  h[k] = IF k = 0 THEN acc ELSE M(h[k - 1], k)
    <3>1. CASE k = n + 1
      <4>1. k - 1 = n /\ n \in 0 .. n + 1 /\ n # n + 1 /\ k # 0
        BY <3>1
      <4>. QED
        BY <3>1, <4>1
    <3>2. CASE k # n + 1
      <4>1. k \in 0 .. n /\ (k # 0 => k - 1 \in 0 .. n /\ k - 1 \in 0 .. n + 1 /\ k - 1 # n + 1)
        BY <3>2
      <4>2. g[k] = IF k = 0 THEN acc ELSE M(g[k - 1], k)
        BY <2>1, <4>1
      <4>3. h[k] = g[k] /\ (k # 0 => h[k - 1] = g[k - 1])
        BY <4>1, <3>2
      <4>. QED
        BY <4>2, <4>3
    <3>. QED
      BY <3>1, <3>2
  <2>3. h = [k \in 0 .. n + 1 |-> h[k]]
    OBVIOUS
  <2>. HIDE DEF h
  <2>4. Is(h, n + 1)
    BY <2>2, <2>3
  <2>. HIDE DEF Is
  <2>. QED
    BY <2>4
<1>5. \E g : Is(g, N)
  <2>1. Nat \subseteq S
    <3>. HIDE DEF S
    <3>. QED
      BY <1>3, <1>4, Induction
  <2>. HIDE DEF Is
  <2>. QED
    BY <1>2, <2>1
<1>. DEFINE h == Hashes(acc, m)
<1>6. Is(h, N)
  <2>. HIDE DEF Is
  <2>. QED
    BY <1>1, <1>5
<1>. HIDE DEF h
<1>7. h[0] = acc
  BY <1>2, <1>6
<1>8. ASSUME NEW k \in Nat, At(k) < Len(m)
      PROVE  h[k + 1] = M(h[k], k + 1)
  <2>1. k + 1 \in 0 .. N /\ k + 1 # 0 /\ (k + 1) - 1 = k
    BY <1>2, <1>8
  <2>. QED
    BY <1>6, <2>1
<1>. QED
  BY <1>7, <1>8 DEF h, M

LEMMA HashType ==
    ASSUME NEW acc \in Blocks, NEW b \in Blocks
    PROVE  ghash(acc, b) \in Blocks
<1>1. acc ^^ b \in Blocks
  BY XorType
<1>. QED
  BY <1>1, CipherType DEF ghash

(* As many blocks as fit end at most at the end.                           *)
LEMMA CountEnds ==
    ASSUME NEW m \in Seq(Byte), NEW q \in Nat
    PROVE  /\ At(q) = Len(m) => Count(m) = q
           /\ (At(q) < Len(m) /\ Len(m) =< At(q + 1)) => Count(m) = q + 1
<1>. DEFINE c == Count(m)
<1>1. c \in Nat /\ \A k \in Nat : At(k) < Len(m) <=> k + 1 =< c
  BY CountIs
<1>. HIDE DEF c
<1>2. ASSUME At(q) = Len(m)
      PROVE  c = q
  <2>1. At(q) \in Nat
    BY AtFacts
  <2>2. ~(q + 1 =< c)
    BY <1>1, <1>2, <2>1
  <2>3. CASE q = 0
    BY <1>1, <2>2, <2>3
  <2>4. CASE q # 0
    <3>1. q - 1 \in Nat /\ (q - 1) + 1 = q
      BY <2>4
    <3>2. At(q - 1) \in Nat /\ At(q) = At(q - 1) + Block
      BY <3>1, AtFacts
    <3>3. At(q - 1) < Len(m)
      BY <1>2, <3>2, BlockIs
    <3>4. (q - 1) + 1 =< c
      BY <1>1, <3>1, <3>3
    <3>. QED
      BY <1>1, <2>2, <3>1, <3>4
  <2>. QED
    BY <2>3, <2>4
<1>3. ASSUME At(q) < Len(m), Len(m) =< At(q + 1)
      PROVE  c = q + 1
  <2>1. q + 1 =< c
    BY <1>1, <1>3
  <2>a. q + 1 \in Nat /\ Len(m) \in Nat
    OBVIOUS
  <2>2. At(q + 1) \in Nat /\ q + 1 \in Nat /\ Len(m) \in Nat
    BY <2>a, AtFacts
  <2>3. ~(At(q + 1) < Len(m))
    BY <1>3, <2>2
  <2>4. ~((q + 1) + 1 =< c)
    BY <1>1, <2>2, <2>3
  <2>. QED
    BY <1>1, <2>1, <2>4
<1>. QED
  BY <1>2, <1>3 DEF c

(* Hashes are of blocks, and those of a message that goes on are the same. *)
LEMMA HashGoesOn ==
    ASSUME NEW acc \in Blocks, NEW m \in Seq(Byte), NEW t \in Seq(Byte)
    PROVE  \A k \in Nat : At(k) =< Len(m) =>
                /\ Hashes(acc, m)[k] \in Blocks
                /\ Hashes(acc, m \o t)[k] = Hashes(acc, m)[k]
<1>. DEFINE mt == m \o t
            c == Hashes(acc, m)
            e == Hashes(acc, mt)
            S == {k \in Nat : At(k) =< Len(m) => c[k] \in Blocks /\ e[k] = c[k]}
<1>1. mt \in Seq(Byte) /\ Len(mt) = Len(m) + Len(t)
  OBVIOUS
<1>2. /\ c[0] = acc
      /\ \A k \in Nat : At(k) < Len(m) => c[k + 1] = TimesH[c[k] ^^ Nth(m, k + 1)]
  BY HashesFollow
<1>3. /\ e[0] = acc
      /\ \A k \in Nat : At(k) < Len(mt) => e[k + 1] = TimesH[e[k] ^^ Nth(mt, k + 1)]
  <2>. HIDE DEF mt
  <2>. QED
    BY <1>1, HashesFollow, SMTT(60)
<1>. HIDE DEF c, e, mt
<1>4. 0 \in S
  BY <1>2, <1>3
<1>5. ASSUME NEW k \in Nat, k \in S
      PROVE  k + 1 \in S
  <2>. SUFFICES ASSUME At(k + 1) =< Len(m)
                PROVE  c[k + 1] \in Blocks /\ e[k + 1] = c[k + 1]
    OBVIOUS
  <2>a. Len(m) \in Nat /\ Len(t) \in Nat
    OBVIOUS
  <2>0. At(k) \in Nat /\ At(k + 1) = At(k) + Block
    BY AtFacts
  <2>1. At(k) < Len(m) /\ At(k) =< Len(m) /\ At(k) < Len(mt)
    BY <1>1, <2>a, <2>0, BlockIs
  <2>2. c[k] \in Blocks /\ e[k] = c[k]
    BY <1>5, <2>1
  <2>3. c[k + 1] = TimesH[c[k] ^^ Nth(m, k + 1)] /\ e[k + 1] = TimesH[e[k] ^^ Nth(mt, k + 1)]
    BY <1>2, <1>3, <2>1
  <2>4. Nth(mt, k + 1) = Nth(m, k + 1)
    BY <2>1, NthGoesOn DEF mt
  <2>5. Nth(m, k + 1) \in Blocks
    BY <2>1, NthIs
  <2>. QED
    BY <2>2, <2>3, <2>4, <2>5, HashType DEF ghash
<1>6. Nat \subseteq S
  <2>. HIDE DEF S
  <2>. QED
    BY <1>4, <1>5, Induction
<1>. QED
  BY <1>6 DEF c, e, mt

LEMMA HashOfType ==
    ASSUME NEW acc \in Blocks, NEW m \in Seq(Byte)
    PROVE  HashOf(acc, m) \in Blocks
<1>1. PICK q \in Nat : At(q) = Len(m) \/ (At(q) < Len(m) /\ Len(m) =< At(q + 1))
  <2>1. CASE Len(m) = 0
    BY <2>1, AtFacts
  <2>2. CASE Len(m) # 0
    <3>1. Len(m) \in Nat \ {0}
      BY <2>2
    <3>2. PICK k \in Nat, j \in 1 .. Block : Len(m) = At(k) + j
      BY <3>1, PlaceOf
    <3>3. k \in Nat /\ At(k) \in Nat /\ At(k + 1) = At(k) + Block
      BY <3>2, AtFacts
    <3>4. At(k) < Len(m) /\ Len(m) =< At(k) + Block
      BY <3>2, <3>3, BlockIs
    <3>. QED
      BY <3>3, <3>4
  <2>. QED
    BY <2>1, <2>2
<1>2. <<>> \in Seq(Byte)
  OBVIOUS
<1>3. CASE At(q) = Len(m)
  <2>1. Hashes(acc, m)[q] \in Blocks
    <3>1. At(q) =< Len(m)
      BY <1>1, <1>3, AtFacts
    <3>. QED
      BY <1>1, <1>2, <3>1, HashGoesOn
  <2>. QED
    BY <1>1, <1>3, <2>1, CountEnds DEF HashOf
<1>4. CASE At(q) < Len(m) /\ Len(m) =< At(q + 1)
  <2>1. At(q) =< Len(m)
    BY <1>1, <1>4, AtFacts
  <2>2. Hashes(acc, m)[q] \in Blocks
    BY <1>1, <1>2, <2>1, HashGoesOn
  <2>3. Hashes(acc, m)[q + 1] = TimesH[Hashes(acc, m)[q] ^^ Nth(m, q + 1)]
    BY <1>1, <1>4, HashesFollow
  <2>4. Nth(m, q + 1) \in Blocks
    BY <1>1, <2>1, NthIs
  <2>. QED
    BY <1>1, <1>4, <2>2, <2>3, <2>4, CountEnds, HashType DEF HashOf, ghash
<1>. QED
  BY <1>1, <1>3, <1>4

-----------------------------------------------------------------------------
(* One call of a mode                                                      *)

LEMMA PartIs ==
    ASSUME NEW b \in Seq(Byte), NEW p \in Nat, NEW n \in Nat, p =< n, n =< Len(b)
    PROVE  /\ SubSeq(b, p + 1, n) \in Seq(Byte)
           /\ Len(SubSeq(b, p + 1, n)) = n - p
           /\ \A i \in 1 .. n - p : SubSeq(b, p + 1, n)[i] = b[p + i]
  OBVIOUS

LEMMA BlockAsSeq ==
    ASSUME NEW b \in Blocks
    PROVE  b \in Seq(Byte) /\ Len(b) = Block /\ SubSeq(b, 0 + 1, Block) = b
<1>1. b \in Seq(Byte) /\ Len(b) = Block
  BY BlockIs DEF Blocks
<1>. DEFINE a == SubSeq(b, 0 + 1, Block)
<1>2. a \in Seq(Byte) /\ Len(a) = Block - 0 /\ \A i \in 1 .. Block - 0 : a[i] = b[0 + i]
  BY <1>1, BlockIs, PartIs
<1>. HIDE DEF a
<1>3. Len(a) = Len(b) /\ \A i \in 1 .. Len(a) : a[i] = b[i]
  BY <1>1, <1>2, BlockIs
<1>4. a = b
  BY <1>1, <1>2, <1>3, SeqEqual
<1>. QED
  BY <1>1, <1>4 DEF a

(* What is cut out of a block.                                             *)
LEMMA CutIs ==
    ASSUME NEW b \in Blocks, NEW p \in Nat, p < Block, NEW n \in Nat, p =< n
    PROVE  /\ n >= Block => Take(Drop(b, p), n - p) = SubSeq(b, p + 1, Block)
           /\ n < Block => /\ Take(Drop(b, p), n - p) = SubSeq(b, p + 1, n)
                           /\ Take(b, n) = SubSeq(b, 0 + 1, n)
                           /\ Take(Drop(Take(b, n), p), n - p) = SubSeq(b, p + 1, n)
<1>1. b \in Seq(Byte) /\ Len(b) = Block
  BY BlockAsSeq
<1>. DEFINE d == Drop(b, p)
<1>2. d = SubSeq(b, p + 1, Block)
  BY <1>1 DEF Drop
<1>3. d \in Seq(Byte) /\ Len(d) = Block - p /\ \A i \in 1 .. Block - p : d[i] = b[p + i]
  BY <1>1, <1>2, BlockIs, PartIs
<1>. HIDE DEF d
<1>4. ASSUME n >= Block
      PROVE  Take(d, n - p) = SubSeq(b, p + 1, Block)
  BY <1>2, <1>3, <1>4, BlockIs DEF Take
<1>5. ASSUME n < Block
      PROVE  /\ Take(d, n - p) = SubSeq(b, p + 1, n)
             /\ Take(b, n) = SubSeq(b, 0 + 1, n)
             /\ Take(Drop(Take(b, n), p), n - p) = SubSeq(b, p + 1, n)
  <2>. DEFINE x == SubSeq(b, p + 1, n)
              y == Take(d, n - p)
              z == SubSeq(b, 0 + 1, n)
              w == SubSeq(z, p + 1, n)
  <2>1. x \in Seq(Byte) /\ Len(x) = n - p /\ \A i \in 1 .. n - p : x[i] = b[p + i]
    BY <1>1, <1>5, PartIs
  <2>2. y = SubSeq(d, 0 + 1, n - p)
    BY <1>3, <1>5, BlockIs DEF Take
  <2>3. y \in Seq(Byte) /\ Len(y) = (n - p) - 0 /\ \A i \in 1 .. (n - p) - 0 : y[i] = d[0 + i]
    <3>1. n - p \in Nat /\ 0 =< n - p /\ n - p =< Len(d)
      BY <1>3, <1>5, BlockIs
    <3>. HIDE DEF y
    <3>. QED
      BY <1>3, <2>2, <3>1, PartIs
  <2>4. z \in Seq(Byte) /\ Len(z) = n - 0 /\ \A i \in 1 .. n - 0 : z[i] = b[0 + i]
    BY <1>1, <1>5, PartIs
  <2>5. Take(b, n) = z
    BY <1>1, <1>5, BlockIs DEF Take
  <2>. HIDE DEF x, y, z
  <2>6. w \in Seq(Byte) /\ Len(w) = n - p /\ \A i \in 1 .. n - p : w[i] = z[p + i]
    <3>1. n =< Len(z)
      BY <2>4
    <3>. QED
      BY <2>4, <3>1, PartIs
  <2>7. Drop(z, p) = w
    <3>1. Len(z) = n
      BY <2>4
    <3>. QED
      BY <3>1 DEF Drop
  <2>8. Take(w, n - p) = w
    BY <2>6 DEF Take
  <2>. HIDE DEF w
  <2>9. y = x
    <3>1. \A i \in 1 .. n - p : y[i] = x[i]
      BY <1>3, <1>5, <2>1, <2>3, BlockIs
    <3>2. Len(y) = Len(x) /\ Len(y) = n - p
      BY <2>1, <2>3
    <3>. QED
      BY <2>1, <2>3, <3>1, <3>2, SeqEqual
  <2>10. w = x
    <3>1. \A i \in 1 .. n - p : w[i] = x[i]
      BY <2>1, <2>4, <2>6
    <3>. QED
      BY <2>1, <2>6, <3>1, SeqEqual
  <2>. QED
    BY <2>5, <2>7, <2>8, <2>9, <2>10 DEF x, y, z
<1>. QED
  BY <1>4, <1>5 DEF d

LEMMA XorCommutes ==
    ASSUME NEW a \in Blocks, NEW b \in Blocks
    PROVE  a ^^ b = b ^^ a
<1>1. \A x, y \in Byte : XorByte(x, y) = XorByte(y, x)
  BY DEF XorByte, Byte
<1>2. \A i \in 1 .. Block : XorByte(a[i], b[i]) = XorByte(b[i], a[i])
  BY <1>1 DEF Blocks
<1>. QED
  BY <1>2 DEF ^^

StateType ==
    [input : Seq(Byte), output : Seq(Byte), inBlock : Blocks, partial : Nat,
     acc : Blocks, length : Nat, done : BOOLEAN]

(* What a state between two calls is like.                                 *)
Ready(md, dec, st) ==
    /\ st \in StateType
    /\ st.partial < Block
    /\ st.partial =< Len(st.input)
    /\ Buffers(md, dec) => st.partial = 0

Waiting(md, dec, st, fin) ==
    IF Buffers(md, dec) THEN Waits(st, fin) ELSE st.input = <<>>

(* The block that a call makes of the next one of the input.               *)
Made(md, dec, st) == Image(md, dec, st.inBlock, BlockOf(st.input))

LEMMA MadeType ==
    ASSUME NEW md, NEW dec, NEW st \in StateType
    PROVE  /\ Made(md, dec, st) \in Blocks
           /\ BlockOf(st.input) \in Blocks
           /\ Cipher[st.inBlock] \in Blocks
           /\ BlockOf(st.input) ^^ Cipher[st.inBlock] \in Blocks
           /\ inc32(st.inBlock) \in Blocks
           /\ \A b \in Blocks : ghash(st.acc, b) \in Blocks
<1>1. st.inBlock \in Blocks /\ st.input \in Seq(Byte) /\ st.acc \in Blocks
  BY DEF StateType
<1>2. BlockOf(st.input) \in Blocks /\ Cipher[st.inBlock] \in Blocks
  BY <1>1, BlockOfType, CipherType
<1>3. BlockOf(st.input) ^^ Cipher[st.inBlock] \in Blocks
  BY <1>2, XorType
<1>4. inc32(st.inBlock) \in Blocks
  <2>. DEFINE b == st.inBlock
  <2>1. \A i \in 1 .. Block :
          (IF i > Block - CounterBytes /\ Carry(b, i) THEN (b[i] + 1) % 4 ELSE b[i]) \in Byte
    <3>1. \A i \in 1 .. Block : b[i] \in Byte
      BY <1>1 DEF Blocks
    <3>2. \A x \in Byte : (x + 1) % 4 \in Byte
      BY DEF Byte
    <3>. HIDE DEF b
    <3>. QED
      BY <3>1, <3>2
  <2>. HIDE DEF b
  <2>2. inc32(b) \in Blocks
    BY <2>1 DEF inc32, Blocks
  <2>. QED
    BY <2>2 DEF b
<1>. QED
  BY <1>1, <1>2, <1>3, <1>4, ImageType, HashType DEF Made

Finished(st) == [st EXCEPT !.done = TRUE]

(* With nothing to do, a call says so.                                     *)
LEMMA OpWaits ==
    ASSUME NEW md, NEW dec, NEW st \in StateType, NEW fin, Waiting(md, dec, st, fin)
    PROVE  op(md, dec, st, fin) = Finished(st)
<1>. DEFINE s0 == [st EXCEPT !.done = FALSE]
<1>1. s0 \in StateType /\ s0.input = st.input /\ [s0 EXCEPT !.done = TRUE] = Finished(st)
  BY DEF StateType, Finished
<1>2. op(md, dec, st, fin) =
        IF Waiting(md, dec, s0, fin) THEN [s0 EXCEPT !.done = TRUE]
        ELSE CASE md = "ECB" -> EcbStep(s0, dec)
               [] md = "CBC" -> CbcStep(s0, dec)
               [] md = "GCM" /\ dec -> GcmDecryptStep(s0)
               [] OTHER -> StreamStep(md, dec, s0, fin)
  BY DEF op, Waiting
<1>. HIDE DEF s0
<1>3. Waiting(md, dec, s0, fin)
  BY <1>1 DEF Waiting, Waits
<1>. QED
  BY <1>1, <1>2, <1>3

(* With a block, or what is taken for one, the next block is made, and all *)
(* of it is put out that was not before.                                   *)
LEMMA OpTakesBlock ==
    ASSUME NEW md \in Streams \cup Padded, NEW dec \in BOOLEAN, NEW st, NEW fin \in BOOLEAN,
           Ready(md, dec, st), ~Waiting(md, dec, st, fin),
           Buffers(md, dec) \/ (Len(st.input) >= Block /\ ~fin)
    PROVE  LET u == op(md, dec, st, fin)
           IN  /\ u \in StateType
               /\ u.input = Drop(st.input, Block)
               /\ u.output = st.output \o SubSeq(Made(md, dec, st), st.partial + 1, Block)
               /\ u.inBlock = Forward(md, dec, st.inBlock, BlockOf(st.input))
               /\ u.partial = 0
               /\ u.done = FALSE
               /\ md = "GCM" =>
                    /\ u.acc = ghash(st.acc, IF dec THEN BlockOf(st.input) ELSE Made(md, dec, st))
                    /\ u.length = st.length + (IF Len(st.input) < Block THEN Len(st.input) ELSE Block)
<1>. DEFINE s0 == [st EXCEPT !.done = FALSE]
            in == BlockOf(st.input)
            key == st.inBlock
            img == Made(md, dec, st)
            u == op(md, dec, st, fin)
<1>1. st \in StateType /\ st.partial < Block /\ st.partial =< Len(st.input)
      /\ (Buffers(md, dec) => st.partial = 0)
  BY DEF Ready
<1>2. s0 \in StateType /\ s0.input = st.input /\ s0.output = st.output /\ s0.inBlock = st.inBlock
      /\ s0.partial = st.partial /\ s0.acc = st.acc /\ s0.length = st.length /\ s0.done = FALSE
  BY <1>1 DEF StateType
<1>3. u =
        IF Waiting(md, dec, s0, fin) THEN [s0 EXCEPT !.done = TRUE]
        ELSE CASE md = "ECB" -> EcbStep(s0, dec)
               [] md = "CBC" -> CbcStep(s0, dec)
               [] md = "GCM" /\ dec -> GcmDecryptStep(s0)
               [] OTHER -> StreamStep(md, dec, s0, fin)
  BY DEF op, Waiting
<1>. HIDE DEF s0
<1>4. ~Waiting(md, dec, s0, fin)
  BY <1>2 DEF Waiting, Waits
<1>5. /\ img \in Blocks /\ in \in Blocks /\ Cipher[key] \in Blocks /\ in ^^ Cipher[key] \in Blocks
      /\ inc32(key) \in Blocks /\ \A b \in Blocks : ghash(st.acc, b) \in Blocks
      /\ key \in Blocks /\ Cipher[in] \in Blocks /\ Decipher[in] \in Blocks
      /\ in ^^ key \in Blocks /\ Cipher[in ^^ key] \in Blocks /\ Decipher[in] ^^ key \in Blocks
  <2>1. key \in Blocks
    BY <1>1 DEF StateType
  <2>2. in \in Blocks
    BY <1>1, MadeType
  <2>. HIDE DEF in, key
  <2>3. in ^^ key \in Blocks /\ Cipher[in] \in Blocks /\ Decipher[in] \in Blocks
    BY <2>1, <2>2, XorType, CipherType
  <2>4. Cipher[in ^^ key] \in Blocks /\ Decipher[in] ^^ key \in Blocks
    BY <2>1, <2>3, XorType, CipherType
  <2>. QED
    BY <1>1, <2>1, <2>2, <2>3, <2>4, MadeType DEF in, key
<1>6. /\ Len(st.input) \in Nat /\ st.length \in Nat
      /\ Drop(st.input, Block) \in Seq(Byte)
      /\ st.output \in Seq(Byte)
  <2>1. st.input \in Seq(Byte) /\ st.length \in Nat /\ st.output \in Seq(Byte)
    BY <1>1 DEF StateType
  <2>2. CASE Block \in 0 .. Len(st.input)
    BY <2>1, <2>2, DropIs
  <2>3. CASE ~(Block \in 0 .. Len(st.input))
    BY <2>1, <2>3, BlockIs DEF Drop
  <2>. QED
    BY <2>1, <2>2, <2>3
<1>7. st.output \o img \in Seq(Byte) /\ SubSeq(img, 0 + 1, Block) = img
  BY <1>5, <1>6, BlockAsSeq
<1>. DEFINE new == SubSeq(img, st.partial + 1, Block)
<1>8. st.output \o new \in Seq(Byte)
  <2>1. st.partial \in Nat
    BY <1>1 DEF StateType
  <2>2. new \in Seq(Byte)
    BY <1>1, <1>5, <2>1, BlockAsSeq, BlockIs, PartIs
  <2>. QED
    BY <1>6, <2>2
<1>. DEFINE n == IF Len(st.input) < Block THEN Len(st.input) ELSE Block
<1>9. n \in Nat /\ st.length + n \in Nat /\ st.length + Block \in Nat
  BY <1>6, BlockIs
<1>10. CASE md = "ECB"
  <2>1. u = [s0 EXCEPT !.input = Drop(st.input, Block), !.output = st.output \o img]
    BY <1>2, <1>3, <1>4, <1>10 DEF EcbStep, Made, Image
  <2>2. st.partial = 0
    BY <1>1, <1>10 DEF Buffers, Padded
  <2>3. Forward(md, dec, key, in) = key
    BY <1>10 DEF Forward
  <2>. HIDE DEF u, in, img, key
  <2>. QED
    BY <1>2, <1>6, <1>7, <1>10, <2>1, <2>2, <2>3 DEF StateType, u, in, img, key
<1>11. CASE md = "CBC"
  <2>1. img = IF dec THEN key ^^ Decipher[in] ELSE Cipher[key ^^ in]
    BY <1>5, <1>11, XorCommutes DEF Made, Image
  <2>2. Forward(md, dec, key, in) = IF dec THEN in ELSE img
    BY <1>11 DEF Forward, Link, Made, Image
  <2>3. u = [s0 EXCEPT !.input = Drop(st.input, Block), !.output = st.output \o img,
                       !.inBlock = Forward(md, dec, key, in)]
    BY <1>2, <1>3, <1>4, <1>11, <2>1, <2>2 DEF CbcStep
  <2>4. st.partial = 0
    BY <1>1, <1>11 DEF Buffers, Padded
  <2>5. Forward(md, dec, key, in) \in Blocks
    BY <1>5, <2>2
  <2>. HIDE DEF u, in, img, key
  <2>. QED
    BY <1>2, <1>6, <1>7, <1>11, <2>3, <2>4, <2>5, ZenonT(60) DEF StateType, u, in, img, key
<1>12. CASE md = "GCM" /\ dec
  <2>1. img = Cipher[key] ^^ in
    BY <1>5, <1>12, XorCommutes DEF Made, Image
  <2>2. Forward(md, dec, key, in) = inc32(key)
    BY <1>12 DEF Forward
  <2>3. u = [s0 EXCEPT !.input = Drop(st.input, Block), !.output = st.output \o img,
                       !.inBlock = inc32(key), !.acc = ghash(st.acc, in), !.length = st.length + n]
    BY <1>2, <1>3, <1>4, <1>12, <2>1 DEF GcmDecryptStep
  <2>4. st.partial = 0
    BY <1>1, <1>12 DEF Buffers
  <2>. HIDE DEF u, in, img, key, n, new
  <2>10. u \in StateType
    BY <1>2, <1>5, <1>6, <1>7, <1>9, <2>3 DEF StateType, key
  <2>11. /\ u.input = Drop(st.input, Block) /\ u.output = st.output \o img
        /\ u.inBlock = inc32(key) /\ u.partial = st.partial /\ u.done = FALSE
        /\ u.acc = ghash(st.acc, in) /\ u.length = st.length + n
    BY <1>2, <2>3 DEF StateType
  <2>. QED
    BY <1>7, <1>12, <2>2, <2>4, <2>10, <2>11 DEF u, in, img, key, n, new
<1>13. CASE ~Buffers(md, dec)
  <2>0. md \notin {"ECB", "CBC"} /\ ~(md = "GCM" /\ dec) /\ md \in Streams
    BY <1>13 DEF Buffers, Padded
  <2>1. u = StreamStep(md, dec, s0, fin)
    BY <1>3, <1>4, <2>0
  <2>2. Len(st.input) >= Block /\ ~fin
    BY <1>13
  <2>3. img = in ^^ Cipher[key]
    BY <2>0 DEF Made, Image
  <2>4. Forward(md, dec, key, in) = Feedback(md, dec, s0, in, Cipher[key])
    BY <1>2, <2>0 DEF Forward, Link, Feedback, Streams
  <2>5. Feedback(md, dec, s0, in, Cipher[key]) \in Blocks
    BY <1>2, <1>5 DEF Feedback
  <2>6. md = "GCM" => ~dec
    BY <2>0
  <2>7. CASE st.partial = 0
    <3>1. u = WholeBlock(md, dec, s0, in, Cipher[key])
      BY <1>2, <2>1, <2>2, <2>7 DEF StreamStep
    <3>2. u = [s0 EXCEPT !.input = Drop(st.input, Block),
                         !.output = st.output \o img,
                         !.inBlock = Forward(md, dec, key, in),
                         !.acc = IF md = "GCM" THEN ghash(st.acc, img) ELSE st.acc,
                         !.length = IF md = "GCM" THEN st.length + Block ELSE st.length]
      BY <1>2, <2>3, <2>4, <3>1 DEF WholeBlock
    <3>3. n = Block
      BY <1>6, <2>2, BlockIs
    <3>. HIDE DEF u, in, img, key, n, new
    <3>10. u \in StateType
      BY <1>2, <1>5, <1>6, <1>7, <1>9, <2>4, <2>5, <3>2 DEF StateType, key
    <3>11. /\ u.input = Drop(st.input, Block) /\ u.output = st.output \o img
          /\ u.inBlock = Forward(md, dec, key, in) /\ u.partial = st.partial /\ u.done = FALSE
          /\ (md = "GCM" => u.acc = ghash(st.acc, img) /\ u.length = st.length + Block)
      BY <1>2, <3>2 DEF StateType
    <3>. QED
      BY <1>7, <2>6, <2>7, <3>3, <3>10, <3>11 DEF u, in, img, key, n, new
  <2>8. CASE st.partial # 0
    <3>1. u = RestOfBlock(md, dec, s0, in, Cipher[key], fin)
      <4>1. ~(Len(st.input) < Block)
        BY <1>6, <2>2, BlockIs
      <4>. QED
        BY <1>2, <2>1, <2>8, <4>1 DEF StreamStep
    <3>2. ~(Len(s0.input) < Block)
      BY <1>2, <1>6, <2>2, BlockIs
    <3>3. NewBytes(s0, img) = new
      <4>1. st.partial \in Nat
        BY <1>1 DEF StateType
      <4>2. Take(Drop(img, st.partial), Len(st.input) - st.partial) = new
        BY <1>1, <1>5, <1>6, <2>2, <4>1, CutIs, ZenonT(60)
      <4>. QED
        BY <1>2, <4>2 DEF NewBytes
    <3>4. Len(img) = Block
      BY <1>5, BlockAsSeq
    <3>5. BlockOf(img) = img
      <4>1. BlockOf(img) = [i \in 1 .. Block |-> img[i]]
        BY <3>4, BlockIs DEF BlockOf
      <4>2. img = [i \in 1 .. Block |-> img[i]]
        BY <1>5 DEF Blocks
      <4>. QED
        BY <4>1, <4>2
    <3>6. u = [s0 EXCEPT !.input = Drop(st.input, Block),
                         !.output = st.output \o new,
                         !.partial = 0,
                         !.inBlock = Forward(md, dec, key, in),
                         !.acc = IF md = "GCM" THEN ghash(st.acc, img) ELSE st.acc,
                         !.length = IF md = "GCM" THEN st.length + Block ELSE st.length]
      <4>. HIDE DEF new, u
      <4>. QED
        BY <1>2, <2>2, <2>3, <2>4, <3>1, <3>2, <3>3, <3>4, <3>5 DEF RestOfBlock
    <3>7. n = Block
      BY <1>6, <2>2, BlockIs
    <3>. HIDE DEF u, in, img, key, n, new
    <3>10. u \in StateType
      BY <1>2, <1>5, <1>6, <1>8, <1>9, <2>4, <2>5, <3>6 DEF StateType, key
    <3>11. /\ u.input = Drop(st.input, Block) /\ u.output = st.output \o new
          /\ u.inBlock = Forward(md, dec, key, in) /\ u.partial = 0 /\ u.done = FALSE
          /\ (md = "GCM" => u.acc = ghash(st.acc, img) /\ u.length = st.length + Block)
      BY <1>2, <3>6 DEF StateType
    <3>. QED
      BY <2>6, <3>7, <3>10, <3>11 DEF u, in, img, key, n, new
  <2>. QED
    BY <2>7, <2>8
<1>. HIDE DEF u, n, img, in, key
<1>. QED
  <2>1. md = "ECB" \/ md = "CBC" \/ (md = "GCM" /\ dec) \/ ~Buffers(md, dec)
    BY DEF Buffers, Padded
  <2>. QED
    BY <1>10, <1>11, <1>12, <1>13, <2>1 DEF u, n, img, in, key

PartPut(st, new, n) == [st EXCEPT !.output = @ \o new, !.partial = n, !.done = TRUE]

(* With less than a block a stream puts out what there is, and was not put *)
(* out before.                                                             *)
LEMMA OpTakesPart ==
    ASSUME NEW md \in Streams, NEW dec \in BOOLEAN, NEW st, NEW fin \in BOOLEAN,
           Ready(md, dec, st), ~Buffers(md, dec),
           Len(st.input) \in 1 .. Block - 1
    PROVE  LET u == op(md, dec, st, fin)
               n == Len(st.input)
               new == SubSeq(Made(md, dec, st), st.partial + 1, n)
           IN  /\ u \in StateType
               /\ u.output = st.output \o new
               /\ ~fin => u = PartPut(st, new, n)
               /\ fin /\ md = "GCM" =>
                    /\ u.acc = ghash(st.acc, BlockOf(SubSeq(Made(md, dec, st), 0 + 1, n)))
                    /\ u.length = st.length + n
<1>. DEFINE s0 == [st EXCEPT !.done = FALSE]
            in == BlockOf(st.input)
            key == st.inBlock
            img == Made(md, dec, st)
            u == op(md, dec, st, fin)
            n == Len(st.input)
            new == SubSeq(img, st.partial + 1, n)
<1>1. st \in StateType /\ st.partial < Block /\ st.partial =< n
  BY DEF Ready
<1>2. s0 \in StateType /\ s0.input = st.input /\ s0.output = st.output /\ s0.inBlock = st.inBlock
      /\ s0.partial = st.partial /\ s0.acc = st.acc /\ s0.length = st.length /\ s0.done = FALSE
      /\ [s0 EXCEPT !.output = st.output \o new, !.partial = n, !.done = TRUE]
            = [st EXCEPT !.output = st.output \o new, !.partial = n, !.done = TRUE]
  <2>. HIDE DEF new, n
  <2>. QED
    BY <1>1 DEF StateType
<1>3. u =
        IF Waiting(md, dec, s0, fin) THEN [s0 EXCEPT !.done = TRUE]
        ELSE CASE md = "ECB" -> EcbStep(s0, dec)
               [] md = "CBC" -> CbcStep(s0, dec)
               [] md = "GCM" /\ dec -> GcmDecryptStep(s0)
               [] OTHER -> StreamStep(md, dec, s0, fin)
  BY DEF op, Waiting
<1>4. n \in Nat /\ n \in 1 .. Block - 1 /\ n < Block /\ st.partial \in Nat /\ st.length \in Nat
      /\ st.output \in Seq(Byte) /\ st.input \in Seq(Byte)
  BY <1>1, BlockIs DEF StateType
<1>. HIDE DEF s0
<1>5. ~Waiting(md, dec, s0, fin)
  BY <1>2, <1>4 DEF Waiting
<1>6. md \notin {"ECB", "CBC"} /\ ~(md = "GCM" /\ dec)
  BY DEF Buffers, Padded
<1>7. u = StreamStep(md, dec, s0, fin)
  BY <1>3, <1>5, <1>6
<1>8. /\ img \in Blocks /\ in \in Blocks /\ Cipher[key] \in Blocks /\ key \in Blocks
      /\ inc32(key) \in Blocks /\ \A b \in Blocks : ghash(st.acc, b) \in Blocks
      /\ img = in ^^ Cipher[key]
  <2>1. key \in Blocks
    BY <1>1 DEF StateType
  <2>2. img = in ^^ Cipher[key]
    BY <1>6 DEF Made, Image
  <2>. QED
    BY <1>1, <2>1, <2>2, MadeType
<1>9. new \in Seq(Byte) /\ st.output \o new \in Seq(Byte)
  <2>1. img \in Seq(Byte) /\ Len(img) = Block
    BY <1>8, BlockAsSeq
  <2>2. n =< Len(img)
    BY <1>4, <2>1, BlockIs
  <2>3. new \in Seq(Byte)
    BY <1>1, <1>4, <2>1, <2>2, PartIs
  <2>. QED
    BY <1>4, <2>3
<1>. HIDE DEF u, img, in, key, new, n
<1>10. CASE ~fin
  <2>1. u = PartOfBlock(s0, in, Cipher[key])
    BY <1>2, <1>4, <1>7, <1>10, BlockIs DEF StreamStep, n, in, key
  <2>2. u = [s0 EXCEPT !.output = st.output \o new, !.partial = n, !.done = TRUE]
    BY <1>2, <1>8, <2>1 DEF PartOfBlock, n, new
  <2>3. u \in StateType /\ u.output = st.output \o new
    BY <1>2, <1>4, <1>9, <2>2 DEF StateType
  <2>4. u = PartPut(st, new, n)
    BY <1>2, <2>2 DEF PartPut
  <2>. QED
    BY <1>10, <2>3, <2>4 DEF u, img, new, n
<1>11. CASE fin
  <2>1. u = RestOfBlock(md, dec, s0, in, Cipher[key], fin)
    <3>1. ~(Len(s0.input) >= Block)
      BY <1>2, <1>4, BlockIs DEF n
    <3>. QED
      BY <1>2, <1>7, <1>11, <3>1 DEF StreamStep, in, key
  <2>. DEFINE cut == SubSeq(img, 0 + 1, n)
  <2>2. n % Block = n /\ Take(img, n) = cut
        /\ Take(Drop(img, st.partial), n - st.partial) = new
        /\ Take(Drop(cut, st.partial), n - st.partial) = new
    <3>1. n % Block = n
      BY <1>4, BlockIs
    <3>2. st.partial \in Nat /\ st.partial < Block /\ n \in Nat /\ st.partial =< n /\ n < Block
          /\ img \in Blocks
      BY <1>1, <1>4, <1>8 DEF n
    <3>3. /\ Take(Drop(img, st.partial), n - st.partial) = SubSeq(img, st.partial + 1, n)
          /\ Take(img, n) = SubSeq(img, 0 + 1, n)
          /\ Take(Drop(Take(img, n), st.partial), n - st.partial) = SubSeq(img, st.partial + 1, n)
      BY <3>2, CutIs
    <3>. QED
      BY <3>1, <3>3 DEF new, n
  <2>3. cut \in Seq(Byte) /\ Len(cut) = n
    <3>1. img \in Seq(Byte) /\ Len(img) = Block
      BY <1>8, BlockAsSeq
    <3>2. n =< Len(img) /\ 0 =< n
      BY <1>4, <3>1, BlockIs
    <3>. QED
      BY <1>4, <3>1, <3>2, PartIs
  <2>4. ghash(st.acc, BlockOf(cut)) \in Blocks
    BY <1>8, <2>3, BlockOfType
  <2>5. Drop(st.input, Block) \in Seq(Byte)
    BY <1>4, BlockIs DEF Drop, n
  <2>6. Feedback(md, dec, s0, in, Cipher[key]) \in Blocks
    BY <1>2, <1>8 DEF Feedback, key
  <2>. HIDE DEF cut
  <2>7. Len(s0.input) = n /\ n < Block
    BY <1>2, <1>4 DEF n
  <2>8. NewBytes(s0, IF md = "GCM" THEN cut ELSE img) = new
    BY <1>2, <2>2, <2>7 DEF NewBytes
  <2>. DEFINE f == Feedback(md, dec, s0, in, Cipher[key])
              short == md # "GCM"
              held == md \in {"CFB", "OFB"}
  <2>9. u = [s0 EXCEPT !.input = IF short THEN st.input ELSE Drop(st.input, Block),
                       !.output = st.output \o new,
                       !.partial = 0,
                       !.inBlock = IF held THEN s0.inBlock ELSE f,
                       !.acc = IF md = "GCM" THEN ghash(st.acc, BlockOf(cut)) ELSE st.acc,
                       !.length = IF md = "GCM" THEN st.length + n ELSE st.length]
    <3>1. Take(in ^^ Cipher[key], Len(s0.input) % Block) = cut
      BY <1>8, <2>2, <2>7
    <3>2. NewBytes(s0, IF md = "GCM" THEN cut ELSE in ^^ Cipher[key]) = new
      BY <1>8, <2>8
    <3>. HIDE DEF f
    <3>. QED
      BY <1>2, <1>11, <2>1, <2>3, <2>7, <3>1, <3>2 DEF RestOfBlock, f
  <2>. HIDE DEF f, short, held
  <2>10. u \in StateType
    <3>1. f \in Blocks
      BY <2>6 DEF f
    <3>. DEFINE i1 == IF short THEN st.input ELSE Drop(st.input, Block)
                b1 == IF held THEN s0.inBlock ELSE f
                a1 == IF md = "GCM" THEN ghash(st.acc, BlockOf(cut)) ELSE st.acc
                l1 == IF md = "GCM" THEN st.length + n ELSE st.length
                o1 == st.output \o new
    <3>2. i1 \in Seq(Byte) /\ l1 \in Nat /\ o1 \in Seq(Byte)
      BY <1>4, <1>9, <2>5
    <3>3. b1 \in Blocks /\ a1 \in Blocks
      BY <1>1, <1>2, <2>4, <3>1 DEF StateType
    <3>4. u = [s0 EXCEPT !.input = i1, !.output = o1, !.partial = 0, !.inBlock = b1,
                         !.acc = a1, !.length = l1]
      BY <2>9
    <3>. HIDE DEF i1, b1, a1, l1, o1
    <3>. QED
      BY <1>2, <3>2, <3>3, <3>4 DEF StateType
  <2>11. u.output = st.output \o new
         /\ (md = "GCM" => u.acc = ghash(st.acc, BlockOf(cut)) /\ u.length = st.length + n)
    BY <1>2, <2>9 DEF StateType
  <2>. QED
    BY <1>11, <2>10, <2>11 DEF u, img, new, n, cut
<1>. QED
  BY <1>10, <1>11

-----------------------------------------------------------------------------
(* How far a message is read                                               *)

Follows(out, std, n) ==
    /\ out \in Seq(Byte)
    /\ Len(out) = n
    /\ \A i \in 1 .. n : out[i] = std[i]

(* What GCM hashes: the encrypted message.                                 *)
Hashed(dec, m, out) == IF dec THEN m ELSE out

(* The state after q blocks of m, with acc what was hashed before and      *)
(* before what was taken out of the output buffer.                         *)
Reads(md, dec, iv, acc, m, before, st, q) ==
    /\ Ready(md, dec, st)
    /\ q \in Nat /\ At(q) =< Len(m)
    /\ st.input = Drop(m, At(q))
    /\ Follows(before \o st.output, Standard(md, dec, iv, m), At(q) + st.partial)
    /\ st.inBlock = Key(md, dec, iv, m, q)
    /\ md = "GCM" =>
         /\ st.acc = Hashes(acc, Hashed(dec, m, before \o st.output))[q]
         /\ st.length = At(q)

(* With more of the message it is read as far.                             *)
LEMMA ReadsGoesOn ==
    ASSUME NEW md \in Streams \cup Padded, NEW dec \in BOOLEAN, NEW iv \in Blocks,
           NEW acc \in Blocks, NEW m \in Seq(Byte), NEW t \in Seq(Byte),
           NEW before \in Seq(Byte), NEW st, NEW q,
           Reads(md, dec, iv, acc, m, before, st, q)
    PROVE  Reads(md, dec, iv, acc, m \o t, before, [st EXCEPT !.input = @ \o t], q)
<1>. DEFINE mt == m \o t
            u == [st EXCEPT !.input = @ \o t]
            out == before \o st.output
<1>1. mt \in Seq(Byte) /\ Len(mt) = Len(m) + Len(t) /\ Len(m) \in Nat /\ Len(t) \in Nat
  OBVIOUS
<1>2. /\ Ready(md, dec, st) /\ q \in Nat /\ At(q) =< Len(m)
      /\ st.input = Drop(m, At(q))
      /\ Follows(out, Standard(md, dec, iv, m), At(q) + st.partial)
      /\ st.inBlock = Key(md, dec, iv, m, q)
      /\ md = "GCM" => /\ st.acc = Hashes(acc, Hashed(dec, m, out))[q]
                       /\ st.length = At(q)
  BY DEF Reads
<1>3. /\ st \in StateType /\ st.partial < Block /\ st.partial =< Len(st.input)
      /\ (Buffers(md, dec) => st.partial = 0)
  BY <1>2 DEF Ready
<1>4. /\ st.input \in Seq(Byte) /\ st.partial \in Nat /\ st.output \in Seq(Byte)
      /\ st.input \o t \in Seq(Byte) /\ Len(st.input \o t) = Len(st.input) + Len(t)
  <2>1. st.input \in Seq(Byte) /\ st.partial \in Nat /\ st.output \in Seq(Byte)
    BY <1>3 DEF StateType
  <2>. QED
    BY <2>1
<1>5. /\ u \in StateType /\ u.input = st.input \o t /\ u.output = st.output
      /\ u.partial = st.partial /\ u.inBlock = st.inBlock /\ u.acc = st.acc /\ u.length = st.length
  BY <1>3, <1>4 DEF StateType
<1>6. At(q) \in Nat /\ At(q) =< Len(mt) /\ At(q) \in 0 .. Len(m)
  BY <1>1, <1>2, AtFacts, SMTT(60)
<1>7. u.input = Drop(mt, At(q))
  BY <1>2, <1>5, <1>6, DropAppended
<1>8. Len(st.input) = Len(m) - At(q)
  BY <1>2, <1>6, DropIs
<1>. HIDE DEF mt, u, out
<1>9. Ready(md, dec, u)
  BY <1>1, <1>3, <1>4, <1>5 DEF Ready
<1>10. Follows(out, Standard(md, dec, iv, mt), At(q) + st.partial)
  <2>. DEFINE n == At(q) + st.partial
  <2>1. n \in 0 .. Len(m)
    BY <1>1, <1>3, <1>4, <1>6, <1>8, SMTT(60)
  <2>2. md \notin Padded \/ n = At(q)
    BY <1>3, <1>6 DEF Buffers
  <2>. HIDE DEF n
  <2>3. \A i \in 1 .. n : Standard(md, dec, iv, mt)[i] = Standard(md, dec, iv, m)[i]
    BY <1>2, <2>1, <2>2, StandardGoesOn DEF mt
  <2>4. Follows(out, Standard(md, dec, iv, m), n)
    BY <1>2 DEF n
  <2>5. Follows(out, Standard(md, dec, iv, mt), n)
    BY <2>3, <2>4 DEF Follows
  <2>. QED
    BY <2>5 DEF n
<1>11. u.inBlock = Key(md, dec, iv, mt, q)
  BY <1>2, <1>5, KeyGoesOn DEF mt
<1>12. ASSUME md = "GCM"
       PROVE  u.acc = Hashes(acc, Hashed(dec, mt, out))[q] /\ u.length = At(q)
  <2>1. Hashes(acc, mt)[q] = Hashes(acc, m)[q]
    BY <1>2, HashGoesOn DEF mt
  <2>. QED
    BY <1>2, <1>5, <1>12, <2>1 DEF Hashed
<1>13. before \o u.output = out
  BY <1>5 DEF out
<1>14. Reads(md, dec, iv, acc, mt, before, u, q)
  BY <1>2, <1>5, <1>6, <1>7, <1>9, <1>10, <1>11, <1>12, <1>13 DEF Reads
<1>. QED
  BY <1>14 DEF mt, u

LEMMA ConcatIs ==
    ASSUME NEW s1 \in Seq(Byte), NEW s2 \in Seq(Byte)
    PROVE  /\ s1 \o s2 \in Seq(Byte) /\ Len(s1 \o s2) = Len(s1) + Len(s2)
           /\ \A i \in 1 .. Len(s1) : (s1 \o s2)[i] = s1[i]
           /\ \A i \in 1 .. Len(s2) : (s1 \o s2)[Len(s1) + i] = s2[i]
  OBVIOUS

LEMMA ConcatOn ==
    ASSUME NEW s1 \in Seq(Byte), NEW s2 \in Seq(Byte), NEW s3 \in Seq(Byte)
    PROVE  (s1 \o s2) \o s3 = s1 \o (s2 \o s3)
  BY ConcatAssociative

(* What is appended goes on with the block that was begun.                 *)
LEMMA FollowsOn ==
    ASSUME NEW out, NEW std, NEW a \in Nat, NEW p \in Nat, NEW n \in Nat, NEW b \in Blocks,
           p =< n, n =< Block, Follows(out, std, a + p),
           \A j \in 1 .. Block : j =< n => std[a + j] = b[j]
    PROVE  /\ Follows(out \o SubSeq(b, p + 1, n), std, a + n)
           /\ SubSeq(b, p + 1, n) \in Seq(Byte)
<1>. DEFINE new == SubSeq(b, p + 1, n)
            cat == out \o new
<1>1. b \in Seq(Byte) /\ Len(b) = Block
  BY BlockAsSeq
<1>2. new \in Seq(Byte) /\ Len(new) = n - p /\ \A i \in 1 .. n - p : new[i] = b[p + i]
  BY <1>1, BlockIs, PartIs
<1>3. out \in Seq(Byte) /\ Len(out) = a + p /\ \A i \in 1 .. a + p : out[i] = std[i]
  BY DEF Follows
<1>. HIDE DEF new
<1>4. /\ cat \in Seq(Byte) /\ Len(cat) = a + n
      /\ \A i \in 1 .. a + p : cat[i] = out[i]
      /\ \A i \in 1 .. n - p : cat[(a + p) + i] = new[i]
  <2>1. /\ cat \in Seq(Byte) /\ Len(cat) = Len(out) + Len(new)
        /\ \A i \in 1 .. Len(out) : cat[i] = out[i]
        /\ \A i \in 1 .. Len(new) : cat[Len(out) + i] = new[i]
    BY <1>2, <1>3, ConcatIs
  <2>2. (a + p) + (n - p) = a + n
    OBVIOUS
  <2>. HIDE DEF cat
  <2>. QED
    BY <1>2, <1>3, <2>1, <2>2
<1>. HIDE DEF cat
<1>5. ASSUME NEW i \in 1 .. a + n
      PROVE  cat[i] = std[i]
  <2>1. CASE i =< a + p
    <3>1. i \in 1 .. a + p
      BY <2>1
    <3>. QED
      BY <1>3, <1>4, <3>1
  <2>2. CASE ~(i =< a + p)
    <3>. DEFINE k == i - (a + p)
                j == p + k
    <3>1. k \in 1 .. n - p /\ j \in 1 .. Block /\ j =< n /\ a + j = i /\ (a + p) + k = i
      BY <2>2, BlockIs
    <3>. HIDE DEF k
    <3>2. cat[i] = new[k]
      BY <1>4, <3>1
    <3>3. new[k] = b[j]
      BY <1>2, <3>1
    <3>. HIDE DEF j
    <3>. QED
      BY <3>1, <3>2, <3>3
  <2>. QED
    BY <2>1, <2>2
<1>6. Follows(cat, std, a + n)
  BY <1>4, <1>5 DEF Follows
<1>. QED
  BY <1>2, <1>6 DEF cat, new

(* The block that is made is the standard's.                               *)
LEMMA MadeIsStandard ==
    ASSUME NEW md, NEW dec, NEW iv \in Blocks, NEW acc, NEW m \in Seq(Byte),
           NEW before, NEW st, NEW q \in Nat, Reads(md, dec, iv, acc, m, before, st, q)
    PROVE  /\ Made(md, dec, st) \in Blocks
           /\ BlockOf(st.input) = Nth(m, q + 1)
           /\ At(q) \in Nat /\ Len(st.input) = Len(m) - At(q)
           /\ \A j \in 1 .. Block : At(q) + j =< Len(m) =>
                Standard(md, dec, iv, m)[At(q) + j] = Made(md, dec, st)[j]
<1>1. /\ Ready(md, dec, st) /\ q \in Nat /\ At(q) =< Len(m)
      /\ st.input = Drop(m, At(q)) /\ st.inBlock = Key(md, dec, iv, m, q)
  BY DEF Reads
<1>2. At(q) \in Nat /\ At(q) \in 0 .. Len(m)
  BY <1>1, AtFacts
<1>3. st \in StateType
  BY <1>1 DEF Ready
<1>4. BlockOf(st.input) = Nth(m, q + 1)
  BY <1>1, NthIs
<1>5. Made(md, dec, st) = Image(md, dec, Key(md, dec, iv, m, q), Nth(m, q + 1))
  BY <1>1, <1>4 DEF Made
<1>6. Len(st.input) = Len(m) - At(q)
  BY <1>1, <1>2, DropIs
<1>. QED
  BY <1>1, <1>2, <1>3, <1>4, <1>5, <1>6, MadeType, StandardIs

(* The input is what is left of the message.                               *)
LEMMA InputIs ==
    ASSUME NEW md, NEW dec, NEW iv, NEW acc, NEW m \in Seq(Byte),
           NEW before, NEW st, NEW q, Reads(md, dec, iv, acc, m, before, st, q)
    PROVE  At(q) \in Nat /\ Len(st.input) = Len(m) - At(q) /\ BlockOf(st.input) = Nth(m, q + 1)
<1>1. q \in Nat /\ At(q) =< Len(m) /\ st.input = Drop(m, At(q))
  BY DEF Reads
<1>2. At(q) \in Nat /\ At(q) \in 0 .. Len(m)
  BY <1>1, AtFacts
<1>3. Len(Drop(m, At(q))) = Len(m) - At(q)
  BY <1>2, DropIs
<1>4. Nth(m, q + 1) = BlockOf(Drop(m, At(q)))
  BY <1>1, NthIs
<1>. QED
  BY <1>1, <1>2, <1>3, <1>4

HasBlock(st) == Len(st.input) >= Block
HasPart(st) == Len(st.input) \in 1 .. Block - 1
Says(st) == st.done = TRUE

(* A call that takes a block of the message.                               *)
LEMMA ReadsBlock ==
    ASSUME NEW md \in Streams \cup Padded, NEW dec \in BOOLEAN, NEW iv \in Blocks,
           NEW acc \in Blocks, NEW m \in Seq(Byte), NEW before \in Seq(Byte), NEW st, NEW q \in Nat,
           NEW fin \in BOOLEAN, NEW u, u = op(md, dec, st, fin),
           Reads(md, dec, iv, acc, m, before, st, q),
           HasBlock(st), Buffers(md, dec) \/ ~fin
    PROVE  Reads(md, dec, iv, acc, m, before, u, q + 1) /\ ~Says(u)
<1>. USE DEF HasBlock
<1>. DEFINE std == Standard(md, dec, iv, m)
            img == Made(md, dec, st)
            in == BlockOf(st.input)
            new == SubSeq(img, st.partial + 1, Block)
            out == before \o st.output
            put == before \o u.output
<1>1. /\ Ready(md, dec, st) /\ q \in Nat /\ At(q) =< Len(m)
      /\ st.input = Drop(m, At(q))
      /\ Follows(out, std, At(q) + st.partial)
      /\ st.inBlock = Key(md, dec, iv, m, q)
      /\ md = "GCM" => /\ st.acc = Hashes(acc, Hashed(dec, m, out))[q]
                       /\ st.length = At(q)
  BY DEF Reads
<1>2. /\ img \in Blocks /\ in = Nth(m, q + 1) /\ At(q) \in Nat
      /\ Len(st.input) = Len(m) - At(q)
      /\ \A j \in 1 .. Block : At(q) + j =< Len(m) => std[At(q) + j] = img[j]
  BY MadeIsStandard
<1>3. /\ st \in StateType /\ st.partial < Block /\ st.partial \in Nat
      /\ st.input \in Seq(Byte) /\ st.output \in Seq(Byte)
  <2>1. st \in StateType /\ st.partial < Block
    BY <1>1 DEF Ready
  <2>. QED
    BY <2>1 DEF StateType
<1>4. Len(m) \in Nat /\ Len(st.input) \in Nat
  BY <1>3
<1>5. At(q + 1) = At(q) + Block /\ At(q + 1) =< Len(m) /\ q + 1 \in Nat /\ At(q) < Len(m)
  <2>1. At(q + 1) = At(q) + Block /\ q + 1 \in Nat
    BY <1>1, AtFacts
  <2>. HIDE DEF std, img, in, new, out, put
  <2>2. At(q) + Block =< Len(m)
    BY <1>2, <1>4, BlockIs
  <2>. QED
    BY <1>2, <1>4, <2>1, <2>2, BlockIs
<1>6. ~Waiting(md, dec, st, fin)
  <2>1. st.input # <<>> /\ ~(Len(st.input) < Block)
    BY <1>4, BlockIs
  <2>. QED
    BY <2>1 DEF Waiting, Waits
<1>7. /\ u \in StateType
      /\ u.input = Drop(st.input, Block)
      /\ u.output = st.output \o new
      /\ u.inBlock = Forward(md, dec, st.inBlock, in)
      /\ u.partial = 0
      /\ u.done = FALSE
      /\ md = "GCM" =>
           /\ u.acc = ghash(st.acc, IF dec THEN in ELSE img)
           /\ u.length = st.length + Block
  <2>1. ~(Len(st.input) < Block)
    BY <1>4, BlockIs
  <2>2. Buffers(md, dec) \/ (Len(st.input) >= Block /\ ~fin)
    OBVIOUS
  <2>. HIDE DEF img, in
  <2>3. LET v == op(md, dec, st, fin)
        IN  /\ v \in StateType
            /\ v.input = Drop(st.input, Block)
            /\ v.output = st.output \o SubSeq(Made(md, dec, st), st.partial + 1, Block)
            /\ v.inBlock = Forward(md, dec, st.inBlock, BlockOf(st.input))
            /\ v.partial = 0
            /\ v.done = FALSE
            /\ md = "GCM" =>
                 /\ v.acc = ghash(st.acc, IF dec THEN BlockOf(st.input) ELSE Made(md, dec, st))
                 /\ v.length = st.length + (IF Len(st.input) < Block THEN Len(st.input) ELSE Block)
    BY <1>1, <1>6, <2>2, OpTakesBlock
  <2>. QED
    BY <2>1, <2>3 DEF img, in
<1>. HIDE DEF img, in, std
<1>8. Follows(out \o new, std, At(q) + Block) /\ new \in Seq(Byte)
  <2>1. \A j \in 1 .. Block : j =< Block => std[At(q) + j] = img[j]
    BY <1>2, <1>4, <1>5, BlockIs
  <2>2. st.partial =< Block /\ Block =< Block /\ Block \in Nat
    BY <1>3, BlockIs
  <2>3. img \in Blocks /\ At(q) \in Nat /\ st.partial \in Nat
        /\ Follows(out, std, At(q) + st.partial)
    BY <1>1, <1>2, <1>3 DEF std
  <2>. HIDE DEF out
  <2>. QED
    BY <2>1, <2>2, <2>3, FollowsOn
<1>9. put = out \o new
  <2>. HIDE DEF new
  <2>. QED
    <3>1. st.output \in Seq(Byte) /\ new \in Seq(Byte) /\ u.output = st.output \o new
      BY <1>3, <1>7, <1>8
    <3>2. (before \o st.output) \o new = before \o (st.output \o new)
      BY <3>1, ConcatOn
    <3>. QED
      BY <3>1, <3>2
<1>10. Follows(put, std, At(q + 1) + u.partial)
  <2>1. At(q + 1) + u.partial = At(q) + Block
    BY <1>2, <1>5, <1>7, BlockIs
  <2>. QED
    BY <1>8, <1>9, <2>1
<1>11. u.input = Drop(m, At(q + 1)) /\ u.partial =< Len(u.input)
  <2>1. At(q) \in 0 .. Len(m) /\ Block \in 0 .. Len(m) - At(q)
    BY <1>1, <1>2, <1>4, <1>5, BlockIs
  <2>2. u.input = Drop(m, At(q) + Block)
    BY <1>1, <1>7, <2>1, DropDrop
  <2>3. u.input \in Seq(Byte)
    BY <1>7 DEF StateType
  <2>4. Len(u.input) \in Nat
    BY <2>3
  <2>. QED
    BY <1>5, <1>7, <2>2, <2>4
<1>12. Ready(md, dec, u)
  BY <1>7, <1>11, BlockIs DEF Ready
<1>13. u.inBlock = Key(md, dec, iv, m, q + 1)
  <2>1. Key(md, dec, iv, m, q + 1) = Forward(md, dec, Key(md, dec, iv, m, q), Nth(m, q + 1))
    BY <1>1, <1>5, KeyNext
  <2>. QED
    BY <1>1, <1>2, <1>7, <2>1
<1>14. ASSUME md = "GCM"
       PROVE  u.acc = Hashes(acc, Hashed(dec, m, put))[q + 1] /\ u.length = At(q + 1)
  <2>1. u.length = At(q + 1)
    BY <1>1, <1>5, <1>7, <1>14
  <2>2. CASE dec
    <3>1. Hashes(acc, m)[q + 1] = TimesH[Hashes(acc, m)[q] ^^ Nth(m, q + 1)]
      BY <1>1, <1>5, HashesFollow
    <3>. QED
      BY <1>1, <1>2, <1>7, <1>14, <2>1, <2>2, <3>1 DEF Hashed, ghash
  <2>3. CASE ~dec
    <3>1. /\ put \in Seq(Byte) /\ Len(put) = At(q) + Block
          /\ \A i \in 1 .. At(q) + Block : put[i] = std[i]
      BY <1>8, <1>9 DEF Follows
    <3>2. out \in Seq(Byte) /\ Len(out) = At(q) + st.partial
      BY <1>1 DEF Follows
    <3>3. At(q) =< Len(out) /\ At(q) =< Len(put) /\ At(q) < Len(put)
      BY <1>2, <1>3, <3>1, <3>2, BlockIs
    <3>. HIDE DEF out, put, new
    <3>4. Hashes(acc, put)[q] = Hashes(acc, out)[q]
      BY <1>1, <1>8, <1>9, <3>2, <3>3, HashGoesOn
    <3>5. Nth(put, q + 1) = img
      <4>1. Nth(put, q + 1) \in Blocks
        BY <1>1, <3>1, <3>3, NthIs
      <4>2. ASSUME NEW j \in 1 .. Block
            PROVE  Nth(put, q + 1)[j] = img[j]
        <5>1. At(q) + j =< Len(put) /\ At(q) + j \in 1 .. At(q) + Block /\ At(q) + j =< Len(m)
          BY <1>2, <1>4, <1>5, <3>1, BlockIs
        <5>2. Nth(put, q + 1)[j] = put[At(q) + j]
          BY <1>1, <3>1, <3>3, <5>1, NthIs
        <5>. QED
          BY <1>2, <3>1, <5>1, <5>2
      <4>. QED
        BY <1>2, <4>1, <4>2, BlocksEqual
    <3>6. Hashes(acc, put)[q + 1] = TimesH[Hashes(acc, put)[q] ^^ Nth(put, q + 1)]
      BY <1>1, <3>1, <3>3, HashesFollow
    <3>. QED
      BY <1>1, <1>7, <1>14, <2>1, <2>3, <3>4, <3>5, <3>6 DEF Hashed, ghash
  <2>. QED
    BY <2>2, <2>3
<1>15. Reads(md, dec, iv, acc, m, before, u, q + 1)
  BY <1>5, <1>10, <1>11, <1>12, <1>13, <1>14 DEF Reads, std
<1>. QED
  BY <1>7, <1>15 DEF Says

(* The result of the whole message is put out.                             *)
AllRead(md, dec, iv, acc, m, before, fin, u) ==
    /\ u \in StateType
    /\ Follows(before \o u.output, Standard(md, dec, iv, m), Len(m))
    /\ fin /\ md = "GCM" => u.acc = HashOf(acc, before \o u.output) /\ u.length = Len(m)

AllPut(st, u) == u.input = st.input /\ u.partial = Len(u.input)

(* A call of a stream that has less than a block.                          *)
LEMMA ReadsPart ==
    ASSUME NEW md \in Streams, NEW dec \in BOOLEAN, NEW iv \in Blocks,
           NEW acc \in Blocks, NEW m \in Seq(Byte), NEW before \in Seq(Byte), NEW st, NEW q \in Nat,
           NEW fin \in BOOLEAN, NEW u, u = op(md, dec, st, fin),
           Reads(md, dec, iv, acc, m, before, st, q),
           ~Buffers(md, dec), HasPart(st)
    PROVE  /\ AllRead(md, dec, iv, acc, m, before, fin, u)
           /\ ~fin => Reads(md, dec, iv, acc, m, before, u, q) /\ AllPut(st, u)
<1>. USE DEF HasPart
<1>. DEFINE std == Standard(md, dec, iv, m)
            img == Made(md, dec, st)
            n == Len(st.input)
            new == SubSeq(img, st.partial + 1, n)
            out == before \o st.output
            put == before \o u.output
<1>1. /\ Ready(md, dec, st) /\ q \in Nat /\ At(q) =< Len(m)
      /\ st.input = Drop(m, At(q))
      /\ Follows(out, std, At(q) + st.partial)
      /\ st.inBlock = Key(md, dec, iv, m, q)
      /\ md = "GCM" => /\ st.acc = Hashes(acc, Hashed(dec, m, out))[q]
                       /\ st.length = At(q)
  BY DEF Reads
<1>2. /\ img \in Blocks /\ At(q) \in Nat
      /\ n = Len(m) - At(q)
      /\ \A j \in 1 .. Block : At(q) + j =< Len(m) => std[At(q) + j] = img[j]
  <2>1. md \in Streams \cup Padded
    OBVIOUS
  <2>. QED
    BY <2>1, MadeIsStandard
<1>3. /\ st \in StateType /\ st.partial < Block /\ st.partial \in Nat /\ st.partial =< n
      /\ st.input \in Seq(Byte) /\ st.output \in Seq(Byte)
  <2>1. st \in StateType /\ st.partial < Block /\ st.partial =< n
    BY <1>1 DEF Ready
  <2>. QED
    BY <2>1 DEF StateType
<1>4. Len(m) \in Nat /\ n \in Nat
  BY <1>3
<1>5. At(q) + n = Len(m) /\ n < Block /\ At(q) < Len(m) /\ n # 0 /\ n =< Block
  BY <1>2, <1>4, BlockIs
<1>6. /\ u \in StateType
      /\ u.output = st.output \o new
      /\ ~fin => u = PartPut(st, new, n)
      /\ fin /\ md = "GCM" =>
           /\ u.acc = ghash(st.acc, BlockOf(SubSeq(img, 0 + 1, n)))
           /\ u.length = st.length + n
  <2>2. LET v == op(md, dec, st, fin)
            k == Len(st.input)
            more == SubSeq(Made(md, dec, st), st.partial + 1, k)
        IN  /\ v \in StateType
            /\ v.output = st.output \o more
            /\ ~fin => v = PartPut(st, more, k)
            /\ fin /\ md = "GCM" =>
                 /\ v.acc = ghash(st.acc, BlockOf(SubSeq(Made(md, dec, st), 0 + 1, k)))
                 /\ v.length = st.length + k
    BY <1>1, OpTakesPart
  <2>. QED
    BY <2>2 DEF n, img
<1>. HIDE DEF img, std, n
<1>7. Follows(out \o new, std, At(q) + n) /\ new \in Seq(Byte)
  <2>1. \A j \in 1 .. Block : j =< n => std[At(q) + j] = img[j]
    BY <1>2, <1>4, <1>5, BlockIs
  <2>2. img \in Blocks /\ At(q) \in Nat /\ st.partial \in Nat /\ n \in Nat
        /\ Follows(out, std, At(q) + st.partial) /\ st.partial =< n /\ n =< Block
    BY <1>1, <1>2, <1>3, <1>4, <1>5 DEF std
  <2>. HIDE DEF out
  <2>. QED
    BY <2>1, <2>2, FollowsOn
<1>8. put = out \o new
  <2>. HIDE DEF new
  <2>1. st.output \in Seq(Byte) /\ new \in Seq(Byte) /\ u.output = st.output \o new
    BY <1>3, <1>6, <1>7
  <2>2. (before \o st.output) \o new = before \o (st.output \o new)
    BY <2>1, ConcatOn
  <2>. QED
    BY <2>1, <2>2
<1>9. Follows(put, std, Len(m))
  BY <1>5, <1>7, <1>8
<1>10. ASSUME ~fin
       PROVE  Reads(md, dec, iv, acc, m, before, u, q)
              /\ u.done = TRUE /\ u.input = st.input /\ u.partial = n
  <2>. HIDE DEF new
  <2>1. /\ u.input = st.input /\ u.inBlock = st.inBlock /\ u.acc = st.acc /\ u.length = st.length
        /\ u.partial = n /\ u.done = TRUE
    BY <1>3, <1>6, <1>10 DEF StateType, PartPut
  <2>2. Ready(md, dec, u)
    BY <1>4, <1>5, <1>6, <2>1 DEF Ready, n
  <2>3. ASSUME md = "GCM"
        PROVE  u.acc = Hashes(acc, Hashed(dec, m, put))[q] /\ u.length = At(q)
    <3>1. ~dec
      BY <2>3 DEF Buffers
    <3>2. out \in Seq(Byte) /\ Len(out) = At(q) + st.partial
      BY <1>1 DEF Follows
    <3>3. At(q) =< Len(out)
      BY <1>2, <1>3, <3>2
    <3>. HIDE DEF out
    <3>4. Hashes(acc, put)[q] = Hashes(acc, out)[q]
      BY <1>1, <1>7, <1>8, <3>2, <3>3, HashGoesOn
    <3>. QED
      BY <1>1, <2>1, <2>3, <3>1, <3>4 DEF Hashed
  <2>4. Follows(put, std, At(q) + u.partial)
    BY <1>5, <1>9, <2>1
  <2>5. Reads(md, dec, iv, acc, m, before, u, q)
    BY <1>1, <2>1, <2>2, <2>3, <2>4 DEF Reads, std
  <2>. QED
    BY <2>1, <2>5
<1>11. ASSUME fin, md = "GCM"
       PROVE  u.acc = HashOf(acc, put) /\ u.length = Len(m)
  <2>. DEFINE cut == SubSeq(img, 0 + 1, n)
  <2>1. ~dec
    BY <1>11 DEF Buffers
  <2>2. /\ out \in Seq(Byte) /\ Len(out) = At(q) + st.partial
        /\ put \in Seq(Byte) /\ Len(put) = Len(m) /\ \A i \in 1 .. Len(m) : put[i] = std[i]
    BY <1>1, <1>9 DEF Follows
  <2>3. At(q) =< Len(out) /\ At(q) < Len(put) /\ At(q) =< Len(put)
    BY <1>2, <1>3, <1>4, <1>5, <2>2, SMTT(60)
  <2>4. cut \in Seq(Byte) /\ Len(cut) = n /\ \A i \in 1 .. n : cut[i] = img[i]
    <3>1. img \in Seq(Byte) /\ Len(img) = Block
      BY <1>2, BlockAsSeq
    <3>2. n =< Len(img) /\ 0 =< n /\ 0 \in Nat
      BY <1>4, <1>5, <3>1
    <3>3. cut \in Seq(Byte) /\ Len(cut) = n - 0 /\ \A i \in 1 .. n - 0 : cut[i] = img[0 + i]
      BY <1>4, <3>1, <3>2, PartIs
    <3>4. n - 0 = n /\ \A i \in 1 .. n : 0 + i = i
      BY <1>4
    <3>. HIDE DEF cut
    <3>. QED
      BY <3>3, <3>4
  <2>. HIDE DEF cut, out, put, new
  <2>5. Hashes(acc, put)[q] = Hashes(acc, out)[q]
    BY <1>1, <1>7, <1>8, <2>2, <2>3, HashGoesOn
  <2>6. Nth(put, q + 1) = BlockOf(cut)
    <3>1. Nth(put, q + 1) \in Blocks /\ BlockOf(cut) \in Blocks
      BY <1>1, <2>2, <2>3, <2>4, NthIs, BlockOfType
    <3>2. ASSUME NEW j \in 1 .. Block
          PROVE  Nth(put, q + 1)[j] = BlockOf(cut)[j]
      <4>1. BlockOf(cut)[j] = IF j =< n THEN cut[j] ELSE 0
        BY <2>4 DEF BlockOf
      <4>2. Nth(put, q + 1)[j] = IF At(q) + j =< Len(m) THEN put[At(q) + j] ELSE 0
        BY <1>1, <2>2, <2>3, NthIs
      <4>3. CASE j =< n
        <5>1. j \in 1 .. n /\ At(q) + j \in 1 .. Len(m) /\ At(q) + j =< Len(m)
          BY <1>2, <1>4, <1>5, <4>3, BlockIs, SMTT(60)
        <5>. QED
          BY <1>2, <2>2, <2>4, <4>1, <4>2, <4>3, <5>1
      <4>4. CASE ~(j =< n)
        <5>1. ~(At(q) + j =< Len(m))
          BY <1>2, <1>4, <1>5, <4>4, BlockIs
        <5>. QED
          BY <4>1, <4>2, <4>4, <5>1
      <4>. QED
        BY <4>3, <4>4
    <3>. QED
      BY <3>1, <3>2, BlocksEqual
  <2>7. Hashes(acc, put)[q + 1] = TimesH[Hashes(acc, put)[q] ^^ Nth(put, q + 1)]
    BY <1>1, <2>2, <2>3, HashesFollow
  <2>8. Count(put) = q + 1
    <3>1. At(q + 1) = At(q) + Block
      BY <1>1, AtFacts
    <3>2. Len(put) =< At(q + 1)
      BY <1>2, <1>4, <1>5, <2>2, <3>1, BlockIs
    <3>. QED
      BY <1>1, <2>2, <2>3, <3>2, CountEnds
  <2>9. st.acc = Hashes(acc, out)[q] /\ st.length = At(q)
    BY <1>1, <1>11, <2>1 DEF Hashed, out
  <2>. QED
    BY <1>5, <1>6, <1>11, <2>5, <2>6, <2>7, <2>8, <2>9 DEF HashOf, ghash, cut
<1>. QED
  BY <1>6, <1>9, <1>10, <1>11 DEF std, n, AllRead, AllPut

(* Nothing is left to do before more of the message comes.                 *)
Rested(md, dec, st) ==
    /\ Len(st.input) < Block
    /\ ~Buffers(md, dec) => st.partial = Len(st.input)

(* Every call in update reads on or rests.                                 *)
LEMMA ReadsOn ==
    ASSUME NEW md \in Streams \cup Padded, NEW dec \in BOOLEAN, NEW iv \in Blocks,
           NEW acc \in Blocks, NEW m \in Seq(Byte), NEW before \in Seq(Byte), NEW st, NEW q \in Nat,
           NEW no \in BOOLEAN, ~no, NEW u, u = op(md, dec, st, no),
           Reads(md, dec, iv, acc, m, before, st, q)
    PROVE  /\ \E r : Reads(md, dec, iv, acc, m, before, u, r)
           /\ Says(u) => Rested(md, dec, u)
<1>1. /\ Ready(md, dec, st) /\ st \in StateType /\ st.input \in Seq(Byte) /\ st.partial \in Nat
      /\ st.partial =< Len(st.input)
  <2>1. Ready(md, dec, st)
    BY DEF Reads
  <2>. QED
    BY <2>1 DEF Ready, StateType
<1>2. Len(st.input) \in Nat
  BY <1>1
<1>3. CASE Waiting(md, dec, st, no)
  <2>1. u = Finished(st)
    BY <1>1, <1>3, OpWaits
  <2>2. /\ u \in StateType /\ u.input = st.input /\ u.output = st.output /\ u.inBlock = st.inBlock
        /\ u.partial = st.partial /\ u.acc = st.acc /\ u.length = st.length /\ u.done = TRUE
    BY <1>1, <2>1 DEF StateType, Finished
  <2>3. Reads(md, dec, iv, acc, m, before, u, q)
    BY <2>2 DEF Reads, Ready
  <2>4. Rested(md, dec, u)
    <3>1. CASE Buffers(md, dec)
      BY <1>3, <2>2, <3>1 DEF Waiting, Waits, Rested
    <3>2. CASE ~Buffers(md, dec)
      <4>1. st.input = <<>>
        BY <1>3, <3>2 DEF Waiting
      <4>2. Len(st.input) = 0
        BY <4>1
      <4>3. st.partial = 0
        BY <1>1, <4>2
      <4>. QED
        BY <2>2, <4>2, <4>3, BlockIs DEF Rested
    <3>. QED
      BY <3>1, <3>2
  <2>. QED
    BY <2>3, <2>4
<1>4. CASE ~Waiting(md, dec, st, no) /\ Len(st.input) >= Block
  <2>1. HasBlock(st)
    BY <1>4 DEF HasBlock
  <2>2. Reads(md, dec, iv, acc, m, before, u, q + 1) /\ ~Says(u)
    BY <2>1, ReadsBlock
  <2>. QED
    BY <2>2 DEF Says
<1>5. CASE ~Waiting(md, dec, st, no) /\ ~(Len(st.input) >= Block)
  <2>1. ~Buffers(md, dec)
    BY <1>2, <1>5, BlockIs DEF Waiting, Waits
  <2>2. Len(st.input) # 0
    BY <1>1, <1>5, <2>1 DEF Waiting
  <2>3. HasPart(st)
    BY <1>2, <1>5, <2>2, BlockIs DEF HasPart
  <2>4. md \in Streams
    BY <2>1 DEF Buffers
  <2>5. Reads(md, dec, iv, acc, m, before, u, q) /\ AllPut(st, u)
    BY <2>1, <2>3, <2>4, ReadsPart
  <2>6. Rested(md, dec, u)
    BY <1>2, <1>5, <2>5, BlockIs DEF Rested, AllPut
  <2>. QED
    BY <2>5, <2>6
<1>. QED
  BY <1>3, <1>4, <1>5

-----------------------------------------------------------------------------
(* Messages of whole blocks                                                *)

(* A message that is q blocks and a rest.                                  *)
LEMMA RestIs ==
    ASSUME NEW m \in Seq(Byte), NEW q \in Nat, At(q) =< Len(m), Len(m) < At(q) + Block
    PROVE  /\ At(q) \in Nat /\ Len(m) % Block = Len(m) - At(q)
           /\ Count(m) = IF Len(m) = At(q) THEN q ELSE q + 1
<1>. DEFINE r == Len(m) - At(q)
<1>0. Len(m) \in Nat
  OBVIOUS
<1>1. At(q) \in Nat /\ At(q + 1) = At(q) + Block
  BY AtFacts
<1>2. r \in Nat /\ r < Block /\ Len(m) = (q * Block) + r
  BY <1>0, <1>1, BlockIs DEF At
<1>. HIDE DEF r
<1>3. Len(m) % Block = r
  BY <1>2, QuotientIs, BlockIs
<1>4. Count(m) = IF Len(m) = At(q) THEN q ELSE q + 1
  <2>1. CASE Len(m) = At(q)
    BY <2>1, CountEnds
  <2>2. CASE Len(m) # At(q)
    <3>1. At(q) < Len(m) /\ Len(m) =< At(q + 1)
      BY <1>0, <1>1, <2>2, BlockIs
    <3>. QED
      BY <2>2, <3>1, CountEnds
  <2>. QED
    BY <2>1, <2>2
<1>. QED
  BY <1>1, <1>3, <1>4 DEF r

(* Every message is.                                                       *)
LEMMA RestOf ==
    ASSUME NEW m \in Seq(Byte)
    PROVE  \E q \in Nat : At(q) =< Len(m) /\ Len(m) < At(q) + Block
<1>0. Len(m) \in Nat
  OBVIOUS
<1>. DEFINE q == Len(m) \div Block
            r == Len(m) % Block
<1>1. q \in Nat /\ r \in Nat /\ r < Block /\ Len(m) = At(q) + r
  BY <1>0, BlockIs, QuotientOf DEF At
<1>. HIDE DEF q, r
<1>2. At(q) \in Nat
  BY <1>1, AtFacts
<1>. QED
  BY <1>1, <1>2, BlockIs

LEMMA WholeIs ==
    ASSUME NEW m \in Seq(Byte), NEW q \in Nat, At(q) =< Len(m), Len(m) < At(q) + Block
    PROVE  /\ Whole(m) \in Seq(Byte) /\ Len(Whole(m)) = At(q) /\ Count(Whole(m)) = q
           /\ \A i \in 1 .. At(q) : Whole(m)[i] = m[i]
           /\ Drop(m, At(q)) \in Seq(Byte)
           /\ m = Whole(m) \o Drop(m, At(q))
<1>. DEFINE w == Whole(m)
            d == Drop(m, At(q))
            n == At(q)
<1>1. n \in Nat /\ Len(m) % Block = Len(m) - n /\ Len(m) \in Nat
  <2>1. Len(m) \in Nat
    OBVIOUS
  <2>. QED
    BY <2>1, RestIs
<1>2. Len(m) - (Len(m) % Block) = n
  BY <1>1
<1>. HIDE DEF n
<1>3. w \in Seq(Byte) /\ Len(w) = n /\ \A i \in 1 .. n : w[i] = m[i]
  <2>1. w = Take(m, n)
    BY <1>2 DEF Whole
  <2>2. CASE n >= Len(m)
    <3>1. w = m /\ n = Len(m)
      BY <1>1, <2>1, <2>2 DEF Take, n
    <3>. HIDE DEF w
    <3>. QED
      BY <3>1
  <2>3. CASE ~(n >= Len(m))
    <3>. DEFINE p == SubSeq(m, 0 + 1, n)
    <3>0. 0 + 1 = 1
      OBVIOUS
    <3>1. w = p
      <4>1. w = SubSeq(m, 1, n)
        BY <2>1, <2>3 DEF Take
      <4>. QED
        BY <3>0, <4>1
    <3>2. p \in Seq(Byte) /\ Len(p) = n - 0 /\ \A i \in 1 .. n - 0 : p[i] = m[0 + i]
      BY <1>1, <2>3, PartIs
    <3>. HIDE DEF p, w
    <3>3. n - 0 = n /\ \A i \in 1 .. n : 0 + i = i
      BY <1>1
    <3>. QED
      BY <3>1, <3>2, <3>3
  <2>. QED
    BY <2>2, <2>3
<1>4. d \in Seq(Byte) /\ Len(d) = Len(m) - n /\ \A i \in 1 .. Len(m) - n : d[i] = m[n + i]
  <2>1. n \in 0 .. Len(m)
    BY <1>1 DEF n
  <2>. QED
    BY <2>1, DropIs DEF n
<1>. HIDE DEF w, d
<1>5. /\ w \o d \in Seq(Byte) /\ Len(w \o d) = Len(m)
      /\ \A i \in 1 .. n : (w \o d)[i] = w[i]
      /\ \A i \in 1 .. Len(m) - n : (w \o d)[n + i] = d[i]
  <2>1. n + (Len(m) - n) = Len(m)
    BY <1>1
  <2>. QED
    BY <1>3, <1>4, <2>1, ConcatIs, SMTT(60)
<1>6. m = w \o d
  <2>. DEFINE c == w \o d
  <2>. HIDE DEF c
  <2>1. ASSUME NEW i \in 1 .. Len(m)
        PROVE  m[i] = c[i]
    <3>1. CASE i =< n
      <4>1. i \in 1 .. n
        BY <1>1, <3>1
      <4>. QED
        BY <1>3, <1>5, <4>1 DEF c
    <3>2. CASE ~(i =< n)
      <4>. DEFINE k == i - n
      <4>1. k \in 1 .. Len(m) - n /\ n + k = i
        BY <1>1, <3>2
      <4>. HIDE DEF k
      <4>. QED
        BY <1>4, <1>5, <4>1 DEF c
    <3>. QED
      BY <3>1, <3>2
  <2>2. c \in Seq(Byte) /\ Len(c) = Len(m)
    BY <1>5 DEF c
  <2>3. m = c
    BY <2>1, <2>2, SeqEqual
  <2>. QED
    BY <2>3 DEF c
<1>7. Count(w) = q
  BY <1>3, CountEnds DEF n
<1>. QED
  BY <1>3, <1>4, <1>6, <1>7 DEF w, d, n

(* n times a byte.                                                         *)
Times(n, x) == [i \in 1 .. n |-> x]

LEMMA TimesIs ==
    ASSUME NEW n \in Nat, NEW x \in Byte
    PROVE  Times(n, x) \in Seq(Byte) /\ Len(Times(n, x)) = n
           /\ \A i \in 1 .. n : Times(n, x)[i] = x
<1>1. Times(n, x) \in [1 .. n -> Byte]
  BY DEF Times
<1>. QED
  BY <1>1 DEF Times

(* Filling goes on with zeros.                                             *)
LEMMA FilledIs ==
    ASSUME NEW m \in Seq(Byte), NEW q \in Nat, At(q) =< Len(m), Len(m) < At(q) + Block
    PROVE  LET n == IF Len(m) = At(q) THEN 0 ELSE At(q + 1) - Len(m)
           IN  n \in Nat /\ Filled(m) = m \o Times(n, 0) /\ Times(n, 0) \in Seq(Byte)
<1>. DEFINE n == IF Len(m) = At(q) THEN 0 ELSE At(q + 1) - Len(m)
            c == Count(m)
            z == Times(n, 0)
            f == [k \in 1 .. c |-> Nth(m, k)]
            a == Filled(m)
            b == m \o z
            N == At(c)
<1>0. Len(m) \in Nat
  OBVIOUS
<1>1. At(q) \in Nat /\ At(q + 1) = At(q) + Block /\ At(q + 1) \in Nat
  BY AtFacts, BlockIs
<1>2. c = IF Len(m) = At(q) THEN q ELSE q + 1
  BY RestIs
<1>3. n \in Nat /\ Len(m) + n = N /\ N \in Nat /\ c \in Nat
  BY <1>0, <1>1, <1>2, BlockIs
<1>4. z \in Seq(Byte) /\ Len(z) = n /\ \A i \in 1 .. n : z[i] = 0
  <2>1. 0 \in Byte
    BY DEF Byte
  <2>. QED
    BY <1>3, <2>1, TimesIs
<1>. HIDE DEF n, z
<1>5. b \in Seq(Byte) /\ Len(b) = N
      /\ (\A i \in 1 .. Len(m) : b[i] = m[i])
      /\ (\A i \in 1 .. n : b[Len(m) + i] = z[i])
  BY <1>3, <1>4, ConcatIs
<1>6. a = [i \in 1 .. N |-> f[((i - 1) \div Block) + 1][((i - 1) % Block) + 1]]
  BY DEF Filled, Joined, At
<1>7. \A k \in Nat : At(k) < Len(m) <=> k + 1 =< c
  BY CountIs
<1>. HIDE DEF a, b, N, c, f
<1>8. ASSUME NEW i \in 1 .. N
      PROVE  a[i] = b[i]
  <2>1. PICK k \in Nat, j \in 1 .. Block : i = At(k) + j
    <3>1. i \in Nat \ {0}
      OBVIOUS
    <3>. QED
      BY <3>1, PlaceOf
  <2>2. At(k) \in Nat /\ k \in Nat /\ j \in 1 .. Block /\ j \in Nat
    BY <2>1, AtFacts, BlockIs
  <2>3. k < c
    <3>. SUFFICES ASSUME c =< k
                  PROVE  FALSE
      BY <1>3, <2>2
    <3>1. At(c) =< At(k)
      BY <1>3, <2>2, AtFacts
    <3>. QED
      BY <1>3, <2>1, <2>2, <3>1 DEF N
  <2>4. At(k) < Len(m) /\ At(k) =< Len(m) /\ k + 1 \in 1 .. c
    BY <1>0, <1>3, <1>7, <2>2, <2>3
  <2>5. ((i - 1) \div Block) = k /\ ((i - 1) % Block) + 1 = j
    BY <2>1, <2>2, PlaceIs, BlockIs
  <2>6. a[i] = f[k + 1][j]
    BY <1>6, <2>5
  <2>7. f[k + 1] = Nth(m, k + 1)
    BY <2>4 DEF f
  <2>8. Nth(m, k + 1)[j] = IF At(k) + j =< Len(m) THEN m[At(k) + j] ELSE 0
    BY <2>2, <2>4, NthIs
  <2>9. CASE i =< Len(m)
    <3>1. i \in 1 .. Len(m)
      BY <1>0, <2>9
    <3>. QED
      BY <1>5, <2>1, <2>6, <2>7, <2>8, <2>9, <3>1
  <2>10. CASE ~(i =< Len(m))
    <3>. DEFINE l == i - Len(m)
    <3>1. l \in 1 .. n /\ Len(m) + l = i
      BY <1>0, <1>3, <2>10
    <3>. HIDE DEF l
    <3>2. b[i] = 0
      BY <1>4, <1>5, <3>1
    <3>. QED
      BY <2>1, <2>6, <2>7, <2>8, <2>10, <3>2
  <2>. QED
    BY <2>9, <2>10
<1>9. a = b
  <2>1. a = [i \in 1 .. N |-> a[i]]
    BY <1>6
  <2>2. DOMAIN b = 1 .. N /\ b = [i \in 1 .. N |-> b[i]]
    BY <1>5
  <2>3. [i \in 1 .. N |-> a[i]] = [i \in 1 .. N |-> b[i]]
    BY <1>8
  <2>. QED
    BY <2>1, <2>2, <2>3
<1>. QED
  BY <1>3, <1>4, <1>9 DEF a, b, z, n

(* Padding goes on with the bytes that make the last block whole, or with  *)
(* a block of them.                                                        *)
LEMMA WithPaddingIs ==
    ASSUME NEW m \in Seq(Byte), NEW q \in Nat, At(q) =< Len(m), Len(m) < At(q) + Block,
           Block \in Byte
    PROVE  LET n == At(q + 1) - Len(m)
           IN  /\ n \in 1 .. Block /\ n \in Byte /\ n = Block - (Len(m) - At(q))
               /\ WithPadding(m) = m \o Times(n, n) /\ Times(n, n) \in Seq(Byte)
<1>. DEFINE n == At(q + 1) - Len(m)
<1>0. Len(m) \in Nat
  OBVIOUS
<1>1. At(q) \in Nat /\ At(q + 1) = At(q) + Block
  BY AtFacts
<1>2. n \in 1 .. Block /\ n = Block - (Len(m) - At(q))
  BY <1>0, <1>1, BlockIs
<1>3. n \in Byte
  BY <1>2 DEF Byte
<1>4. Block - (Len(m) % Block) = n
  BY <1>2, RestIs
<1>. HIDE DEF n
<1>5. WithPadding(m) = m \o Times(n, n)
  BY <1>4 DEF WithPadding, Times
<1>6. Times(n, n) \in Seq(Byte)
  BY <1>2, <1>3, TimesIs
<1>. QED
  BY <1>2, <1>3, <1>5, <1>6 DEF n

(* The input as it is at the finish, for what that does the same as with   *)
(* the zeros that make it whole.                                           *)
LEMMA BlockOfFilled ==
    ASSUME NEW m \in Seq(Byte), NEW n \in Nat
    PROVE  BlockOf(m \o Times(n, 0)) = BlockOf(m)
<1>. DEFINE z == Times(n, 0)
<1>1. z \in Seq(Byte) /\ Len(z) = n /\ \A i \in 1 .. n : z[i] = 0
  <2>1. 0 \in Byte
    BY DEF Byte
  <2>. QED
    BY <2>1, TimesIs
<1>. HIDE DEF z
<1>2. /\ m \o z \in Seq(Byte) /\ Len(m \o z) = Len(m) + n
      /\ \A i \in 1 .. Len(m) : (m \o z)[i] = m[i]
      /\ \A i \in 1 .. n : (m \o z)[Len(m) + i] = z[i]
  BY <1>1, ConcatIs
<1>3. Len(m) \in Nat
  OBVIOUS
<1>. DEFINE c == m \o z
<1>. HIDE DEF c
<1>4. ASSUME NEW j \in 1 .. Block
      PROVE  (IF j =< Len(c) THEN c[j] ELSE 0) = IF j =< Len(m) THEN m[j] ELSE 0
  <2>1. CASE j =< Len(m)
    <3>1. j \in 1 .. Len(m)
      BY <1>3, <2>1
    <3>. QED
      BY <1>2, <1>3, <3>1 DEF c
  <2>2. CASE ~(j =< Len(m)) /\ j =< Len(c)
    <3>1. PICK i \in 1 .. n : j = Len(m) + i
      <4>1. j - Len(m) \in 1 .. n /\ j = Len(m) + (j - Len(m))
        BY <1>2, <1>3, <2>2 DEF c
      <4>. QED
        BY <4>1
    <3>2. c[j] = z[i]
      BY <1>2, <3>1 DEF c
    <3>. QED
      BY <1>1, <2>2, <3>1, <3>2
  <2>3. CASE ~(j =< Len(m)) /\ ~(j =< Len(c))
    BY <2>3
  <2>. QED
    BY <2>1, <2>2, <2>3
<1>5. [j \in 1 .. Block |-> IF j =< Len(c) THEN c[j] ELSE 0]
        = [j \in 1 .. Block |-> IF j =< Len(m) THEN m[j] ELSE 0]
  BY <1>4
<1>. QED
  BY <1>5 DEF BlockOf, c, z

(* What the input is when a piece is put into it.                          *)
Longer(st, t) == [st EXCEPT !.input = @ \o t]

(* The result of a message that is all blocks is put out.                  *)
Ends(md, dec, iv, m, before, u) ==
    /\ u \in StateType
    /\ \E q \in Nat : Len(m) = At(q) /\ u.inBlock = Key(md, dec, iv, m, q)
    /\ Follows(before \o u.output, Standard(md, dec, iv, m), Len(m))

(* The finish of a mode that waits for blocks, of a message with padding.  *)
LEMMA EndsPadded ==
    ASSUME NEW md \in Padded, NEW dec \in BOOLEAN, NEW iv \in Blocks,
           NEW acc \in Blocks, NEW m \in Seq(Byte), NEW before \in Seq(Byte), NEW st, NEW q \in Nat,
           NEW fin \in BOOLEAN, NEW u, NEW t \in Seq(Byte),
           u = op(md, dec, Longer(st, t), fin),
           Reads(md, dec, iv, acc, m, before, st, q),
           Len(m \o t) = At(q + 1)
    PROVE  /\ Ends(md, dec, iv, m \o t, before, u)
           /\ Len(u.output) = Len(st.output) + Block
<1>. DEFINE v == Longer(st, t)
            p == m \o t
<1>1. p \in Seq(Byte) /\ Len(p) \in Nat
  <2>1. p \in Seq(Byte)
    OBVIOUS
  <2>. QED
    BY <2>1
<1>2. md \in Streams \cup Padded /\ Buffers(md, dec)
  BY DEF Buffers
<1>3. Reads(md, dec, iv, acc, p, before, v, q)
  <2>. HIDE DEF p
  <2>1. Reads(md, dec, iv, acc, m \o t, before, [st EXCEPT !.input = @ \o t], q)
    BY <1>2, ReadsGoesOn
  <2>. QED
    BY <2>1 DEF Longer, p
<1>. HIDE DEF p, v
<1>4. At(q) \in Nat /\ At(q + 1) = At(q) + Block /\ q + 1 \in Nat
  BY AtFacts
<1>5. Len(v.input) = Block /\ HasBlock(v)
  <2>1. Len(v.input) = Len(p) - At(q)
    BY <1>1, <1>3, InputIs
  <2>. QED
    BY <1>4, <2>1, BlockIs DEF HasBlock, p
<1>6. Reads(md, dec, iv, acc, p, before, u, q + 1)
  BY <1>1, <1>2, <1>3, <1>5, ReadsBlock DEF v
<1>7. u \in StateType /\ u.partial = 0 /\ u.inBlock = Key(md, dec, iv, p, q + 1)
      /\ Follows(before \o u.output, Standard(md, dec, iv, p), At(q + 1) + u.partial)
  BY <1>2, <1>6 DEF Reads, Ready
<1>8. Ends(md, dec, iv, p, before, u)
  <2>1. At(q + 1) + 0 = Len(p)
    BY <1>4, BlockIs DEF p
  <2>. QED
    BY <1>4, <1>7, <2>1 DEF Ends, p
<1>9. Len(u.output) = Len(st.output) + Block
  <2>1. Follows(before \o v.output, Standard(md, dec, iv, p), At(q) + v.partial) /\ v.partial = 0
    BY <1>2, <1>3 DEF Reads, Ready
  <2>2. v.output = st.output
    <3>1. st \in StateType
      BY DEF Reads, Ready
    <3>. QED
      BY <3>1 DEF StateType, v, Longer
  <2>3. v.output \in Seq(Byte)
    BY <1>3 DEF Reads, Ready, StateType
  <2>4. u.output \in Seq(Byte)
    BY <1>7 DEF StateType
  <2>5. Len(before \o u.output) = At(q + 1) + 0
    BY <1>7 DEF Follows
  <2>6. Len(before \o v.output) = At(q) + 0
    BY <2>1 DEF Follows
  <2>. DEFINE a == Len(before)
              x == Len(u.output)
              y == Len(v.output)
  <2>7. a \in Nat /\ x \in Nat /\ y \in Nat
    BY <2>3, <2>4
  <2>8. a + x = At(q + 1) + 0 /\ a + y = At(q) + 0
    <3>1. Len(before \o u.output) = a + x
      BY <2>4, ConcatIs
    <3>2. Len(before \o v.output) = a + y
      BY <2>3, ConcatIs
    <3>. QED
      BY <2>5, <2>6, <3>1, <3>2
  <2>. HIDE DEF a, x, y
  <2>9. x = y + Block
    BY <1>4, <2>7, <2>8, BlockIs
  <2>. QED
    BY <2>2, <2>9 DEF x, y
<1>. QED
  BY <1>8, <1>9 DEF p

Takes(md, dec, st, u) ==
    /\ u \in StateType
    /\ u.output = st.output \o SubSeq(Made(md, dec, st), st.partial + 1, Block)
    /\ u.inBlock = Forward(md, dec, st.inBlock, BlockOf(st.input))
    /\ md = "GCM" =>
         /\ u.acc = ghash(st.acc, IF dec THEN BlockOf(st.input) ELSE Made(md, dec, st))
         /\ u.length = st.length + (IF Len(st.input) < Block THEN Len(st.input) ELSE Block)

LEMMA BuffersTake ==
    ASSUME NEW md \in Streams \cup Padded, NEW dec \in BOOLEAN, NEW st, NEW fin \in BOOLEAN,
           Ready(md, dec, st), ~Waiting(md, dec, st, fin), Buffers(md, dec),
           NEW u, u = op(md, dec, st, fin)
    PROVE  Takes(md, dec, st, u)
<1>1. Buffers(md, dec) \/ (Len(st.input) >= Block /\ ~fin)
  OBVIOUS
<1>2. LET v == op(md, dec, st, fin)
      IN  /\ v \in StateType
          /\ v.input = Drop(st.input, Block)
          /\ v.output = st.output \o SubSeq(Made(md, dec, st), st.partial + 1, Block)
          /\ v.inBlock = Forward(md, dec, st.inBlock, BlockOf(st.input))
          /\ v.partial = 0
          /\ v.done = FALSE
          /\ md = "GCM" =>
               /\ v.acc = ghash(st.acc, IF dec THEN BlockOf(st.input) ELSE Made(md, dec, st))
               /\ v.length = st.length + (IF Len(st.input) < Block THEN Len(st.input) ELSE Block)
  BY <1>1, OpTakesBlock
<1>. QED
  BY <1>2 DEF Takes

Final(fin) == fin

(* The finish of such a mode without padding: zeros fill the last block.   *)
LEMMA EndsFilled ==
    ASSUME NEW md \in Streams \cup Padded, NEW dec \in BOOLEAN, Buffers(md, dec),
           NEW iv \in Blocks, NEW acc \in Blocks, NEW m \in Seq(Byte),
           NEW before \in Seq(Byte), NEW st, NEW q \in Nat,
           NEW fin \in BOOLEAN, Final(fin), NEW u, u = op(md, dec, st, fin),
           Reads(md, dec, iv, acc, m, before, st, q), Len(st.input) < Block
    PROVE  /\ Ends(md, dec, iv, Filled(m), before, u)
           /\ Len(u.output) = Len(st.output) + (IF st.input = <<>> THEN 0 ELSE Block)
           /\ md = "GCM" => u.acc = HashOf(acc, m) /\ u.length = Len(m)
<1>1. /\ st \in StateType /\ st.partial = 0 /\ At(q) =< Len(m)
      /\ st.input = Drop(m, At(q)) /\ st.inBlock = Key(md, dec, iv, m, q)
      /\ Follows(before \o st.output, Standard(md, dec, iv, m), At(q) + st.partial)
  BY DEF Reads, Ready
<1>2. /\ st.input \in Seq(Byte) /\ st.output \in Seq(Byte) /\ st.inBlock \in Blocks
      /\ st.acc \in Blocks /\ st.length \in Nat
  BY <1>1 DEF StateType
<1>3. At(q) \in Nat /\ At(q + 1) = At(q) + Block /\ Len(m) \in Nat /\ q + 1 \in Nat
      /\ At(q + 1) \in Nat
  <2>1. Len(m) \in Nat
    OBVIOUS
  <2>. QED
    BY <2>1, AtFacts
<1>4. Len(st.input) = Len(m) - At(q) /\ BlockOf(st.input) = Nth(m, q + 1)
  BY InputIs
<1>5. Len(m) < At(q) + Block
  BY <1>3, <1>4, BlockIs
<1>6. md = "GCM" => dec /\ st.acc = Hashes(acc, m)[q] /\ st.length = At(q)
  <2>1. md = "GCM" => dec
    BY DEF Buffers, Padded
  <2>. QED
    BY <2>1 DEF Reads, Hashed
<1>7. CASE st.input = <<>>
  <2>1. Len(m) = At(q)
    BY <1>3, <1>4, <1>7
  <2>2. Waiting(md, dec, st, fin)
    BY <1>7, BlockIs DEF Waiting, Waits, Final
  <2>3. u = Finished(st)
    BY <1>1, <2>2, OpWaits
  <2>4. u \in StateType /\ u.output = st.output /\ u.inBlock = st.inBlock /\ u.acc = st.acc
        /\ u.length = st.length
    BY <1>1, <2>3 DEF Finished, StateType
  <2>5. Filled(m) = m
    <3>1. 0 \in Nat /\ Filled(m) = m \o Times(0, 0)
      BY <1>5, <2>1, <1>1, FilledIs
    <3>2. Times(0, 0) = <<>>
      BY DEF Times
    <3>. QED
      BY <3>1, <3>2
  <2>6. At(q) + st.partial = Len(m)
    BY <1>1, <1>3, <2>1
  <2>7. Ends(md, dec, iv, m, before, u)
    BY <1>1, <2>1, <2>4, <2>6 DEF Ends
  <2>8. Len(u.output) = Len(st.output) + 0
    <3>1. Len(st.output) \in Nat
      BY <1>2
    <3>. QED
      BY <2>4, <3>1
  <2>9. Count(m) = q
    BY <2>1, CountEnds
  <2>. QED
    BY <1>6, <1>7, <2>1, <2>4, <2>5, <2>7, <2>8, <2>9 DEF HashOf
<1>8. CASE st.input # <<>>
  <2>. DEFINE n == At(q + 1) - Len(m)
              z == Times(n, 0)
              f == m \o z
              v == [st EXCEPT !.input = @ \o z]
              w == op(md, dec, v, fin)
              e == Len(st.input)
  <2>0. e \in Nat /\ e # 0
    BY <1>2, <1>8
  <2>1. Len(m) # At(q) /\ n \in Nat /\ n = Block - e
    BY <1>3, <1>4, <1>5, <2>0, BlockIs, SMTT(60)
  <2>2. Filled(m) = f /\ z \in Seq(Byte)
    BY <1>1, <1>5, <2>1, FilledIs
  <2>3. Len(z) = n
    <3>1. 0 \in Byte
      BY DEF Byte
    <3>. QED
      BY <2>1, <3>1, TimesIs
  <2>4. f \in Seq(Byte) /\ Len(f) = At(q + 1)
    <3>1. f \in Seq(Byte) /\ Len(f) = Len(m) + Len(z)
      BY <2>2, ConcatIs
    <3>. QED
      BY <1>3, <2>1, <2>3, <3>1, SMTT(60)
  <2>5. Reads(md, dec, iv, acc, f, before, v, q)
    BY <2>2, ReadsGoesOn
  <2>6. v \in StateType /\ v.input = st.input \o z /\ v.output = st.output
        /\ v.inBlock = st.inBlock /\ v.acc = st.acc /\ v.length = st.length
        /\ v.partial = st.partial
    <3>1. v.input = st.input \o z /\ v.output = st.output
          /\ v.inBlock = st.inBlock /\ v.acc = st.acc /\ v.length = st.length
          /\ v.partial = st.partial
      BY <1>1 DEF StateType
    <3>2. v \in StateType
      BY <2>5 DEF Reads, Ready
    <3>. QED
      BY <3>1, <3>2
  <2>7. BlockOf(v.input) = BlockOf(st.input)
    BY <1>2, <2>1, <2>6, BlockOfFilled
  <2>8. Made(md, dec, v) = Made(md, dec, st)
    BY <2>6, <2>7 DEF Made
  <2>9. Len(v.input) = Block
    <3>1. Len(st.input \o z) = Len(st.input) + Len(z)
      BY <1>2, <2>2, ConcatIs
    <3>2. Len(v.input) = e + n
      BY <2>3, <2>6, <3>1
    <3>. HIDE DEF v, e, n
    <3>. QED
      BY <2>0, <2>1, <3>2, BlockIs
  <2>. HIDE DEF v, w, z, f, n, e
  <2>10. Ready(md, dec, st) /\ Ready(md, dec, v)
    BY <2>5 DEF Reads
  <2>11. ~Waiting(md, dec, st, fin) /\ ~Waiting(md, dec, v, fin)
    BY <2>0, <2>9, BlockIs DEF Waiting, Waits, Final, e
  <2>12. Takes(md, dec, st, u) /\ Takes(md, dec, v, w)
    <3>1. Takes(md, dec, st, u)
      BY <2>10, <2>11, BuffersTake
    <3>2. w = op(md, dec, v, fin)
      BY DEF w
    <3>3. Takes(md, dec, v, w)
      BY <2>10, <2>11, <3>2, BuffersTake
    <3>. QED
      BY <3>1, <3>3
  <2>14. u.output = w.output /\ u.inBlock = w.inBlock
    BY <2>6, <2>7, <2>8, <2>12 DEF Takes
  <2>15. HasBlock(v)
    BY <2>9, BlockIs DEF HasBlock
  <2>16. Reads(md, dec, iv, acc, f, before, w, q + 1)
    BY <2>4, <2>5, <2>15, ReadsBlock DEF w
  <2>17. w.partial = 0 /\ w.inBlock = Key(md, dec, iv, f, q + 1)
         /\ Follows(before \o w.output, Standard(md, dec, iv, f), At(q + 1) + w.partial)
    BY <2>16 DEF Reads, Ready
  <2>18. At(q + 1) + 0 = Len(f)
    BY <1>3, <2>4
  <2>19. Ends(md, dec, iv, f, before, u)
    <3>1. u \in StateType
      BY <2>12 DEF Takes
    <3>. QED
      BY <1>3, <2>4, <2>14, <2>17, <2>18, <3>1 DEF Ends
  <2>20. Len(u.output) = Len(st.output) + Block
    <3>. DEFINE b == Made(md, dec, st)
    <3>1. b \in Blocks
      BY <1>1, MadeType
    <3>. HIDE DEF b
    <3>2. b \in Seq(Byte) /\ Len(b) = Block /\ SubSeq(b, 0 + 1, Block) = b
      BY <3>1, BlockAsSeq
    <3>3. u.output = st.output \o b
      <4>1. u.output = st.output \o SubSeq(b, st.partial + 1, Block)
        BY <2>12 DEF Takes, b
      <4>. QED
        BY <1>1, <3>2, <4>1
    <3>. QED
      BY <1>2, <3>2, <3>3, ConcatIs
  <2>21. ASSUME md = "GCM"
         PROVE  u.acc = HashOf(acc, m) /\ u.length = Len(m)
    <3>1. At(q) < Len(m) /\ Len(m) =< At(q + 1)
      BY <1>1, <1>3, <1>5, <2>1
    <3>2. Count(m) = q + 1
      BY <3>1, CountEnds
    <3>3. Hashes(acc, m)[q + 1] = TimesH[Hashes(acc, m)[q] ^^ Nth(m, q + 1)]
      BY <3>1, HashesFollow
    <3>4. u.acc = ghash(st.acc, BlockOf(st.input))
      BY <1>6, <2>12, <2>21 DEF Takes
    <3>5. u.length = At(q) + Len(st.input)
      BY <1>6, <2>12, <2>21 DEF Takes
    <3>6. u.length = Len(m)
      BY <1>3, <1>4, <3>5
    <3>7. u.acc = Hashes(acc, m)[q + 1]
      BY <1>4, <1>6, <2>21, <3>3, <3>4 DEF ghash
    <3>. QED
      BY <3>2, <3>6, <3>7 DEF HashOf
  <2>. QED
    BY <1>8, <2>2, <2>19, <2>20, <2>21
<1>. QED
  BY <1>7, <1>8

(* The finish of a stream.                                                 *)
LEMMA EndsStream ==
    ASSUME NEW md \in Streams, NEW dec \in BOOLEAN, ~Buffers(md, dec),
           NEW iv \in Blocks, NEW acc \in Blocks, NEW m \in Seq(Byte),
           NEW before \in Seq(Byte), NEW st, NEW q \in Nat,
           NEW fin \in BOOLEAN, Final(fin), NEW u, u = op(md, dec, st, fin),
           Reads(md, dec, iv, acc, m, before, st, q), Rested(md, dec, st)
    PROVE  AllRead(md, dec, iv, acc, m, before, fin, u)
<1>1. /\ st \in StateType /\ At(q) =< Len(m)
      /\ Follows(before \o st.output, Standard(md, dec, iv, m), At(q) + st.partial)
      /\ st.partial = Len(st.input) /\ Len(st.input) < Block
  BY DEF Reads, Ready, Rested
<1>2. st.input \in Seq(Byte) /\ Len(st.input) \in Nat
  <2>1. st.input \in Seq(Byte)
    BY <1>1 DEF StateType
  <2>. QED
    BY <2>1
<1>3. At(q) \in Nat /\ Len(m) \in Nat /\ Len(st.input) = Len(m) - At(q)
  <2>1. Len(m) \in Nat
    OBVIOUS
  <2>. QED
    BY <2>1, InputIs
<1>4. CASE st.input = <<>>
  <2>1. Len(m) = At(q) /\ st.partial = 0
    BY <1>1, <1>3, <1>4
  <2>2. Waiting(md, dec, st, fin)
    BY <1>4 DEF Waiting
  <2>3. u = Finished(st)
    BY <1>1, <2>2, OpWaits
  <2>4. u \in StateType /\ u.output = st.output /\ u.acc = st.acc /\ u.length = st.length
    BY <1>1, <2>3 DEF Finished, StateType
  <2>5. Follows(before \o u.output, Standard(md, dec, iv, m), Len(m))
    <3>1. At(q) + st.partial = Len(m)
      BY <1>3, <2>1
    <3>. QED
      BY <1>1, <2>4, <3>1
  <2>6. ASSUME md = "GCM"
        PROVE  u.acc = HashOf(acc, before \o u.output) /\ u.length = Len(m)
    <3>. DEFINE out == before \o u.output
    <3>1. ~dec
      BY <2>6 DEF Buffers
    <3>2. st.acc = Hashes(acc, out)[q] /\ st.length = At(q)
      BY <2>4, <2>6, <3>1 DEF Reads, Hashed
    <3>3. out \in Seq(Byte) /\ Len(out) = At(q)
      BY <2>1, <2>5 DEF Follows
    <3>. HIDE DEF out
    <3>4. Count(out) = q
      BY <3>3, CountEnds
    <3>5. u.acc = HashOf(acc, out)
      BY <2>4, <3>2, <3>4 DEF HashOf
    <3>. QED
      BY <2>1, <2>4, <3>2, <3>5 DEF out
  <2>. QED
    BY <2>4, <2>5, <2>6 DEF AllRead
<1>5. CASE st.input # <<>>
  <2>1. HasPart(st)
    <3>1. Len(st.input) # 0
      BY <1>2, <1>5
    <3>. QED
      BY <1>1, <1>2, <3>1, BlockIs DEF HasPart
  <2>. QED
    BY <2>1, ReadsPart
<1>. QED
  BY <1>4, <1>5

-----------------------------------------------------------------------------
(* Messages after one another                                              *)

LEMMA AtSum ==
    ASSUME NEW p \in Nat, NEW k \in Nat
    PROVE  At(p + k) = At(p) + At(k) /\ At(p) \in Nat /\ At(k) \in Nat
<1>1. (p + k) * Block = (p * Block) + (k * Block)
  BY BlockIs
<1>. QED
  BY <1>1, AtFacts DEF At

(* The blocks of the second message come after those of the first.         *)
LEMMA NthJoins ==
    ASSUME NEW a \in Seq(Byte), NEW b \in Seq(Byte), NEW p \in Nat, Len(a) = At(p),
           NEW k \in Nat, At(k) =< Len(b)
    PROVE  /\ At(p + k) =< Len(a \o b)
           /\ Nth(a \o b, (p + k) + 1) = Nth(b, k + 1)
<1>. DEFINE c == a \o b
            i == p + k
<1>1. c \in Seq(Byte) /\ Len(c) = Len(a) + Len(b)
      /\ \A j \in 1 .. Len(b) : c[Len(a) + j] = b[j]
  BY ConcatIs
<1>2. i \in Nat /\ At(i) = Len(a) + At(k) /\ At(k) \in Nat /\ Len(b) \in Nat /\ Len(a) \in Nat
  <2>1. Len(b) \in Nat /\ Len(a) \in Nat
    OBVIOUS
  <2>. QED
    BY <2>1, AtSum
<1>. HIDE DEF c, i
<1>3. At(i) =< Len(c)
  BY <1>1, <1>2
<1>4. /\ Nth(c, i + 1) \in Blocks
      /\ \A j \in 1 .. Block :
            Nth(c, i + 1)[j] = IF At(i) + j =< Len(c) THEN c[At(i) + j] ELSE 0
  BY <1>1, <1>2, <1>3, NthIs
<1>5. /\ Nth(b, k + 1) \in Blocks
      /\ \A j \in 1 .. Block :
            Nth(b, k + 1)[j] = IF At(k) + j =< Len(b) THEN b[At(k) + j] ELSE 0
  BY NthIs
<1>6. ASSUME NEW j \in 1 .. Block
      PROVE  Nth(c, i + 1)[j] = Nth(b, k + 1)[j]
  <2>1. At(i) + j =< Len(c) <=> At(k) + j =< Len(b)
    BY <1>1, <1>2, BlockIs
  <2>2. CASE At(k) + j =< Len(b)
    <3>1. At(k) + j \in 1 .. Len(b) /\ At(i) + j = Len(a) + (At(k) + j)
      BY <1>2, <2>2, BlockIs
    <3>2. c[At(i) + j] = b[At(k) + j]
      BY <1>1, <3>1
    <3>. QED
      BY <1>4, <1>5, <2>1, <2>2, <3>2
  <2>3. CASE ~(At(k) + j =< Len(b))
    BY <1>4, <1>5, <2>1, <2>3
  <2>. QED
    BY <2>2, <2>3
<1>7. Nth(c, i + 1) = Nth(b, k + 1)
  BY <1>4, <1>5, <1>6, BlocksEqual
<1>. QED
  BY <1>3, <1>7 DEF c, i

Linked(md, dec, iv, m, k) == Chained(md, dec, iv, m)[k]
After(p, k) == p + k

LEMMA LinkedType ==
    ASSUME NEW md, NEW dec, NEW iv \in Blocks, NEW m \in Seq(Byte), NEW k \in Nat,
           At(k) =< Len(m)
    PROVE  Linked(md, dec, iv, m, k) \in Blocks
<1>. DEFINE t == <<>>
<1>1. t \in Seq(Byte)
  BY ZerosType
<1>. HIDE DEF t
<1>2. \A n \in Nat : At(n) =< Len(m) =>
                /\ Chained(md, dec, iv, m)[n] \in Blocks
                /\ Chained(md, dec, iv, m \o t)[n] = Chained(md, dec, iv, m)[n]
  BY <1>1, ChainGoesOn
<1>. QED
  BY <1>2 DEF Linked

(* The second one is chained on from where the first one ended.            *)
LEMMA ChainJoins ==
    ASSUME NEW md, NEW dec, NEW iv \in Blocks, NEW a \in Seq(Byte), NEW b \in Seq(Byte),
           NEW p \in Nat, Len(a) = At(p), NEW n \in Nat, At(n) =< Len(b)
    PROVE  Linked(md, dec, iv, a \o b, After(p, n))
             = Linked(md, dec, Linked(md, dec, iv, a, p), b, n)
<1>. DEFINE mid == Linked(md, dec, iv, a, p)
            ab == a \o b
            c == Chained(md, dec, iv, ab)
            e == Chained(md, dec, mid, b)
            S == {k \in Nat : At(k) =< Len(b) => c[p + k] = e[k]}
<1>0. Len(a) \in Nat /\ Len(b) \in Nat /\ At(p) \in Nat
  <2>1. Len(a) \in Nat /\ Len(b) \in Nat
    OBVIOUS
  <2>. QED
    BY <2>1, AtFacts
<1>1. ab \in Seq(Byte) /\ Len(ab) = Len(a) + Len(b)
  BY ConcatIs
<1>2. mid \in Blocks /\ c[p] = mid
  <2>1. At(p) =< Len(a)
    BY <1>0
  <2>2. mid = Chained(md, dec, iv, a)[p]
    BY DEF Linked
  <2>3. Chained(md, dec, iv, a)[p] \in Blocks
        /\ Chained(md, dec, iv, a \o b)[p] = Chained(md, dec, iv, a)[p]
    BY <2>1, ChainGoesOn
  <2>. QED
    BY <2>2, <2>3
<1>. HIDE DEF ab, mid
<1>3. \A k \in Nat : At(k) < Len(ab) => c[k + 1] = Link(md, dec, c[k], Nth(ab, k + 1))
  <2>1. LET x == Chained(md, dec, iv, ab)
        IN  /\ x[0] = iv
            /\ \A k \in Nat : At(k) < Len(ab) => x[k + 1] = Link(md, dec, x[k], Nth(ab, k + 1))
    BY <1>1, ChainFollows
  <2>. QED
    BY <2>1
<1>4. e[0] = mid /\ \A k \in Nat : At(k) < Len(b) => e[k + 1] = Link(md, dec, e[k], Nth(b, k + 1))
  BY ChainFollows
<1>. HIDE DEF c, e
<1>5. 0 \in S
  <2>1. p + 0 = p
    OBVIOUS
  <2>. QED
    BY <1>2, <1>4, <2>1
<1>6. ASSUME NEW k \in Nat, k \in S
      PROVE  k + 1 \in S
  <2>. SUFFICES ASSUME At(k + 1) =< Len(b)
                PROVE  c[p + (k + 1)] = e[k + 1]
    OBVIOUS
  <2>1. At(k) \in Nat /\ At(k + 1) = At(k) + Block
    BY AtFacts
  <2>2. At(k) < Len(b) /\ At(k) =< Len(b)
    BY <1>0, <2>1, BlockIs
  <2>3. At(p + k) < Len(ab) /\ p + k \in Nat
    <3>1. At(p + k) = At(p) + At(k)
      BY AtSum
    <3>. QED
      BY <1>0, <1>1, <2>1, <2>2, <3>1
  <2>4. Nth(ab, (p + k) + 1) = Nth(b, k + 1)
    BY <2>2, NthJoins DEF ab
  <2>5. c[(p + k) + 1] = Link(md, dec, c[p + k], Nth(b, k + 1))
    BY <1>3, <2>3, <2>4
  <2>6. c[p + k] = e[k]
    BY <1>6, <2>2
  <2>7. e[k + 1] = Link(md, dec, e[k], Nth(b, k + 1))
    BY <1>4, <2>2
  <2>8. p + (k + 1) = (p + k) + 1
    OBVIOUS
  <2>. QED
    BY <2>5, <2>6, <2>7, <2>8
<1>7. Nat \subseteq S
  <2>. HIDE DEF S
  <2>. QED
    BY <1>5, <1>6, Induction
<1>. QED
  BY <1>7 DEF c, e, ab, mid, Linked, After

(* The results of the two are that of the one.                             *)
Joins(dec, iv, a, mid, b) ==
    Standard("CBC", dec, iv, a \o b)
      = Standard("CBC", dec, iv, a) \o Standard("CBC", dec, mid, b)

LEMMA StandardJoins ==
    ASSUME NEW dec, NEW iv \in Blocks, NEW a \in Seq(Byte), NEW b \in Seq(Byte),
           NEW p \in Nat, Len(a) = At(p), NEW mid, mid = Linked("CBC", dec, iv, a, p)
    PROVE  Joins(dec, iv, a, mid, b)
<1>. DEFINE ab == a \o b
            c == Standard("CBC", dec, iv, ab)
            x == Standard("CBC", dec, iv, a)
            y == Standard("CBC", dec, mid, b)
            xy == x \o y
<1>0. Len(a) \in Nat /\ Len(b) \in Nat /\ At(p) \in Nat
  <2>1. Len(a) \in Nat /\ Len(b) \in Nat
    OBVIOUS
  <2>. QED
    BY <2>1, AtFacts
<1>1. ab \in Seq(Byte) /\ Len(ab) = Len(a) + Len(b)
  BY ConcatIs
<1>2. mid \in Blocks
  <2>. DEFINE md == "CBC"
  <2>1. At(p) =< Len(a) /\ mid = Linked(md, dec, iv, a, p)
    BY <1>0
  <2>. HIDE DEF md
  <2>. QED
    BY <2>1, LinkedType
<1>3. ASSUME NEW k \in Nat, At(k) =< Len(b)
      PROVE  Linked("CBC", dec, iv, ab, p + k) = Linked("CBC", dec, mid, b, k)
  <2>. DEFINE md == "CBC"
  <2>1. mid = Linked(md, dec, iv, a, p)
    OBVIOUS
  <2>. HIDE DEF md
  <2>2. Linked(md, dec, iv, a \o b, After(p, k))
          = Linked(md, dec, Linked(md, dec, iv, a, p), b, k)
    BY <1>3, ChainJoins
  <2>. QED
    BY <2>1, <2>2 DEF md, After
<1>4. \A i \in 1 .. Len(a) : c[i] = x[i]
  <2>. DEFINE md == "CBC"
              n == Len(a)
              mt == a \o b
  <2>1. n \in 0 .. Len(a) /\ (md \notin Padded \/ \E q \in Nat : n = At(q))
    BY <1>0
  <2>. HIDE DEF md, n
  <2>2. \A i \in 1 .. n : Standard(md, dec, iv, mt)[i] = Standard(md, dec, iv, a)[i]
    BY <2>1, StandardGoesOn
  <2>. QED
    BY <2>2 DEF md, n
<1>. HIDE DEF ab
<1>5. c \in Seq(Byte) /\ Len(c) = Len(ab)
  BY <1>1, StandardIs
<1>6. x \in Seq(Byte) /\ Len(x) = Len(a)
  BY StandardIs
<1>7. y \in Seq(Byte) /\ Len(y) = Len(b)
  BY <1>2, StandardIs
<1>8. ASSUME NEW k \in Nat, NEW j \in 1 .. Block, At(k) + j =< Len(b)
      PROVE  c[Len(a) + (At(k) + j)] = y[At(k) + j]
  <2>1. At(p + k) = Len(a) + At(k) /\ p + k \in Nat /\ At(k) \in Nat
    <3>1. At(p + k) = At(p) + At(k) /\ At(k) \in Nat
      BY AtSum
    <3>. QED
      BY <3>1
  <2>2. At(p + k) + j =< Len(ab) /\ At(p + k) + j = Len(a) + (At(k) + j)
    BY <1>0, <1>1, <1>8, <2>1, BlockIs
  <2>3. At(k) =< Len(b)
    BY <1>0, <1>8, <2>1, BlockIs
  <2>4. c[At(p + k) + j] =
          Image("CBC", dec, Key("CBC", dec, iv, ab, p + k), Nth(ab, (p + k) + 1))[j]
    BY <1>1, <2>1, <2>2, StandardIs
  <2>5. y[At(k) + j] = Image("CBC", dec, Key("CBC", dec, mid, b, k), Nth(b, k + 1))[j]
    <3>. DEFINE md == "CBC"
    <3>. HIDE DEF md
    <3>1. /\ Standard(md, dec, mid, b) \in Seq(Byte)
          /\ Len(Standard(md, dec, mid, b)) = Len(b)
          /\ \A n \in Nat, l \in 1 .. Block :
                At(n) + l =< Len(b) =>
                    Standard(md, dec, mid, b)[At(n) + l] =
                        Image(md, dec, Key(md, dec, mid, b, n), Nth(b, n + 1))[l]
      BY <1>2, StandardIs, SMTT(60)
    <3>. QED
      BY <1>8, <3>1 DEF md
  <2>6. Key("CBC", dec, iv, ab, p + k) = Key("CBC", dec, mid, b, k)
    BY <1>3, <2>1, <2>3 DEF Key, Linked
  <2>7. Nth(ab, (p + k) + 1) = Nth(b, k + 1)
    BY <2>3, NthJoins DEF ab
  <2>. QED
    BY <2>2, <2>4, <2>5, <2>6, <2>7
<1>. HIDE DEF c, x, y
<1>9. /\ xy \in Seq(Byte) /\ Len(xy) = Len(x) + Len(y)
      /\ \A i \in 1 .. Len(x) : xy[i] = x[i]
      /\ \A i \in 1 .. Len(y) : xy[Len(x) + i] = y[i]
  BY <1>6, <1>7, ConcatIs
<1>. HIDE DEF xy
<1>10. ASSUME NEW i \in 1 .. Len(c)
       PROVE  c[i] = xy[i]
  <2>1. CASE i =< Len(a)
    <3>1. i \in 1 .. Len(a)
      BY <1>0, <2>1
    <3>. QED
      BY <1>4, <1>6, <1>9, <3>1
  <2>2. CASE ~(i =< Len(a))
    <3>. DEFINE d == i - Len(a)
    <3>1. d \in 1 .. Len(b) /\ i = Len(a) + d /\ d \in Nat \ {0}
      BY <1>0, <1>1, <1>5, <2>2
    <3>. HIDE DEF d
    <3>2. PICK k \in Nat, j \in 1 .. Block : d = At(k) + j
      BY <3>1, PlaceOf
    <3>3. At(k) + j =< Len(b)
      BY <1>0, <3>1, <3>2
    <3>4. c[Len(a) + d] = y[d]
      BY <1>8, <3>2, <3>3
    <3>. QED
      BY <1>6, <1>7, <1>9, <3>1, <3>4
  <2>. QED
    BY <2>1, <2>2
<1>11. Len(c) = Len(xy)
  BY <1>1, <1>5, <1>6, <1>7, <1>9
<1>12. c = xy
  BY <1>5, <1>9, <1>10, <1>11, SeqEqual
<1>. QED
  BY <1>12 DEF Joins, c, xy, x, y, ab

-----------------------------------------------------------------------------
(* The inductive invariant                                                 *)

TypeInvariant ==
    /\ mode \in Modes /\ decrypt \in Directions
    /\ given \in [iv : Blocks, aad : Seq(Byte), tagLength : Nat, tag : Seq(Byte)]
    /\ phase # "new" => given.tagLength \in TagLengths
    /\ earlier \in [read : Seq(Byte), written : Seq(Byte), iv : Blocks]
    /\ pad \in {"mode", "none"}
    /\ phase \in {"new", "idle", "update", "done"}
    /\ fed \in Seq(Byte) /\ drained \in Seq(Byte)

(* The message is read in blocks from its first byte, and before another   *)
(* piece of it comes there is nothing left to do.                          *)
ReadInBlocks ==
    /\ phase \in {"idle", "update"} =>
        \E q \in Nat : Reads(mode, decrypt, given.iv, HashOf(Zeros, given.aad), fed, drained, s, q)
    /\ phase = "idle" => Rested(mode, decrypt, s)
    /\ Buffers(mode, decrypt) => \E k \in Nat : Len(drained) = At(k)

(* key is the last block of what the whole blocks m give.                  *)
Leaves(dec, iv, m, key) ==
    /\ m \in Seq(Byte)
    /\ \E k \in Nat : Len(m) = At(k) /\ key = Chained("CBC", dec, iv, m)[k]

(* CBC keeps the last block after the finish, and the vector is the last   *)
(* block of the messages before.                                           *)
LastIsKept ==
    mode = "CBC" =>
        /\ phase = "done" => Leaves(decrypt, given.iv, BlocksRead, s.inBlock)
        /\ Leaves(decrypt, earlier.iv, earlier.read, given.iv)
        /\ earlier.written = Standard("CBC", decrypt, earlier.iv, earlier.read)

CipherInv == TypeInvariant /\ ReadInBlocks /\ LastIsKept

LEMMA ModeTypes ==
    ASSUME TypeInvariant
    PROVE  mode \in Streams \cup Padded /\ decrypt \in BOOLEAN
  BY BlockCipherAssumption DEF TypeInvariant

LEMMA StandardOfNothing ==
    ASSUME NEW md, NEW dec, NEW iv \in Blocks
    PROVE  Standard(md, dec, iv, <<>>) = <<>>
<1>. DEFINE x == Standard(md, dec, iv, <<>>)
<1>1. x \in Seq(Byte) /\ Len(x) = 0
  BY ZerosType, StandardIs
<1>. HIDE DEF x
<1>2. x = <<>>
  BY <1>1
<1>. QED
  BY <1>2 DEF x

LEMMA LeavesNothing ==
    ASSUME NEW dec, NEW iv \in Blocks
    PROVE  Leaves(dec, iv, <<>>, iv)
<1>. DEFINE md == "CBC"
            e == <<>>
<1>1. e \in Seq(Byte)
  BY ZerosType
<1>. HIDE DEF md, e
<1>2. LET c == Chained(md, dec, iv, e)
      IN  /\ c[0] = iv
          /\ \A k \in Nat : At(k) < Len(e) => c[k + 1] = Link(md, dec, c[k], Nth(e, k + 1))
  BY <1>1, ChainFollows
<1>3. Chained("CBC", dec, iv, <<>>)[0] = iv
  BY <1>2 DEF md, e
<1>. QED
  BY <1>3, ZerosType, AtFacts DEF Leaves

(* A new message is read from its first block.                             *)
LEMMA FreshReads ==
    ASSUME NEW md \in Streams \cup Padded, NEW dec \in BOOLEAN, NEW iv \in Blocks,
           NEW aad \in Seq(Byte), NEW used \in Seq(Byte), md = "GCM" => used = aad,
           NEW key, key = IF md = "GCM" THEN inc32(iv) ELSE iv
    PROVE  /\ Reads(md, dec, iv, HashOf(Zeros, aad), <<>>, <<>>, Fresh(key, used), 0)
           /\ Rested(md, dec, Fresh(key, used))
<1>. DEFINE f == Fresh(key, used)
            acc == HashOf(Zeros, aad)
            e == <<>>
<1>1. acc \in Blocks /\ HashOf(Zeros, used) \in Blocks
  BY ZerosType, HashOfType
<1>2. e \in Seq(Byte) /\ Len(e) = 0 /\ At(0) = 0 /\ 0 \in Nat /\ e \o e = e
  BY ZerosType, AtFacts
<1>3. Key(md, dec, iv, <<>>, 0) \in Blocks /\ Key(md, dec, iv, <<>>, 0) = key
  <2>1. e \in Seq(Byte) /\ At(0) =< Len(e)
    BY <1>2
  <2>. HIDE DEF e
  <2>2. /\ Key(md, dec, iv, e, 0) \in Blocks
        /\ Key(md, dec, iv, e \o e, 0) = Key(md, dec, iv, e, 0)
        /\ Key(md, dec, iv, e, 0) = IF md = "GCM" THEN inc32(iv) ELSE iv
    BY <2>1, KeyGoesOn
  <2>. QED
    BY <2>2 DEF e
<1>4. f.input = e /\ f.output = e /\ f.inBlock = key /\ f.partial = 0 /\ f.length = 0
      /\ f.acc = HashOf(Zeros, used)
  BY DEF Fresh
<1>5. f \in StateType
  BY <1>1, <1>2, <1>3 DEF Fresh, StateType
<1>. HIDE DEF f
<1>6. Ready(md, dec, f)
  BY <1>2, <1>4, <1>5, BlockIs DEF Ready
<1>7. Drop(e, At(0)) = e
  BY <1>2 DEF Drop
<1>8. Follows(e \o f.output, Standard(md, dec, iv, e), At(0) + f.partial)
  BY <1>2, <1>4 DEF Follows
<1>9. ASSUME md = "GCM"
      PROVE  f.acc = Hashes(acc, Hashed(dec, e, e \o f.output))[0] /\ f.length = At(0)
  <2>1. Hashed(dec, e, e \o f.output) = e
    BY <1>2, <1>4 DEF Hashed
  <2>2. Hashes(acc, e)[0] = acc
    BY <1>2, HashesFollow
  <2>. QED
    BY <1>2, <1>4, <1>9, <2>1, <2>2
<1>10. Reads(md, dec, iv, acc, e, e, f, 0)
  BY <1>2, <1>3, <1>4, <1>6, <1>7, <1>8, <1>9 DEF Reads
<1>11. Rested(md, dec, f)
  BY <1>2, <1>4, BlockIs DEF Rested
<1>. QED
  BY <1>10, <1>11 DEF f

(* The counter before the first one, or the vector, is a block.            *)
LEMMA J0Type ==
    ASSUME NEW iv \in Ivs
    PROVE  J0(iv) \in Blocks /\ BlockOf(iv) \in Blocks
<1>1. iv \in Seq(Byte) /\ Lengths[0, Len(iv)] \in Blocks
  BY BlockCipherAssumption
<1>2. BlockOf(iv) \in Blocks
  BY <1>1, BlockOfType
<1>3. CASE Len(iv) = Block - CounterBytes
  <2>1. \A i \in 1 .. Block :
            (IF i =< Len(iv) THEN iv[i] ELSE IF i = Block THEN 1 ELSE 0) \in Byte
    <3>1. iv \in Seq(Byte)
      BY <1>1
    <3>. QED
      BY <3>1, BlockIs DEF Byte
  <2>2. [i \in 1 .. Block |-> IF i =< Len(iv) THEN iv[i] ELSE IF i = Block THEN 1 ELSE 0]
            \in Blocks
    BY <2>1 DEF Blocks
  <2>. QED
    BY <1>2, <1>3, <2>2 DEF J0
<1>4. CASE Len(iv) # Block - CounterBytes
  <2>1. HashOf(Zeros, iv) \in Blocks
    BY <1>1, ZerosType, HashOfType
  <2>2. ghash(HashOf(Zeros, iv), Lengths[0, Len(iv)]) \in Blocks
    BY <1>1, <2>1, HashType
  <2>. QED
    BY <1>2, <1>4, <2>2 DEF J0
<1>. QED
  BY <1>3, <1>4

-----------------------------------------------------------------------------
(* Steps                                                                   *)

LEMMA InitInv == Init => CipherInv
<1>. SUFFICES ASSUME NEW m \in Modes, NEW d \in Directions, ObjectStart(m, d)
              PROVE  CipherInv
  BY DEF Init
<1>1. /\ mode = m /\ decrypt = d /\ pad = "mode" /\ phase = "new"
      /\ given = [iv |-> Zeros, aad |-> <<>>, tagLength |-> 0, tag |-> <<>>]
      /\ fed = <<>> /\ drained = <<>> /\ earlier = Nothing
  BY DEF ObjectStart
<1>2. TypeInvariant
  BY <1>1, ZerosType DEF TypeInvariant, Nothing
<1>3. ReadInBlocks
  <2>1. 0 \in Nat /\ Len(drained) = At(0)
    BY <1>1, ZerosType, AtFacts
  <2>. QED
    BY <1>1, <2>1 DEF ReadInBlocks
<1>4. LastIsKept
  <2>1. earlier.iv = Zeros /\ earlier.read = <<>> /\ earlier.written = <<>> /\ given.iv = Zeros
    BY <1>1 DEF Nothing
  <2>2. Leaves(decrypt, Zeros, <<>>, Zeros)
    BY ZerosType, LeavesNothing
  <2>3. Standard("CBC", decrypt, Zeros, <<>>) = <<>>
    BY ZerosType, StandardOfNothing
  <2>. QED
    BY <1>1, <2>1, <2>2, <2>3, ZerosType DEF LastIsKept
<1>. QED
  BY <1>2, <1>3, <1>4 DEF CipherInv

LEMMA StartInv ==
    ASSUME CipherInv, NEW iv \in Ivs, NEW aad \in AADs, NEW n \in TagLengths, NEW t \in Tags,
           Start(iv, aad, n, t)
    PROVE  CipherInv'
<1>. DEFINE first == First(iv)
            key == IF mode = "GCM" THEN inc32(J0(iv)) ELSE BlockOf(iv)
            used == IF mode = "GCM" THEN aad ELSE <<>>
<1>0. mode \in Streams \cup Padded /\ decrypt \in BOOLEAN
  BY ModeTypes DEF CipherInv
<1>1. /\ mode' = mode /\ decrypt' = decrypt /\ pad' = pad /\ phase' = "idle"
      /\ given' = [iv |-> first, aad |-> aad, tagLength |-> n, tag |-> t]
      /\ s' = Fresh(key, used)
      /\ fed' = <<>> /\ drained' = <<>> /\ earlier' = [Nothing EXCEPT !.iv = first]
  BY DEF Start, SameObject
<1>2. first \in Blocks /\ key = IF mode = "GCM" THEN inc32(first) ELSE first
  BY J0Type DEF First
<1>3. aad \in Seq(Byte) /\ t \in Seq(Byte) /\ n \in Nat
  <2>1. Ivs \cup Chunks \cup AADs \cup Tags \subseteq Seq(Byte) /\ TagLengths \subseteq Nat \ {0}
    BY BlockCipherAssumption
  <2>. QED
    BY <2>1
<1>4. used \in Seq(Byte) /\ (mode = "GCM" => used = aad)
  BY <1>3, ZerosType
<1>. HIDE DEF first, key, used
<1>5. /\ Reads(mode, decrypt, first, HashOf(Zeros, aad), <<>>, <<>>, Fresh(key, used), 0)
      /\ Rested(mode, decrypt, Fresh(key, used))
  BY <1>0, <1>2, <1>3, <1>4, FreshReads
<1>6. given'.iv = first /\ given'.aad = aad
  BY <1>1
<1>7. TypeInvariant'
  BY <1>1, <1>2, <1>3, ZerosType DEF TypeInvariant, CipherInv, Nothing
<1>8. ReadInBlocks'
  <2>1. 0 \in Nat /\ Len(drained') = At(0)
    BY <1>1, ZerosType, AtFacts
  <2>2. Reads(mode', decrypt', given'.iv, HashOf(Zeros, given'.aad), fed', drained', s', 0)
    BY <1>1, <1>5, <1>6
  <2>3. Rested(mode', decrypt', s')
    BY <1>1, <1>5
  <2>. QED
    BY <2>1, <2>2, <2>3 DEF ReadInBlocks
<1>9. LastIsKept'
  <2>1. earlier'.iv = first /\ earlier'.read = <<>> /\ earlier'.written = <<>>
    BY <1>1 DEF Nothing
  <2>2. Leaves(decrypt, first, <<>>, first)
    BY <1>2, LeavesNothing
  <2>3. Standard("CBC", decrypt, first, <<>>) = <<>>
    BY <1>2, StandardOfNothing
  <2>. QED
    BY <1>1, <1>2, <1>6, <2>1, <2>2, <2>3 DEF LastIsKept
<1>. QED
  BY <1>7, <1>8, <1>9 DEF CipherInv

(* A piece of the message.                                                 *)
LEMMA UpdateInv ==
    ASSUME CipherInv, NEW chunk \in Chunks, Update(chunk)
    PROVE  CipherInv'
<1>0. mode \in Streams \cup Padded /\ decrypt \in BOOLEAN
  BY ModeTypes DEF CipherInv
<1>1. /\ mode' = mode /\ decrypt' = decrypt /\ pad' = pad /\ phase = "idle" /\ phase' = "update"
      /\ given' = given /\ drained' = drained /\ earlier' = earlier
      /\ s' = [s EXCEPT !.input = @ \o chunk] /\ fed' = fed \o chunk
  BY DEF Update, SameObject
<1>2. chunk \in Seq(Byte) /\ fed \in Seq(Byte) /\ drained \in Seq(Byte)
  <2>1. Ivs \cup Chunks \cup AADs \cup Tags \subseteq Seq(Byte)
    BY BlockCipherAssumption
  <2>. QED
    BY <2>1 DEF CipherInv, TypeInvariant
<1>3. given.iv \in Blocks /\ HashOf(Zeros, given.aad) \in Blocks
  <2>1. given.iv \in Blocks /\ given.aad \in Seq(Byte)
    BY DEF CipherInv, TypeInvariant
  <2>. QED
    BY <2>1, ZerosType, HashOfType
<1>. DEFINE acc == HashOf(Zeros, given.aad)
<1>. HIDE DEF acc
<1>4. PICK q \in Nat : Reads(mode, decrypt, given.iv, acc, fed, drained, s, q)
  BY <1>1 DEF CipherInv, ReadInBlocks, acc
<1>5. Reads(mode, decrypt, given.iv, acc, fed \o chunk, drained,
            [s EXCEPT !.input = @ \o chunk], q)
  BY <1>0, <1>2, <1>3, <1>4, ReadsGoesOn DEF acc
<1>6. TypeInvariant'
  <2>1. fed \o chunk \in Seq(Byte)
    BY <1>2
  <2>. QED
    BY <1>1, <2>1 DEF CipherInv, TypeInvariant
<1>7. ReadInBlocks'
  <2>1. Reads(mode', decrypt', given'.iv, HashOf(Zeros, given'.aad), fed', drained', s', q)
    BY <1>1, <1>5 DEF acc
  <2>2. Buffers(mode, decrypt) => \E k \in Nat : Len(drained) = At(k)
    BY DEF CipherInv, ReadInBlocks
  <2>. QED
    BY <1>1, <2>1, <2>2 DEF ReadInBlocks
<1>8. LastIsKept'
  BY <1>1 DEF CipherInv, LastIsKept
<1>. QED
  BY <1>6, <1>7, <1>8 DEF CipherInv

(* A turn of the loop of update.                                           *)
LEMMA StepInv ==
    ASSUME CipherInv, Step
    PROVE  CipherInv'
<1>0. mode \in Streams \cup Padded /\ decrypt \in BOOLEAN
  BY ModeTypes DEF CipherInv
<1>. DEFINE no == FALSE
            u == op(mode, decrypt, s, no)
            acc == HashOf(Zeros, given.aad)
<1>1. /\ mode' = mode /\ decrypt' = decrypt /\ pad' = pad /\ phase = "update"
      /\ given' = given /\ drained' = drained /\ earlier' = earlier /\ fed' = fed
      /\ s' = u /\ phase' = IF u.done THEN "idle" ELSE "update"
  BY DEF Step, SameObject
<1>2. no \in BOOLEAN /\ ~no
  OBVIOUS
<1>. HIDE DEF no, acc
<1>3. fed \in Seq(Byte) /\ drained \in Seq(Byte)
  BY DEF CipherInv, TypeInvariant
<1>4. given.iv \in Blocks /\ acc \in Blocks
  <2>1. given.iv \in Blocks /\ given.aad \in Seq(Byte)
    BY DEF CipherInv, TypeInvariant
  <2>. QED
    BY <2>1, ZerosType, HashOfType DEF acc
<1>5. PICK q \in Nat : Reads(mode, decrypt, given.iv, acc, fed, drained, s, q)
  BY <1>1 DEF CipherInv, ReadInBlocks, acc
<1>6. /\ \E r : Reads(mode, decrypt, given.iv, acc, fed, drained, u, r)
      /\ Says(u) => Rested(mode, decrypt, u)
  <2>. HIDE DEF u
  <2>1. u = op(mode, decrypt, s, no)
    BY DEF u
  <2>. QED
    BY <1>0, <1>2, <1>3, <1>4, <1>5, <2>1, ReadsOn
<1>. HIDE DEF u
<1>7. PICK r : Reads(mode, decrypt, given.iv, acc, fed, drained, u, r)
  BY <1>6
<1>8. r \in Nat
  BY <1>7 DEF Reads
<1>9. phase' \in {"idle", "update"} /\ (phase' = "idle" => Says(u))
  <2>1. u.done \in BOOLEAN
    BY <1>7 DEF Reads, Ready, StateType
  <2>. QED
    BY <1>1, <2>1 DEF Says
<1>10. TypeInvariant'
  BY <1>1, <1>9 DEF CipherInv, TypeInvariant
<1>11. ReadInBlocks'
  <2>1. Reads(mode', decrypt', given'.iv, HashOf(Zeros, given'.aad), fed', drained', s', r)
    BY <1>1, <1>7 DEF acc
  <2>2. phase' = "idle" => Rested(mode', decrypt', s')
    BY <1>1, <1>6, <1>9
  <2>3. Buffers(mode, decrypt) => \E k \in Nat : Len(drained) = At(k)
    BY DEF CipherInv, ReadInBlocks
  <2>. QED
    BY <1>1, <1>8, <2>1, <2>2, <2>3 DEF ReadInBlocks
<1>12. LastIsKept'
  BY <1>1, <1>9 DEF CipherInv, LastIsKept
<1>. QED
  BY <1>10, <1>11, <1>12 DEF CipherInv

(* What comes out is taken.                                                *)
LEMMA DrainInv ==
    ASSUME CipherInv, Drain
    PROVE  CipherInv'
<1>. DEFINE acc == HashOf(Zeros, given.aad)
            v == [s EXCEPT !.output = <<>>]
<1>1. /\ mode' = mode /\ decrypt' = decrypt /\ pad' = pad /\ phase = "idle" /\ phase' = "idle"
      /\ given' = given /\ earlier' = earlier /\ fed' = fed
      /\ drained = <<>> /\ drained' = s.output /\ s' = v
  BY DEF Drain, SameObject
<1>. HIDE DEF acc, v
<1>2. PICK q \in Nat : Reads(mode, decrypt, given.iv, acc, fed, drained, s, q)
  BY <1>1 DEF CipherInv, ReadInBlocks, acc
<1>3. s \in StateType /\ Ready(mode, decrypt, s)
  BY <1>2 DEF Reads, Ready
<1>4. s.output \in Seq(Byte) /\ <<>> \o s.output = s.output /\ s.output \o <<>> = s.output
  <2>1. s.output \in Seq(Byte)
    BY <1>3 DEF StateType
  <2>. QED
    BY <2>1
<1>5. /\ v.input = s.input /\ v.output = <<>> /\ v.inBlock = s.inBlock /\ v.partial = s.partial
      /\ v.acc = s.acc /\ v.length = s.length
  BY <1>3 DEF StateType, v
<1>6. v \in StateType
  BY <1>3, ZerosType DEF StateType, v
<1>7. drained \o s.output = s.output /\ drained' \o v.output = s.output
  BY <1>1, <1>4, <1>5
<1>8. Ready(mode, decrypt, v)
  BY <1>3, <1>5, <1>6 DEF Ready
<1>9. Reads(mode, decrypt, given.iv, acc, fed, drained', v, q)
  BY <1>2, <1>5, <1>7, <1>8 DEF Reads
<1>10. Rested(mode, decrypt, v)
  <2>1. Rested(mode, decrypt, s)
    BY <1>1 DEF CipherInv, ReadInBlocks
  <2>. QED
    BY <1>5, <2>1 DEF Rested
<1>11. Buffers(mode, decrypt) => Len(drained') = At(q)
  <2>. SUFFICES ASSUME Buffers(mode, decrypt)
                PROVE  Len(drained') = At(q)
    OBVIOUS
  <2>1. s.partial = 0 /\ At(q) \in Nat
    BY <1>3, AtFacts DEF Ready
  <2>2. Len(drained \o s.output) = At(q) + s.partial
    BY <1>2 DEF Reads, Follows
  <2>. QED
    BY <1>1, <1>7, <2>1, <2>2
<1>12. TypeInvariant'
  BY <1>1, <1>4 DEF CipherInv, TypeInvariant
<1>13. ReadInBlocks'
  <2>1. Reads(mode', decrypt', given'.iv, HashOf(Zeros, given'.aad), fed', drained', s', q)
    BY <1>1, <1>9 DEF acc
  <2>2. Rested(mode', decrypt', s')
    BY <1>1, <1>10
  <2>. QED
    BY <1>1, <1>11, <2>1, <2>2 DEF ReadInBlocks
<1>14. LastIsKept'
  BY <1>1 DEF CipherInv, LastIsKept
<1>. QED
  BY <1>12, <1>13, <1>14 DEF CipherInv

LEMMA WholeOfBlocks ==
    ASSUME NEW m \in Seq(Byte), NEW q \in Nat, Len(m) = At(q)
    PROVE  Whole(m) = m /\ Len(m) % Block = 0 /\ m \o <<>> = m
<1>1. Len(m) \in Nat /\ At(q) =< Len(m) /\ Len(m) < At(q) + Block
  <2>1. Len(m) \in Nat
    OBVIOUS
  <2>. QED
    BY <2>1, BlockIs
<1>2. Len(m) % Block = Len(m) - At(q)
  BY <1>1, RestIs
<1>3. Len(m) % Block = 0
  BY <1>1, <1>2
<1>4. Len(m) - (Len(m) % Block) = Len(m)
  BY <1>1, <1>3
<1>5. Whole(m) = Take(m, Len(m))
  BY <1>4 DEF Whole
<1>6. Take(m, Len(m)) = m
  BY <1>1 DEF Take
<1>. QED
  BY <1>3, <1>5, <1>6

(* CBC's vector after the whole blocks that were read.                     *)
LEMMA RestLeaves ==
    ASSUME NEW dec \in BOOLEAN, NEW iv \in Blocks, NEW acc, NEW m \in Seq(Byte), NEW before,
           NEW st, NEW q \in Nat, Reads("CBC", dec, iv, acc, m, before, st, q),
           Rested("CBC", dec, st)
    PROVE  Leaves(dec, iv, Whole(m), st.inBlock)
<1>. DEFINE w == Whole(m)
            d == Drop(m, At(q))
            md == "CBC"
<1>1. st.inBlock = Chained(md, dec, iv, m)[q] /\ At(q) =< Len(m)
  BY DEF Reads, Key
<1>. HIDE DEF md
<1>2. At(q) \in Nat /\ Len(m) \in Nat /\ Len(m) < At(q) + Block
  <2>1. At(q) \in Nat /\ Len(st.input) = Len(m) - At(q)
    BY InputIs
  <2>2. Len(st.input) < Block
    BY DEF Rested
  <2>3. Len(m) \in Nat
    OBVIOUS
  <2>. QED
    BY <2>1, <2>2, <2>3, BlockIs
<1>3. w \in Seq(Byte) /\ Len(w) = At(q) /\ d \in Seq(Byte) /\ m = w \o d
  BY <1>1, <1>2, WholeIs
<1>. HIDE DEF w, d
<1>4. \A k \in Nat : At(k) =< Len(w) =>
                /\ Chained(md, dec, iv, w)[k] \in Blocks
                /\ Chained(md, dec, iv, w \o d)[k] = Chained(md, dec, iv, w)[k]
  BY <1>3, ChainGoesOn
<1>5. At(q) =< Len(w)
  BY <1>2, <1>3
<1>6. st.inBlock = Chained(md, dec, iv, w)[q]
  BY <1>1, <1>3, <1>4, <1>5
<1>. QED
  BY <1>3, <1>6 DEF Leaves, w, md

LEMMA EndLeaves ==
    ASSUME NEW dec \in BOOLEAN, NEW iv \in Blocks, NEW m \in Seq(Byte), NEW before,
           NEW u, Ends("CBC", dec, iv, m, before, u)
    PROVE  Leaves(dec, iv, Whole(m), u.inBlock)
<1>1. PICK q \in Nat : Len(m) = At(q) /\ u.inBlock = Key("CBC", dec, iv, m, q)
  BY DEF Ends
<1>2. Whole(m) = m
  BY <1>1, WholeOfBlocks
<1>3. Key("CBC", dec, iv, m, q) = Chained("CBC", dec, iv, m)[q]
  BY DEF Key
<1>. QED
  BY <1>1, <1>2, <1>3 DEF Leaves

(* Two messages of which the second goes on from the first are one.        *)
LEMMA LeavesJoin ==
    ASSUME NEW dec, NEW iv \in Blocks, NEW a, NEW mid, NEW b, NEW last,
           Leaves(dec, iv, a, mid), Leaves(dec, mid, b, last)
    PROVE  Leaves(dec, iv, a \o b, last) /\ Joins(dec, iv, a, mid, b)
<1>. DEFINE md == "CBC"
            ab == a \o b
<1>1. PICK p \in Nat : Len(a) = At(p) /\ mid = Chained(md, dec, iv, a)[p]
  BY DEF Leaves
<1>2. PICK k \in Nat : Len(b) = At(k) /\ last = Chained(md, dec, mid, b)[k]
  BY DEF Leaves
<1>3. a \in Seq(Byte) /\ b \in Seq(Byte)
  BY DEF Leaves
<1>4. mid = Linked(md, dec, iv, a, p) /\ last = Linked(md, dec, mid, b, k)
  BY <1>1, <1>2 DEF Linked
<1>5. ab \in Seq(Byte) /\ Len(ab) = At(p + k) /\ p + k \in Nat
  <2>1. ab \in Seq(Byte) /\ Len(ab) = Len(a) + Len(b)
    BY <1>3, ConcatIs
  <2>2. At(p + k) = At(p) + At(k)
    BY AtSum
  <2>. QED
    BY <1>1, <1>2, <2>1, <2>2
<1>6. Joins(dec, iv, a, mid, b)
  BY <1>1, <1>3, <1>4, StandardJoins
<1>. HIDE DEF md
<1>7. At(k) =< Len(b)
  <2>1. Len(b) \in Nat
    BY <1>3
  <2>. QED
    BY <1>2, <2>1
<1>8. Linked(md, dec, iv, a \o b, After(p, k))
        = Linked(md, dec, Linked(md, dec, iv, a, p), b, k)
  BY <1>1, <1>3, <1>7, ChainJoins
<1>9. last = Chained(md, dec, iv, ab)[p + k]
  BY <1>4, <1>8 DEF Linked, After
<1>. QED
  BY <1>5, <1>6, <1>9 DEF Leaves, md

LEMMA LeavesType ==
    ASSUME NEW dec, NEW iv \in Blocks, NEW m, NEW key, Leaves(dec, iv, m, key)
    PROVE  key \in Blocks
<1>. DEFINE md == "CBC"
<1>1. PICK k \in Nat : Len(m) = At(k) /\ key = Chained(md, dec, iv, m)[k]
  BY DEF Leaves
<1>2. m \in Seq(Byte)
  BY DEF Leaves
<1>. HIDE DEF md
<1>3. At(k) =< Len(m)
  BY <1>1, <1>2, AtFacts
<1>. QED
  BY <1>1, <1>2, <1>3, LinkedType DEF Linked

(* A message that goes on from the last one.                               *)
LEMMA ContinueInv ==
    ASSUME CipherInv, Continue
    PROVE  CipherInv'
<1>. DEFINE key == s.inBlock
            b == BlocksRead
<1>0. mode \in Streams \cup Padded /\ decrypt \in BOOLEAN
  BY ModeTypes DEF CipherInv
<1>1. /\ mode = "CBC" /\ mode' = mode /\ decrypt' = decrypt /\ pad' = pad
      /\ phase \in {"idle", "done"} /\ phase' = "idle"
      /\ s' = Fresh(key, <<>>) /\ given' = [given EXCEPT !.iv = key]
      /\ fed' = <<>> /\ drained' = <<>>
      /\ earlier' = [earlier EXCEPT
                        !.read = @ \o b,
                        !.written = @ \o Standard(mode, decrypt, given.iv, b)]
  BY DEF Continue, SameObject
<1>2. given \in [iv : Blocks, aad : Seq(Byte), tagLength : Nat, tag : Seq(Byte)]
  BY DEF CipherInv, TypeInvariant
<1>3. given.iv \in Blocks /\ given.aad \in Seq(Byte) /\ fed \in Seq(Byte)
  BY <1>2 DEF CipherInv, TypeInvariant
<1>4. Leaves(decrypt, given.iv, b, key)
  <2>1. CASE phase = "idle"
    <3>1. b = Whole(fed)
      BY <2>1 DEF BlocksRead
    <3>2. PICK q \in Nat :
            Reads(mode, decrypt, given.iv, HashOf(Zeros, given.aad), fed, drained, s, q)
      BY <2>1 DEF CipherInv, ReadInBlocks
    <3>3. Rested(mode, decrypt, s)
      BY <2>1 DEF CipherInv, ReadInBlocks
    <3>. QED
      BY <1>0, <1>1, <1>3, <3>1, <3>2, <3>3, RestLeaves
  <2>2. CASE phase = "done"
    BY <1>1, <2>2 DEF CipherInv, LastIsKept
  <2>. QED
    BY <1>1, <2>1, <2>2
<1>5. /\ earlier.iv \in Blocks /\ Leaves(decrypt, earlier.iv, earlier.read, given.iv)
      /\ earlier.written = Standard("CBC", decrypt, earlier.iv, earlier.read)
  BY <1>1 DEF CipherInv, LastIsKept, TypeInvariant
<1>6. key \in Blocks
  BY <1>3, <1>4, LeavesType
<1>. HIDE DEF key, b
<1>7. /\ Leaves(decrypt, earlier.iv, earlier.read \o b, key)
      /\ Joins(decrypt, earlier.iv, earlier.read, given.iv, b)
  BY <1>4, <1>5, LeavesJoin
<1>8. given'.iv = key /\ given'.aad = given.aad /\ given'.tagLength = given.tagLength /\ given' \in
        [iv : Blocks, aad : Seq(Byte), tagLength : Nat, tag : Seq(Byte)]
  BY <1>1, <1>2, <1>6
<1>a. /\ earlier'.iv = earlier.iv /\ earlier'.read = earlier.read \o b
      /\ earlier'.written = earlier.written \o Standard("CBC", decrypt, given.iv, b)
      /\ earlier' \in [read : Seq(Byte), written : Seq(Byte), iv : Blocks]
  <2>. DEFINE r == earlier.read \o b
              w == earlier.written \o Standard("CBC", decrypt, given.iv, b)
  <2>1. earlier \in [read : Seq(Byte), written : Seq(Byte), iv : Blocks]
    BY DEF CipherInv, TypeInvariant
  <2>2. r \in Seq(Byte)
    BY <1>7 DEF Leaves
  <2>3. w \in Seq(Byte)
    <3>1. b \in Seq(Byte)
      BY <1>4 DEF Leaves
    <3>2. Standard("CBC", decrypt, given.iv, b) \in Seq(Byte)
      BY <1>3, <3>1, StandardIs
    <3>. QED
      BY <2>1, <3>2
  <2>4. earlier' = [earlier EXCEPT !.read = r, !.written = w]
    BY <1>1
  <2>. HIDE DEF r, w
  <2>5. /\ earlier'.iv = earlier.iv /\ earlier'.read = r /\ earlier'.written = w
        /\ earlier' \in [read : Seq(Byte), written : Seq(Byte), iv : Blocks]
    BY <2>1, <2>2, <2>3, <2>4
  <2>. QED
    BY <2>5 DEF r, w
<1>9. TypeInvariant'
  BY <1>1, <1>8, <1>a, ZerosType DEF CipherInv, TypeInvariant
<1>10. ReadInBlocks'
  <2>1. /\ Reads(mode, decrypt, key, HashOf(Zeros, given.aad), <<>>, <<>>, Fresh(key, <<>>), 0)
        /\ Rested(mode, decrypt, Fresh(key, <<>>))
    <3>1. <<>> \in Seq(Byte) /\ (mode = "GCM" => <<>> = given.aad)
          /\ key = IF mode = "GCM" THEN inc32(key) ELSE key
      BY <1>1, ZerosType
    <3>. QED
      BY <1>0, <1>3, <1>6, <3>1, FreshReads
  <2>2. 0 \in Nat /\ Len(drained') = At(0)
    BY <1>1, ZerosType, AtFacts
  <2>3. Reads(mode', decrypt', given'.iv, HashOf(Zeros, given'.aad), fed', drained', s', 0)
    BY <1>1, <1>8, <2>1
  <2>4. Rested(mode', decrypt', s')
    BY <1>1, <2>1
  <2>. QED
    BY <2>2, <2>3, <2>4 DEF ReadInBlocks
<1>11. LastIsKept'
  BY <1>1, <1>5, <1>7, <1>8, <1>a DEF LastIsKept, Joins
<1>. QED
  BY <1>9, <1>10, <1>11 DEF CipherInv

-----------------------------------------------------------------------------
(* The finish                                                              *)

(* What finish has the mode read: the message, with its padding.           *)
Message(pd) ==
    IF decrypt \/ pd = "none" \/ mode \notin Padded THEN Filled(fed) ELSE WithPadding(fed)

InputAt(pd) ==
    [s EXCEPT !.input = IF ~decrypt /\ mode \in Padded /\ pd = "mode" THEN PadOf(s.input) ELSE s.input]

LastCall(pd, t) == t = op(mode, decrypt, InputAt(pd), TRUE)

(* Between two calls, with the places of the message and of the state.     *)
LEMMA IdleFacts ==
    ASSUME CipherInv, phase = "idle"
    PROVE  /\ mode \in Streams \cup Padded /\ decrypt \in BOOLEAN
           /\ given.iv \in Blocks /\ HashOf(Zeros, given.aad) \in Blocks
           /\ fed \in Seq(Byte) /\ drained \in Seq(Byte) /\ s \in StateType
           /\ Rested(mode, decrypt, s)
           /\ \E q \in Nat :
                /\ Reads(mode, decrypt, given.iv, HashOf(Zeros, given.aad), fed, drained, s, q)
                /\ At(q) =< Len(fed) /\ Len(fed) < At(q) + Block
                /\ Len(s.input) = Len(fed) - At(q)
<1>. DEFINE acc == HashOf(Zeros, given.aad)
<1>0. mode \in Streams \cup Padded /\ decrypt \in BOOLEAN
  BY ModeTypes DEF CipherInv
<1>1. given.iv \in Blocks /\ given.aad \in Seq(Byte) /\ fed \in Seq(Byte) /\ drained \in Seq(Byte)
  BY DEF CipherInv, TypeInvariant
<1>2. acc \in Blocks
  BY <1>1, ZerosType, HashOfType
<1>. HIDE DEF acc
<1>3. PICK q \in Nat : Reads(mode, decrypt, given.iv, acc, fed, drained, s, q)
  BY DEF CipherInv, ReadInBlocks, acc
<1>4. s \in StateType /\ Rested(mode, decrypt, s)
  BY <1>3 DEF CipherInv, ReadInBlocks, Reads, Ready
<1>5. At(q) \in Nat /\ Len(s.input) = Len(fed) - At(q)
  BY <1>1, <1>3, InputIs
<1>6. At(q) =< Len(fed) /\ Len(s.input) < Block
  BY <1>3, <1>4 DEF Reads, Rested
<1>7. Len(fed) < At(q) + Block
  <2>1. Len(fed) \in Nat
    BY <1>1
  <2>. QED
    BY <1>5, <1>6, <2>1, BlockIs
<1>. QED
  BY <1>0, <1>1, <1>2, <1>3, <1>4, <1>5, <1>6, <1>7 DEF acc

LEMMA SameInput == \A st \in StateType : [st EXCEPT !.input = st.input] = st
  BY DEF StateType

LEMMA BuffersEnd ==
    ASSUME CipherInv, phase = "idle", Buffers(mode, decrypt), NEW pd \in {"mode", "none"},
           NEW t, LastCall(pd, t)
    PROVE  /\ Ends(mode, decrypt, given.iv, Message(pd), drained, t)
           /\ Len(t.output) = Len(s.output) +
                (IF s.input = <<>> /\ (decrypt \/ pd = "none") THEN 0 ELSE Block)
           /\ mode = "GCM" => t.acc = HashOf(HashOf(Zeros, given.aad), fed) /\ t.length = Len(fed)
<1>. DEFINE yes == TRUE
            acc == HashOf(Zeros, given.aad)
<1>0. yes \in BOOLEAN /\ Final(yes)
  BY DEF Final
<1>1. t = op(mode, decrypt, InputAt(pd), yes)
  BY DEF LastCall
<1>. HIDE DEF yes, acc
<1>2. /\ mode \in Streams \cup Padded /\ decrypt \in BOOLEAN
      /\ given.iv \in Blocks /\ acc \in Blocks
      /\ fed \in Seq(Byte) /\ drained \in Seq(Byte) /\ s \in StateType
      /\ Rested(mode, decrypt, s)
  BY IdleFacts DEF acc
<1>3. PICK q \in Nat :
        /\ Reads(mode, decrypt, given.iv, acc, fed, drained, s, q)
        /\ At(q) =< Len(fed) /\ Len(fed) < At(q) + Block
        /\ Len(s.input) = Len(fed) - At(q)
  BY IdleFacts DEF acc
<1>4. s.input \in Seq(Byte) /\ Len(s.input) \in Nat /\ Len(s.input) < Block
  <2>1. s.input \in Seq(Byte)
    BY <1>2 DEF StateType
  <2>2. Len(s.input) < Block
    BY <1>2 DEF Rested
  <2>. QED
    BY <2>1, <2>2
<1>5. mode \in Padded \/ (mode = "GCM" /\ decrypt)
  BY DEF Buffers
<1>6. CASE decrypt \/ pd = "none"
  <2>1. InputAt(pd) = s
    <3>1. InputAt(pd) = [s EXCEPT !.input = s.input]
      BY <1>6 DEF InputAt
    <3>. QED
      BY <1>2, <3>1, SameInput
  <2>2. t = op(mode, decrypt, s, yes)
    BY <1>1, <2>1
  <2>3. /\ Ends(mode, decrypt, given.iv, Filled(fed), drained, t)
        /\ Len(t.output) = Len(s.output) + (IF s.input = <<>> THEN 0 ELSE Block)
        /\ mode = "GCM" => t.acc = HashOf(acc, fed) /\ t.length = Len(fed)
    BY <1>0, <1>2, <1>3, <1>4, <2>2, EndsFilled
  <2>4. Message(pd) = Filled(fed)
    BY <1>6 DEF Message
  <2>. QED
    BY <1>6, <2>3, <2>4 DEF acc
<1>7. CASE ~(decrypt \/ pd = "none")
  <2>. DEFINE n == At(q + 1) - Len(fed)
              z == Times(n, n)
  <2>0. mode \in Padded /\ pd = "mode" /\ mode # "GCM"
    BY <1>5, <1>7 DEF Padded
  <2>1. Block \in Byte
    <3>1. mode \in Modes
      BY DEF CipherInv, TypeInvariant
    <3>. QED
      BY <2>0, <3>1, BlockCipherAssumption
  <2>2. /\ n \in 1 .. Block /\ n \in Byte /\ n = Block - (Len(fed) - At(q))
        /\ WithPadding(fed) = fed \o z /\ z \in Seq(Byte)
    BY <1>2, <1>3, <2>1, WithPaddingIs
  <2>3. Len(z) = n
    BY <2>2, TimesIs
  <2>. HIDE DEF n
  <2>4. PadOf(s.input) = s.input \o z
    <3>1. (IF Len(s.input) = Block THEN Block ELSE Block - Len(s.input)) = n
      BY <1>3, <1>4, <2>2, BlockIs
    <3>. QED
      BY <3>1 DEF PadOf, Times
  <2>. HIDE DEF z
  <2>5. InputAt(pd) = Longer(s, z)
    <3>1. InputAt(pd) = [s EXCEPT !.input = s.input \o z]
      BY <1>7, <2>0, <2>4 DEF InputAt
    <3>. QED
      BY <3>1 DEF Longer
  <2>6. t = op(mode, decrypt, Longer(s, z), yes)
    BY <1>1, <2>5
  <2>7. Len(fed \o z) = At(q + 1)
    <3>1. Len(fed \o z) = Len(fed) + Len(z)
      BY <1>2, <2>2, ConcatIs
    <3>2. At(q + 1) \in Nat /\ Len(fed) \in Nat
      <4>1. q + 1 \in Nat
        OBVIOUS
      <4>2. At(q + 1) \in Nat
        BY <4>1, AtFacts
      <4>3. Len(fed) \in Nat
        BY <1>2
      <4>. QED
        BY <4>2, <4>3
    <3>3. n = At(q + 1) - Len(fed)
      BY DEF n
    <3>. QED
      BY <2>3, <3>1, <3>2, <3>3
  <2>8. /\ Ends(mode, decrypt, given.iv, fed \o z, drained, t)
        /\ Len(t.output) = Len(s.output) + Block
    BY <1>0, <1>2, <1>3, <2>0, <2>2, <2>6, <2>7, EndsPadded
  <2>9. Message(pd) = fed \o z
    BY <1>7, <2>0, <2>2 DEF Message
  <2>. QED
    BY <1>7, <2>0, <2>8, <2>9
<1>. QED
  BY <1>6, <1>7

LEMMA MessageType ==
    ASSUME CipherInv, phase = "idle", NEW pd \in {"mode", "none"}
    PROVE  Message(pd) \in Seq(Byte)
<1>1. fed \in Seq(Byte) /\ \E q \in Nat : At(q) =< Len(fed) /\ Len(fed) < At(q) + Block
  BY IdleFacts
<1>2. PICK q \in Nat : At(q) =< Len(fed) /\ Len(fed) < At(q) + Block
  BY <1>1
<1>3. Filled(fed) \in Seq(Byte)
  <2>. DEFINE n == IF Len(fed) = At(q) THEN 0 ELSE At(q + 1) - Len(fed)
  <2>1. n \in Nat /\ Filled(fed) = fed \o Times(n, 0) /\ Times(n, 0) \in Seq(Byte)
    BY <1>1, <1>2, FilledIs
  <2>. HIDE DEF n
  <2>. QED
    BY <1>1, <2>1
<1>4. ASSUME mode \in Padded
      PROVE  WithPadding(fed) \in Seq(Byte)
  <2>. DEFINE n == At(q + 1) - Len(fed)
  <2>1. Block \in Byte
    <3>1. mode \in Modes
      BY DEF CipherInv, TypeInvariant
    <3>. QED
      BY <1>4, <3>1, BlockCipherAssumption
  <2>2. /\ n \in 1 .. Block /\ n \in Byte /\ n = Block - (Len(fed) - At(q))
        /\ WithPadding(fed) = fed \o Times(n, n) /\ Times(n, n) \in Seq(Byte)
    BY <1>1, <1>2, <2>1, WithPaddingIs
  <2>. HIDE DEF n
  <2>. QED
    BY <1>1, <2>2
<1>. QED
  BY <1>3, <1>4 DEF Message

(* After the finish CBC has the last block for the next message.           *)
LEMMA FinishInv ==
    ASSUME CipherInv, NEW p \in Pads, Finish(p)
    PROVE  CipherInv'
<1>. DEFINE t == op(mode, decrypt, [s EXCEPT !.input = PaddedInput], TRUE)
            overflow == Len(s.input) % Block
<1>1. /\ mode' = mode /\ decrypt' = decrypt /\ phase = "idle" /\ phase' = "done"
      /\ given' = given /\ fed' = fed /\ drained' = drained /\ earlier' = earlier
      /\ pad' = IF p # "mode" /\ mode \in Padded THEN p ELSE pad
      /\ mode \in Padded => FinishPadded(t, overflow)
  <2>1. mode \in Padded => mode # "GCM"
    BY DEF Padded
  <2>. QED
    BY <2>1 DEF Finish, SameObject
<1>2. pad' \in {"mode", "none"}
  <2>1. Pads \subseteq {"mode", "none"}
    BY BlockCipherAssumption
  <2>. QED
    BY <1>1, <2>1 DEF CipherInv, TypeInvariant
<1>3. LastCall(pad', t)
  BY DEF LastCall, InputAt, PaddedInput
<1>. HIDE DEF t
<1>4. TypeInvariant'
  BY <1>1, <1>2 DEF CipherInv, TypeInvariant
<1>5. ReadInBlocks'
  BY <1>1 DEF CipherInv, ReadInBlocks
<1>6. LastIsKept'
  <2>. SUFFICES ASSUME mode = "CBC"
                PROVE  LastIsKept'
    BY <1>1 DEF LastIsKept
  <2>1. mode \in Padded /\ Buffers(mode, decrypt)
    BY DEF Padded, Buffers
  <2>2. Ends(mode, decrypt, given.iv, Message(pad'), drained, t)
    BY <1>1, <1>2, <1>3, <2>1, BuffersEnd
  <2>3. decrypt \in BOOLEAN /\ given.iv \in Blocks /\ Message(pad') \in Seq(Byte)
    <3>1. decrypt \in BOOLEAN /\ given.iv \in Blocks
      BY <1>1, IdleFacts
    <3>2. Message(pad') \in Seq(Byte)
      BY <1>1, <1>2, MessageType
    <3>. QED
      BY <3>1, <3>2
  <2>4. Leaves(decrypt, given.iv, Whole(Message(pad')), t.inBlock)
    BY <2>2, <2>3, EndLeaves
  <2>5. BlocksRead' = Whole(Message(pad'))
    BY <1>1, <2>1 DEF BlocksRead, Message
  <2>6. s'.inBlock = t.inBlock
    <3>1. t \in StateType
      BY <2>2 DEF Ends
    <3>2. \A x : [t EXCEPT !.output = x].inBlock = t.inBlock
      BY <3>1 DEF StateType
    <3>3. s' = t \/ \E x : s' = [t EXCEPT !.output = x]
      BY <1>1, <2>1 DEF FinishPadded
    <3>. QED
      BY <3>2, <3>3
  <2>. QED
    BY <1>1, <2>4, <2>5, <2>6 DEF CipherInv, LastIsKept
<1>. QED
  BY <1>4, <1>5, <1>6 DEF CipherInv

-----------------------------------------------------------------------------
(* Theorems                                                                *)

LEMMA NextInv == CipherInv /\ [Next]_vars => CipherInv'
<1>. SUFFICES ASSUME CipherInv, [Next]_vars
              PROVE  CipherInv'
  OBVIOUS
<1>1. ASSUME NEW iv \in Ivs, NEW aad \in AADs, NEW n \in TagLengths, NEW t \in Tags,
             Start(iv, aad, n, t)
      PROVE  CipherInv'
  BY <1>1, StartInv
<1>2. CASE Continue
  BY <1>2, ContinueInv
<1>3. ASSUME NEW chunk \in Chunks, Update(chunk)
      PROVE  CipherInv'
  BY <1>3, UpdateInv
<1>4. CASE Step
  BY <1>4, StepInv
<1>5. CASE Drain
  BY <1>5, DrainInv
<1>6. ASSUME NEW p \in Pads, Finish(p)
      PROVE  CipherInv'
  BY <1>6, FinishInv
<1>7. CASE UNCHANGED vars
  BY <1>7 DEF vars, CipherInv, TypeInvariant, ReadInBlocks, LastIsKept, BlocksRead
<1>. QED
  BY <1>1, <1>2, <1>3, <1>4, <1>5, <1>6, <1>7 DEF Next

(* The messages and states have their types, between two calls of update   *)
(* the state is that of the blocks read so far and of what is left of the  *)
(* next, and CBC's vector is the last block of the messages before.        *)
THEOREM CipherInvariant == Spec => []CipherInv
<1>1. Init => CipherInv
  BY InitInv
<1>2. CipherInv /\ [Next]_vars => CipherInv'
  BY NextInv
<1>. QED
  BY <1>1, <1>2, PTL DEF Spec

(* Bytes that follow a result of their length are the result.              *)
LEMMA FollowsAll ==
    ASSUME NEW out, NEW std \in Seq(Byte), Follows(out, std, Len(std))
    PROVE  out = std
<1>1. out \in Seq(Byte) /\ Len(out) = Len(std) /\ \A i \in 1 .. Len(std) : out[i] = std[i]
  BY DEF Follows
<1>. QED
  BY <1>1, SeqEqual

LEMMA PiecesFollow == CipherInv => PiecesDoNotMatter
<1>. SUFFICES ASSUME CipherInv, phase = "idle"
              PROVE  AllOutput = Standard(mode, decrypt, given.iv,
                                    IF Buffers(mode, decrypt) THEN Whole(fed) ELSE fed)
  BY DEF PiecesDoNotMatter
<1>. DEFINE acc == HashOf(Zeros, given.aad)
            std == Standard(mode, decrypt, given.iv, fed)
<1>1. /\ mode \in Streams \cup Padded /\ decrypt \in BOOLEAN
      /\ given.iv \in Blocks /\ acc \in Blocks
      /\ fed \in Seq(Byte) /\ drained \in Seq(Byte) /\ s \in StateType
      /\ Rested(mode, decrypt, s)
  BY IdleFacts
<1>. HIDE DEF acc
<1>2. PICK q \in Nat :
        /\ Reads(mode, decrypt, given.iv, acc, fed, drained, s, q)
        /\ At(q) =< Len(fed) /\ Len(fed) < At(q) + Block
        /\ Len(s.input) = Len(fed) - At(q)
  BY IdleFacts DEF acc
<1>3. Follows(AllOutput, std, At(q) + s.partial)
  BY <1>2 DEF Reads, AllOutput
<1>4. At(q) \in Nat /\ Len(fed) \in Nat
  <2>1. Len(fed) \in Nat
    BY <1>1
  <2>. QED
    BY <2>1, AtFacts
<1>5. CASE Buffers(mode, decrypt)
  <2>. DEFINE w == Whole(fed)
              d == Drop(fed, At(q))
              x == Standard(mode, decrypt, given.iv, w)
              n == At(q)
  <2>1. w \in Seq(Byte) /\ Len(w) = n /\ d \in Seq(Byte) /\ fed = w \o d
    BY <1>1, <1>2, WholeIs
  <2>2. Follows(AllOutput, std, n)
    <3>1. s.partial = 0
      BY <1>2, <1>5 DEF Reads, Ready
    <3>2. At(q) + s.partial = n
      BY <1>4, <3>1
    <3>. QED
      BY <1>3, <3>2
  <2>3. n \in 0 .. Len(w) /\ (mode \notin Padded \/ \E k \in Nat : n = At(k))
    BY <1>4, <2>1
  <2>. HIDE DEF w, d, n
  <2>4. \A i \in 1 .. n : Standard(mode, decrypt, given.iv, w \o d)[i]
                            = Standard(mode, decrypt, given.iv, w)[i]
    BY <1>1, <2>1, <2>3, StandardGoesOn
  <2>5. x \in Seq(Byte) /\ Len(x) = n
    BY <1>1, <2>1, StandardIs
  <2>6. Follows(AllOutput, x, n)
    BY <2>1, <2>2, <2>4 DEF Follows
  <2>. HIDE DEF x
  <2>7. AllOutput = x
    BY <2>5, <2>6, FollowsAll
  <2>. QED
    BY <1>5, <2>7 DEF x, w
<1>6. CASE ~Buffers(mode, decrypt)
  <2>1. std \in Seq(Byte) /\ Len(std) = Len(fed)
    BY <1>1, StandardIs
  <2>2. s.partial = Len(fed) - At(q)
    BY <1>1, <1>2, <1>6 DEF Rested
  <2>3. At(q) + s.partial = Len(std)
    BY <1>4, <2>1, <2>2
  <2>4. AllOutput = std
    <3>. HIDE DEF std
    <3>. QED
      BY <1>3, <2>1, <2>3, FollowsAll
  <2>. QED
    BY <1>6, <2>4
<1>. QED
  BY <1>5, <1>6

(* However a message is cut into pieces, and whatever was done before and  *)
(* taken out in between, what update puts out is the standard's result of  *)
(* the message so far, for every mode.                                     *)
THEOREM PiecesAreStandard == Spec => []PiecesDoNotMatter
  BY CipherInvariant, PiecesFollow, PTL

(* CBC messages that continue one another are one message.                 *)
THEOREM MessagesAreJoined == Spec => []ContinuedIsOne
<1>1. CipherInv => ContinuedIsOne
  BY DEF CipherInv, LastIsKept, ContinuedIsOne
<1>. QED
  BY <1>1, CipherInvariant, PTL

-----------------------------------------------------------------------------
(* What finish returns                                                     *)

(* A step that is no finish leaves what a finish said, or forgets it.      *)
LEMMA OnlyFinishEnds ==
    ASSUME [Next]_vars, phase' = "done", ~UNCHANGED vars
    PROVE  \E p \in Pads : Finish(p)
<1>1. "idle" # "done" /\ "update" # "done"
  OBVIOUS
<1>2. ASSUME NEW iv \in Ivs, NEW aad \in AADs, NEW n \in TagLengths, NEW t \in Tags,
             Start(iv, aad, n, t)
      PROVE  FALSE
  BY <1>2 DEF Start
<1>3. CASE Continue
  BY <1>3 DEF Continue
<1>4. ASSUME NEW chunk \in Chunks, Update(chunk)
      PROVE  FALSE
  BY <1>4 DEF Update
<1>5. CASE Step
  BY <1>5 DEF Step
<1>6. CASE Drain
  BY <1>6 DEF Drain
<1>. QED
  BY <1>2, <1>3, <1>4, <1>5, <1>6 DEF Next

Ending(p, t) ==
    /\ phase = "idle" /\ phase' = "done"
    /\ mode' = mode /\ decrypt' = decrypt
    /\ given' = given /\ fed' = fed /\ drained' = drained
    /\ pad' \in {"mode", "none"}
    /\ mode \in Padded /\ p # "mode" => pad' = p
    /\ LastCall(pad', t)
    /\ mode = "GCM" => FinishGcm(t, Len(s.input) % Block)
    /\ mode \in Padded => FinishPadded(t, Len(s.input) % Block)
    /\ mode \notin Padded /\ mode # "GCM" => result' = TRUE /\ s' = t

LEMMA FinishEnds ==
    ASSUME CipherInv, NEW p \in Pads, Finish(p)
    PROVE  \E t : Ending(p, t)
<1>. DEFINE t == op(mode, decrypt, [s EXCEPT !.input = PaddedInput], TRUE)
            overflow == Len(s.input) % Block
<1>1. /\ mode' = mode /\ decrypt' = decrypt /\ phase = "idle" /\ phase' = "done"
      /\ given' = given /\ fed' = fed /\ drained' = drained
      /\ pad' = IF p # "mode" /\ mode \in Padded THEN p ELSE pad
  BY DEF Finish, SameObject
<1>2. /\ mode = "GCM" => FinishGcm(t, overflow)
      /\ mode \in Padded => FinishPadded(t, overflow)
      /\ mode \notin Padded /\ mode # "GCM" => result' = TRUE /\ s' = t
  <2>1. mode \in Padded => mode # "GCM"
    BY DEF Padded
  <2>. QED
    BY <2>1 DEF Finish
<1>3. pad' \in {"mode", "none"}
  <2>1. Pads \subseteq {"mode", "none"}
    BY BlockCipherAssumption
  <2>. QED
    BY <1>1, <2>1 DEF CipherInv, TypeInvariant
<1>4. LastCall(pad', t)
  BY DEF LastCall, InputAt, PaddedInput
<1>. HIDE DEF t
<1>. QED
  BY <1>1, <1>2, <1>3, <1>4 DEF Ending

(* The last call of a stream.                                              *)
LEMMA StreamEnds ==
    ASSUME CipherInv, phase = "idle", ~Buffers(mode, decrypt), NEW pd, NEW t, LastCall(pd, t)
    PROVE  /\ t \in StateType
           /\ Follows(drained \o t.output, Standard(mode, decrypt, given.iv, fed), Len(fed))
           /\ mode = "GCM" =>
                /\ t.acc = HashOf(HashOf(Zeros, given.aad), drained \o t.output)
                /\ t.length = Len(fed)
<1>. DEFINE yes == TRUE
            acc == HashOf(Zeros, given.aad)
<1>0. yes \in BOOLEAN /\ Final(yes)
  BY DEF Final
<1>1. t = op(mode, decrypt, InputAt(pd), yes)
  BY DEF LastCall
<1>. HIDE DEF yes, acc
<1>2. /\ mode \in Streams \cup Padded /\ decrypt \in BOOLEAN
      /\ given.iv \in Blocks /\ acc \in Blocks
      /\ fed \in Seq(Byte) /\ drained \in Seq(Byte) /\ s \in StateType
      /\ Rested(mode, decrypt, s)
  BY IdleFacts DEF acc
<1>3. PICK q \in Nat :
        /\ Reads(mode, decrypt, given.iv, acc, fed, drained, s, q)
        /\ At(q) =< Len(fed) /\ Len(fed) < At(q) + Block
        /\ Len(s.input) = Len(fed) - At(q)
  BY IdleFacts DEF acc
<1>4. mode \in Streams /\ mode \notin Padded
  BY <1>2 DEF Buffers
<1>5. InputAt(pd) = s
  <2>1. InputAt(pd) = [s EXCEPT !.input = s.input]
    BY <1>4 DEF InputAt
  <2>. QED
    BY <1>2, <2>1, SameInput
<1>6. t = op(mode, decrypt, s, yes)
  BY <1>1, <1>5
<1>7. AllRead(mode, decrypt, given.iv, acc, fed, drained, yes, t)
  BY <1>0, <1>2, <1>3, <1>4, <1>6, EndsStream
<1>. QED
  BY <1>0, <1>7 DEF AllRead, Final, acc

(* The tag is cut to a length that is at least half a block.               *)
TagsFit == \A n \in TagLengths : Block % n = Block - n

LEMMA XorIsSequence ==
    ASSUME NEW a, NEW b
    PROVE  Len(a ^^ b) = Block
<1>. DEFINE f(i) == XorByte(a[i], b[i])
            S == {f(i) : i \in 1 .. Block}
            g == [i \in 1 .. Block |-> f(i)]
<1>1. a ^^ b = g
  BY DEF ^^
<1>. HIDE DEF f
<1>2. g \in [1 .. Block -> S]
  OBVIOUS
<1>. HIDE DEF g, S
<1>3. g \in Seq(S) /\ Len(g) = Block
  BY <1>2, BlockIs
<1>. QED
  BY <1>1, <1>3

LEMMA TagOfIs ==
    ASSUME TagsFit, given.tagLength \in TagLengths, NEW t, NEW out,
           t.acc = HashOf(HashOf(Zeros, given.aad), out), t.length = Len(out)
    PROVE  TagOf(t, Lengths[Len(given.aad), t.length])
             = Take(StandardTag(given.iv, given.aad, out), given.tagLength)
<1>. DEFINE tail == Lengths[Len(given.aad), Len(out)]
            full == ghash(t.acc, tail) ^^ Cipher[given.iv]
            n == given.tagLength
<1>1. full = StandardTag(given.iv, given.aad, out)
  BY Zenon DEF StandardTag, ghash
<1>2. TagOf(t, Lengths[Len(given.aad), t.length]) = Truncate(full, Block % n)
  BY Zenon DEF TagOf
<1>. HIDE DEF tail
<1>3. Len(full) = Block
  <2>. DEFINE g == ghash(t.acc, tail)
  <2>. HIDE DEF g
  <2>1. Len(g ^^ Cipher[given.iv]) = Block
    BY XorIsSequence
  <2>. QED
    BY <2>1 DEF g
<1>. HIDE DEF full
<1>4. Truncate(full, Block % n) = Take(full, Block - (Block - n))
  BY <1>3 DEF TagsFit, Truncate
<1>5. n \in Nat
  BY BlockCipherAssumption
<1>6. Block - (Block - n) = n
  BY <1>5, BlockIs
<1>. QED
  BY <1>1, <1>2, <1>4, <1>6

LEMMA TagFollows ==
    ASSUME TagsFit, CipherInv, [Next]_vars, TagIsStandard
    PROVE  TagIsStandard'
<1>1. CASE UNCHANGED vars
  BY <1>1 DEF vars, TagIsStandard, AllOutput
<1>2. CASE ~UNCHANGED vars
  <2>. SUFFICES ASSUME phase' = "done", mode' = "GCM", ~decrypt'
                PROVE  tag' = Take(StandardTag(given.iv, given.aad, AllOutput), given.tagLength)'
    BY DEF TagIsStandard
  <2>1. PICK p \in Pads : Finish(p)
    BY <1>2, OnlyFinishEnds
  <2>2. PICK t : Ending(p, t)
    BY <2>1, FinishEnds
  <2>3. /\ phase = "idle" /\ mode = "GCM" /\ ~decrypt /\ given' = given /\ drained' = drained
        /\ LastCall(pad', t) /\ FinishGcm(t, Len(s.input) % Block)
    BY <2>2 DEF Ending
  <2>. DEFINE out == drained \o t.output
  <2>4. /\ t \in StateType /\ Follows(out, Standard(mode, decrypt, given.iv, fed), Len(fed))
        /\ t.acc = HashOf(HashOf(Zeros, given.aad), out) /\ t.length = Len(fed)
    <3>1. ~Buffers(mode, decrypt)
      BY <2>3 DEF Buffers, Padded
    <3>. QED
      BY <2>3, <3>1, StreamEnds
  <2>5. t.length = Len(out)
    BY <2>4 DEF Follows
  <2>6. given.tagLength \in TagLengths
    BY <2>3 DEF CipherInv, TypeInvariant
  <2>7. /\ tag' = TagOf(t, Lengths[Len(given.aad), t.length])
        /\ s' = [t EXCEPT !.output = t.output,
                          !.acc = ghash(t.acc, Lengths[Len(given.aad), t.length])]
    <3>. DEFINE lengths == Lengths[Len(given.aad), t.length]
    <3>1. FinishGcm(t, Len(s.input) % Block)
      BY <2>3
    <3>. QED
      BY <2>3, <3>1, Zenon DEF FinishGcm
  <2>8. s'.output = t.output
    <3>1. \A x : [t EXCEPT !.output = t.output, !.acc = x].output = t.output
      BY <2>4 DEF StateType
    <3>. QED
      BY <2>7, <3>1, Zenon
  <2>9. AllOutput' = out
    BY <2>3, <2>8 DEF AllOutput
  <2>. HIDE DEF out
  <2>10. tag' = Take(StandardTag(given.iv, given.aad, out), given.tagLength)
    <3>1. TagOf(t, Lengths[Len(given.aad), t.length])
             = Take(StandardTag(given.iv, given.aad, out), given.tagLength)
      BY <2>4, <2>5, <2>6, TagOfIs
    <3>. QED
      BY <2>7, <3>1, Zenon
  <2>. QED
    BY <2>3, <2>9, <2>10, Zenon
<1>. QED
  BY <1>1, <1>2

(* The tag that encrypting gives is the standard's, cut to its length, if  *)
(* every tag is longer than half a block, and no longer than a block.      *)
THEOREM TagsAreStandard ==
    ASSUME TagsFit
    PROVE  Spec => []TagIsStandard
<1>1. Init => TagIsStandard
  BY DEF Init, ObjectStart, TagIsStandard
<1>2. CipherInv /\ TagIsStandard /\ [Next]_vars => TagIsStandard'
  BY TagFollows
<1>. QED
  BY <1>1, <1>2, CipherInvariant, PTL DEF Spec

-----------------------------------------------------------------------------
(* What finish takes off again                                             *)

LEMMA TakeIs ==
    ASSUME NEW m \in Seq(Byte), NEW n \in 0 .. Len(m)
    PROVE  /\ Take(m, n) \in Seq(Byte) /\ Len(Take(m, n)) = n
           /\ \A i \in 1 .. n : Take(m, n)[i] = m[i]
<1>1. Len(m) \in Nat
  OBVIOUS
<1>2. CASE n = Len(m)
  BY <1>1, <1>2 DEF Take
<1>3. CASE n # Len(m)
  <2>1. Take(m, n) = SubSeq(m, 1, n)
    BY <1>1, <1>3 DEF Take
  <2>. QED
    BY <1>1, <2>1
<1>. QED
  BY <1>2, <1>3

(* Bytes are taken off the end, wherever a part in front was taken.        *)
LEMMA TakenOff ==
    ASSUME NEW d \in Seq(Byte), NEW o \in Seq(Byte), NEW n \in 0 .. Len(o)
    PROVE  d \o Truncate(o, n) = Take(d \o o, Len(d \o o) - n)
<1>. DEFINE m == d \o o
            a == Take(o, Len(o) - n)
            b == Take(m, Len(m) - n)
            x == d \o a
<1>1. Len(d) \in Nat /\ Len(o) \in Nat /\ Len(o) - n \in 0 .. Len(o)
  OBVIOUS
<1>2. /\ m \in Seq(Byte) /\ Len(m) = Len(d) + Len(o)
      /\ \A i \in 1 .. Len(d) : m[i] = d[i]
      /\ \A i \in 1 .. Len(o) : m[Len(d) + i] = o[i]
  BY ConcatIs
<1>. HIDE DEF m
<1>3. Len(m) - n \in 0 .. Len(m) /\ Len(m) - n = Len(d) + (Len(o) - n)
  BY <1>1, <1>2
<1>4. /\ a \in Seq(Byte) /\ Len(a) = Len(o) - n
      /\ \A i \in 1 .. Len(o) - n : a[i] = o[i]
  BY <1>1, TakeIs
<1>5. /\ b \in Seq(Byte) /\ Len(b) = Len(m) - n
      /\ \A i \in 1 .. Len(m) - n : b[i] = m[i]
  BY <1>2, <1>3, TakeIs
<1>6. Truncate(o, n) = a
  BY DEF Truncate
<1>. HIDE DEF a, b
<1>7. /\ x \in Seq(Byte) /\ Len(x) = Len(d) + Len(a)
      /\ \A i \in 1 .. Len(d) : x[i] = d[i]
      /\ \A i \in 1 .. Len(a) : x[Len(d) + i] = a[i]
  BY <1>4, ConcatIs
<1>. HIDE DEF x
<1>8. ASSUME NEW i \in 1 .. Len(b)
      PROVE  x[i] = b[i]
  <2>1. i \in 1 .. Len(m) - n /\ b[i] = m[i]
    BY <1>5
  <2>2. CASE i =< Len(d)
    BY <1>1, <1>2, <1>7, <2>1, <2>2
  <2>3. CASE i > Len(d)
    <3>. DEFINE j == i - Len(d)
    <3>1. j \in 1 .. Len(o) - n /\ j \in 1 .. Len(o) /\ j \in 1 .. Len(a) /\ i = Len(d) + j
      BY <1>1, <1>3, <1>4, <2>1, <2>3
    <3>. HIDE DEF j
    <3>2. x[Len(d) + j] = a[j] /\ a[j] = o[j] /\ m[Len(d) + j] = o[j]
      BY <1>2, <1>4, <1>7, <3>1
    <3>. QED
      BY <2>1, <3>1, <3>2
  <2>. QED
    BY <1>1, <2>1, <2>2, <2>3
<1>9. Len(x) = Len(b)
  BY <1>3, <1>4, <1>5, <1>7
<1>10. x = b
  BY <1>5, <1>7, <1>8, <1>9, SeqEqual
<1>. QED
  BY <1>6, <1>10 DEF x, b, m

LEMMA BlocksBetween ==
    ASSUME NEW k \in Nat, NEW q \in Nat, NEW n \in Nat, At(q) = At(k) + n
    PROVE  n % Block = 0 /\ (n = 0 \/ n >= Block)
<1>1. /\ At(k) \in Nat /\ At(q) \in Nat
      /\ q < k => At(q) + Block =< At(k)
      /\ k < q => At(k) + Block =< At(q)
  BY AtFacts
<1>2. k =< q
  BY <1>1, BlockIs
<1>3. n = ((q - k) * Block) + 0
  BY <1>1, <1>2, BlockIs DEF At
<1>4. n % Block = 0
  <2>1. q - k \in Nat /\ 0 \in Nat /\ 0 < Block
    BY <1>2, BlockIs
  <2>. QED
    BY <1>3, <2>1, BlockIs, QuotientIs
<1>5. n = 0 \/ n >= Block
  <2>1. CASE k = q
    BY <1>1, <2>1
  <2>2. CASE k # q
    BY <1>1, <1>2, <2>2, BlockIs
  <2>. QED
    BY <2>1, <2>2
<1>. QED
  BY <1>4, <1>5

(* finish looks at the padding of what is still there, which is the        *)
(* message's unless that is gone.                                          *)
LEMMA PaddingIs ==
    ASSUME NEW d \in Seq(Byte), NEW o \in Seq(Byte), NEW k \in Nat, NEW q \in Nat,
           Len(d) = At(k), Len(d \o o) = At(q)
    PROVE  /\ ValidPadding(o) <=> IsPadded(d \o o) /\ Len(d) < Len(d \o o)
           /\ ValidPadding(o) =>
                o[Len(o)] \in 1 .. Block /\ o[Len(o)] \in 0 .. Len(o) /\ EndsWith(d \o o, o[Len(o)])
<1>. DEFINE m == d \o o
            n == o[Len(o)]
<1>1. Len(d) \in Nat /\ Len(o) \in Nat
  OBVIOUS
<1>2. /\ m \in Seq(Byte) /\ Len(m) = Len(d) + Len(o)
      /\ \A i \in 1 .. Len(o) : m[Len(d) + i] = o[i]
  BY ConcatIs
<1>. HIDE DEF m, n
<1>3. Len(o) % Block = 0 /\ (Len(o) = 0 \/ Len(o) >= Block)
  BY <1>1, <1>2, BlocksBetween DEF m
<1>4. Len(m) % Block = 0
  <2>1. At(0) = 0 /\ 0 \in Nat
    BY AtFacts
  <2>2. At(q) = At(0) + Len(m) /\ Len(m) \in Nat
    BY <1>1, <1>2, <2>1 DEF m
  <2>. QED
    BY <2>1, <2>2, BlocksBetween
<1>5. ASSUME Len(o) # 0, NEW x \in 1 .. Block
      PROVE  /\ x \in 0 .. Len(o)
             /\ EndsWith(m, x) <=> \A i \in Len(o) - x + 1 .. Len(o) : o[i] = x
  <2>1. x =< Len(o) /\ x =< Len(m) /\ x \in Nat
    BY <1>1, <1>2, <1>3, <1>5, BlockIs
  <2>2. ASSUME \A i \in Len(o) - x + 1 .. Len(o) : o[i] = x,
               NEW i \in Len(m) - x + 1 .. Len(m)
        PROVE  m[i] = x
    <3>. DEFINE j == i - Len(d)
    <3>1. j \in 1 .. Len(o) /\ j \in Len(o) - x + 1 .. Len(o) /\ i = Len(d) + j
      BY <1>1, <1>2, <2>1, SMTT(60)
    <3>. HIDE DEF j
    <3>. QED
      BY <1>2, <2>2, <3>1
  <2>3. ASSUME \A i \in Len(m) - x + 1 .. Len(m) : m[i] = x,
               NEW i \in Len(o) - x + 1 .. Len(o)
        PROVE  o[i] = x
    <3>1. i \in 1 .. Len(o) /\ Len(d) + i \in Len(m) - x + 1 .. Len(m)
      BY <1>1, <1>2, <2>1, SMTT(60)
    <3>. QED
      BY <1>2, <2>3, <3>1
  <2>. QED
    BY <1>1, <2>1, <2>2, <2>3 DEF EndsWith
<1>6. Len(d) < Len(m) <=> Len(o) # 0
  BY <1>1, <1>2
<1>7. ValidPadding(o) <=>
        /\ Len(o) # 0 /\ n \in 1 .. Block
        /\ \A i \in Len(o) - n + 1 .. Len(o) : o[i] = n
  BY <1>3, Zenon DEF ValidPadding, n
<1>8. IsPadded(m) <=> \E x \in 1 .. Block : EndsWith(m, x)
  BY <1>4, Zenon DEF IsPadded
<1>9. ASSUME ValidPadding(o)
      PROVE  IsPadded(m) /\ Len(d) < Len(m) /\ n \in 1 .. Block /\ n \in 0 .. Len(o) /\ EndsWith(m, n)
  <2>1. /\ Len(o) # 0 /\ n \in 1 .. Block
        /\ \A i \in Len(o) - n + 1 .. Len(o) : o[i] = n
    BY <1>7, <1>9
  <2>. QED
    BY <1>5, <1>6, <1>8, <2>1
<1>10. ASSUME IsPadded(m), Len(d) < Len(m)
       PROVE  ValidPadding(o)
  <2>1. PICK x \in 1 .. Block : EndsWith(m, x)
    BY <1>8, <1>10
  <2>2. Len(o) # 0
    BY <1>6, <1>10
  <2>3. x \in 0 .. Len(o) /\ \A i \in Len(o) - x + 1 .. Len(o) : o[i] = x
    BY <1>5, <2>1, <2>2
  <2>4. Len(o) \in Len(o) - x + 1 .. Len(o)
    BY <1>1, <2>3
  <2>5. n = x
    BY <2>3, <2>4 DEF n
  <2>. QED
    BY <1>7, <2>1, <2>2, <2>3, <2>5
<1>. QED
  BY <1>9, <1>10 DEF m, n

(* What was padded to m is what is in front of the padding.                *)
LEMMA UnpaddedIs ==
    ASSUME Block \in Byte, NEW m \in Seq(Byte), NEW q \in Nat, Len(m) = At(q),
           NEW n \in 1 .. Block, EndsWith(m, n)
    PROVE  (CHOOSE p \in {Take(m, k) : k \in 0 .. Len(m)} : WithPadding(p) = m)
             = Take(m, Len(m) - n)
<1>. DEFINE unpadded == Take(m, Len(m) - n)
            S == {Take(m, k) : k \in 0 .. Len(m)}
<1>1. /\ n =< Len(m) /\ Len(m) \in Nat /\ n \in Nat /\ 0 < n /\ n =< Block
      /\ \A i \in Len(m) - n + 1 .. Len(m) : m[i] = n
  BY BlockIs DEF EndsWith
<1>2. n \in Byte
  BY DEF Byte
<1>3. Len(m) - n \in 0 .. Len(m)
  BY <1>1
<1>4. /\ unpadded \in Seq(Byte) /\ Len(unpadded) = Len(m) - n
      /\ \A i \in 1 .. Len(m) - n : unpadded[i] = m[i]
  BY <1>3, TakeIs
<1>5. unpadded \in S
  BY <1>3
<1>. HIDE DEF unpadded
<1>6. q # 0
  BY <1>1, AtFacts
<1>7. WithPadding(unpadded) = m
  <2>. DEFINE j == q - 1
              x == Times(n, n)
              w == unpadded \o x
  <2>1. j \in Nat /\ j + 1 = q
    BY <1>6
  <2>. HIDE DEF j
  <2>2. At(j) \in Nat /\ At(j + 1) = At(j) + Block /\ At(j + 1) = Len(m)
    BY <2>1, AtFacts
  <2>3. At(j) =< Len(unpadded) /\ Len(unpadded) < At(j) + Block /\ At(j + 1) - Len(unpadded) = n
    <3>1. Len(unpadded) = Len(m) - n /\ Len(m) = At(j) + Block
      BY <1>4, <2>2
    <3>2. Len(unpadded) = (At(j) + Block) - n
      BY <3>1
    <3>3. At(j + 1) - Len(unpadded) = (At(j) + Block) - ((At(j) + Block) - n)
      BY <2>2, <3>2
    <3>4. At(j) \in Nat /\ Block \in Nat /\ n \in Nat /\ 0 < n /\ n =< Block
      BY <1>1, <2>2, BlockIs
    <3>. QED
      BY <3>2, <3>3, <3>4
  <2>4. WithPadding(unpadded) = w
    BY <1>4, <2>1, <2>3, WithPaddingIs
  <2>5. x \in Seq(Byte) /\ Len(x) = n /\ \A i \in 1 .. n : x[i] = n
    BY <1>1, <1>2, TimesIs
  <2>. HIDE DEF x
  <2>6. /\ w \in Seq(Byte) /\ Len(w) = Len(unpadded) + Len(x)
        /\ \A i \in 1 .. Len(unpadded) : w[i] = unpadded[i]
        /\ \A i \in 1 .. Len(x) : w[Len(unpadded) + i] = x[i]
    BY <1>4, <2>5, ConcatIs
  <2>. HIDE DEF w
  <2>7. ASSUME NEW i \in 1 .. Len(m)
        PROVE  w[i] = m[i]
    <3>1. CASE i =< Len(m) - n
      BY <1>1, <1>4, <2>6, <3>1
    <3>2. CASE i > Len(m) - n
      <4>. DEFINE r == i - Len(unpadded)
      <4>1. r \in 1 .. n /\ i = Len(unpadded) + r /\ i \in Len(m) - n + 1 .. Len(m)
        BY <1>1, <1>4, <3>2
      <4>. HIDE DEF r
      <4>2. w[Len(unpadded) + r] = n
        BY <2>5, <2>6, <4>1
      <4>. QED
        BY <1>1, <4>1, <4>2
    <3>. QED
      BY <1>1, <3>1, <3>2
  <2>8. Len(w) = Len(m)
    BY <1>1, <1>4, <2>5, <2>6
  <2>9. w = m
    BY <2>6, <2>7, <2>8, SeqEqual
  <2>. QED
    BY <2>4, <2>9
<1>8. ASSUME NEW p \in S, WithPadding(p) = m
      PROVE  p = unpadded
  <2>1. PICK k \in 0 .. Len(m) : p = Take(m, k)
    BY <1>8
  <2>2. p \in Seq(Byte) /\ Len(p) = k
    BY <2>1, TakeIs
  <2>3. PICK j \in Nat : At(j) =< Len(p) /\ Len(p) < At(j) + Block
    BY <2>2, RestOf
  <2>. DEFINE x == At(j + 1) - Len(p)
              times == Times(x, x)
              w == p \o times
  <2>4. x \in 1 .. Block /\ x \in Byte /\ WithPadding(p) = w
    BY <2>2, <2>3, WithPaddingIs
  <2>. HIDE DEF x
  <2>5. x \in Nat /\ x # 0
    BY <2>4
  <2>6. times \in Seq(Byte) /\ Len(times) = x /\ \A i \in 1 .. x : times[i] = x
    BY <2>4, <2>5, TimesIs
  <2>. HIDE DEF times
  <2>7. /\ Len(w) = Len(p) + x
        /\ \A i \in 1 .. x : w[Len(p) + i] = times[i]
    BY <2>2, <2>6, ConcatIs
  <2>8. w = m
    BY <1>8, <2>4
  <2>. HIDE DEF w
  <2>9. Len(m) = k + x /\ m[k + x] = x
    <3>1. x \in 1 .. x
      BY <2>5
    <3>. QED
      BY <2>2, <2>6, <2>7, <2>8, <3>1
  <2>10. m[Len(m)] = n
    <3>1. Len(m) \in Len(m) - n + 1 .. Len(m)
      BY <1>1
    <3>. QED
      BY <1>1, <3>1
  <2>11. k = Len(m) - n
    BY <1>1, <2>1, <2>5, <2>9, <2>10
  <2>. QED
    BY <2>1, <2>11 DEF unpadded
<1>. HIDE DEF S
<1>9. (CHOOSE p \in S : WithPadding(p) = m) = unpadded
  BY <1>5, <1>7, <1>8, Zenon
<1>. QED
  BY <1>9 DEF unpadded, S

(* A stream, whose finish has nothing to refuse.                           *)
LEMMA StreamIsWhole ==
    ASSUME CipherInv, NEW p, NEW t, Ending(p, t), ~Buffers(mode, decrypt)
    PROVE  AllOutput' = Wanted'
<1>. DEFINE out == drained \o t.output
            std == Standard(mode, decrypt, given.iv, fed)
<1>1. /\ phase = "idle" /\ mode' = mode /\ decrypt' = decrypt
      /\ given' = given /\ fed' = fed /\ drained' = drained /\ LastCall(pad', t)
      /\ mode = "GCM" => FinishGcm(t, Len(s.input) % Block)
      /\ mode \notin Padded /\ mode # "GCM" => s' = t
  BY DEF Ending
<1>2. mode \notin Padded /\ (mode = "GCM" => ~decrypt)
  BY DEF Buffers
<1>3. t \in StateType /\ Follows(out, std, Len(fed))
  BY <1>1, StreamEnds
<1>4. std \in Seq(Byte) /\ Len(std) = Len(fed)
  BY <1>1, IdleFacts, StandardIs
<1>5. s'.output = t.output
  <2>1. CASE mode # "GCM"
    BY <1>1, <1>2, <2>1
  <2>2. CASE mode = "GCM"
    <3>. DEFINE lengths == Lengths[Len(given.aad), t.length]
    <3>1. FinishGcm(t, Len(s.input) % Block)
      BY <1>1, <2>2
    <3>2. s' = [t EXCEPT !.output = t.output, !.acc = ghash(t.acc, lengths)]
      BY <1>2, <2>2, <3>1, Zenon DEF FinishGcm
    <3>3. \A x : [t EXCEPT !.output = t.output, !.acc = x].output = t.output
      BY <1>3 DEF StateType
    <3>. QED
      BY <3>2, <3>3, Zenon
  <2>. QED
    BY <2>1, <2>2
<1>6. AllOutput' = out
  BY <1>1, <1>5 DEF AllOutput
<1>7. Wanted' = std
  BY <1>1, <1>2, Zenon DEF Wanted
<1>. HIDE DEF out, std
<1>8. out = std
  BY <1>3, <1>4, FollowsAll
<1>. QED
  BY <1>6, <1>7, <1>8

(* Whole blocks, of which finish takes nothing off.                        *)
LEMMA BlocksAreWhole ==
    ASSUME CipherInv, NEW p, NEW t, Ending(p, t), mode \in Padded, ~(decrypt /\ pad' = "mode")
    PROVE  AllOutput' = Wanted'
<1>. DEFINE out == drained \o t.output
            m == Message(pad')
            std == Standard(mode, decrypt, given.iv, m)
<1>1. /\ phase = "idle" /\ mode' = mode /\ decrypt' = decrypt
      /\ given' = given /\ fed' = fed /\ drained' = drained /\ LastCall(pad', t)
      /\ pad' \in {"mode", "none"}
      /\ FinishPadded(t, Len(s.input) % Block)
  BY DEF Ending
<1>2. Buffers(mode, decrypt)
  BY DEF Buffers
<1>3. m \in Seq(Byte)
  BY <1>1, MessageType
<1>4. Follows(out, std, Len(m))
  BY <1>1, <1>2, BuffersEnd DEF Ends
<1>5. std \in Seq(Byte) /\ Len(std) = Len(m)
  BY <1>1, <1>3, IdleFacts, StandardIs
<1>6. s' = t
  BY <1>1, Zenon DEF FinishPadded
<1>7. AllOutput' = out
  BY <1>1, <1>6 DEF AllOutput
<1>8. Wanted' = std
  <2>1. CASE pad' = "none"
    <3>1. m = Filled(fed)
      BY <2>1, Zenon DEF Message
    <3>. HIDE DEF m
    <3>. QED
      BY <1>1, <2>1, <3>1, Zenon DEF Wanted
  <2>2. CASE pad' # "none"
    <3>1. ~decrypt /\ m = WithPadding(fed)
      BY <1>1, <2>2, Zenon DEF Message
    <3>. HIDE DEF m
    <3>. QED
      BY <1>1, <2>2, <3>1, Zenon DEF Wanted
  <2>. QED
    BY <2>1, <2>2
<1>. HIDE DEF out, std, m
<1>9. out = std
  BY <1>4, <1>5, FollowsAll
<1>. QED
  BY <1>7, <1>8, <1>9

(* What is left in the input at the finish, and what fills it.             *)
LEMMA OverflowIs ==
    ASSUME CipherInv, phase = "idle"
    PROVE  /\ Len(s.input) \in Nat /\ Len(s.input) < Block
           /\ Len(s.input) % Block = Len(s.input) /\ Len(fed) % Block = Len(s.input)
           /\ s.input = <<>> <=> Len(s.input) = 0
           /\ Len(s.input) = 0 => Filled(fed) = fed /\ \E q \in Nat : Len(fed) = At(q)
           /\ Len(s.input) # 0 =>
                /\ Filled(fed) = fed \o Times(Block - Len(s.input), 0)
                /\ Times(Block - Len(s.input), 0) \in Seq(Byte)
<1>1. fed \in Seq(Byte) /\ s.input \in Seq(Byte)
  BY IdleFacts DEF StateType
<1>2. PICK q \in Nat :
        At(q) =< Len(fed) /\ Len(fed) < At(q) + Block /\ Len(s.input) = Len(fed) - At(q)
  BY IdleFacts
<1>3. At(q) \in Nat /\ At(q + 1) = At(q) + Block /\ Len(fed) % Block = Len(s.input)
  BY <1>1, <1>2, AtFacts, RestIs
<1>4. Len(s.input) \in Nat /\ Len(fed) \in Nat
  BY <1>1
<1>. DEFINE r == Len(s.input)
<1>5. r < Block
  BY <1>2, <1>3, <1>4, BlockIs
<1>6. r % Block = r
  <2>. HIDE DEF r
  <2>1. r = (0 * Block) + r /\ 0 \in Nat
    <3>1. 0 * Block = 0
      BY BlockIs
    <3>2. r \in Nat
      BY <1>4 DEF r
    <3>. QED
      BY <3>1, <3>2
  <2>2. ((0 * Block) + r) % Block = r
    BY <1>4, <1>5, BlockIs, QuotientIs DEF r
  <2>. QED
    BY <2>1, <2>2
<1>. DEFINE n == IF Len(fed) = At(q) THEN 0 ELSE At(q + 1) - Len(fed)
<1>7. Filled(fed) = fed \o Times(n, 0) /\ Times(n, 0) \in Seq(Byte)
  BY <1>1, <1>2, FilledIs
<1>8. n = IF r = 0 THEN 0 ELSE Block - r
  BY <1>2, <1>3, <1>4, BlockIs
<1>9. s.input = <<>> <=> r = 0
  BY <1>1
<1>10. ASSUME r = 0
       PROVE  Filled(fed) = fed /\ Len(fed) = At(q)
  <2>1. Times(0, 0) = <<>>
    BY DEF Times
  <2>. HIDE DEF n
  <2>2. fed \o Times(n, 0) = fed \o <<>>
    BY <1>8, <1>10, <2>1
  <2>. QED
    BY <1>1, <1>2, <1>3, <1>4, <1>7, <1>10, <2>2
<1>11. ASSUME r # 0
       PROVE  Filled(fed) = fed \o Times(Block - r, 0) /\ Times(Block - r, 0) \in Seq(Byte)
  <2>1. n = Block - r
    BY <1>8, <1>11
  <2>. HIDE DEF n, r
  <2>. QED
    BY <1>7, <2>1
<1>. QED
  BY <1>3, <1>4, <1>5, <1>6, <1>9, <1>10, <1>11

(* Whole blocks with padding, of which finish takes it off if it is right. *)
LEMMA UnpaddedIsWhole ==
    ASSUME CipherInv, NEW p, NEW t, Ending(p, t), mode \in Padded, decrypt, pad' = "mode"
    PROVE  LET m == Standard(mode, TRUE, given.iv, fed)
           IN  /\ result' <=> Len(fed) % Block = 0 /\ IsPadded(m) /\ Len(drained) < Len(m)
               /\ result' => AllOutput' = Wanted'
<1>. DEFINE o == t.output
            out == drained \o o
            m == Standard(mode, TRUE, given.iv, fed)
            ok == Len(s.input) % Block = 0 /\ ValidPadding(o)
<1>1. /\ phase = "idle" /\ mode' = mode /\ decrypt' = decrypt
      /\ given' = given /\ fed' = fed /\ drained' = drained /\ LastCall(pad', t)
      /\ pad' \in {"mode", "none"}
      /\ FinishPadded(t, Len(s.input) % Block)
  BY DEF Ending
<1>2. Buffers(mode, decrypt)
  BY DEF Buffers
<1>3. Message(pad') = Filled(fed) /\ decrypt = TRUE
  BY <1>1, IdleFacts DEF Message
<1>4. /\ t \in StateType
      /\ Follows(out, Standard(mode, decrypt, given.iv, Filled(fed)), Len(Filled(fed)))
  <2>1. Ends(mode, decrypt, given.iv, Message(pad'), drained, t)
    BY <1>1, <1>2, BuffersEnd
  <2>. QED
    BY <1>3, <2>1 DEF Ends
<1>5. /\ given.iv \in Blocks /\ fed \in Seq(Byte) /\ drained \in Seq(Byte)
      /\ o \in Seq(Byte)
  BY <1>1, <1>4, IdleFacts DEF StateType
<1>6. m \in Seq(Byte) /\ Len(m) = Len(fed)
  BY <1>5, StandardIs
<1>7. result' = ok /\ s' = IF ok THEN [t EXCEPT !.output = Truncate(o, o[Len(o)])] ELSE t
  BY <1>1, <1>3, Zenon DEF FinishPadded
<1>8. CASE Len(s.input) # 0
  <2>1. ~ok /\ Len(fed) % Block # 0
    BY <1>1, <1>8, OverflowIs
  <2>. HIDE DEF ok, m
  <2>. QED
    BY <1>7, <2>1 DEF m
<1>9. CASE Len(s.input) = 0
  <2>1. Len(s.input) % Block = 0 /\ Len(fed) % Block = 0 /\ Filled(fed) = fed
    BY <1>1, <1>9, OverflowIs
  <2>2. PICK q \in Nat : Len(fed) = At(q)
    BY <1>1, <1>9, OverflowIs
  <2>3. Follows(out, m, Len(m))
    BY <1>3, <1>4, <1>6, <2>1
  <2>. HIDE DEF m
  <2>4. out = m
    BY <1>6, <2>3, FollowsAll
  <2>5. PICK k \in Nat : Len(drained) = At(k)
    BY <1>2 DEF CipherInv, ReadInBlocks
  <2>6. Len(out) = At(q)
    BY <1>6, <2>2, <2>4
  <2>7. /\ ValidPadding(o) <=> IsPadded(out) /\ Len(drained) < Len(out)
        /\ ValidPadding(o) =>
            o[Len(o)] \in 1 .. Block /\ o[Len(o)] \in 0 .. Len(o) /\ EndsWith(out, o[Len(o)])
    BY <1>5, <2>5, <2>6, PaddingIs
  <2>8. result' <=> Len(fed) % Block = 0 /\ IsPadded(m) /\ Len(drained) < Len(m)
    BY <1>7, <2>1, <2>4, <2>7
  <2>9. ASSUME result'
        PROVE  AllOutput' = Wanted'
    <3>. DEFINE n == o[Len(o)]
    <3>1. ok /\ ValidPadding(o)
      BY <1>7, <2>9
    <3>2. n \in 1 .. Block /\ n \in 0 .. Len(o) /\ EndsWith(m, n)
      BY <2>4, <2>7, <3>1
    <3>3. s' = [t EXCEPT !.output = Truncate(o, n)]
      BY <1>7, <3>1
    <3>4. s'.output = Truncate(o, n)
      <4>1. \A x : [t EXCEPT !.output = x].output = x
        BY <1>4 DEF StateType
      <4>. HIDE DEF o, n
      <4>. QED
        BY <3>3, <4>1
    <3>5. AllOutput' = drained \o Truncate(o, n)
      BY <1>1, <3>4 DEF AllOutput
    <3>. HIDE DEF n, o
    <3>6. drained \o Truncate(o, n) = Take(m, Len(m) - n)
      <4>1. drained \o Truncate(o, n) = Take(drained \o o, Len(drained \o o) - n)
        BY <1>5, <3>2, TakenOff
      <4>. QED
        BY <2>4, <4>1
    <3>7. Wanted' = CHOOSE x \in {Take(m, j) : j \in 0 .. Len(m)} : WithPadding(x) = m
      <4>1. pad' # "none" /\ decrypt' /\ decrypt' = TRUE
        BY <1>1, <1>3
      <4>2. Standard(mode, decrypt, given.iv, fed) = m
        BY <1>3 DEF m
      <4>. QED
        BY <1>1, <4>1, <4>2, Zenon DEF Wanted
    <3>8. Block \in Byte
      <4>1. mode \in Modes
        BY DEF CipherInv, TypeInvariant
      <4>. QED
        BY <4>1, BlockCipherAssumption
    <3>9. Len(m) = At(q)
      BY <1>6, <2>2
    <3>10. (CHOOSE x \in {Take(m, j) : j \in 0 .. Len(m)} : WithPadding(x) = m) = Take(m, Len(m) - n)
      BY <1>6, <3>2, <3>8, <3>9, UnpaddedIs
    <3>. QED
      BY <3>5, <3>6, <3>7, <3>10, Zenon
  <2>. QED
    BY <2>8, <2>9 DEF m
<1>. QED
  BY <1>1, <1>8, <1>9, OverflowIs

GoesOn(md, dec, iv, a, b) ==
    \A i \in 1 .. Len(a) : Standard(md, dec, iv, a \o b)[i] = Standard(md, dec, iv, a)[i]

LEMMA StandardOfMore ==
    ASSUME NEW md, md \notin Padded, NEW dec, NEW iv \in Blocks, NEW a \in Seq(Byte),
           NEW b \in Seq(Byte)
    PROVE  GoesOn(md, dec, iv, a, b)
<1>1. Len(a) \in 0 .. Len(a)
  OBVIOUS
<1>. QED
  BY <1>1, StandardGoesOn DEF GoesOn

(* GCM's deciphering, of whose last block finish takes the zeros off, and  *)
(* of a message with another tag everything.                               *)
LEMMA OpenedIsWhole ==
    ASSUME TagsFit, CipherInv, NEW p, NEW t, Ending(p, t), mode = "GCM", decrypt
    PROVE  /\ result' <=>
                given.tag = Take(StandardTag(given.iv, given.aad, fed), given.tagLength)
           /\ ~result' => s'.output = <<>>
           /\ result' => AllOutput' = Wanted'
<1>. DEFINE o == t.output
            out == drained \o o
            m == Filled(fed)
            std == Standard(mode, decrypt, given.iv, fed)
            r == Len(s.input)
            lengths == Lengths[Len(given.aad), t.length]
            ok == TagOf(t, lengths) = given.tag
            cut == IF r % Block # 0 THEN Truncate(o, Block - (r % Block)) ELSE o
<1>1. /\ phase = "idle" /\ mode' = mode /\ decrypt' = decrypt
      /\ given' = given /\ fed' = fed /\ drained' = drained /\ LastCall(pad', t)
      /\ pad' \in {"mode", "none"}
      /\ FinishGcm(t, r % Block)
  BY DEF Ending
<1>2. Buffers(mode, decrypt) /\ mode \notin Padded
  BY DEF Buffers, Padded
<1>3. Message(pad') = m
  BY <1>2 DEF Message
<1>4. /\ t \in StateType
      /\ Follows(out, Standard(mode, decrypt, given.iv, m), Len(m))
      /\ Len(o) = Len(s.output) + (IF s.input = <<>> THEN 0 ELSE Block)
      /\ t.acc = HashOf(HashOf(Zeros, given.aad), fed) /\ t.length = Len(fed)
  <2>1. /\ Ends(mode, decrypt, given.iv, Message(pad'), drained, t)
        /\ Len(t.output) = Len(s.output) +
             (IF s.input = <<>> /\ (decrypt \/ pad' = "none") THEN 0 ELSE Block)
        /\ mode = "GCM" => t.acc = HashOf(HashOf(Zeros, given.aad), fed) /\ t.length = Len(fed)
    BY <1>1, <1>2, BuffersEnd
  <2>. QED
    BY <1>3, <2>1 DEF Ends
<1>5. /\ given.iv \in Blocks /\ fed \in Seq(Byte) /\ drained \in Seq(Byte)
      /\ o \in Seq(Byte) /\ s.output \in Seq(Byte)
  BY <1>1, <1>4, IdleFacts DEF StateType
<1>6. std \in Seq(Byte) /\ Len(std) = Len(fed)
  BY <1>5, StandardIs
<1>7. /\ result' = (decrypt => ok)
      /\ s' = [t EXCEPT !.output = IF decrypt => ok
                                   THEN IF decrypt /\ r % Block # 0
                                        THEN Truncate(o, Block - (r % Block)) ELSE o
                                   ELSE <<>>,
                        !.acc = ghash(t.acc, lengths)]
  BY <1>1, Zenon DEF FinishGcm
<1>8. s'.output = IF ok THEN cut ELSE <<>>
  <2>1. \A x, y : [t EXCEPT !.output = x, !.acc = y].output = x
    BY <1>4 DEF StateType
  <2>. HIDE DEF ok, o, r, lengths
  <2>. QED
    BY <1>7, <2>1
<1>9. result' <=> ok
  <2>. HIDE DEF ok
  <2>. QED
    BY <1>7
<1>10. ok <=> given.tag = Take(StandardTag(given.iv, given.aad, fed), given.tagLength)
  <2>1. given.tagLength \in TagLengths
    BY <1>1 DEF CipherInv, TypeInvariant
  <2>2. TagOf(t, Lengths[Len(given.aad), t.length])
             = Take(StandardTag(given.iv, given.aad, fed), given.tagLength)
    BY <1>4, <2>1, TagOfIs
  <2>. QED
    BY <2>2, Zenon
<1>11. AllOutput' = drained \o s'.output
  BY <1>1 DEF AllOutput
<1>12. Wanted' = std
  BY <1>1, <1>2, Zenon DEF Wanted
<1>. HIDE DEF ok, lengths
<1>13. drained \o cut = std
  <2>1. CASE r = 0
    <3>1. cut = o /\ m = fed
      BY <1>1, <2>1, OverflowIs
    <3>2. Follows(out, std, Len(std))
      BY <1>4, <1>6, <3>1
    <3>. HIDE DEF std, out, cut
    <3>3. out = std
      BY <1>6, <3>2, FollowsAll
    <3>. QED
      BY <3>1, <3>3 DEF out
  <2>2. CASE r # 0
    <3>. DEFINE n == Block - r
                zeros == Times(n, 0)
                x == Take(out, Len(out) - n)
    <3>1. r \in Nat /\ r < Block /\ r % Block = r /\ s.input # <<>>
      BY <1>1, <2>2, OverflowIs
    <3>2. m = fed \o zeros /\ zeros \in Seq(Byte)
      BY <1>1, <2>2, OverflowIs
    <3>3. n \in Nat /\ n =< Block
      BY <3>1, BlockIs
    <3>4. cut = Truncate(o, n)
      BY <2>2, <3>1
    <3>. HIDE DEF n
    <3>5. Len(zeros) = n
      <4>1. 0 \in Byte
        BY DEF Byte
      <4>. QED
        BY <3>3, <4>1, TimesIs
    <3>. HIDE DEF zeros, cut, r
    <3>6. Len(o) \in Nat /\ Len(o) >= Block
      BY <1>4, <1>5, <3>1, BlockIs
    <3>7. n \in 0 .. Len(o)
      BY <3>3, <3>6, BlockIs
    <3>8. drained \o cut = x
      <4>. HIDE DEF o
      <4>. QED
        BY <1>5, <3>4, <3>7, TakenOff DEF out
    <3>9. Len(m) = Len(fed) + n /\ Len(fed) \in Nat
      <4>1. Len(fed \o zeros) = Len(fed) + Len(zeros)
        BY <1>5, <3>2, ConcatIs
      <4>2. Len(fed) \in Nat
        BY <1>5
      <4>. HIDE DEF m
      <4>. QED
        BY <3>2, <3>5, <4>1, <4>2
    <3>10. /\ out \in Seq(Byte) /\ Len(out) = Len(m)
           /\ \A i \in 1 .. Len(m) : out[i] = Standard(mode, decrypt, given.iv, m)[i]
      BY <1>4 DEF Follows
    <3>11. \A i \in 1 .. Len(fed) : Standard(mode, decrypt, given.iv, m)[i] = std[i]
      <4>1. GoesOn(mode, decrypt, given.iv, fed, zeros)
        <5>1. mode \notin Padded
          BY <1>2
        <5>2. given.iv \in Blocks
          BY <1>5
        <5>3. fed \in Seq(Byte)
          BY <1>5
        <5>4. zeros \in Seq(Byte)
          BY <3>2
        <5>. QED
          BY <5>1, <5>2, <5>3, <5>4, StandardOfMore, Zenon
      <4>. HIDE DEF m
      <4>. QED
        BY <3>2, <4>1 DEF GoesOn
    <3>. HIDE DEF m, out, std
    <3>12. /\ x \in Seq(Byte) /\ Len(x) = Len(fed)
           /\ \A i \in 1 .. Len(fed) : x[i] = out[i]
      <4>1. Len(out) - n = Len(fed) /\ Len(fed) \in 0 .. Len(out)
        BY <3>3, <3>9, <3>10
      <4>. QED
        BY <3>10, <4>1, TakeIs
    <3>. HIDE DEF x
    <3>13. \A i \in 1 .. Len(fed) : x[i] = std[i]
      <4>. TAKE i \in 1 .. Len(fed)
      <4>1. i \in 1 .. Len(m)
        BY <3>3, <3>9
      <4>. QED
        BY <3>10, <3>11, <3>12, <4>1
    <3>14. x = std
      BY <1>6, <3>12, <3>13, SeqEqual
    <3>. QED
      BY <3>8, <3>14
  <2>. QED
    BY <2>1, <2>2
<1>. HIDE DEF cut, std
<1>14. ok => AllOutput' = Wanted'
  BY <1>8, <1>11, <1>12, <1>13
<1>15. ~ok => s'.output = <<>>
  BY <1>8
<1>. QED
  BY <1>9, <1>10, <1>14, <1>15

LEMMA FinishFollows ==
    ASSUME TagsFit, CipherInv, [Next]_vars, FinishIsWhole
    PROVE  FinishIsWhole'
<1>1. CASE UNCHANGED vars
  BY <1>1 DEF vars, FinishIsWhole, AllOutput, Wanted
<1>2. CASE ~UNCHANGED vars /\ phase' = "done"
  <2>1. PICK p \in Pads : Finish(p)
    BY <1>2, OnlyFinishEnds
  <2>2. PICK t : Ending(p, t)
    BY <2>1, FinishEnds
  <2>3. /\ mode' = mode /\ decrypt' = decrypt
        /\ given' = given /\ fed' = fed /\ drained' = drained
    BY <2>2 DEF Ending
  <2>4. ASSUME decrypt', mode' \in Padded, pad' = "mode"
        PROVE  LET m == Standard(mode', TRUE, given.iv', fed')
               IN  result' <=> Len(fed') % Block = 0 /\ IsPadded(m) /\ Len(drained') < Len(m)
    BY <2>2, <2>3, <2>4, UnpaddedIsWhole, Zenon
  <2>5. ASSUME decrypt', mode' = "GCM"
        PROVE  /\ result' <=> given'.tag =
                    Take(StandardTag(given'.iv, given'.aad, fed'), given'.tagLength)
               /\ ~result' => s'.output = <<>>
    BY <2>2, <2>3, <2>5, OpenedIsWhole, Zenon
  <2>6. result' => AllOutput' = Wanted'
    <3>1. CASE ~Buffers(mode, decrypt)
      BY <2>2, <3>1, StreamIsWhole, Zenon
    <3>2. CASE mode \in Padded /\ ~(decrypt /\ pad' = "mode")
      BY <2>2, <3>2, BlocksAreWhole, Zenon
    <3>3. CASE mode \in Padded /\ decrypt /\ pad' = "mode"
      BY <2>2, <3>3, UnpaddedIsWhole, Zenon
    <3>4. CASE mode = "GCM" /\ decrypt
      BY <2>2, <3>4, OpenedIsWhole, Zenon
    <3>. QED
      BY <3>1, <3>2, <3>3, <3>4 DEF Buffers
  <2>. QED
    BY <2>4, <2>5, <2>6, Zenon DEF FinishIsWhole
<1>3. CASE phase' # "done"
  BY <1>3, Zenon DEF FinishIsWhole
<1>. QED
  BY <1>1, <1>2, <1>3

(* finish refuses what is not whole blocks, what is not padded or was      *)
(* taken out before, and what has not the standard's tag; a message with a *)
(* wrong tag gives nothing more; and what is accepted is put out whole and *)
(* without its padding, however it came.  Tags are to be longer than half  *)
(* a block, and no longer than a block.                                    *)
THEOREM FinishesAreWhole ==
    ASSUME TagsFit
    PROVE  Spec => []FinishIsWhole
<1>1. Init => FinishIsWhole
  BY DEF Init, ObjectStart, FinishIsWhole
<1>2. CipherInv /\ FinishIsWhole /\ [Next]_vars => FinishIsWhole'
  BY FinishFollows
<1>. QED
  BY <1>1, <1>2, CipherInvariant, PTL DEF Spec
-----------------------------------------------------------------------------
(* What is encrypted is decrypted                                          *)

(* An exclusive or undoes itself.                                          *)
LEMMA XorUndone ==
    /\ \A x, y \in Byte : XorByte(XorByte(x, y), y) = x
    /\ \A a, b \in Blocks : (a ^^ b) ^^ b = a
<1>1. ASSUME NEW x \in Byte, NEW y \in Byte
      PROVE  XorByte(XorByte(x, y), y) = x
  <2>1. x \in {0, 1, 2, 3} /\ y \in {0, 1, 2, 3}
    BY DEF Byte
  <2>. QED
    BY <2>1 DEF XorByte
<1>2. ASSUME NEW a \in Blocks, NEW b \in Blocks
      PROVE  (a ^^ b) ^^ b = a
  <2>1. a ^^ b \in Blocks /\ (a ^^ b) ^^ b \in Blocks
    BY XorType
  <2>2. ASSUME NEW j \in 1 .. Block
        PROVE  ((a ^^ b) ^^ b)[j] = a[j]
    <3>1. a[j] \in Byte /\ b[j] \in Byte
      BY DEF Blocks
    <3>2. (a ^^ b)[j] = XorByte(a[j], b[j]) /\ ((a ^^ b) ^^ b)[j] = XorByte((a ^^ b)[j], b[j])
      BY DEF ^^
    <3>. QED
      BY <1>1, <3>1, <3>2
  <2>. QED
    BY <2>1, <2>2, BlocksEqual
<1>. QED
  BY <1>1, <1>2

(* Block by block, deciphering undoes ciphering with the same key, and     *)
(* goes forward to the same key.                                           *)
LEMMA ImageUndone ==
    ASSUME NEW md \in Streams \cup Padded, NEW key \in Blocks, NEW in \in Blocks
    PROVE  LET out == Image(md, FALSE, key, in)
           IN  /\ out \in Blocks
               /\ Image(md, TRUE, key, out) = in
               /\ Forward(md, TRUE, key, out) = Forward(md, FALSE, key, in)
<1>1. Cipher[key] \in Blocks /\ in ^^ key \in Blocks /\ Cipher[in] \in Blocks /\ in ^^ Cipher[key] \in Blocks
  BY XorType, CipherType
<1>2. \A b \in Blocks : Decipher[Cipher[b]] = b
  BY CipherAssumption
<1>3. (in ^^ key) ^^ key = in /\ (in ^^ Cipher[key]) ^^ Cipher[key] = in
  BY <1>1, XorUndone
<1>4. Image(md, FALSE, key, in) \in Blocks
  BY ImageType
<1>5. CASE md = "ECB"
  BY <1>1, <1>2, <1>4, <1>5 DEF Image, Forward
<1>6. CASE md = "CBC"
  BY <1>1, <1>2, <1>3, <1>4, <1>6 DEF Image, Forward, Link
<1>7. CASE md \in {"CTR", "GCM"}
  BY <1>1, <1>3, <1>4, <1>7 DEF Image, Forward
<1>8. CASE md = "CFB"
  BY <1>1, <1>3, <1>4, <1>8 DEF Image, Forward, Link
<1>9. CASE md = "OFB"
  BY <1>1, <1>3, <1>4, <1>9 DEF Image, Forward, Link
<1>. QED
  BY <1>5, <1>6, <1>7, <1>8, <1>9 DEF Streams, Padded

(* What two directions of a mode need to undo each other.                  *)
Undoes(md, enc, dec) ==
    \A key \in Blocks, in \in Blocks :
        /\ Image(md, dec, key, Image(md, enc, key, in)) = in
        /\ Forward(md, dec, key, Image(md, enc, key, in)) = Forward(md, enc, key, in)
        /\ md \in Streams =>
             \A c \in Blocks, j \in 1 .. Block :
                c[j] = Image(md, enc, key, in)[j] => Image(md, dec, key, c)[j] = in[j]

LEMMA ModesUndo ==
    ASSUME NEW md \in Streams \cup Padded
    PROVE  Undoes(md, FALSE, TRUE)
<1>1. ASSUME NEW key \in Blocks, NEW in \in Blocks
      PROVE  /\ Image(md, TRUE, key, Image(md, FALSE, key, in)) = in
             /\ Forward(md, TRUE, key, Image(md, FALSE, key, in)) = Forward(md, FALSE, key, in)
  BY ImageUndone
<1>2. ASSUME NEW key \in Blocks, NEW in \in Blocks, md \in Streams, NEW c \in Blocks,
             NEW j \in 1 .. Block, c[j] = Image(md, FALSE, key, in)[j]
      PROVE  Image(md, TRUE, key, c)[j] = in[j]
  <2>1. Cipher[key] \in Blocks
    BY CipherType
  <2>2. Image(md, TRUE, key, c) = c ^^ Cipher[key] /\ Image(md, FALSE, key, in) = in ^^ Cipher[key]
    BY <1>2 DEF Image, Streams
  <2>3. in[j] \in Byte /\ Cipher[key][j] \in Byte
    BY <2>1 DEF Blocks
  <2>4. c[j] = XorByte(in[j], Cipher[key][j]) /\ (c ^^ Cipher[key])[j] = XorByte(c[j], Cipher[key][j])
    BY <1>2, <2>2 DEF ^^
  <2>. QED
    BY <2>2, <2>3, <2>4, XorUndone
<1>. QED
  BY <1>1, <1>2, Zenon DEF Undoes

LEMMA KeyIs ==
    ASSUME NEW md, NEW dec, NEW iv \in Blocks, NEW m \in Seq(Byte), NEW k \in Nat,
           At(k) =< Len(m)
    PROVE  /\ Key(md, dec, iv, m, k) \in Blocks
           /\ Key(md, dec, iv, m, 0) = IF md = "GCM" THEN inc32(iv) ELSE iv
<1>. DEFINE e == <<>>
            first == IF md = "GCM" THEN inc32(iv) ELSE iv
<1>1. e \in Seq(Byte)
  OBVIOUS
<1>. HIDE DEF e
<1>2. Key(md, dec, iv, m, k) \in Blocks /\ Key(md, dec, iv, m \o e, k) = Key(md, dec, iv, m, k)
  BY <1>1, KeyGoesOn
<1>3. Key(md, dec, iv, m \o e, k) = Key(md, dec, iv, m, k) /\ Key(md, dec, iv, m, 0) = first
  BY <1>1, KeyGoesOn
<1>. QED
  BY <1>2, <1>3

(* Both directions make each block with the same key.                      *)
LEMMA SameKeys ==
    ASSUME NEW md \in Streams \cup Padded, NEW enc, NEW dec, Undoes(md, enc, dec),
           NEW iv \in Blocks, NEW m \in Seq(Byte)
    PROVE  LET c == Standard(md, enc, iv, m)
           IN  \A k \in Nat : At(k) =< Len(m) =>
                    /\ Key(md, enc, iv, m, k) \in Blocks
                    /\ Key(md, dec, iv, c, k) = Key(md, enc, iv, m, k)
<1>. DEFINE c == Standard(md, enc, iv, m)
            S == {k \in Nat : At(k) =< Len(m) => Key(md, dec, iv, c, k) = Key(md, enc, iv, m, k)}
<1>1. c \in Seq(Byte) /\ Len(c) = Len(m) /\ Len(m) \in Nat
  BY StandardIs
<1>2. \A k \in Nat, j \in 1 .. Block : At(k) + j =< Len(m) =>
            c[At(k) + j] = Image(md, enc, Key(md, enc, iv, m, k), Nth(m, k + 1))[j]
  BY StandardIs
<1>. HIDE DEF c
<1>3. ASSUME NEW k \in Nat, At(k) =< Len(m)
      PROVE  /\ Key(md, enc, iv, m, k) \in Blocks
             /\ Key(md, enc, iv, m, 0) = IF md = "GCM" THEN inc32(iv) ELSE iv
             /\ Key(md, dec, iv, c, 0) = IF md = "GCM" THEN inc32(iv) ELSE iv
  <2>1. /\ Key(md, enc, iv, m, k) \in Blocks
        /\ Key(md, enc, iv, m, 0) = IF md = "GCM" THEN inc32(iv) ELSE iv
    BY <1>3, KeyIs
  <2>2. Key(md, dec, iv, c, 0) = IF md = "GCM" THEN inc32(iv) ELSE iv
    <3>1. At(k) =< Len(c)
      BY <1>1, <1>3
    <3>. QED
      BY <1>1, <3>1, KeyIs
  <2>. QED
    BY <2>1, <2>2
<1>4. 0 \in S
  <2>1. At(0) =< Len(m) /\ 0 \in Nat
    BY <1>1, AtFacts
  <2>. QED
    BY <1>3, <2>1
<1>5. ASSUME NEW k \in Nat, k \in S
      PROVE  k + 1 \in S
  <2>. SUFFICES ASSUME At(k + 1) =< Len(m)
                PROVE  Key(md, dec, iv, c, k + 1) = Key(md, enc, iv, m, k + 1)
    OBVIOUS
  <2>1. At(k) \in Nat /\ At(k) + Block =< Len(m) /\ At(k) < Len(m) /\ At(k) =< Len(m)
    <3>1. At(k) \in Nat /\ At(k + 1) = At(k) + Block
      BY AtFacts
    <3>. QED
      BY <1>1, <3>1, BlockIs
  <2>. DEFINE key == Key(md, enc, iv, m, k)
              in == Nth(m, k + 1)
              out == Nth(c, k + 1)
  <2>2. key \in Blocks /\ Key(md, dec, iv, c, k) = key
    BY <1>3, <1>5, <2>1
  <2>3. in \in Blocks /\ out \in Blocks
    BY <1>1, <2>1, NthIs
  <2>4. \A j \in 1 .. Block : At(k) + j =< Len(m)
    BY <2>1, BlockIs
  <2>5. \A j \in 1 .. Block : out[j] = c[At(k) + j]
    BY <1>1, <2>1, <2>4, NthIs
  <2>6. \A j \in 1 .. Block : c[At(k) + j] = Image(md, enc, key, in)[j]
    BY <1>2, <2>4
  <2>7. Image(md, enc, key, in) \in Blocks
    BY <2>2, <2>3, ImageType
  <2>8. out = Image(md, enc, key, in)
    <3>. HIDE DEF out, key, in
    <3>. QED
      BY <2>3, <2>5, <2>6, <2>7, BlocksEqual
  <2>9. /\ Key(md, dec, iv, c, k + 1) = Forward(md, dec, Key(md, dec, iv, c, k), out)
        /\ Key(md, enc, iv, m, k + 1) = Forward(md, enc, key, in)
    BY <1>1, <2>1, KeyNext
  <2>10. Forward(md, dec, key, out) = Forward(md, enc, key, in)
    <3>. HIDE DEF out, key, in
    <3>. QED
      BY <2>2, <2>3, <2>8, ImageType DEF Undoes
  <2>. QED
    BY <2>2, <2>9, <2>10
<1>6. Nat \subseteq S
  <2>. HIDE DEF S
  <2>. QED
    BY <1>4, <1>5, Induction
<1>. QED
  BY <1>3, <1>6 DEF c

(* Two such directions, over a message.                                    *)
LEMMA WholeUndone ==
    ASSUME NEW md \in Streams \cup Padded, NEW enc, NEW dec, Undoes(md, enc, dec),
           NEW iv \in Blocks, NEW m \in Seq(Byte),
           md \in Padded => Len(m) % Block = 0
    PROVE  Standard(md, dec, iv, Standard(md, enc, iv, m)) = m
<1>. DEFINE c == Standard(md, enc, iv, m)
            d == Standard(md, dec, iv, c)
            KeyAt(k) == Key(md, enc, iv, m, k)
<1>1. c \in Seq(Byte) /\ Len(c) = Len(m) /\ Len(m) \in Nat
  BY StandardIs
<1>2. \A k \in Nat, j \in 1 .. Block : At(k) + j =< Len(m) =>
            c[At(k) + j] = Image(md, enc, KeyAt(k), Nth(m, k + 1))[j]
  BY StandardIs
<1>3. \A k \in Nat : At(k) =< Len(m) => KeyAt(k) \in Blocks /\ Key(md, dec, iv, c, k) = KeyAt(k)
  BY SameKeys
<1>. HIDE DEF c
<1>4. d \in Seq(Byte) /\ Len(d) = Len(m)
  BY <1>1, StandardIs
<1>5. \A k \in Nat, j \in 1 .. Block : At(k) + j =< Len(m) =>
            d[At(k) + j] = Image(md, dec, Key(md, dec, iv, c, k), Nth(c, k + 1))[j]
  BY <1>1, StandardIs
<1>. HIDE DEF d, KeyAt
<1>6. PICK q \in Nat : At(q) =< Len(m) /\ Len(m) < At(q) + Block
  BY RestOf
<1>7. md \in Padded => Len(m) = At(q)
  BY <1>1, <1>6, RestIs, AtFacts
<1>8. ASSUME NEW i \in 1 .. Len(m)
      PROVE  d[i] = m[i]
  <2>1. PICK k \in Nat, j \in 1 .. Block : i = At(k) + j
    <3>1. i \in Nat \ {0}
      BY <1>1
    <3>. QED
      BY <3>1, PlaceOf
  <2>. DEFINE key == KeyAt(k)
              in == Nth(m, k + 1)
              out == Nth(c, k + 1)
  <2>2. At(k) \in Nat /\ At(k) + j =< Len(m) /\ At(k) =< Len(m)
    <3>1. At(k) \in Nat
      BY AtFacts
    <3>2. j \in Nat /\ i \in Nat /\ i =< Len(m)
      BY <1>1, BlockIs
    <3>. QED
      BY <1>1, <2>1, <3>1, <3>2
  <2>3. key \in Blocks /\ Key(md, dec, iv, c, k) = key
    BY <1>3, <2>2
  <2>4. /\ in \in Blocks /\ in[j] = m[i]
        /\ out \in Blocks /\ \A l \in 1 .. Block : At(k) + l =< Len(m) => out[l] = c[At(k) + l]
    BY <1>1, <2>1, <2>2, NthIs
  <2>5. \A l \in 1 .. Block : At(k) + l =< Len(m) => out[l] = Image(md, enc, key, in)[l]
    BY <1>2, <2>4
  <2>6. d[i] = Image(md, dec, key, out)[j]
    BY <1>5, <2>1, <2>2, <2>3
  <2>. HIDE DEF key, in, out
  <2>7. CASE md \in Streams
    <3>1. out[j] = Image(md, enc, key, in)[j]
      BY <2>2, <2>5
    <3>. QED
      BY <2>3, <2>4, <2>6, <2>7, <3>1, ImageType DEF Undoes
  <2>8. CASE md \in Padded
    <3>1. k < q
      <4>1. q =< k => At(q) =< At(k)
        BY AtFacts
      <4>2. At(k) < At(q) /\ At(q) \in Nat
        <5>1. j \in Nat /\ 1 =< j
          BY BlockIs
        <5>. QED
          BY <1>1, <1>7, <2>2, <2>8, <5>1
      <4>. QED
        BY <2>2, <4>1, <4>2
    <3>2. \A l \in 1 .. Block : At(k) + l =< Len(m)
      <4>1. At(k) + Block =< At(q)
        BY <3>1, AtFacts
      <4>. QED
        BY <1>1, <1>7, <2>2, <2>8, <4>1, BlockIs
    <3>3. Image(md, enc, key, in) \in Blocks
      BY <2>3, <2>4, ImageType
    <3>4. out = Image(md, enc, key, in)
      BY <2>4, <2>5, <3>2, <3>3, BlocksEqual
    <3>5. Image(md, dec, key, out) = in
      BY <2>3, <2>4, <3>4 DEF Undoes
    <3>. QED
      BY <2>4, <2>6, <3>5
  <2>. QED
    BY <2>7, <2>8
<1>9. d = m
  BY <1>1, <1>4, <1>8, SeqEqual
<1>. QED
  BY <1>9 DEF d, c

(* For any cipher with its decipher, every mode of the standards decrypts  *)
(* what it encrypted: any message with a stream, whole blocks with the     *)
(* others.                                                                 *)
THEOREM StandardUndone ==
    ASSUME NEW md \in Streams \cup Padded, NEW iv \in Blocks, NEW m \in Seq(Byte),
           md \in Padded => Len(m) % Block = 0
    PROVE  Standard(md, TRUE, iv, Standard(md, FALSE, iv, m)) = m
<1>. DEFINE enc == FALSE
            dec == TRUE
<1>1. Undoes(md, enc, dec)
  BY ModesUndo
<1>. HIDE DEF enc, dec
<1>2. Standard(md, dec, iv, Standard(md, enc, iv, m)) = m
  BY <1>1, WholeUndone
<1>. QED
  BY <1>2 DEF enc, dec

(* What encrypting a message gives, with the padding of this object.       *)
Prepared(m) ==
    CASE mode \notin Padded -> m
      [] mode \in Padded /\ pad = "none" -> Filled(m)
      [] OTHER -> WithPadding(m)
Encrypted(m) == Standard(mode, FALSE, given.iv, Prepared(m))

(* Only a tag and a padding are ever found wrong.                          *)
OnlyChecksFail ==
    phase = "done" =>
        result \/ (decrypt /\ (mode = "GCM" \/ (mode \in Padded /\ pad = "mode")))

(* What comes of encrypting fed is Encrypted(fed).  A decipher of the same *)
(* mode, vector and padding that was fed Encrypted(m), with the tag of it  *)
(* if it is GCM, and of which the last block was not taken out before,     *)
(* accepts it and gives m, or with no padding of its own m with zeros to   *)
(* the end of its last block.                                              *)
SentComesBack ==
    phase = "done" =>
        /\ ~decrypt => result /\ AllOutput = Encrypted(fed)
        /\ decrypt =>
             \A m \in Seq(Byte) :
                /\ fed = Encrypted(m)
                /\ mode = "GCM" =>
                     given.tag = Take(StandardTag(given.iv, given.aad, fed), given.tagLength)
                /\ mode \in Padded /\ pad = "mode" => Len(drained) < Len(fed)
                => /\ result
                   /\ AllOutput = IF mode \in Padded /\ pad = "none" THEN Filled(m) ELSE m

LEMMA OnlyChecksFailFollows ==
    ASSUME CipherInv, [Next]_vars, OnlyChecksFail
    PROVE  OnlyChecksFail'
<1>1. CASE UNCHANGED vars
  BY <1>1 DEF vars, OnlyChecksFail
<1>2. CASE ~UNCHANGED vars /\ phase' = "done"
  <2>1. PICK p \in Pads : Finish(p)
    BY <1>2, OnlyFinishEnds
  <2>2. PICK t : Ending(p, t)
    BY <2>1, FinishEnds
  <2>3. /\ mode' = mode /\ decrypt' = decrypt
        /\ mode = "GCM" => FinishGcm(t, Len(s.input) % Block)
        /\ mode \in Padded => FinishPadded(t, Len(s.input) % Block)
        /\ mode \notin Padded /\ mode # "GCM" => result' = TRUE
    BY <2>2 DEF Ending
  <2>4. ASSUME mode = "GCM", ~decrypt
        PROVE  result'
    BY <2>3, <2>4, Zenon DEF FinishGcm
  <2>5. ASSUME mode \in Padded, ~(decrypt /\ pad' = "mode")
        PROVE  result'
    BY <2>3, <2>5, Zenon DEF FinishPadded
  <2>. QED
    BY <2>3, <2>4, <2>5, Zenon DEF OnlyChecksFail
<1>3. CASE phase' # "done"
  BY <1>3, Zenon DEF OnlyChecksFail
<1>. QED
  BY <1>1, <1>2, <1>3

(* The message to encrypt is one, of whole blocks for a mode that takes    *)
(* them, and what is padded can be told from its padding.                  *)
LEMMA PreparedIs ==
    ASSUME CipherInv, NEW m \in Seq(Byte)
    PROVE  /\ Prepared(m) \in Seq(Byte)
           /\ mode \in Padded => Len(Prepared(m)) % Block = 0
           /\ mode \in Padded /\ pad = "mode" =>
                /\ IsPadded(Prepared(m))
                /\ (CHOOSE x \in {Take(Prepared(m), k) : k \in 0 .. Len(Prepared(m))} :
                        WithPadding(x) = Prepared(m)) = m
<1>0. Len(m) \in Nat /\ pad \in {"mode", "none"}
  BY DEF CipherInv, TypeInvariant
<1>1. PICK q \in Nat : At(q) =< Len(m) /\ Len(m) < At(q) + Block
  BY RestOf
<1>2. At(q) \in Nat /\ q + 1 \in Nat /\ At(q + 1) = At(q) + Block /\ At(q + 1) \in Nat
  <2>1. q + 1 \in Nat
    BY <1>1
  <2>. QED
    BY <2>1, AtFacts
<1>3. ASSUME NEW x \in Seq(Byte), NEW k \in Nat, Len(x) = At(k)
      PROVE  Len(x) % Block = 0
  <2>1. At(k) \in Nat
    BY AtFacts
  <2>2. At(k) =< Len(x) /\ Len(x) < At(k) + Block
    BY <1>3, <2>1, BlockIs
  <2>. QED
    BY <1>3, <2>1, <2>2, RestIs
<1>4. CASE mode \notin Padded
  BY <1>4, Zenon DEF Prepared
<1>5. CASE mode \in Padded /\ pad = "none"
  <2>. DEFINE n == IF Len(m) = At(q) THEN 0 ELSE At(q + 1) - Len(m)
              z == Times(n, 0)
              x == m \o z
  <2>1. n \in Nat /\ Filled(m) = x /\ z \in Seq(Byte)
    BY <1>1, FilledIs
  <2>2. Len(z) = n
    <3>1. 0 \in Byte
      BY DEF Byte
    <3>. HIDE DEF n
    <3>. QED
      BY <2>1, <3>1, TimesIs
  <2>3. x \in Seq(Byte) /\ Len(x) = Len(m) + n
    BY <2>1, <2>2, ConcatIs
  <2>4. Len(x) = At(q) \/ Len(x) = At(q + 1)
    BY <1>0, <1>2, <2>3
  <2>. HIDE DEF x
  <2>5. Len(x) % Block = 0
    BY <1>2, <1>3, <2>3, <2>4
  <2>6. Prepared(m) = x
    BY <1>5, <2>1, Zenon DEF Prepared
  <2>. QED
    BY <1>5, <2>3, <2>5, <2>6
<1>6. CASE mode \in Padded /\ pad = "mode"
  <2>. DEFINE n == At(q + 1) - Len(m)
              z == Times(n, n)
              x == m \o z
  <2>1. Block \in Byte
    <3>1. mode \in Modes
      BY DEF CipherInv, TypeInvariant
    <3>. QED
      BY <1>6, <3>1, BlockCipherAssumption
  <2>2. n \in 1 .. Block /\ n \in Byte /\ WithPadding(m) = x /\ z \in Seq(Byte)
    BY <1>1, <2>1, WithPaddingIs
  <2>3. n \in Nat /\ Len(z) = n /\ \A i \in 1 .. n : z[i] = n
    <3>. HIDE DEF n
    <3>1. n \in Nat
      BY <2>2, BlockIs
    <3>. QED
      BY <2>2, <3>1, TimesIs
  <2>4. /\ x \in Seq(Byte) /\ Len(x) = Len(m) + n /\ Len(x) = At(q + 1)
        /\ \A i \in 1 .. Len(m) : x[i] = m[i]
        /\ \A i \in 1 .. n : x[Len(m) + i] = n
    <3>1. Len(m) + n = At(q + 1)
      BY <1>0, <1>2
    <3>. HIDE DEF n, z
    <3>2. /\ x \in Seq(Byte) /\ Len(x) = Len(m) + Len(z)
          /\ \A i \in 1 .. Len(m) : x[i] = m[i]
          /\ \A i \in 1 .. Len(z) : x[Len(m) + i] = z[i]
      BY <2>2, ConcatIs
    <3>. HIDE DEF x
    <3>. QED
      BY <2>3, <3>1, <3>2
  <2>. HIDE DEF n, z, x
  <2>5. Len(x) % Block = 0
    BY <1>2, <1>3, <2>4
  <2>6. EndsWith(x, n)
    <3>1. n =< Len(x)
      BY <1>0, <2>3, <2>4
    <3>2. ASSUME NEW i \in Len(x) - n + 1 .. Len(x)
          PROVE  x[i] = n
      <4>1. i - Len(m) \in 1 .. n /\ Len(m) + (i - Len(m)) = i
        BY <1>0, <2>3, <2>4
      <4>. QED
        BY <2>4, <4>1
    <3>. QED
      BY <3>1, <3>2 DEF EndsWith
  <2>7. (CHOOSE y \in {Take(x, k) : k \in 0 .. Len(x)} : WithPadding(y) = x) = Take(x, Len(x) - n)
    BY <1>2, <2>1, <2>2, <2>4, <2>6, UnpaddedIs
  <2>8. Take(x, Len(x) - n) = m
    <3>1. Len(x) - n = Len(m) /\ Len(m) \in 0 .. Len(x)
      BY <1>0, <2>3, <2>4
    <3>2. /\ Take(x, Len(m)) \in Seq(Byte) /\ Len(Take(x, Len(m))) = Len(m)
          /\ \A i \in 1 .. Len(m) : Take(x, Len(m))[i] = x[i]
      BY <2>4, <3>1, TakeIs
    <3>3. Take(x, Len(m)) = m
      BY <2>4, <3>2, SeqEqual
    <3>. QED
      BY <3>1, <3>3
  <2>9. Prepared(m) = x
    BY <1>6, <2>2, Zenon DEF Prepared
  <2>10. IsPadded(x)
    BY <2>2, <2>5, <2>6 DEF IsPadded
  <2>. QED
    BY <2>4, <2>5, <2>7, <2>8, <2>9, <2>10
<1>. QED
  BY <1>0, <1>4, <1>5, <1>6

LEMMA SentIsTaken ==
    ASSUME CipherInv, FinishIsWhole, OnlyChecksFail, phase = "done"
    PROVE  SentComesBack
<1>. DEFINE yes == TRUE
            no == FALSE
            iv == given.iv
<1>1. /\ mode \in Streams \cup Padded /\ decrypt \in BOOLEAN /\ iv \in Blocks
      /\ pad \in {"mode", "none"} /\ fed \in Seq(Byte)
  <2>1. mode \in Streams \cup Padded /\ decrypt \in BOOLEAN
    BY ModeTypes DEF CipherInv
  <2>. QED
    BY <2>1 DEF CipherInv, TypeInvariant
<1>2. ~(mode \in Padded /\ mode = "GCM")
  BY DEF Padded
<1>3. ASSUME ~decrypt
      PROVE  result /\ AllOutput = Encrypted(fed)
  <2>1. result
    BY <1>3, Zenon DEF OnlyChecksFail
  <2>2. decrypt = FALSE
    BY <1>1, <1>3
  <2>3. AllOutput = Wanted
    BY <2>1, Zenon DEF FinishIsWhole
  <2>4. CASE mode \notin Padded
    <3>1. Wanted = Standard(mode, decrypt, given.iv, fed)
      BY <2>4, Zenon DEF Wanted
    <3>2. Prepared(fed) = fed
      BY <2>4, Zenon DEF Prepared
    <3>. QED
      BY <2>1, <2>2, <2>3, <3>1, <3>2, Zenon DEF Encrypted
  <2>5. CASE mode \in Padded /\ pad = "none"
    <3>1. Wanted = Standard(mode, decrypt, given.iv, Filled(fed))
      BY <2>5, Zenon DEF Wanted
    <3>2. Prepared(fed) = Filled(fed)
      BY <2>5, Zenon DEF Prepared
    <3>. QED
      BY <2>1, <2>2, <2>3, <3>1, <3>2, Zenon DEF Encrypted
  <2>6. CASE mode \in Padded /\ pad # "none"
    <3>1. Wanted = Standard(mode, decrypt, given.iv, WithPadding(fed))
      BY <1>3, <2>6, Zenon DEF Wanted
    <3>2. Prepared(fed) = WithPadding(fed)
      BY <2>6, Zenon DEF Prepared
    <3>. QED
      BY <2>1, <2>2, <2>3, <3>1, <3>2, Zenon DEF Encrypted
  <2>. QED
    BY <2>1, <2>4, <2>5, <2>6
<1>4. ASSUME decrypt, NEW m \in Seq(Byte), fed = Encrypted(m),
             mode = "GCM" =>
                given.tag = Take(StandardTag(given.iv, given.aad, fed), given.tagLength),
             mode \in Padded /\ pad = "mode" => Len(drained) < Len(fed)
      PROVE  /\ result
             /\ AllOutput = IF mode \in Padded /\ pad = "none" THEN Filled(m) ELSE m
  <2>. DEFINE x == Prepared(m)
              c == Standard(mode, no, iv, x)
  <2>1. /\ x \in Seq(Byte)
        /\ mode \in Padded => Len(x) % Block = 0
        /\ mode \in Padded /\ pad = "mode" =>
             /\ IsPadded(x)
             /\ (CHOOSE y \in {Take(x, k) : k \in 0 .. Len(x)} : WithPadding(y) = x) = m
    BY <1>4, PreparedIs
  <2>2. fed = c
    BY <1>4 DEF Encrypted
  <2>3. Standard(mode, TRUE, given.iv, fed) = x
    <3>. HIDE DEF x
    <3>. QED
      BY <1>1, <2>1, <2>2, StandardUndone, Zenon
  <2>4. decrypt = TRUE
    BY <1>1, <1>4
  <2>5. Standard(mode, decrypt, given.iv, fed) = x
    BY <2>3, <2>4, Zenon
  <2>6. Len(fed) = Len(x)
    <3>. HIDE DEF no, x
    <3>. QED
      BY <1>1, <2>1, <2>2, StandardIs
  <2>. HIDE DEF x, c, no, iv
  <2>7. CASE mode \notin Padded
    <3>1. x = m
      BY <2>7, Zenon DEF x, Prepared
    <3>2. result
      <4>1. CASE mode = "GCM"
        BY <1>4, <4>1, Zenon DEF FinishIsWhole
      <4>2. CASE mode # "GCM"
        BY <2>7, <4>2, Zenon DEF OnlyChecksFail
      <4>. QED
        BY <4>1, <4>2
    <3>3. AllOutput = Wanted
      BY <3>2, Zenon DEF FinishIsWhole
    <3>4. Wanted = x
      BY <2>5, <2>7, Zenon DEF Wanted
    <3>. QED
      BY <2>7, <3>1, <3>2, <3>3, <3>4
  <2>8. CASE mode \in Padded /\ pad = "none"
    <3>1. x = Filled(m)
      BY <2>8, Zenon DEF x, Prepared
    <3>2. result
      <4>1. pad # "mode" /\ mode # "GCM"
        BY <1>2, <2>8
      <4>. QED
        BY <4>1, Zenon DEF OnlyChecksFail
    <3>3. AllOutput = Wanted
      BY <3>2, Zenon DEF FinishIsWhole
    <3>4. fed = Filled(fed)
      <4>1. PICK q \in Nat : At(q) =< Len(fed) /\ Len(fed) < At(q) + Block
        BY <1>1, RestOf
      <4>2. Len(fed) = At(q)
        <5>1. Len(fed) % Block = 0
          BY <2>1, <2>6, <2>8
        <5>2. Len(fed) % Block = Len(fed) - At(q) /\ At(q) \in Nat /\ Len(fed) \in Nat
          BY <1>1, <4>1, RestIs
        <5>. QED
          BY <5>1, <5>2
      <4>3. Filled(fed) = fed \o Times(0, 0) /\ Times(0, 0) \in Seq(Byte)
        BY <1>1, <4>1, <4>2, FilledIs
      <4>4. Times(0, 0) = <<>>
        BY DEF Times
      <4>. QED
        BY <1>1, <4>3, <4>4
    <3>5. Wanted = x
      BY <2>5, <2>8, <3>4, Zenon DEF Wanted
    <3>. QED
      BY <2>8, <3>1, <3>2, <3>3, <3>5
  <2>9. CASE mode \in Padded /\ pad = "mode"
    <3>1. result
      <4>1. Len(fed) % Block = 0 /\ IsPadded(x) /\ Len(drained) < Len(x)
        BY <1>4, <2>1, <2>6, <2>9
      <4>. QED
        BY <1>4, <2>3, <2>9, <4>1, Zenon DEF FinishIsWhole
    <3>2. AllOutput = Wanted
      BY <3>1, Zenon DEF FinishIsWhole
    <3>3. pad # "none"
      BY <2>9
    <3>4. Wanted = m
      <4>1. Wanted = (CHOOSE y \in {Take(x, k) : k \in 0 .. Len(x)} : WithPadding(y) = x)
        BY <1>4, <2>5, <2>9, <3>3, Zenon DEF Wanted
      <4>. QED
        BY <2>1, <2>9, <4>1
    <3>. QED
      BY <2>9, <3>1, <3>2, <3>3, <3>4
  <2>. QED
    BY <1>1, <2>7, <2>8, <2>9
<1>. QED
  BY <1>3, <1>4, Zenon DEF SentComesBack

(* Whatever the pieces that a message was given to a cipher in and the     *)
(* pieces that what came out was given to a decipher in, with the same     *)
(* mode, vector, padding and tag the decipher accepts it and puts out the  *)
(* message.                                                                *)
THEOREM WhatIsSentComesBack ==
    ASSUME TagsFit
    PROVE  Spec => []SentComesBack
<1>1. Init => OnlyChecksFail
  BY DEF Init, ObjectStart, OnlyChecksFail
<1>2. CipherInv /\ OnlyChecksFail /\ [Next]_vars => OnlyChecksFail'
  BY OnlyChecksFailFollows
<1>3. CipherInv /\ FinishIsWhole /\ OnlyChecksFail => SentComesBack
  <2>1. CASE phase = "done"
    BY <2>1, SentIsTaken
  <2>2. CASE phase # "done"
    BY <2>2, Zenon DEF SentComesBack
  <2>. QED
    BY <2>1, <2>2
<1>. QED
  BY <1>1, <1>2, <1>3, CipherInvariant, FinishesAreWhole, PTL DEF Spec

=============================================================================

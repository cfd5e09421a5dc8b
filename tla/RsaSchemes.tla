----------------------------- MODULE RsaSchemes -----------------------------
(***************************************************************************)
(* RSA on numbers, RSAES-OAEP of Pkcs1Codec, RSASSA-PSS of PssScheme, and  *)
(* the two masks.  Of the big integers only their results are modelled; a  *)
(* number of a key that is not there is 0.                                 *)
(*                                                                         *)
(* Digests are objects: schemes restart those that they were given, which  *)
(* the program and other schemes may be using too.  Object 0 is the SHA-1  *)
(* that a call makes for itself.                                           *)
(***************************************************************************)
EXTENDS RsaArithmetic, Pkcs1Blocks

(* Numbers                                                                 *)

(* Math.ceil(n.bitLength() / 8)                                            *)
OctetLength(n) == OctetsFor(BitLength(n))

(* BigInteger.modPow                                                       *)
ModPow(base, exponent, m) ==
    LET power[e \in 0 .. exponent] ==
            IF e = 0 THEN 1 % m
            ELSE LET half == power[e \div 2]
                     square == (half * half) % m
                 IN  IF e % 2 = 0 THEN square ELSE (square * (base % m)) % m
    IN  power[exponent]

HasPrimes(key) == key.p # 0 /\ key.q # 0

(* Mutant: qInv is made for the other prime. *)
CompletedSwapped(key) ==
    IF ~ HasPrimes(key) THEN key
    ELSE [key EXCEPT !.dP = IF @ = 0 THEN key.d % (key.p - 1) ELSE @,
                     !.dQ = IF @ = 0 THEN key.d % (key.q - 1) ELSE @,
                     !.qInv = IF @ = 0 THEN ModInverse(key.p, key.q) ELSE @]

(* What of the Chinese remainders is missing is added to the key.          *)
Completed(key) ==
    IF ~ HasPrimes(key) THEN key
    ELSE [key EXCEPT !.dP = IF @ = 0 THEN key.d % (key.p - 1) ELSE @,
                     !.dQ = IF @ = 0 THEN key.d % (key.q - 1) ELSE @,
                     !.qInv = IF @ = 0 THEN ModInverse(key.q, key.p) ELSE @]

(* The blinding is taken off before the result is.                         *)
IsBlinding(r, key) == 0 < r /\ r < key.n /\ Coprime(key.n, r)

(* p is added until the difference is not negative.                        *)
Lifted(a, b, p) == a + (p * IF a >= b THEN 0 ELSE ((b - a) + (p - 1)) \div p)

(* #modPow with the private key, of numbers that may be n or more.         *)
PrivatePow(base, key, r) ==
    IF ~ HasPrimes(key) THEN ModPow(base, key.d, key.n)
    ELSE
    LET k == Completed(key)
        blinded == ((base % k.n) * ModPow(r, k.e, k.n)) % k.n
        modP == ModPow(blinded, k.dP, k.p)
        modQ == ModPow(blinded, k.dQ, k.q)
        h == ((Lifted(modP, modQ, k.p) - modQ) * k.qInv) % k.p
    IN  (((h * k.q) + modQ) * ModInverse(r, k.n)) % k.n

PublicPow(base, key) == ModPow(base, key.e, key.n)

-----------------------------------------------------------------------------

CONSTANTS
    Hash(_, _),     \* the octets of the digest of octets
    DigestLength,   \* DigestLength[a]
    Algorithms,     \* Algorithms[d], of every object d
    Trailer         \* 0xbc

LengthOf(d) == DigestLength[Algorithms[d]]

(* A digest of what the object holds; reading it leaves the object as it is.*)
Digest(digests, d) == Hash(Algorithms[d], digests[d])

(* start and update.                                                       *)
Restarted(digests, d, octets) == [digests EXCEPT ![d] = octets]

(* Bit by bit, from the lowest.                                            *)
XorBits ==
    LET xor[bits \in Nat] ==
            [a \in Nat |-> [b \in Nat |->
                IF bits = 0 THEN 0 ELSE ((a + b) % 2) + (2 * xor[bits - 1][a \div 2][b \div 2])]]
    IN  xor
XorOctet(a, b) == XorBits[OctetBits][a][b]
Xor(a, b) == [i \in DOMAIN a |-> XorOctet(a[i], b[i])]

Counter(i) == AsOctets(i, 4)

Rounds(length, d) == (length + LengthOf(d) - 1) \div LengthOf(d)

(* rsaMgf1 and Mgf1.generate: the octets, and the objects afterwards.      *)
Mask(digests, d, seed, length) ==
    LET n == Rounds(length, d)
        octets[i \in Nat] ==
            IF i = 0 THEN <<>> ELSE octets[i - 1] \o Hash(Algorithms[d], seed \o Counter(i - 1))
    IN  [octets |-> SubSeq(octets[n], 1, length),
         digests |-> Restarted(digests, d, seed \o Counter(n - 1))]

-----------------------------------------------------------------------------
(* OAEP.  Options are md, mgf1 (0 if it is not given) and label.           *)

MaskObject(o) == IF o.mgf1 = 0 THEN o.md ELSE o.mgf1

(* Mutant: a digest that was given is not restarted. *)
LabelledOnTop(digests, o) == [digests EXCEPT ![o.md] = @ \o o.label]

Labelled(digests, o) == Restarted(digests, o.md, o.label)

encodeRsaOaep(digests, k, message, o, seed) ==
    LET h == LengthOf(o.md)
        maxLength == k - (2 * h) - 2
        labelled == Labelled(digests, o)
        dataBlock == Digest(labelled, o.md) \o Repeated(0, maxLength - Len(message)) \o <<1>> \o message
        dbMask == Mask(labelled, MaskObject(o), seed, k - h - 1)
        maskedDB == Xor(dataBlock, dbMask.octets)
        seedMask == Mask(dbMask.digests, MaskObject(o), maskedDB, h)
    IN  IF Len(message) > maxLength
        THEN [block |-> NoBlock, digests |-> Restarted(digests, o.md, <<>>)]
        ELSE IF Len(seed) # h THEN [block |-> NoBlock, digests |-> labelled]
        ELSE [block |-> << <<0>> \o Xor(seed, seedMask.octets) \o maskedDB >>,
              digests |-> seedMask.digests]

(* Mutant: octets in front of the 1 need not be zero. *)
UnpaddedLoosely(rest) ==
    LET odd == {i \in DOMAIN rest : rest[i] % 2 = 1}
    IN  IF odd # {} THEN <<SubSeq(rest, Min(odd) + 1, Len(rest))>> ELSE NoBlock

(* The octets after the label's hash: zeros, a 1 and the message.  The     *)
(* first odd octet ends the zeros.                                         *)
Unpadded(rest) ==
    LET odd == {i \in DOMAIN rest : rest[i] % 2 = 1}
    IN  IF odd # {} /\ \A i \in 1 .. Min(odd) : rest[i] =< 1
        THEN <<SubSeq(rest, Min(odd) + 1, Len(rest))>> ELSE NoBlock

decodeRsaOaep(digests, k, em, o) ==
    LET h == LengthOf(o.md)
        labelled == Labelled(digests, o)
        maskedDB == SubSeq(em, h + 2, Len(em))
        seedMask == Mask(labelled, MaskObject(o), maskedDB, h)
        seed == Xor(SubSeq(em, 2, h + 1), seedMask.octets)
        dbMask == Mask(seedMask.digests, MaskObject(o), seed, k - h - 1)
        decoded == Xor(maskedDB, dbMask.octets)
    IN  IF k < (2 * h) + 2
        THEN [message |-> NoBlock, digests |-> Restarted(digests, o.md, <<>>)]
        ELSE [message |-> IF em[1] = 0 /\ SubSeq(decoded, 1, h) = Digest(labelled, o.md)
                          THEN Unpadded(SubSeq(decoded, h + 1, Len(decoded))) ELSE NoBlock,
              digests |-> dbMask.digests]

-----------------------------------------------------------------------------
(* PSS.  Options are md, mgf (an object of its own, or the same) and       *)
(* saltLength; emBits bits go into emLen octets, of which the first has    *)
(* some to spare.                                                          *)

EmBits(modBits) == modBits - 1
EmLen(modBits) == OctetsFor(EmBits(modBits))
FirstSize(modBits) == OctetSize \div PowersOf(2)[(OctetBits * EmLen(modBits)) - EmBits(modBits)]

FitsPss(o, modBits) == EmLen(modBits) >= LengthOf(o.md) + o.saltLength + 2

Eight == Repeated(0, 8)
LowBits(block, modBits) == <<block[1] % FirstSize(modBits)>> \o Tail(block)

encodePss(digests, d, o, modBits, salt) ==
    LET h == LengthOf(o.md)
        emLen == EmLen(modBits)
        hashed == Restarted(digests, o.md, Eight \o Digest(digests, d) \o salt)
        hash == Digest(hashed, o.md)
        dbMask == Mask(hashed, o.mgf, hash, emLen - h - 1)
        dataBlock == Repeated(0, emLen - o.saltLength - h - 2) \o <<1>> \o salt
    IN  IF ~ FitsPss(o, modBits) THEN [block |-> NoBlock, digests |-> digests]
        ELSE [block |-> <<LowBits(Xor(dataBlock, dbMask.octets), modBits) \o hash \o <<Trailer>> >>,
              digests |-> dbMask.digests]

(* Of no salt at all substr(-0) makes the whole data block.                *)
SaltOf(dataBlock, o) ==
    IF o.saltLength = 0 THEN dataBlock
    ELSE SubSeq(dataBlock, Len(dataBlock) - o.saltLength + 1, Len(dataBlock))

(* The last octets of the block; the result of a refusal is an error.      *)
verifyPss(digests, mHash, block, o, modBits) ==
    LET h == LengthOf(o.md)
        em == SubSeq(block, Len(block) - EmLen(modBits) + 1, Len(block))
        maskLen == EmLen(modBits) - h - 1
        hash == SubSeq(em, maskLen + 1, maskLen + h)
        dbMask == Mask(digests, o.mgf, hash, maskLen)
        dataBlock == LowBits(Xor(SubSeq(em, 1, maskLen), dbMask.octets), modBits)
        checkLen == maskLen - o.saltLength - 1
        hashed == Restarted(dbMask.digests, o.md, Eight \o mHash \o SaltOf(dataBlock, o))
    IN  IF ~ FitsPss(o, modBits) \/ em[Len(em)] # Trailer \/ em[1] >= FirstSize(modBits)
        THEN [verdict |-> "error", digests |-> digests]
        ELSE IF dataBlock[checkLen + 1] # 1 \/ \E i \in 1 .. checkLen : dataBlock[i] # 0
        THEN [verdict |-> "error", digests |-> dbMask.digests]
        ELSE [verdict |-> IF hash = Digest(hashed, o.md) THEN "true" ELSE "false",
              digests |-> hashed]

-----------------------------------------------------------------------------
(* Reference: RFC 8017, B.2.1, 7.1.1 and 9.1.1.                            *)

StandardMask(a, seed, length) ==
    [i \in 1 .. length |->
        Hash(a, seed \o Counter((i - 1) \div DigestLength[a]))[((i - 1) % DigestLength[a]) + 1]]

IsOaepOf(em, message, k, o) ==
    LET a == Algorithms[o.md]
        g == Algorithms[MaskObject(o)]
        h == DigestLength[a]
        db == Hash(a, o.label) \o Repeated(0, k - Len(message) - (2 * h) - 2) \o <<1>> \o message
    IN  \E seed \in [1 .. h -> Octet] :
            LET masked == Xor(db, StandardMask(g, seed, k - h - 1))
            IN  em = <<0>> \o Xor(seed, StandardMask(g, masked, h)) \o masked

IsPssOf(em, mHash, modBits, o) ==
    LET a == Algorithms[o.md]
        h == DigestLength[a]
    IN  \E salt \in [1 .. o.saltLength -> Octet] :
            LET hash == Hash(a, Eight \o mHash \o salt)
                db == Repeated(0, EmLen(modBits) - o.saltLength - h - 2) \o <<1>> \o salt
                mask == StandardMask(Algorithms[o.mgf], hash, EmLen(modBits) - h - 1)
            IN  em = LowBits(Xor(db, mask), modBits) \o hash \o <<Trailer>>
=============================================================================

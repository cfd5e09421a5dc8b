---------------------------- MODULE RsaMessages ----------------------------
(***************************************************************************)
(* A message that is encrypted, or a digest that is signed, with one key   *)
(* and any scheme, and what the other side makes of what arrives: of what  *)
(* was sent or of any octets.                                              *)
(***************************************************************************)
EXTENDS RsaSchemes

CONSTANTS
    Keys,            \* private keys, some without Chinese remainders or primes
    Holdings,        \* functions, what each digest object holds beforehand
    Messages,        \* what is encrypted
    Encryptions,     \* [scheme |-> "RSAES-PKCS1-V1_5", "RAW"], or "RSA-OAEP" with options
    Signatures,      \* [scheme |-> "NONE"], or "PSS" with options
    Streams,         \* random octets of paddings, seeds and salts
    Blindings,       \* random numbers of blindings
    Arrivals(_),     \* the octets that may arrive for a modulus
    Hashes           \* digests that signatures of strangers are checked against

VARIABLES
    key,       \* the private key; its n and e are the public one
    digests,   \* what each digest object holds
    phase,     \* "start", "made" or "done"
    made,      \* what was called to make it: the scheme and the data
    octets,    \* <<the ciphertext or signature>>, or nothing after a refusal
    taken,     \* the scheme and the data of the call that took it
    got        \* its result: an error, a verdict, or a message

messageVars == <<key, digests, phase, made, octets, taken, got>>

(* A private key: its numbers, those that are not there 0.                 *)
IsPrivateKey(k) ==
    /\ k \in [n : Nat, e : Nat, d : Nat, p : Nat, q : Nat, dP : Nat, dQ : Nat, qInv : Nat]
    /\ OctetLength(k.n) >= 3
    /\ \E p \in 3 .. k.n : \E q \in {k.n \div p} :
        /\ k.n = p * q /\ p # q /\ q > 2 /\ IsPrime(p) /\ IsPrime(q)
        /\ (k.e * k.d) % (p - 1) = 1 /\ (k.e * k.d) % (q - 1) = 1
        /\ HasPrimes(k) => /\ k.p = p /\ k.q = q
                           /\ k.dP \in {0, k.d % (p - 1)} /\ k.dQ \in {0, k.d % (q - 1)}
                           /\ k.qInv \in {0, ModInverse(q, p)}

ASSUME KeysAssumption == \A k \in Keys : IsPrivateKey(k)

(* A PSS signature without salt is none of those: see SaltOf.              *)
ASSUME SchemesAssumption ==
    /\ OctetBits \in Nat /\ OctetBits >= 2 /\ MinPadding \in Nat /\ Trailer \in Octet
    /\ \A d \in DOMAIN Algorithms : LengthOf(d) \in Nat \ {0}
    /\ \A s \in Encryptions :
        \/ s \in [scheme : {"RSAES-PKCS1-V1_5", "RAW"}]
        \/ s \in [scheme : {"RSA-OAEP"}, md : DOMAIN Algorithms, mgf1 : DOMAIN Algorithms, label : Seq(Octet)]
    /\ \A s \in Signatures :
        \/ s \in [scheme : {"NONE"}]
        \/ s \in [scheme : {"PSS"}, md : DOMAIN Algorithms, mgf : DOMAIN Algorithms, saltLength : Nat \ {0}]

(* All data are octets, and random ones are drawn for as long as need be.  *)
ASSUME DataAssumption ==
    /\ Holdings \subseteq [DOMAIN Algorithms -> Seq(Octet)]
    /\ Messages \subseteq Seq(Octet) /\ Streams \subseteq Seq(Octet) /\ Hashes \subseteq Seq(Octet)
    /\ Blindings \subseteq Nat
    /\ \A k \in Keys : Arrivals(k.n) \subseteq Seq(Octet)
    /\ \A stream \in Streams :
        /\ \A k \in Keys : Len(DrawnNonZero(stream)) >= OctetLength(k.n) - 3
        /\ \A s \in Encryptions : s.scheme = "RSA-OAEP" => Len(stream) >= LengthOf(s.md)
        /\ \A s \in Signatures : s.scheme = "PSS" => Len(stream) >= s.saltLength

NotMade == [scheme |-> [scheme |-> "none"]]
Result(is) == [is |-> is, message |-> <<>>]
MessageOf(decoded) == IF decoded = NoBlock THEN Result("error") ELSE [is |-> "message", message |-> decoded[1]]
K == OctetLength(key.n)
Bits == BitLength(key.n)
First(stream, n) == SubSeq(stream, 1, n)

MessageInit ==
    /\ key \in Keys
    /\ digests \in Holdings
    /\ phase = "start" /\ made = NotMade /\ taken = NotMade
    /\ octets = NoBlock /\ got = Result("none")

(* service.encrypt of a block as it is, to as many octets as the key has.  *)
PublicOctets(block) == AsOctets(PublicPow(AsNumber(block), key), K)
PrivateOctets(block, r) == AsOctets(PrivatePow(AsNumber(block), key, r), K)

-----------------------------------------------------------------------------
(* publicKey.encrypt and privateKey.decrypt                                *)

(* The block of a scheme, and the objects after it.                        *)
EncodedFor(scheme, message, stream) ==
    CASE scheme.scheme = "RSAES-PKCS1-V1_5" ->
            [block |-> encodePkcs1v15(message, K, 2, stream), digests |-> digests]
      [] scheme.scheme = "RSA-OAEP" ->
            encodeRsaOaep(digests, K, message, scheme, First(stream, LengthOf(scheme.md)))
      [] scheme.scheme = "RAW" -> [block |-> <<message>>, digests |-> digests]

Encrypt(scheme, message, stream) ==
    LET encoded == EncodedFor(scheme, message, stream)
    IN  /\ phase = "start" /\ phase' = "made"
        /\ made' = [scheme |-> scheme, data |-> message]
        /\ octets' = IF encoded.block = NoBlock THEN NoBlock ELSE <<PublicOctets(encoded.block[1])>>
        /\ digests' = encoded.digests
        /\ UNCHANGED <<key, taken, got>>

DecodedFor(scheme, block) ==
    CASE scheme.scheme = "RSAES-PKCS1-V1_5" ->
            [message |-> decodePkcs1v15(block, K, FALSE), digests |-> digests]
      [] scheme.scheme = "RSA-OAEP" -> decodeRsaOaep(digests, K, block, scheme)
      [] scheme.scheme = "RAW" -> [message |-> <<block>>, digests |-> digests]

(* service.decrypt refuses another length and numbers from n on.           *)
IsTakeable(ciphertext) == Len(ciphertext) = K /\ AsNumber(ciphertext) < key.n

Decrypt(scheme, r) ==
    /\ phase = "made" /\ phase' = "done"
    /\ octets # NoBlock
    /\ taken' = [scheme |-> scheme]
    /\ IF IsTakeable(octets[1])
       THEN LET decoded == DecodedFor(scheme, PrivateOctets(octets[1], r))
            IN  /\ got' = MessageOf(decoded.message)
                /\ digests' = decoded.digests
                /\ key' = Completed(key)
       ELSE got' = Result("error") /\ UNCHANGED <<digests, key>>
    /\ UNCHANGED <<made, octets>>

-----------------------------------------------------------------------------
(* privateKey.sign and publicKey.verify.  The data of "NONE" is octets,    *)
(* that of a scheme is a digest object.                                    *)

(* Mutant: the scheme's own digest starts before the message's is read. *)
BlockToSignLate(scheme, d, stream) ==
    IF scheme.scheme = "NONE"
    THEN [block |-> encodePkcs1v15(Digest(digests, d), K, 1, stream), digests |-> digests]
    ELSE encodePss(Restarted(digests, scheme.md, <<>>), d, scheme, Bits, First(stream, scheme.saltLength))

BlockToSign(scheme, d, stream) ==
    IF scheme.scheme = "NONE"
    THEN [block |-> encodePkcs1v15(Digest(digests, d), K, 1, stream), digests |-> digests]
    ELSE encodePss(digests, d, scheme, Bits, First(stream, scheme.saltLength))

Sign(scheme, d, stream, r) ==
    LET encoded == BlockToSign(scheme, d, stream)
    IN  /\ phase = "start" /\ phase' = "made"
        /\ made' = [scheme |-> scheme, data |-> Digest(digests, d)]
        /\ octets' = IF encoded.block = NoBlock THEN NoBlock ELSE <<PrivateOctets(encoded.block[1], r)>>
        /\ digests' = encoded.digests
        /\ key' = IF encoded.block = NoBlock THEN key ELSE Completed(key)
        /\ UNCHANGED <<taken, got>>

Verified(scheme, hash, block) ==
    IF scheme.scheme = "NONE"
    THEN LET message == decodePkcs1v15(block, K, TRUE)
         IN  [verdict |-> IF message = NoBlock THEN "error"
                          ELSE IF message[1] = hash THEN "true" ELSE "false",
              digests |-> digests]
    ELSE verifyPss(digests, hash, block, scheme, Bits)

Verify(scheme, hash) ==
    LET verified == IF IsTakeable(octets[1]) THEN Verified(scheme, hash, PublicOctets(octets[1]))
                    ELSE [verdict |-> "error", digests |-> digests]
    IN  /\ phase = "made" /\ phase' = "done"
        /\ octets # NoBlock
        /\ taken' = [scheme |-> scheme, data |-> hash]
        /\ got' = Result(verified.verdict)
        /\ digests' = verified.digests
        /\ UNCHANGED <<key, made, octets>>

-----------------------------------------------------------------------------

(* What is drawn until it goes with the key.                               *)
Blinding == {r \in Blindings : IsBlinding(r, key)}

(* Octets that nobody made.                                                *)
Arrive(arrived) ==
    /\ phase' = "made"
    /\ octets' = <<arrived>>
    /\ UNCHANGED <<key, digests, made, taken, got>>

MessageNext ==
    \/ \E scheme \in Encryptions, message \in Messages, stream \in Streams :
            Encrypt(scheme, message, stream)
    \/ \E scheme \in Encryptions, r \in Blinding : Decrypt(scheme, r)
    \/ \E scheme \in Signatures, d \in DOMAIN Algorithms \ {0}, stream \in Streams, r \in Blinding :
            Sign(scheme, d, stream, r)
    \/ \E scheme \in Signatures, hash \in Hashes \cup (IF made = NotMade THEN {} ELSE {made.data}) :
            Verify(scheme, hash)
    \/ phase = "start" /\ \E arrived \in Arrivals(key.n) : Arrive(arrived)

MessageSpec == MessageInit /\ [][MessageNext]_messageVars

-----------------------------------------------------------------------------
(* Properties                                                              *)

(* The number of the octets under the private exponent, or the public one. *)
Opened(exponent) == AsOctets(ModPow(AsNumber(octets[1]), exponent, key.n), K)

Fits(scheme, length) ==
    CASE scheme.scheme = "RSAES-PKCS1-V1_5" -> length + 3 + MinPadding =< K
      [] scheme.scheme = "NONE" -> length + 3 + MinPadding =< K
      [] scheme.scheme = "RSA-OAEP" -> length + (2 * LengthOf(scheme.md)) + 2 =< K
      [] scheme.scheme = "PSS" -> FitsPss(scheme, Bits)
      [] scheme.scheme = "RAW" -> TRUE

(* A message that fits is encrypted, and decrypting with the same scheme   *)
(* gives it back, whatever the digest objects held and whichever numbers   *)
(* of the key were there; a raw message comes back with zeros in front,    *)
(* if its number is less than n.  A digest is signed and the signature is  *)
(* valid for what the object held at the call, though the scheme may use   *)
(* the same object.                                                        *)
WhatWasMadeIsAccepted ==
    /\ phase = "made" /\ made # NotMade =>
            (octets # NoBlock <=> Fits(made.scheme, Len(made.data)))
    /\ phase = "done" /\ made # NotMade /\ taken.scheme = made.scheme =>
            CASE made.scheme.scheme = "RAW" ->
                    AsNumber(made.data) < key.n => got = MessageOf(<<AsOctets(AsNumber(made.data), K)>>)
              [] made.scheme.scheme \in {"RSAES-PKCS1-V1_5", "RSA-OAEP"} -> got = MessageOf(<<made.data>>)
              [] made.scheme.scheme \in {"NONE", "PSS"} -> taken.data = made.data => got.is = "true"

(* What is decrypted is a message that the octets are an encryption of,    *)
(* and what is verified a signature of the digest: the block has the form  *)
(* of the scheme's standard, of which PSS sees the last octets.            *)
OnlyEncodedIsAccepted ==
    phase = "done" /\ got.is \in {"message", "true"} =>
        /\ AsNumber(octets[1]) < key.n
        /\ CASE taken.scheme.scheme = "RSAES-PKCS1-V1_5" -> IsBlockOf(Opened(key.d), 2, got.message, K)
             [] taken.scheme.scheme = "RSA-OAEP" -> IsOaepOf(Opened(key.d), got.message, K, taken.scheme)
             [] taken.scheme.scheme = "RAW" -> got.message = Opened(key.d)
             [] taken.scheme.scheme = "NONE" -> IsBlockOf(Opened(key.e), 1, taken.data, K)
             [] taken.scheme.scheme = "PSS" ->
                    LET block == Opened(key.e)
                    IN  IsPssOf(SubSeq(block, K - EmLen(Bits) + 1, K), taken.data, Bits, taken.scheme)
=============================================================================

----------------------------- MODULE HmacTerms -----------------------------
(***************************************************************************)
(* Digest objects, and hashes and pads of HMAC.  Hashes are free: each byte of a hash is a     *)
(* term that tells the algorithm, the message and the byte's place, and    *)
(* each byte of a pad one that tells the pad and the key's byte.           *)
(***************************************************************************)
EXTENDS Naturals, Sequences

CONSTANTS
    Objects,     \* the digest objects
    Algorithm,   \* Algorithm[o]: the algorithm of an object
    None,
    BlockLength, \* BlockLength[a]: 64 or 128
    DigestLength \* DigestLength[a]: 16 to 64

ASSUME HmacAssumption ==
    /\ BlockLength \in [DOMAIN BlockLength -> Nat]
    /\ DigestLength \in [DOMAIN BlockLength -> Nat]
    /\ \A a \in DOMAIN BlockLength : DigestLength[a] =< BlockLength[a]

VARIABLE digests \* digests[o]: the message a digest object got since its start

Hash(a, m) == [i \in 1 .. DigestLength[a] |-> <<"hash", a, m, i>>]

(* 0x36 or 0x5c, added to the key's bytes and alone after its end.         *)
Pad(pad, a, k) ==
    [i \in 1 .. BlockLength[a] |-> IF i =< Len(k) THEN <<pad, k[i]>> ELSE <<pad>>]

IPad(a, k) == Pad("0x36", a, k)
OPad(a, k) == Pad("0x5c", a, k)

(* Mutant: a long key is cut. *)
FittingCut(a, k) == IF Len(k) > BlockLength[a] THEN SubSeq(k, 1, BlockLength[a]) ELSE k

(* A key that is longer than a block is replaced by its hash.              *)
Fitting(a, k) == IF Len(k) > BlockLength[a] THEN Hash(a, k) ELSE k

(* RFC 2104, 2: H(K XOR opad, H(K XOR ipad, text)), K the key, or its hash *)
(* if it is longer than a block, with zeros up to a block.                 *)
StandardMac(a, k, m) ==
    LET fitting == IF Len(k) > BlockLength[a] THEN Hash(a, k) ELSE k
    IN  Hash(a, OPad(a, fitting) \o Hash(a, IPad(a, fitting) \o m))
=============================================================================

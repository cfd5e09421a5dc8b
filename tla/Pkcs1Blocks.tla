---------------------------- MODULE Pkcs1Blocks ----------------------------
(***************************************************************************)
(* Encryption blocks of PKCS#1 v1.5 as RsaService makes and reads them.    *)
(* Numbers are octets with the highest first.  What may fail gives a       *)
(* sequence of one element, or none.                                       *)
(***************************************************************************)
EXTENDS Integers, SequencesExt, Powers

CONSTANT OctetBits   \* 8

OctetSize == PowersOf(2)[OctetBits]
Octet == 0 .. OctetSize - 1

(* Math.ceil(bits / 8)                                                     *)
OctetsFor(bits) == ((bits + OctetBits) - 1) \div OctetBits

(* A block as a number, by way of hexadecimal digits; and a number as k    *)
(* octets, which has that many or fewer.                                   *)
AsNumber(octets) ==
    LET number[i \in 0 .. Len(octets)] ==
            IF i = 0 THEN 0 ELSE (number[i - 1] * OctetSize) + octets[i]
    IN  number[Len(octets)]
AsOctets(n, k) == [i \in 1 .. k |-> (n \div PowersOf(OctetSize)[k - i]) % OctetSize]

Repeated(octet, n) == [i \in 1 .. n |-> octet]

-----------------------------------------------------------------------------

CONSTANT MinPadding   \* 8

NoBlock == <<>>

(* Random octets, those that are zero drawn again.                         *)
DrawnNonZero(stream) ==
    LET drawn[i \in 0 .. Len(stream)] ==
            IF i = 0 THEN <<>>
            ELSE IF stream[i] = 0 THEN drawn[i - 1] ELSE Append(drawn[i - 1], stream[i])
    IN  drawn[Len(stream)]
NonZero(stream, n) == SubSeq(DrawnNonZero(stream), 1, n)

encodePkcs1v15(message, k, blockType, stream) ==
    LET padNum == k - 3 - Len(message)
        padding == IF blockType = 2 THEN NonZero(stream, padNum)
                   ELSE Repeated(OctetSize - 1, padNum)
    IN  IF padNum < MinPadding THEN NoBlock
        ELSE << <<0, blockType>> \o padding \o <<0>> \o message >>

(* The padding is as long as it goes; one octet at least is left.          *)
PaddingLength(em) ==
    LET isPad(octet) == IF em[2] = 1 THEN octet = OctetSize - 1 ELSE octet # 0
    IN  Max({n \in 0 .. Len(em) - 3 : \A i \in 3 .. n + 2 : isPad(em[i])})

(* Mutant: padding of any length is accepted. *)
LongEnoughAlways(padNum) == TRUE

LongEnough(padNum) == padNum >= MinPadding

(* Blocks of type 0 are refused when nobody says how long the message is.  *)
decodePkcs1v15(em, k, usePublicKey) ==
    LET padNum == PaddingLength(em)
        rest == SubSeq(em, padNum + 4, Len(em))
    IN  IF /\ em[1] = 0 /\ em[2] = (IF usePublicKey THEN 1 ELSE 2)
           /\ LongEnough(padNum)
           /\ em[padNum + 3] = 0 /\ padNum = k - 3 - Len(rest)
        THEN <<rest>> ELSE NoBlock

-----------------------------------------------------------------------------
(* Reference: RFC 8017, 7.2.1 and 9.2.                                     *)

IsBlockOf(em, blockType, message, k) ==
    LET padNum == k - 3 - Len(message)
    IN  /\ Len(em) = k /\ padNum >= MinPadding
        /\ em[1] = 0 /\ em[2] = blockType /\ em[padNum + 3] = 0
        /\ \A i \in 3 .. padNum + 2 :
              IF blockType = 1 THEN em[i] = OctetSize - 1 ELSE em[i] # 0
        /\ SubSeq(em, padNum + 4, k) = message
=============================================================================

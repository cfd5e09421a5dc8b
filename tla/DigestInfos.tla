---------------------------- MODULE DigestInfos ----------------------------
(***************************************************************************)
(* The DigestInfo of an RSASSA-PKCS1-v1_5 signature: what sign writes,     *)
(* what somebody else may have written, and what verify makes of it.  The  *)
(* key takes blocks as they are.                                           *)
(***************************************************************************)
EXTENDS Asn1

CONSTANTS
    Identifiers,   \* the numbers of every known algorithm's identifier
    DigestOids,    \* the algorithms that verify knows as digests
    K,             \* the octets of the key
    Expected,      \* the digest that verify is given
    Signed,        \* [algorithm, digest] that are signed
    Edits          \* octets that somebody else writes

VARIABLES
    written,   \* what was signed
    block,     \* the block of the signature, or nothing
    edited,    \* whether it was changed
    verdict    \* what verify says, "none" before

digestInfoVars == <<written, block, edited, verdict>>

LOCAL S == INSTANCE Scalars WITH
    OctetBits <- 4, MaxArc <- 16777215, MaxPrefix <- 16000000, LocalOffset <- 0
LOCAL B == INSTANCE Pkcs1Blocks WITH OctetBits <- 8, MinPadding <- 8

digestInfoValidator ==
    Composed(SEQUENCE, <<
        Composed(SEQUENCE, <<
            Capture("algorithmIdentifier", Simple(OID)),
            OptionalOne(Capture("parameters", Simple(NULL)))>>),
        Capture("digest", Simple(OCTETSTRING))>>)

OidOf(algorithm) == S!oidToDer(Identifiers[algorithm]).octets

encodeDigestInfo(oid, withNullParameters, digest) ==
    toDer(Constructed(SEQUENCE, <<
        Constructed(SEQUENCE, <<Primitive(OID, oid)>>
            \o IF withNullParameters THEN <<Primitive(NULL, <<>>)>> ELSE <<>>),
        Primitive(OCTETSTRING, digest)>>))

(* Any identifier of the registry is taken for a digest.                   *)
emsaPkcs1v15encode(md) ==
    IF md.algorithm \notin DOMAIN Identifiers THEN Nothing
    ELSE <<encodeDigestInfo(OidOf(md.algorithm), TRUE, md.digest)>>

DigestInfoInit ==
    /\ written \in Signed
    /\ block = LET info == emsaPkcs1v15encode(written)
               IN  IF info = Nothing THEN Nothing ELSE B!encodePkcs1v15(info[1], K, 1, <<>>)
    /\ edited = FALSE /\ verdict = "none"

-----------------------------------------------------------------------------
(* Somebody else's signature: an octet of the block replaced, or one of    *)
(* the DigestInfo replaced, left out or put in and padded again.           *)

Replaced(s, i, octet) == [s EXCEPT ![i] = octet]
Info == SubSeq(block[1], B!PaddingLength(block[1]) + 4, K)

Write(new) ==
    /\ block' = new /\ edited' = TRUE
    /\ UNCHANGED <<written, verdict>>

Padded(info) == B!encodePkcs1v15(info, K, 1, <<>>)

WriteOther ==
    /\ block # Nothing /\ ~ edited /\ verdict = "none"
    /\ \/ \E i \in 1 .. K, octet \in Edits : Write(<<Replaced(block[1], i, octet)>>)
       \/ \E i \in DOMAIN Info : Write(Padded(RemoveAt(Info, i)))
       \/ \E i \in 1 .. Len(Info) + 1, octet \in Edits : Write(Padded(InsertAt(Info, i, octet)))
       \/ \E null, own \in BOOLEAN, octets \in {<<>>, <<5, 0>>, <<5, 1, 0>>, <<4, 0>>, <<4, 2, 7, 9>>} :
               Write(Padded(LET alg == Primitive(OID, OidOf(written.algorithm))
                                inner == (IF own THEN octets ELSE <<>>)
                                algorithm == toDer(alg) \o (IF null THEN <<5, 0>> ELSE <<>>) \o inner
                                digest == toDer(Primitive(OCTETSTRING, written.digest))
                                contents == <<48, Len(algorithm)>> \o algorithm \o digest
                                               \o (IF own THEN <<>> ELSE octets)
                            IN  <<48, Len(contents)>> \o contents))

-----------------------------------------------------------------------------
(* Verification                                                            *)

(* The algorithm whose numbers the octets give, which may be in more than  *)
(* one form.                                                               *)
DigestOf(oid) ==
    LET arcs == S!derToOid(oid)
    IN  IF oid = <<>> \/ S!IsError(arcs) THEN {}
        ELSE {a \in DigestOids : Identifiers[a] = arcs.parts}

(* Mutant: the octets are not compared with those that sign would write. *)
IsCanonicalNot(info, algorithm, capture) == TRUE

IsCanonical(info, algorithm, capture) ==
    IsPrefix(encodeDigestInfo(OidOf(algorithm), "parameters" \in DOMAIN capture, capture.digest), info)

verifyDigestInfo(expected, info) ==
    LET o == fromDer(info, Options(TRUE, TRUE))
        got == validate(o.node, digestInfoValidator)
    IN  IF Failed(o) THEN "error"
        ELSE IF Failed(got) \/ ~ got.valid \/ Len(o.node.value) # 2 THEN "error"
        ELSE IF ~ \E a \in DigestOf(got.capture.algorithmIdentifier) :
                    /\ a \in {"md2", "md5"} => "parameters" \in DOMAIN got.capture
                    /\ IsCanonical(info, a, got.capture)
        THEN "error"
        ELSE IF got.capture.digest = expected THEN "valid" ELSE "invalid"

Verify ==
    /\ block # Nothing /\ verdict = "none"
    /\ verdict' = LET info == B!decodePkcs1v15(block[1], K, TRUE)
                  IN  IF info = Nothing THEN "error" ELSE verifyDigestInfo(Expected, info[1])
    /\ UNCHANGED <<written, block, edited>>

DigestInfoNext == WriteOther \/ Verify

-----------------------------------------------------------------------------
(* Reference: RFC 8017, 9.2, with the NULL that older signatures lack.     *)

StandardInfo(oid, null, digest) ==
    LET algorithm == <<6, Len(oid)>> \o oid \o (IF null THEN <<5, 0>> ELSE <<>>)
    IN  <<48, Len(algorithm) + Len(digest) + 4, 48, Len(algorithm)>> \o algorithm
            \o <<4, Len(digest)>> \o digest

IsSignatureOf(em, digest) ==
    \E a \in DigestOids, null \in BOOLEAN :
        /\ a \in {"md2", "md5"} => null
        /\ B!IsBlockOf(em, 1, StandardInfo(OidOf(a), null, digest), K)

(* A signature is valid for just those blocks that the standard makes of   *)
(* the digest: no other padding, no other form of a length or identifier,  *)
(* nothing behind and nothing in between.                                  *)
OnlyStandardInfoIsValid ==
    verdict # "none" => (verdict = "valid" <=> IsSignatureOf(block[1], Expected))
=============================================================================

---------------------------- MODULE Certificates ----------------------------
(***************************************************************************)
(* Certificates as objects, as ASN.1 and as PEM messages, their signatures *)
(* and RSA keys as ASN.1.                                                  *)
(*                                                                         *)
(* A digest object is a record of its algorithm and of the octets that it  *)
(* was fed, and what it returns stands for no other input.  A signature is *)
(* the place in `signed' of what was signed: its key, its scheme and its   *)
(* digest.                                                                 *)
(*                                                                         *)
(* A field that may be null or undefined is a sequence of at most one.  A  *)
(* serial number is its octets.  A name is its attributes, its unique id   *)
(* and its hash; a name hashed is its encoding hashed.                     *)
(***************************************************************************)
EXTENDS X509Extensions

-----------------------------------------------------------------------------
(* RSA keys                                                                *)

privateKeyValidator ==
    Composed(SEQUENCE, <<
        Capture("privateKeyVersion", Simple(INTEGER)),
        Composed(SEQUENCE, <<Capture("privateKeyOid", Simple(OID))>>),
        Capture("privateKey", Simple(OCTETSTRING))>>)

RsaFields == <<"n", "e", "d", "p", "q", "dP", "dQ", "qInv">>

(* The captures have the names of the key's fields.                        *)
rsaPrivateKeyValidator ==
    Composed(SEQUENCE, <<Capture("version", Simple(INTEGER))>>
        \o [i \in DOMAIN RsaFields |-> Capture(RsaFields[i], Simple(INTEGER))])

rsaPublicKeyValidator ==
    Composed(SEQUENCE, <<Capture("n", Simple(INTEGER)), Capture("e", Simple(INTEGER))>>)

(* The key is what the bit string holds, if that is a value.               *)
publicKeyValidator ==
    CaptureAsn1("subjectPublicKeyInfo",
        Composed(SEQUENCE, <<
            Composed(SEQUENCE, <<Capture("publicKeyOid", Simple(OID))>>),
            [tagClass |-> Universal, type |-> BITSTRING, constructed |-> FALSE,
             value |-> <<OptionalOne(CaptureAsn1("rsaPublicKey", AnyOf(SEQUENCE)))>>]>>))

(* The bit string is composed though it is not constructed.                *)
publicKeyToSubjectPublicKeyInfo(key) ==
    Constructed(SEQUENCE, <<
        AlgorithmNode("rsaEncryption"),
        create(Universal, BITSTRING, FALSE, TRUE, <<publicKeyToRSAPublicKey(key)>>)>>)

(* A SubjectPublicKeyInfo, or else an RSAPublicKey.  A bit string that did *)
(* not hold a value leaves no key to look at.                              *)
RsaPublicKey(got) ==
    IF Failed(got) \/ ~ got.valid THEN Refused("no RSAPublicKey")
    ELSE [n |-> BigEndian(got.capture.n), e |-> BigEndian(got.capture.e)]

InnerKey(o, outer) ==
    IF ~ outer.valid THEN o
    ELSE IF "rsaPublicKey" \in DOMAIN outer.capture THEN outer.capture.rsaPublicKey
    ELSE Null

KeyOfInfo(o, outer) ==
    IF Failed(outer) THEN outer
    ELSE IF outer.valid /\ derToOid(outer.capture.publicKeyOid) # "rsaEncryption" THEN Refused("oid")
    ELSE RsaPublicKey(validate(InnerKey(o, outer), rsaPublicKeyValidator))

publicKeyFromAsn1(o) == KeyOfInfo(o, validate(o, publicKeyValidator))

privateKeyToRSAPrivateKey(key) ==
    Constructed(SEQUENCE, <<Integer(0)>> \o [i \in DOMAIN RsaFields |-> Integer(key[RsaFields[i]])])

wrapRsaPrivateKey(rsaKey) ==
    Constructed(SEQUENCE, <<
        Integer(0), AlgorithmNode("rsaEncryption"), Primitive(OCTETSTRING, toDer(rsaKey))>>)

(* A PrivateKeyInfo, whose algorithm is not looked at, or the key itself.  *)
RsaPrivateKey(inner) ==
    LET got == validate(inner.node, rsaPrivateKeyValidator)
    IN  IF Failed(inner) THEN inner
        ELSE IF ~ got.valid THEN Refused("no RSAPrivateKey")
        ELSE [field \in Range(RsaFields) |-> BigEndian(got.capture[field])]

privateKeyFromAsn1(o) ==
    LET outer == validate(o, privateKeyValidator)
    IN  RsaPrivateKey(IF outer.valid THEN fromDer(outer.capture.privateKey, Decoding)
                      ELSE [node |-> o])

-----------------------------------------------------------------------------

Pss == "RSASSA-PSS"

(* What signing algorithms there are identifiers for.                      *)
WithRSAEncryption == ("md5" :> "md5WithRSAEncryption") @@ ("sha1" :> "sha1WithRSAEncryption")
    @@ ("sha256" :> "sha256WithRSAEncryption") @@ ("sha384" :> "sha384WithRSAEncryption")
    @@ ("sha512" :> "sha512WithRSAEncryption")

NewDigest(algorithm) == [algorithm |-> algorithm, fed |-> <<>>]
Fed(md, octets) == [md EXCEPT !.fed = @ \o octets]

(* The digest that an identifier calls for; any RSASSA-PSS gets one kind.  *)
createSignatureDigest(oid) ==
    IF oid = Pss THEN NewDigest("sha256")
    ELSE IF oid = "sha1WithRSASignature" THEN NewDigest("sha1")
    ELSE IF \E a \in DOMAIN WithRSAEncryption : WithRSAEncryption[a] = oid
    THEN NewDigest(CHOOSE a \in DOMAIN WithRSAEncryption : WithRSAEncryption[a] = oid)
    ELSE Refused("unknown signature OID")

-----------------------------------------------------------------------------
(* Parameters: those of hash, mgf, mgfHash and saltLength that are there.  *)

rsassaPssParameterValidator ==
    Composed(SEQUENCE, <<
        Explicit(0, <<OptionalOne(Composed(SEQUENCE, <<Capture("hashOid", Simple(OID))>>))>>),
        Explicit(1, <<OptionalOne(Composed(SEQUENCE, <<
            Capture("maskGenOid", Simple(OID)),
            Composed(SEQUENCE, <<Capture("maskGenHashOid", Simple(OID))>>)>>))>>),
        [tagClass |-> ContextSpecific, type |-> 2, optional |-> TRUE,
         value |-> <<Capture("saltLength", Simple(INTEGER))>>],
        [tagClass |-> ContextSpecific, type |-> 3, optional |-> TRUE,
         value |-> <<Capture("trailer", Simple(INTEGER))>>]>>)

Defaults == [hash |-> "sha1", mgf |-> "mgf1", mgfHash |-> "sha1", saltLength |-> 20]

(* Of the salt's length the first octet is read.                           *)
PssParameters(got) ==
    LET at(field, capture, value) == IF Has(got.capture, capture) THEN field :> value ELSE <<>>
    IN  IF ~ got.valid THEN Refused("parameters")
        ELSE at("hash", "hashOid", derToOid(got.capture.hashOid))
             @@ at("mgf", "maskGenOid", derToOid(got.capture.maskGenOid))
             @@ at("mgfHash", "maskGenOid", derToOid(got.capture.maskGenHashOid))
             @@ at("saltLength", "saltLength", got.capture.saltLength[1])

readSignatureParameters(oid, nodes, fillDefaults) ==
    IF oid # Pss THEN <<>>
    ELSE IF nodes = Nothing THEN Refused("no parameters")
    ELSE PssParameters(validate(nodes[1], rsassaPssParameterValidator))
            @@ (IF fillDefaults THEN Defaults ELSE <<>>)

signatureParametersToAsn1(oid, params) ==
    IF oid # Pss THEN Null
    ELSE Sequence(
        (IF Has(params, "hash") THEN <<Tagged(0, <<AlgorithmNode(params.hash)>>)>> ELSE <<>>)
        \o (IF Has(params, "mgf")
            THEN <<Tagged(1, <<Sequence(<<OidNode(params.mgf), AlgorithmNode(params.mgfHash)>>)>>)>>
            ELSE <<>>)
        \o (IF Has(params, "saltLength") THEN <<Tagged(2, <<Integer(params.saltLength)>>)>> ELSE <<>>))

SignatureAlgorithm(oid, params) == Sequence(<<OidNode(oid), signatureParametersToAsn1(oid, params)>>)

-----------------------------------------------------------------------------
(* Verification                                                            *)

Hashes == {"md5", "sha1", "sha256", "sha384", "sha512"}

(* A scheme is what the padding was made with, PKCS#1's if nothing says    *)
(* otherwise.                                                              *)
SchemeOf(subject) ==
    LET p == subject.signatureParameters
    IN  IF subject.signatureOid # Pss THEN [scheme |-> "pkcs1"]
        ELSE IF ~ ({"hash", "mgf", "mgfHash"} \subseteq DOMAIN p) THEN Refused("missing parameters")
        ELSE IF ~ ({p.hash, p.mgfHash} \subseteq Hashes) \/ p.mgf # "mgf1" THEN Refused("unsupported")
        ELSE p

(* A signature as its octets; the first of them starts no ASN.1 value.     *)
SignatureOctets(i) == <<255, i>>

(* key.verify: the signature has an entry that says just this.             *)
SignatureFits(signed, key, scheme, md, octets) ==
    \E i \in DOMAIN signed :
        octets = SignatureOctets(i) /\ signed[i] = [key |-> key, scheme |-> scheme, md |-> md]

verifySignature(signed, issuer, subject, md) ==
    LET scheme == SchemeOf(subject)
    IN  IF Failed(md) \/ Failed(scheme) \/ issuer.publicKey = Nothing THEN FALSE
        ELSE SignatureFits(signed, issuer.publicKey[1], scheme, md, subject.signature[1])

(* The digest kept with the object, or one made for its algorithm.         *)
FedIfKnown(new, toBeSigned) == IF Failed(new) THEN new ELSE Fed(new, toDer(toBeSigned))

DigestForVerify(subject, toBeSigned) ==
    IF subject.md # Nothing THEN subject.md[1]
    ELSE FedIfKnown(createSignatureDigest(subject.signatureOid), toBeSigned)

-----------------------------------------------------------------------------

Times == INSTANCE Scalars WITH OctetBits <- 8, MaxArc <- 0, MaxPrefix <- 0, LocalOffset <- 0

x509CertificateValidator ==
    Composed(SEQUENCE, <<
        CaptureAsn1("tbsCertificate", Composed(SEQUENCE, <<
            OptionalOne(Explicit(0, <<Capture("certVersion", Simple(INTEGER))>>)),
            Capture("certSerialNumber", Simple(INTEGER)),
            Algorithm("certinfoSignatureOid", "certinfoSignatureParams"),
            CaptureAsn1("certIssuer", AnyOf(SEQUENCE)),
            Composed(SEQUENCE, <<
                OptionalOne(Capture("certValidity1UTCTime", Simple(UTCTIME))),
                OptionalOne(Capture("certValidity2GeneralizedTime", Simple(GENERALIZEDTIME))),
                OptionalOne(Capture("certValidity3UTCTime", Simple(UTCTIME))),
                OptionalOne(Capture("certValidity4GeneralizedTime", Simple(GENERALIZEDTIME)))>>),
            CaptureAsn1("certSubject", AnyOf(SEQUENCE)),
            publicKeyValidator,
            OptionalOne(Explicit(1, <<CaptureBits("certIssuerUniqueId", Simple(BITSTRING))>>)),
            OptionalOne(Explicit(2, <<CaptureBits("certSubjectUniqueId", Simple(BITSTRING))>>)),
            OptionalOne(CaptureAsn1("certExtensions",
                [tagClass |-> ContextSpecific, type |-> 3, constructed |-> TRUE]))>>)),
        Algorithm("certSignatureOid", "certSignatureParams"),
        CaptureBits("certSignature", Simple(BITSTRING))>>)

NewName == [attributes |-> <<>>, uniqueId |-> Nothing, hash |-> Nothing]

createCertificate(now) ==
    [version |-> 2, serialNumber |-> <<0>>, signatureOid |-> "none", signatureParameters |-> <<>>,
     algorithmOid |-> "none", parameters |-> <<>>, signature |-> Nothing,
     notBefore |-> now, notAfter |-> now, issuer |-> NewName, subject |-> NewName,
     extensions |-> <<>>, publicKey |-> Nothing, md |-> Nothing, tbs |-> Nothing]

-----------------------------------------------------------------------------
(* Writing                                                                 *)

TimeNode(time) == Primitive(IF time.type = "UTCTIME" THEN UTCTIME ELSE GENERALIZEDTIME, time.text)

UniqueId(n, name) ==
    IF name.uniqueId = Nothing THEN <<>> ELSE <<Tagged(n, <<BitString(<<0>> \o name.uniqueId[1])>>)>>

(* Mutant: the unique ids are written the other way round. *)
getTBSCertificateIdsSwapped(c) ==
    Sequence(<<
            Tagged(0, <<Integer(c.version)>>),
            Primitive(INTEGER, c.serialNumber),
            SignatureAlgorithm(c.algorithmOid, c.parameters),
            dnToAsn1(c.issuer.attributes),
            Sequence(<<TimeNode(Times!dateToAsn1(c.notBefore)), TimeNode(Times!dateToAsn1(c.notAfter))>>),
            dnToAsn1(c.subject.attributes),
            publicKeyToSubjectPublicKeyInfo(c.publicKey[1])>>
        \o UniqueId(1, c.subject) \o UniqueId(2, c.issuer)
        \o (IF c.extensions = <<>> THEN <<>> ELSE <<certificateExtensionsToAsn1(c.extensions)>>))

getTBSCertificate(c) ==
    Sequence(<<
            Tagged(0, <<Integer(c.version)>>),
            Primitive(INTEGER, c.serialNumber),
            SignatureAlgorithm(c.algorithmOid, c.parameters),
            dnToAsn1(c.issuer.attributes),
            Sequence(<<TimeNode(Times!dateToAsn1(c.notBefore)), TimeNode(Times!dateToAsn1(c.notAfter))>>),
            dnToAsn1(c.subject.attributes),
            publicKeyToSubjectPublicKeyInfo(c.publicKey[1])>>
        \o UniqueId(1, c.issuer) \o UniqueId(2, c.subject)
        \o (IF c.extensions = <<>> THEN <<>> ELSE <<certificateExtensionsToAsn1(c.extensions)>>))

(* The body that was signed or read is preferred to the fields.            *)
Body(c) == IF c.tbs # Nothing THEN c.tbs[1] ELSE getTBSCertificate(c)

certificateToAsn1(c) ==
    Sequence(<<Body(c), SignatureAlgorithm(c.signatureOid, c.signatureParameters),
               BitString(<<0>> \o c.signature[1])>>)

certificateToPem(c) ==
    [type |-> "CERTIFICATE", encrypted |-> FALSE, body |-> toDer(certificateToAsn1(c))]

-----------------------------------------------------------------------------
(* Reading                                                                 *)

Optionally(capture, name) ==
    IF Has(capture, name) /\ capture[name] # <<>> THEN <<capture[name]>> ELSE Nothing

TimeFields ==
    <<[name |-> "certValidity1UTCTime", type |-> "UTCTIME"],
      [name |-> "certValidity2GeneralizedTime", type |-> "GENERALIZEDTIME"],
      [name |-> "certValidity3UTCTime", type |-> "UTCTIME"],
      [name |-> "certValidity4GeneralizedTime", type |-> "GENERALIZEDTIME"]>>

(* The times, in the order that they were found in.                        *)
Validity(capture) ==
    LET given == SelectSeq(TimeFields, LAMBDA field : Has(capture, field.name))
    IN  [i \in DOMAIN given |->
            Times!asn1ToDate([type |-> given[i].type, text |-> capture[given[i].name]])]

NameFrom(node, uniqueId) ==
    [attributes |-> RDNAttributesAsArray(node), uniqueId |-> uniqueId, hash |-> <<Sha1(toDer(node))>>]

Node(capture, name) == IF Has(capture, name) THEN <<capture[name]>> ELSE Nothing

(* Mutant: the digest made for verifying is not fed. *)
HashedNot(md, toBeSigned) == md

(* The digest made for verifying, of what was signed.                      *)
Hashed(md, toBeSigned) == Fed(md, toDer(toBeSigned))

(* The parts that may fail are read from the capture before.               *)
CertificateOfParts(k, computeHash, oid, infoOid, params, infoParams, validity, md, key) ==
    IF derToOid(k.publicKeyOid) # "rsaEncryption" THEN Refused("not RSA")
    ELSE IF Failed(params) THEN params
    ELSE IF Failed(infoParams) THEN infoParams
    ELSE IF oid # infoOid THEN Refused("algorithm mismatch")
    ELSE IF Len(validity) # 2 THEN Refused("validity")
    ELSE IF computeHash /\ Failed(md) THEN md
    ELSE IF Failed(key) THEN key
    ELSE [version |-> IF Has(k, "certVersion") THEN k.certVersion[1] ELSE 0,
          serialNumber |-> k.certSerialNumber,
          signatureOid |-> oid, signatureParameters |-> params,
          algorithmOid |-> infoOid, parameters |-> infoParams,
          signature |-> <<k.certSignature>>,
          notBefore |-> validity[1], notAfter |-> validity[2],
          issuer |-> NameFrom(k.certIssuer, Optionally(k, "certIssuerUniqueId")),
          subject |-> NameFrom(k.certSubject, Optionally(k, "certSubjectUniqueId")),
          extensions |-> IF Has(k, "certExtensions")
                         THEN certificateExtensionsFromAsn1(k.certExtensions) ELSE <<>>,
          publicKey |-> <<key>>,
          md |-> IF computeHash THEN <<Hashed(md, k.tbsCertificate)>> ELSE Nothing,
          tbs |-> <<k.tbsCertificate>>]

certificateFromCapture(k, computeHash) ==
    LET oid == derToOid(k.certSignatureOid)
        infoOid == derToOid(k.certinfoSignatureOid)
    IN  CertificateOfParts(k, computeHash, oid, infoOid,
            readSignatureParameters(oid, Node(k, "certSignatureParams"), TRUE),
            readSignatureParameters(infoOid, Node(k, "certinfoSignatureParams"), FALSE),
            Validity(k), createSignatureDigest(oid), publicKeyFromAsn1(k.subjectPublicKeyInfo))

ReadCertificate(got, computeHash) ==
    IF Failed(got) THEN got
    ELSE IF ~ got.valid THEN Refused("not a certificate")
    ELSE certificateFromCapture(got.capture, computeHash)

certificateFromAsn1(o, computeHash) == ReadCertificate(validate(o, x509CertificateValidator), computeHash)

(* The message of a PEM text, of one of the types for what is wanted.      *)
PemNode(message, types, strict) ==
    IF message.type \notin types THEN Refused("type")
    ELSE IF message.encrypted THEN Refused("encrypted")
    ELSE fromDer(message.body, Options(strict, TRUE))

certificateFromPem(message, computeHash, strict) ==
    LET o == PemNode(message, {"CERTIFICATE", "X509 CERTIFICATE", "TRUSTED CERTIFICATE"}, strict)
    IN  IF Failed(o) THEN o ELSE certificateFromAsn1(o.node, computeHash)

publicKeyFromPem(message) ==
    LET o == PemNode(message, {"PUBLIC KEY", "RSA PUBLIC KEY"}, TRUE)
    IN  IF Failed(o) THEN o ELSE publicKeyFromAsn1(o.node)

publicKeyToPem(key) ==
    [type |-> "PUBLIC KEY", encrypted |-> FALSE, body |-> toDer(publicKeyToSubjectPublicKeyInfo(key))]

publicKeyToRSAPublicKeyPem(key) ==
    [type |-> "RSA PUBLIC KEY", encrypted |-> FALSE, body |-> toDer(publicKeyToRSAPublicKey(key))]

privateKeyFromPem(message) ==
    LET o == PemNode(message, {"PRIVATE KEY", "RSA PRIVATE KEY"}, TRUE)
    IN  IF Failed(o) THEN o ELSE privateKeyFromAsn1(o.node)

-----------------------------------------------------------------------------
(* Questions                                                               *)

(* Hashes decide when both are there; else types and values do.            *)
isIssuer(child, parent) ==
    LET issuer == child.issuer
        subject == parent.subject
    IN  IF issuer.hash # Nothing /\ subject.hash # Nothing THEN issuer.hash = subject.hash
        ELSE /\ Len(issuer.attributes) = Len(subject.attributes)
             /\ \A i \in DOMAIN issuer.attributes :
                    /\ issuer.attributes[i].type = subject.attributes[i].type
                    /\ issuer.attributes[i].value = subject.attributes[i].value

(* Whether the parent issued the child and signed it; where the code       *)
(* throws the answer is no.                                                *)
verify(signed, parent, child) ==
    /\ isIssuer(child, parent)
    /\ verifySignature(signed, parent, child, DigestForVerify(child, Body(child)))

verifySubjectKeyIdentifier(c) ==
    LET i == SelectInSeq(c.extensions, LAMBDA e : e.id = "subjectKeyIdentifier")
    IN  i # 0 /\ c.extensions[i].subjectKeyIdentifier = generateSubjectKeyIdentifier(c.publicKey[1])

getExtension(c, field, value) ==
    LET i == SelectInSeq(c.extensions, LAMBDA e : Has(e, field) /\ e[field] = value)
    IN  IF i = 0 THEN Nothing ELSE <<c.extensions[i]>>
=============================================================================

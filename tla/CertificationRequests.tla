----------------------- MODULE CertificationRequests -----------------------
(***************************************************************************)
(* Certification requests, and a program that makes one, signs it, writes  *)
(* it and reads it again, and changes it at any time between.              *)
(***************************************************************************)
EXTENDS Certificates

certificationRequestInfoValidator ==
    CaptureAsn1("certificationRequestInfo", Composed(SEQUENCE, <<
        Simple(INTEGER),
        CaptureAsn1("certificationRequestInfoSubject", AnyOf(SEQUENCE)),
        publicKeyValidator,
        OptionalOne(Capture("certificationRequestInfoAttributes",
            Explicit(0, <<Composed(SEQUENCE, <<Simple(OID), AnyOf(SET)>>)>>)))>>))

certificationRequestValidator ==
    Composed(SEQUENCE, <<
        certificationRequestInfoValidator,
        Algorithm("csrSignatureOid", "csrSignatureParams"),
        CaptureBits("csrSignature", Simple(BITSTRING))>>)

createCertificationRequest ==
    [signatureOid |-> "none", signatureParameters |-> <<>>, signature |-> Nothing,
     subject |-> [attributes |-> <<>>, hash |-> Nothing], attributes |-> <<>>,
     publicKey |-> Nothing, md |-> Nothing, certificationRequestInfo |-> Nothing]

getCertificationRequestInfo(r) ==
    Sequence(<<Integer(0), dnToAsn1(r.subject.attributes),
               publicKeyToSubjectPublicKeyInfo(r.publicKey[1]), CRIAttributesToAsn1(r.attributes)>>)

(* Mutant: what was signed is made again from the fields. *)
RequestInfoOfFields(r) == getCertificationRequestInfo(r)

(* What was signed or read is preferred to the fields.                     *)
RequestInfo(r) ==
    IF r.certificationRequestInfo # Nothing THEN r.certificationRequestInfo[1]
    ELSE getCertificationRequestInfo(r)

certificationRequestToPem(r) ==
    [type |-> "CERTIFICATE REQUEST", encrypted |-> FALSE,
     body |-> toDer(Sequence(<<RequestInfo(r), SignatureAlgorithm(r.signatureOid, r.signatureParameters),
                               BitString(<<0>> \o r.signature[1])>>))]

(* The types and the values of a name in a row, hashed.                    *)
RDNHash(attrs) == Sha1(FlattenSeq([i \in DOMAIN attrs |-> OidOctets[attrs[i].type] \o attrs[i].value]))

RequestOfParts(k, computeHash, oid, params, md, key) ==
    LET attributes == Node(k, "certificationRequestInfoAttributes")
    IN  IF derToOid(k.publicKeyOid) # "rsaEncryption" THEN Refused("not RSA")
        ELSE IF Failed(params) THEN params
        ELSE IF computeHash /\ Failed(md) THEN md
        ELSE IF Failed(key) THEN key
        ELSE [signatureOid |-> oid, signatureParameters |-> params,
              signature |-> <<k.csrSignature>>,
              subject |-> [attributes |-> RDNAttributesAsArray(k.certificationRequestInfoSubject),
                           hash |-> <<RDNHash(RDNAttributesAsArray(k.certificationRequestInfoSubject))>>],
              attributes |-> IF attributes = Nothing THEN <<>>
                             ELSE CRIAttributesAsArray(attributes[1]),
              publicKey |-> <<key>>,
              md |-> IF computeHash THEN <<Hashed(md, k.certificationRequestInfo)>> ELSE Nothing,
              certificationRequestInfo |-> <<k.certificationRequestInfo>>]

certificationRequestFromCapture(k, computeHash) ==
    LET oid == derToOid(k.csrSignatureOid)
    IN  RequestOfParts(k, computeHash, oid,
            readSignatureParameters(oid, Node(k, "csrSignatureParams"), TRUE),
            createSignatureDigest(oid), publicKeyFromAsn1(k.subjectPublicKeyInfo))

ReadRequestCapture(got, computeHash) ==
    IF Failed(got) THEN got
    ELSE IF ~ got.valid THEN Refused("not a certification request")
    ELSE certificationRequestFromCapture(got.capture, computeHash)

certificationRequestFromPem(message, computeHash) ==
    LET o == PemNode(message, {"CERTIFICATE REQUEST"}, TRUE)
    IN  IF Failed(o) THEN o
        ELSE ReadRequestCapture(validate(o.node, certificationRequestValidator), computeHash)

(* A request is verified with its own key.                                 *)
verifyRequest(signed, r) ==
    /\ r.signature # Nothing
    /\ verifySignature(signed, r, r, DigestForVerify(r, RequestInfo(r)))

-----------------------------------------------------------------------------
(* A program with a request                                                *)

CONSTANTS
    RequestScripts,      \* what programs start with: [ops, then]
    RequestAnything,     \* the operations that may follow
    RequestAttributes    \* the lists of attributes that a program has

VARIABLES
    requestScript,   \* the operations that the program is to do first
    requestBudget,   \* how many may follow
    request,         \* the request, with lists' names for attributes
    attributeLists,  \* what each list holds, which the program may share
    requestSigned,   \* what has been signed with any key
    requestSent,     \* the message that was written last, if it is still to be read
    requestLast,     \* the request as the last signing that worked found it, and the key
    unfilled         \* whether an attribute could not be filled

requestVars == <<requestScript, requestBudget, request, attributeLists, requestSigned, requestSent,
                 requestLast, unfilled>>

RequestStart(s) ==
    /\ requestScript = s.ops /\ requestBudget = s.then
    /\ request = [createCertificationRequest EXCEPT !.subject.attributes = "own subject",
                                                    !.attributes = "own attributes"]
    /\ attributeLists = [id \in {"own subject", "own attributes"} |-> <<>>] @@ RequestAttributes
    /\ requestSigned = <<>>
    /\ requestSent = Nothing
    /\ requestLast = Nothing
    /\ unfilled = FALSE

RequestInit == \E s \in RequestScripts : RequestStart(s)

(* The request with its attributes in place.                               *)
InPlace(r) ==
    [r EXCEPT !.subject.attributes = attributeLists[@], !.attributes = attributeLists[@]]

(* setSubject and setAttributes fill the list in place, up to an attribute *)
(* that cannot be filled.                                                  *)
SetAttributes(op) ==
    /\ op.name \in {"setSubject", "setAttributes"}
    /\ \E got \in {fillMissingFields(attributeLists[op.list])} :
        /\ attributeLists' = [attributeLists EXCEPT ![op.list] = got.attrs]
        /\ request' = IF ~ got.ok THEN request
                      ELSE IF op.name = "setSubject"
                      THEN [request EXCEPT !.subject = [attributes |-> op.list, hash |-> Nothing]]
                      ELSE [request EXCEPT !.attributes = op.list]
        /\ unfilled' = (unfilled \/ ~ got.ok)
    /\ UNCHANGED <<requestSigned, requestSent, requestLast>>

AddAttribute(op) ==
    LET list == IF op.name = "addAttribute" THEN request.attributes ELSE request.subject.attributes
    IN  /\ op.name \in {"addAttribute", "addSubjectField"}
        /\ \E got \in {fillMissingFields(<<op.attr>>)} :
            attributeLists' = IF got.ok THEN [attributeLists EXCEPT ![list] = @ \o got.attrs]
                              ELSE attributeLists
        /\ UNCHANGED <<request, requestSigned, requestSent, requestLast, unfilled>>

AssignRequestKey(op) ==
    /\ op.name = "assignKey"
    /\ request' = [request EXCEPT !.publicKey = <<op.key>>]
    /\ UNCHANGED <<attributeLists, requestSigned, requestSent, requestLast, unfilled>>

(* A program signs with a new digest each time.  An algorithm without an   *)
(* identifier ends it when the digest is set.                              *)
SignRequest(op) ==
    LET md == NewDigest(op.digest)
        known == op.digest \in DOMAIN WithRSAEncryption
        named == [request EXCEPT !.signatureOid = WithRSAEncryption[op.digest]]
        info == getCertificationRequestInfo(InPlace(named))
        entry == [key |-> op.key, scheme |-> [scheme |-> "pkcs1"], md |-> Hashed(md, info)]
    IN  /\ op.name = "signRequest"
        /\ request.publicKey # Nothing
        /\ request' = IF ~ known THEN [request EXCEPT !.md = <<md>>]
                      ELSE [named EXCEPT !.certificationRequestInfo = <<info>>, !.md = <<entry.md>>,
                                         !.signature = <<SignatureOctets(Len(requestSigned) + 1)>>]
        /\ requestSigned' = IF known THEN Append(requestSigned, entry) ELSE requestSigned
        /\ requestLast' = IF known THEN <<[request |-> InPlace(request), key |-> op.key]>> ELSE Nothing
        /\ UNCHANGED <<attributeLists, requestSent, unfilled>>

WriteRequest(op) ==
    /\ op.name = "writeRequest"
    /\ request.signature # Nothing
    /\ requestSent' = <<certificationRequestToPem(InPlace(request))>>
    /\ UNCHANGED <<request, attributeLists, requestSigned, requestLast, unfilled>>

ReadRequest(op) ==
    /\ op.name = "readRequest"
    /\ requestSent # Nothing
    /\ \E got \in {certificationRequestFromPem(requestSent[1], op.computeHash)} :
        /\ ~ Failed(got)
        /\ request' = [got EXCEPT !.subject.attributes = "own subject", !.attributes = "own attributes"]
        /\ attributeLists' = [attributeLists EXCEPT !["own subject"] = got.subject.attributes,
                                                   !["own attributes"] = got.attributes]
    /\ requestSent' = Nothing
    /\ UNCHANGED <<requestSigned, requestLast, unfilled>>

RequestNext ==
    \E op \in IF requestScript # <<>> THEN {requestScript[1]}
              ELSE IF requestBudget > 0 THEN RequestAnything ELSE {} :
        /\ requestScript' = IF requestScript = <<>> THEN <<>> ELSE Tail(requestScript)
        /\ requestBudget' = IF requestScript = <<>> THEN requestBudget - 1 ELSE requestBudget
        /\ op.name = "readRequest" \/ requestSent = Nothing
        /\ \/ SetAttributes(op)
           \/ AddAttribute(op)
           \/ AssignRequestKey(op)
           \/ SignRequest(op)
           \/ WriteRequest(op)
           \/ ReadRequest(op)

-----------------------------------------------------------------------------
(* Properties                                                              *)

(* An attribute as others see it.                                          *)
AttributeSays(attr) ==
    LET tag == Tag(attr, UTF8)
    IN  [type |-> attr.type, tag |-> tag,
         value |-> IF attr.type = ExtensionRequest
                   THEN [i \in DOMAIN attr.extensions |->
                            <<attr.extensions[i].id, Range(attr.extensions[i].flags), attr.extensions[i].value>>]
                   ELSE Encoded(attr, tag)]

AttributeRead(attr) ==
    [type |-> attr.type, tag |-> attr.valueTagClass,
     value |-> IF attr.type = ExtensionRequest THEN AttributeSays(attr).value ELSE attr.value]

(* A request that was signed verifies when it was written and read, if it  *)
(* asks for a certificate for the key that signed it, and says what it did *)
(* when it was signed, whatever was changed since: its subject, key and    *)
(* attributes, with every extension asked for, also of one without any     *)
(* attribute.  An attribute that could not be filled is another matter.    *)
RequestReadAsSigned ==
    requestSent # Nothing /\ requestLast # Nothing =>
        \A got \in {certificationRequestFromPem(requestSent[1], TRUE)} :
        LET at == requestLast[1].request
            says(attrs) == [i \in DOMAIN attrs |-> AttributeSays(attrs[i])]
            reads(attrs) == [i \in DOMAIN attrs |-> AttributeRead(attrs[i])]
        IN  /\ ~ Failed(got)
            /\ verifyRequest(requestSigned, got) <=> at.publicKey = <<requestLast[1].key>>
            /\ ~ unfilled =>
                /\ got.publicKey = at.publicKey
                /\ [i \in DOMAIN got.subject.attributes |-> got.subject.attributes[i].value]
                    = [i \in DOMAIN at.subject.attributes |->
                        Encoded(at.subject.attributes[i], Tag(at.subject.attributes[i], PRINTABLESTRING))]
                /\ reads(got.attributes) = says(at.attributes)
=============================================================================

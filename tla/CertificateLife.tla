-------------------------- MODULE CertificateLife --------------------------
(***************************************************************************)
(* A program that makes a certificate, signs it, writes it as PEM and      *)
(* reads it again, and changes it at any time between.  It first does what *)
(* a script says and then whatever it likes.                               *)
(*                                                                         *)
(* The certificate's names hold arrays of the program, which may share     *)
(* one, and its digest may be one that the program uses again.             *)
(***************************************************************************)
EXTENDS Certificates

CONSTANTS
    Scripts,          \* what programs start with: [ops, then]
    Anything,         \* the operations that may follow
    Arrays,           \* the arrays of attributes that a program makes
    Offers,           \* the extensions that a program makes
    DigestObjects,    \* the algorithms of the program's digest objects, from 1 on
    Now,              \* the date that a new certificate gets
    CaAttributes,     \* the subject of the issuer's certificate
    CaKey             \* and its key

VARIABLES
    script,      \* the operations that the program is to do first
    budget,      \* how many may follow
    cert,        \* the certificate, with arrays' names for attributes
    lists,       \* what each array holds
    offered,     \* the program's extension objects
    digests,     \* the digest objects; 0 is one of the library's
    signed,      \* what has been signed with any key
    sent,        \* the message that was written last, if it is still to be read
    last,        \* the last signing or failure of one
    reused,      \* whether a digest object with input was signed with
    spoiled,     \* whether an extension could not be filled
    added        \* whether an attribute was added to a name

certificateVars ==
    <<script, budget, cert, lists, offered, digests, signed, sent, last, reused, spoiled, added>>

OwnSubject == "own subject"
OwnIssuer == "own issuer"

NeverSigned == [kind |-> "none"]

(* The program knows the issuer by its certificate as it was read.         *)
Ca == LET draft == [createCertificate(Now) EXCEPT
                        !.subject.attributes = fillMissingFields(CaAttributes).attrs,
                        !.publicKey = <<CaKey>>, !.signature = <<SignatureOctets(0)>>,
                        !.signatureOid = "sha1WithRSAEncryption",
                        !.algorithmOid = "sha1WithRSAEncryption"]
      IN  certificateFromPem(certificateToPem(draft), FALSE, TRUE)

CertificateStart(s) ==
    /\ script = s.ops /\ budget = s.then
    /\ cert = [createCertificate(Now) EXCEPT !.subject.attributes = OwnSubject,
                                             !.issuer.attributes = OwnIssuer]
    /\ lists = [id \in {OwnSubject, OwnIssuer} |-> <<>>] @@ ("ca" :> Ca.subject.attributes) @@ Arrays
    /\ offered = Offers
    /\ digests = [i \in 0 .. Len(DigestObjects) |-> NewDigest(IF i = 0 THEN "sha1" ELSE DigestObjects[i])]
    /\ signed = <<>>
    /\ sent = Nothing
    /\ last = NeverSigned
    /\ reused = FALSE /\ spoiled = FALSE /\ added = FALSE

CertificateInit == \E s \in Scripts : CertificateStart(s)

(* The certificate with its names' attributes and its digest in place.     *)
Resolved(c) ==
    [c EXCEPT !.subject.attributes = lists[@], !.issuer.attributes = lists[@],
              !.md = IF @ = Nothing THEN @ ELSE <<digests[@[1]]>>]

(* Mutant: a name that is set keeps the hash of the one before. *)
NameSetKeepsHash(name, list, uniqueId) ==
    [attributes |-> list, uniqueId |-> uniqueId, hash |-> name.hash]

NameSet(name, list, uniqueId) == [attributes |-> list, uniqueId |-> uniqueId, hash |-> Nothing]

(* The array's attributes that are filled stay so if one cannot be.        *)
SetName(op) ==
    /\ op.name = "setName"
    /\ \E got \in {fillMissingFields(lists[op.list])} :
        /\ lists' = [lists EXCEPT ![op.list] = got.attrs]
        /\ cert' = IF ~ got.ok THEN cert
                   ELSE IF op.side = "subject" THEN [cert EXCEPT !.subject = NameSet(@, op.list, op.uniqueId)]
                   ELSE [cert EXCEPT !.issuer = NameSet(@, op.list, op.uniqueId)]
    /\ UNCHANGED <<offered, digests, signed, sent, last, reused, spoiled, added>>

(* The array that the name has grows, whoever else has it; the hash stays. *)
AddField(op) ==
    LET list == IF op.side = "subject" THEN cert.subject.attributes ELSE cert.issuer.attributes
    IN  /\ op.name = "addField"
        /\ \E got \in {fillMissingFields(<<op.attr>>)} :
            /\ lists' = IF got.ok THEN [lists EXCEPT ![list] = Append(@, got.attrs[1])] ELSE lists
            /\ added' = (added \/ got.ok)
        /\ UNCHANGED <<cert, offered, digests, signed, sent, last, reused, spoiled>>

(* Public fields, which the program assigns.                               *)
Assign(op) ==
    /\ op.name = "assign"
    /\ cert' = [cert EXCEPT !.publicKey = <<op.key>>, !.serialNumber = op.serialNumber,
                            !.notBefore = op.notBefore, !.notAfter = op.notAfter]
    /\ UNCHANGED <<lists, offered, digests, signed, sent, last, reused, spoiled, added>>

(* The objects up to the first that cannot be filled are, and that one     *)
(* may be in part.                                                         *)
SetExtensions(op) ==
    /\ op.name = "setExtensions"
    /\ \E got \in {[i \in DOMAIN op.ids |->
                    fillMissingExtensionFields(offered[op.ids[i]], <<Resolved(cert)>>)]} :
        LET bad == SelectInSeq(got, LAMBDA g : ~ g.ok)
        IN  /\ offered' = [id \in DOMAIN offered |->
                        LET i == SelectInSeq(op.ids, LAMBDA j : j = id)
                        IN  IF i # 0 /\ (bad = 0 \/ i =< bad) THEN got[i].ext ELSE offered[id]]
            /\ cert' = IF bad # 0 THEN cert
                       ELSE [cert EXCEPT !.extensions = [i \in DOMAIN got |-> got[i].ext]]
            /\ spoiled' = (spoiled \/ bad # 0)
    /\ UNCHANGED <<lists, digests, signed, sent, last, reused, added>>

Entry(op, md) == [key |-> op.key, scheme |-> [scheme |-> "pkcs1"], md |-> md]

Recorded(entry) == IF Contains(signed, entry) THEN signed ELSE Append(signed, entry)

(* Mutant: the body that was signed before is kept. *)
SignedCertificateOldBody(c, oid, digest) ==
    LET named == [c EXCEPT !.signatureOid = oid, !.algorithmOid = oid, !.md = <<digest>>]
    IN  IF c.tbs # Nothing THEN named
        ELSE [named EXCEPT !.tbs = <<getTBSCertificate(Resolved(named))>>]

(* The certificate with its algorithm, its digest and its body for it.     *)
SignedCertificate(c, oid, digest) ==
    LET named == [c EXCEPT !.signatureOid = oid, !.algorithmOid = oid, !.md = <<digest>>]
    IN  [named EXCEPT !.tbs = <<getTBSCertificate(Resolved(named))>>]

SignedWith(op, next, md) ==
    LET entries == Recorded(Entry(op, md))
        index == CHOOSE i \in DOMAIN entries : entries[i] = Entry(op, md)
    IN  /\ digests' = [digests EXCEPT ![op.digest] = md]
        /\ cert' = IF op.throws THEN next ELSE [next EXCEPT !.signature = <<SignatureOctets(index)>>]
        /\ signed' = IF op.throws THEN signed ELSE entries

(* sign: an algorithm with no identifier ends it when only the digest is   *)
(* set, and a key that cannot sign when only the signature is not.         *)
Sign(op) ==
    LET d == op.digest
        before == IF d = 0 THEN NewDigest("sha1") ELSE digests[d]
        known == before.algorithm \in DOMAIN WithRSAEncryption
        works == known /\ ~ op.throws
    IN  /\ op.name = "sign"
        /\ cert.publicKey # Nothing
        /\ IF ~ known
           THEN /\ cert' = [cert EXCEPT !.md = <<d>>]
                /\ digests' = [digests EXCEPT ![d] = before]
                /\ signed' = signed
           ELSE \E next \in {SignedCertificate(cert, WithRSAEncryption[before.algorithm], d)} :
                    SignedWith(op, next, Fed(before, toDer(next.tbs[1])))
        /\ last' = IF works
                   THEN [kind |-> "signed", key |-> op.key, cert |-> Resolved(cert)]
                   ELSE [kind |-> "failed"]
        /\ reused' = (reused \/ before.fed # <<>>)
        /\ UNCHANGED <<lists, offered, sent, spoiled, added>>

Write(op) ==
    /\ op.name = "write"
    /\ cert.signature # Nothing
    /\ sent' = <<certificateToPem(Resolved(cert))>>
    /\ UNCHANGED <<cert, lists, offered, digests, signed, last, reused, spoiled, added>>

(* The certificate that is read takes the place of the one that was made.  *)
Replaced(op, got) ==
    /\ ~ Failed(got)
    /\ cert' = [got EXCEPT !.subject.attributes = OwnSubject, !.issuer.attributes = OwnIssuer,
                           !.md = IF op.computeHash THEN <<0>> ELSE Nothing]
    /\ lists' = [lists EXCEPT ![OwnSubject] = got.subject.attributes,
                              ![OwnIssuer] = got.issuer.attributes]
    /\ digests' = IF op.computeHash THEN [digests EXCEPT ![0] = got.md[1]] ELSE digests
    /\ sent' = Nothing
    /\ added' = FALSE
    /\ UNCHANGED <<offered, signed, last, reused, spoiled>>

Read1(op) ==
    /\ op.name = "read"
    /\ sent # Nothing
    /\ Replaced(op, certificateFromPem(sent[1], op.computeHash, TRUE))

Next1 == IF script # <<>> THEN {script[1]} ELSE IF budget > 0 THEN Anything ELSE {}

CertificateNext ==
    \E op \in Next1 :
        /\ script' = IF script = <<>> THEN <<>> ELSE Tail(script)
        /\ budget' = IF script = <<>> THEN budget - 1 ELSE budget
        /\ op.name \in {"write", "read"} \/ sent = Nothing
        /\ \/ SetName(op)
           \/ AddField(op)
           \/ Assign(op)
           \/ SetExtensions(op)
           \/ Sign(op)
           \/ Write(op)
           \/ Read1(op)

-----------------------------------------------------------------------------
(* Properties                                                              *)

Got == certificateFromPem(sent[1], FALSE, TRUE)

(* The signer, under the name that the certificate gives its issuer.       *)
Signer(key, c) ==
    [subject |-> [c.issuer EXCEPT !.hash = Nothing], publicKey |-> <<key>>]

Verifies(key, c) == verify(signed, Signer(key, c), c)

(* A certificate that was signed verifies when it was written and read,    *)
(* under the key that signed it and no other, whatever was changed since.  *)
SignedVerifies ==
    sent # Nothing /\ last.kind = "signed" /\ ~ reused =>
        \A key \in {CaKey, cert.publicKey[1]}, got \in {Got} :
            ~ Failed(got) /\ (Verifies(key, got) <=> key = last.key)

(* What verifies in memory verifies when it was written and read, and      *)
(* after a signing that worked the other way round too: a signing that     *)
(* failed half way is never taken for one that worked.                     *)
MemoryIsWritten ==
    sent # Nothing /\ ~ reused =>
        \A key \in {CaKey, cert.publicKey[1]}, got \in {Got} :
            \A memory \in {Verifies(key, Resolved(cert))},
               written \in {~ Failed(got) /\ Verifies(key, got)} :
                /\ memory => written
                /\ last.kind # "failed" /\ written => memory

(* An attribute as others see it.                                          *)
Seen(attrs) ==
    [i \in DOMAIN attrs |->
        LET tag == Tag(attrs[i], PRINTABLESTRING)
        IN  <<attrs[i].type, tag, Encoded(attrs[i], tag)>>]
SeenRead(attrs) == [i \in DOMAIN attrs |-> <<attrs[i].type, attrs[i].valueTagClass, attrs[i].value>>]

Field(record, name) == IF Has(record, name) THEN <<record[name]>> ELSE Nothing

Says(ext) ==
    [id |-> ext.id, flags |-> Range(ext.flags),
     pathLength |-> Field(ext, "pathLenConstraint"),
     subjectKeyIdentifier |-> Field(ext, "subjectKeyIdentifier"),
     altNames |-> IF ~ Has(ext, "altNames") \/ ext.id = "cRLDistributionPoints" THEN <<>>
                  ELSE [i \in DOMAIN ext.altNames |-> <<ext.altNames[i].type, AltNameOctets(ext.altNames[i])>>]]

SameAs(got, at) ==
    /\ <<got.version, got.serialNumber, got.notBefore, got.notAfter, got.publicKey>>
            = <<at.version, at.serialNumber, at.notBefore, at.notAfter, at.publicKey>>
    /\ SeenRead(got.subject.attributes) = Seen(at.subject.attributes)
    /\ SeenRead(got.issuer.attributes) = Seen(at.issuer.attributes)
    /\ got.subject.uniqueId = at.subject.uniqueId /\ got.issuer.uniqueId = at.issuer.uniqueId
    /\ [i \in DOMAIN got.extensions |-> Says(got.extensions[i])]
            = [i \in DOMAIN at.extensions |-> Says(at.extensions[i])]

(* What others read is what the certificate was when it was signed: its    *)
(* names with their unique ids, its times, its key and what its extensions *)
(* say, unless an extension had failed to be filled before.                *)
ReadAsSigned ==
    sent # Nothing /\ last.kind = "signed" /\ ~ spoiled =>
        \A got \in {Got} : ~ Failed(got) /\ SameAs(got, last.cert)

Ascii(attrs) == \A i \in DOMAIN attrs : Range(attrs[i].value) \subseteq 0 .. 127

(* A certificate whose issuer was set to the subject of the issuer's       *)
(* certificate is issued by it, for those who read both, if the names are  *)
(* ASCII.                                                                  *)
IssuedByCa ==
    sent # Nothing /\ last.kind = "signed" =>
        \A ca \in {Ca}, got \in {Got} :
            last.cert.issuer.attributes = ca.subject.attributes /\ Ascii(ca.subject.attributes) =>
                isIssuer(got, ca) /\ (~ reused => (verify(signed, ca, got) <=> last.key = CaKey))

(* The hash that a name keeps is that of its attributes, if these are      *)
(* ASCII and none was added.                                               *)
NameHashesFit ==
    ~ added => \A name \in {Resolved(cert).subject, Resolved(cert).issuer} :
        name.hash # Nothing /\ Ascii(name.attributes) =>
            name.hash[1] = Sha1(toDer(dnToAsn1(name.attributes)))
=============================================================================
